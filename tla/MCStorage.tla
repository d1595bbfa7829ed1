----------------------------- MODULE MCStorage -----------------------------
(* Instances of Storage for TLC.  Two objects share the home bucket 0 and   *)
(* the third lives at the end of the table, so probes collide and wrap.     *)
EXTENDS Storage, TLC

CONSTANTS a, b, c   \* the objects

MCHome    == (a :> 0) @@ (b :> 0) @@ (c :> 1)
MCBatches == {<<b, c>>}
MCBatchesTwo == {<<b>>}
MCHomeTwo == (a :> 0) @@ (b :> 0)
=============================================================================
