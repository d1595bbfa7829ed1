------------------------------ MODULE PathMap ------------------------------
(***************************************************************************)
(* What the commands take the index for: a map from tracked paths to what  *)
(* was staged.  Workspace uses it as one.                                  *)
(***************************************************************************)
CONSTANTS Paths, Data

VARIABLE map

Put(p, d) == map' = [q \in DOMAIN map \cup {p} |-> IF q = p THEN d ELSE map[q]]
Delete(p) == map' = [q \in DOMAIN map \ {p} |-> map[q]]
Empty     == map' = [q \in {} |-> 0]

Init == map = [q \in {} |-> 0]
Next == \/ \E p \in Paths, d \in Data : Put(p, d)
        \/ \E p \in Paths : Delete(p)
        \/ Empty
Spec == Init /\ [][Next]_map
============================================================================
