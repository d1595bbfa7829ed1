----------------------------- MODULE StashRefs -----------------------------
(***************************************************************************)
(* The stash list on disk: src/src/stash.rs, .mog/refs/stash.              *)
(*                                                                         *)
(* Stash n is the file named n, holding a commit hash; 0 is the newest.    *)
(* A save renames every file one up and then writes file 0; pop and drop   *)
(* remove a file and rename the later ones one down.  The list of names is *)
(* read once, before the first rename.  A step is one rename, write or     *)
(* removal, so that a crash may fall between any two of them.  Workspace   *)
(* has the same list as a sequence, and what the stashes hold.             *)
(***************************************************************************)
EXTENDS Naturals, Functions

CONSTANT MaxSaves  \* bound on the stashes ever saved

ASSUME MaxSavesAssumption == MaxSaves \in Nat

VARIABLES
    refs,    \* number of the file -> stash, a number that grows with every save
    saves,   \* the saves begun so far
    run,     \* the command in progress and the files it has yet to rename
    crashed  \* history: some command died half way

vars == <<refs, saves, run, crashed>>

Idle == [at |-> "idle", todo |-> {}]

TypeOK ==
    /\ refs \in [DOMAIN refs -> 1 .. saves]
    /\ DOMAIN refs \subseteq Nat
    /\ saves \in Nat
    /\ run \in [at : {"idle", "up", "down"}, todo : SUBSET DOMAIN refs]
    /\ crashed \in BOOLEAN

----------------------------------------------------------------------------
\* fs::rename, which replaces a file that has the new name.
Rename(f, from, to) ==
    [n \in (DOMAIN f \ {from}) \cup {to} |-> IF n = to THEN f[from] ELSE f[n]]

\* stash(), before its first rename: the names are read.  Bound: MaxSaves.
SaveBegin ==
    /\ run.at = "idle"
    /\ saves < MaxSaves
    /\ saves' = saves + 1
    /\ run' = [at |-> "up", todo |-> DOMAIN refs]
    /\ UNCHANGED <<refs, crashed>>

\* Mutant: the lowest name first.
ShiftUpAscending == \E n \in run.todo :
    /\ run.at = "up"
    /\ \A m \in run.todo : n <= m
    /\ refs' = Rename(refs, n, n + 1)
    /\ run' = [run EXCEPT !.todo = @ \ {n}]
    /\ UNCHANGED <<saves, crashed>>

\* shift_stash_refs_up: highest first.
ShiftUp == \E n \in run.todo :
    /\ run.at = "up"
    /\ \A m \in run.todo : m <= n
    /\ refs' = Rename(refs, n, n + 1)
    /\ run' = [run EXCEPT !.todo = @ \ {n}]
    /\ UNCHANGED <<saves, crashed>>

\* Mutant: the new stash is put at the other end.
PutLast ==
    /\ run.at = "up"
    /\ run.todo = {}
    /\ \E last \in 0 .. MaxSaves + 1 :
          /\ \A n \in DOMAIN refs : n < last
          /\ refs' = [n \in DOMAIN refs \cup {last} |-> IF n = last THEN saves ELSE refs[n]]
    /\ run' = Idle
    /\ UNCHANGED <<saves, crashed>>

\* stash(): file 0 is written.
Put ==
    /\ run.at = "up"
    /\ run.todo = {}
    /\ refs' = [n \in DOMAIN refs \cup {0} |-> IF n = 0 THEN saves ELSE refs[n]]
    /\ run' = Idle
    /\ UNCHANGED <<saves, crashed>>

\* Mutant: only the file after the removed one is renamed.
RemoveNext(n) ==
    /\ run.at = "idle"
    /\ refs' = Restrict(refs, DOMAIN refs \ {n})
    /\ run' = [at |-> "down", todo |-> {m \in DOMAIN refs : m = n + 1}]
    /\ UNCHANGED <<saves, crashed>>

\* Mutant: the removed file is listed too.
RemoveListed(n) ==
    /\ run.at = "idle"
    /\ refs' = Restrict(refs, DOMAIN refs \ {n})
    /\ run' = [at |-> "down", todo |-> {m \in DOMAIN refs : m >= n}]
    /\ UNCHANGED <<saves, crashed>>

\* stash_drop, and stash_pop with n = 0: the file is removed and the names after
\* it are read.
Remove(n) ==
    /\ run.at = "idle"
    /\ refs' = Restrict(refs, DOMAIN refs \ {n})
    /\ run' = [at |-> "down", todo |-> {m \in DOMAIN refs : m > n}]
    /\ UNCHANGED <<saves, crashed>>

\* shift_stash_refs_down_from: lowest first.
ShiftDown == \E n \in run.todo :
    /\ run.at = "down"
    /\ \A m \in run.todo : n <= m
    /\ refs' = Rename(refs, n, n - 1)
    /\ run' = [run EXCEPT !.todo = @ \ {n}]
    /\ UNCHANGED <<saves, crashed>>

RemoveEnd ==
    /\ run.at = "down"
    /\ run.todo = {}
    /\ run' = Idle
    /\ UNCHANGED <<refs, saves, crashed>>

\* stash_pop without a file 0 refuses.
PopRefused ==
    /\ run.at = "idle"
    /\ 0 \notin DOMAIN refs
    /\ UNCHANGED vars

\* The process dies before its next rename or write.
Crash ==
    /\ run.at # "idle"
    /\ run' = Idle
    /\ crashed' = TRUE
    /\ UNCHANGED <<refs, saves>>

----------------------------------------------------------------------------
Init ==
    /\ refs = [n \in {} |-> 0]
    /\ saves = 0
    /\ run = Idle
    /\ crashed = FALSE

Next ==
    \/ SaveBegin \/ ShiftUp \/ Put
    \/ (\E n \in DOMAIN refs : Remove(n)) \/ ShiftDown \/ RemoveEnd
    \/ PopRefused \/ Crash

Spec == Init /\ [][Next]_vars

----------------------------------------------------------------------------
\* Properties.

\* A lower number is a newer stash, also between two renames and after a crash: what
\* pop takes is never older than what it leaves.
NewestFirst ==
    \A m, n \in DOMAIN refs : m < n => refs[m] > refs[n]

\* The stashes a step takes from the list, by number.
Lost == {n \in DOMAIN refs : \A m \in DOMAIN refs' : refs'[m] # refs[n]}

\* No rename falls on a name in use ("Rename highest first to avoid clobbering",
\* stash.rs): a command loses no stash but the one that pop or drop removes, and
\* neither does the command that follows a crash, over the gaps the crash left.
StashesKept ==
    [][Lost = {} \/ (run.at = "idle" /\ \E n \in DOMAIN refs : Lost = {n})]_vars

\* When no command has died half way the numbers have no gap, so that stash 0, which
\* pop and checkpoint ask for, exists whenever there is a stash.
NoGaps ==
    run.at = "idle" /\ ~crashed =>
        \A n \in DOMAIN refs : n > 0 => n - 1 \in DOMAIN refs
============================================================================
