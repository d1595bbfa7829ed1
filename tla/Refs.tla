-------------------------------- MODULE Refs --------------------------------
(***************************************************************************)
(* Branches, HEAD and the commit graph: src/src/branch.rs, commit.rs, the  *)
(* refs of repository.rs and the HEAD writes of checkout.rs.               *)
(*                                                                         *)
(* A branch is a file of .mog/refs/heads holding a commit hash; .mog/HEAD  *)
(* holds a branch or, detached, a commit.  Commands take no lock.  A step  *)
(* is one write of a file, or the reads before the first one, so that a    *)
(* crash may fall between any two writes of a command and the writes of    *)
(* two processes may interleave.  A write is taken to be atomic.           *)
(***************************************************************************)
EXTENDS FiniteSets, Functions

CONSTANTS
    Branches,  \* valid branch names
    Commits,   \* commit hashes
    Main,      \* the branch a new repository is on
    Procs,     \* mog processes that run at the same time
    Faults,    \* TRUE: a process may crash, or fail to flush, between two writes
    Reinit     \* TRUE: mog init may be run again

ASSUME NamesAssumption == Main \in Branches /\ Branches \cap Commits = {}
ASSUME ModeAssumption  == Faults \in BOOLEAN /\ Reinit \in BOOLEAN

VARIABLES
    parents,  \* the parents of every commit made, stored or not
    stored,   \* the commits a new process can read
    heads,    \* branch files
    head,     \* what HEAD holds
    run,      \* the command each process is in, and what it has read
    disturbed \* history: a command died half way, or mog init was run again

vars == <<parents, stored, heads, head, run, disturbed>>

Idle == [at |-> "idle"]

\* A command before its next write.
Steps ==
    {Idle}
    \cup [at : {"commit"}, parents : SUBSET Commits, to : Branches \cup Commits]
    \cup [at : {"flush"}, commit : Commits]
    \cup [at : {"create"}, name : Branches, commit : Commits]
    \cup [at : {"delete", "force"}, name : Branches]
    \cup [at : {"rename_new"}, old : Branches, new : Branches, commit : Commits]
    \cup [at : {"rename_old", "rename_head"}, old : Branches, new : Branches]
    \cup [at : {"checkout"}, to : Branches \cup Commits]

TypeOK ==
    /\ parents \in [DOMAIN parents -> SUBSET DOMAIN parents]
    /\ DOMAIN parents \subseteq Commits
    /\ stored \subseteq DOMAIN parents
    /\ heads \in [DOMAIN heads -> DOMAIN parents]
    /\ DOMAIN heads \subseteq Branches
    /\ head \in Branches \cup DOMAIN parents
    /\ run \in [Procs -> Steps]
    /\ disturbed \in BOOLEAN

----------------------------------------------------------------------------
\* f with x mapped to y.
Set(f, x, y) == [z \in DOMAIN f \cup {x} |-> IF z = x THEN y ELSE f[z]]
Drop(f, x)   == Restrict(f, DOMAIN f \ {x})

\* Walking from a commit finds what every set holding it and closed under the
\* parents of readable commits contains: an unreadable commit ends the walk.
Closed(S, readable) == \A c \in S \cap readable : parents[c] \subseteq S

Reachable(start, readable) ==
    {c \in Commits : \A S \in SUBSET Commits :
                        start \in S /\ Closed(S, readable) => c \in S}

\* read_head_commit().ok(), as the parents of the next commit.
HeadCommit == IF head \in DOMAIN heads THEN {heads[head]}
              ELSE {head} \cap Commits

At(p, step) == run[p].at = step
Goes(p, s)  == run' = [run EXCEPT ![p] = s]

----------------------------------------------------------------------------
\* Bound: commits that may still be made, one for each process that is making one.
Room == Cardinality({q \in Procs : At(q, "commit")}) < Cardinality(Commits \ DOMAIN parents)

\* mog commit: the parent is read, then the ref is written, then the store is
\* flushed.  A commit equal to one already made has its hash.
CommitBegin(p) ==
    /\ At(p, "idle")
    /\ Room
    /\ Goes(p, [at |-> "commit", parents |-> HeadCommit, to |-> head])
    /\ UNCHANGED <<parents, stored, heads, head, disturbed>>

\* Mutant: the commit object is not written.
CommitRefUnwritten(p) == \E c \in Commits \ DOMAIN parents :
    /\ At(p, "commit")
    /\ parents' = parents
    /\ IF run[p].to \in Branches
       THEN heads' = Set(heads, run[p].to, c) /\ head' = head
       ELSE heads' = heads /\ head' = c
    /\ Goes(p, [at |-> "flush", commit |-> c])
    /\ UNCHANGED <<stored, disturbed>>

CommitRef(p) == \E c \in Commits :
    /\ At(p, "commit")
    /\ c \in DOMAIN parents => parents[c] = run[p].parents
    /\ parents' = Set(parents, c, run[p].parents)
    /\ IF run[p].to \in Branches
       THEN heads' = Set(heads, run[p].to, c) /\ head' = head
       ELSE heads' = heads /\ head' = c
    /\ Goes(p, [at |-> "flush", commit |-> c])
    /\ UNCHANGED <<stored, disturbed>>

\* Mutant: the commit is flushed without being added to what can be read.
CommitFlushLost(p) ==
    /\ At(p, "flush")
    /\ stored' = stored
    /\ Goes(p, Idle)
    /\ UNCHANGED <<parents, heads, head, disturbed>>

CommitFlush(p) ==
    /\ At(p, "flush")
    /\ stored' = stored \cup {run[p].commit}
    /\ Goes(p, Idle)
    /\ UNCHANGED <<parents, heads, head, disturbed>>

----------------------------------------------------------------------------
\* mog branch <name> [--at <target>]: target a branch, a hash or HEAD, which must
\* be a commit that can be read.
CreateBegin(p) == \E name \in Branches \ DOMAIN heads, c \in stored :
    /\ At(p, "idle")
    /\ Goes(p, [at |-> "create", name |-> name, commit |-> c])
    /\ UNCHANGED <<parents, stored, heads, head, disturbed>>

CreateRef(p) ==
    /\ At(p, "create")
    /\ heads' = Set(heads, run[p].name, run[p].commit)
    /\ Goes(p, Idle)
    /\ UNCHANGED <<parents, stored, head, disturbed>>

\* What is reachable from the branches other than name.
OtherReachable(name) ==
    UNION {Reachable(heads[b], stored) : b \in DOMAIN heads \ {name}}

\* Mutant: the branch's own commits count as merged.
MergedAlways(name) == TRUE

\* The check of the safe delete.
Merged(name) == heads[name] \in OtherReachable(name)

\* mog branch -d: refused on the current branch and on unmerged commits.
DeleteBegin(p) == \E name \in DOMAIN heads \ {head} :
    /\ At(p, "idle")
    /\ Merged(name)
    /\ Goes(p, [at |-> "delete", name |-> name])
    /\ UNCHANGED <<parents, stored, heads, head, disturbed>>

\* Mutant: the current branch may be deleted.
ForceBeginAny(p) == \E name \in DOMAIN heads :
    /\ At(p, "idle")
    /\ Goes(p, [at |-> "force", name |-> name])
    /\ UNCHANGED <<parents, stored, heads, head, disturbed>>

\* mog branch -D: refused on the current branch.
ForceBegin(p) == \E name \in DOMAIN heads \ {head} :
    /\ At(p, "idle")
    /\ Goes(p, [at |-> "force", name |-> name])
    /\ UNCHANGED <<parents, stored, heads, head, disturbed>>

\* remove_file, which fails when another process removed the branch first.
DeleteRef(p) ==
    /\ At(p, "delete") \/ At(p, "force")
    /\ heads' = Drop(heads, run[p].name)
    /\ Goes(p, Idle)
    /\ UNCHANGED <<parents, stored, head, disturbed>>

\* mog branch -m: the new file is written, the old one removed, then HEAD follows
\* if it was on the old name.
RenameBegin(p) == \E old \in DOMAIN heads, new \in Branches \ DOMAIN heads :
    /\ At(p, "idle")
    /\ Goes(p, [at |-> "rename_new", old |-> old, new |-> new, commit |-> heads[old]])
    /\ UNCHANGED <<parents, stored, heads, head, disturbed>>

RenameNew(p) ==
    /\ At(p, "rename_new")
    /\ heads' = Set(heads, run[p].new, run[p].commit)
    /\ Goes(p, [at |-> "rename_old", old |-> run[p].old, new |-> run[p].new])
    /\ UNCHANGED <<parents, stored, head, disturbed>>

RenameOld(p) ==
    /\ At(p, "rename_old")
    /\ heads' = Drop(heads, run[p].old)
    /\ Goes(p, IF run[p].old \notin DOMAIN heads \/ head # run[p].old THEN Idle
               ELSE [at |-> "rename_head", old |-> run[p].old, new |-> run[p].new])
    /\ UNCHANGED <<parents, stored, head, disturbed>>

RenameHead(p) ==
    /\ At(p, "rename_head")
    /\ head' = run[p].new
    /\ Goes(p, Idle)
    /\ UNCHANGED <<parents, stored, heads, disturbed>>

----------------------------------------------------------------------------
\* mog checkout <branch or hash>: the commit must be readable; HEAD is written
\* before the files for a branch and after them for a hash.
CheckoutBegin(p) ==
    /\ At(p, "idle")
    /\ \E to \in {b \in DOMAIN heads : heads[b] \in stored} \cup stored :
          Goes(p, [at |-> "checkout", to |-> to])
    /\ UNCHANGED <<parents, stored, heads, head, disturbed>>

CheckoutHead(p) ==
    /\ At(p, "checkout")
    /\ head' = run[p].to
    /\ Goes(p, Idle)
    /\ UNCHANGED <<parents, stored, heads, disturbed>>

\* mog init in an existing repository.
InitAgain(p) ==
    /\ Reinit
    /\ At(p, "idle")
    /\ head' = Main
    /\ disturbed' = TRUE
    /\ UNCHANGED <<parents, stored, heads, run>>

\* The process dies before its next write, or its flush fails.
Crash(p) ==
    /\ Faults
    /\ ~At(p, "idle")
    /\ Goes(p, Idle)
    /\ disturbed' = TRUE
    /\ UNCHANGED <<parents, stored, heads, head>>

----------------------------------------------------------------------------
Init ==
    /\ parents = [c \in {} |-> {}]
    /\ stored = {}
    /\ heads = [b \in {} |-> {}]
    /\ head = Main
    /\ run = [p \in Procs |-> Idle]
    /\ disturbed = FALSE

Next == \E p \in Procs :
    \/ CommitBegin(p) \/ CommitRef(p) \/ CommitFlush(p)
    \/ CreateBegin(p) \/ CreateRef(p)
    \/ DeleteBegin(p) \/ ForceBegin(p) \/ DeleteRef(p)
    \/ RenameBegin(p) \/ RenameNew(p) \/ RenameOld(p) \/ RenameHead(p)
    \/ CheckoutBegin(p) \/ CheckoutHead(p)
    \/ InitAgain(p) \/ Crash(p)

Spec == Init /\ [][Next]_vars

----------------------------------------------------------------------------
\* Properties.

\* The commits in the past of some branch, stored or not.
History == UNION {Reachable(heads[b], DOMAIN parents) : b \in DOMAIN heads}

\* No command but the forced delete takes a commit out of the history of the
\* branches, wherever a crash falls: a commit continues the branch it is made on,
\* the safe delete removes what another branch reaches, and a rename writes the new
\* name before it removes the old one.
HistoryKept ==
    [][(\A p \in Procs : At(p, "force") => run'[p] = run[p]) => History \subseteq History']_vars

\* Between commands none of which has died, once there is a branch, HEAD leads to a
\* commit: the next commit has a parent.  A rename of the current branch, a delete and
\* a checkout each move HEAD and the branches in different steps.
HeadResolves ==
    (\A p \in Procs : At(p, "idle")) /\ ~disturbed /\ DOMAIN heads # {} => HeadCommit # {}

\* Every commit in the past of a branch or HEAD can be read.
AllStored ==
    \A c \in {heads[b] : b \in DOMAIN heads} \cup HeadCommit :
        Reachable(c, DOMAIN parents) \subseteq stored

\* Between commands none of which has died, everything a branch or HEAD leads to can
\* be read: no command leaves a ref to what it, or an earlier one, did not store.
RefsStored == (\A p \in Procs : At(p, "idle")) /\ ~disturbed => AllStored

\* "Ensure commit (and any trees written along the way) are durably stored"
\* (commit.rs): the same wherever the process dies.
DurablyStored == (\A p \in Procs : At(p, "idle")) => AllStored
=============================================================================
