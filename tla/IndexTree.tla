----------------------------- MODULE IndexTree -----------------------------
(***************************************************************************)
(* The index, the trees and commits that are made of it, and the processes *)
(* that read them back: write_tree writes the objects of a tree one after  *)
(* the other through arenas and storage, and checkout, status, log, show   *)
(* and stash read them in any order through the cache.                     *)
(***************************************************************************)
EXTENDS Index, Objects

CONSTANTS
    Author, Messages,  \* author of the commits, message of each
    Starts,            \* bound: the orders of paths in an index that is committed
    MaxReads           \* bound: objects a process reads or writes

\* What stage makes a path of: names that are not empty, with one slash between two of them.
Normal(p) ==
    /\ p # <<>> /\ p[1] # Slash /\ p[Len(p)] # Slash
    /\ \A i \in 1 .. Len(p) - 1 : p[i] # Slash \/ p[i + 1] # Slash

ASSUME PathAssumption ==
    /\ Slash \in Nat /\ MaxPath \in Nat
    /\ Paths \subseteq Seq(Nat)
    /\ \A p \in Paths : Normal(p) /\ Len(p) <= MaxPath

ASSUME TextAssumption ==
    Bytes \in [Data -> Seq(Nat)] /\ Author \in Seq(Nat) /\ Messages \in Seq(Seq(Nat))

VARIABLES commits    \* the commits that were made

allvars == <<vars, objvars, commits>>

EntriesInOrder == [i \in DOMAIN paths |-> [path |-> paths[i], data |-> data[i]]]

\* The trees mog commit writes, and the one it commits.
IndexTrees == WriteTree(EntriesInOrder)
Committed  == Last(IndexTrees)

\* The index, and each tree of it in turn, written by a process that has just started.
TreesWritten ==
    LET s[n \in Nat] == IF n = 0 THEN WriteBlobs(Opened(storage), {data[i] : i \in DOMAIN data})
                        ELSE WriteTreeObject(s[n - 1], IndexTrees[n])
    IN  s[Len(IndexTrees)]

\* An empty index is refused; the parent is the commit before.
Commit ==
    /\ paths # <<>> /\ paths \in Starts /\ Len(commits) < Len(Messages)
    /\ LET c == [tree |-> Committed, author |-> Author, message |-> Messages[Len(commits) + 1],
                 parents |-> IF commits = <<>> THEN <<>> ELSE <<Last(commits)>>]
       IN  /\ storage' = WriteCommit(TreesWritten, c).storage
           /\ commits' = Append(commits, c)
    /\ stores' = NoStores /\ cache' = NoCache /\ held' = <<>>
    /\ UNCHANGED vars

\* The entries of the index as stash() writes them: one flat tree, in the order of the index.
StashEntries == [i \in DOMAIN paths |-> File(paths[i], data[i])]

Process ==
    /\ commits # <<>> /\ Len(held) < MaxReads
    /\ \/ \E hash \in DOMAIN storage : Read(hash) \/ ReadOnce(hash)
       \/ \E p \in Paths : WalkPath(TreeOf(Last(commits).tree), p)
       \/ WriteEntries(StashEntries)
    /\ UNCHANGED <<vars, commits>>

NextProcess == held # <<>> /\ Open /\ UNCHANGED <<vars, commits>>

TreeInit == Init /\ ObjectsInit /\ commits = <<>>

TreeNext ==
    \/ commits = <<>> /\ Next /\ UNCHANGED <<objvars, commits>>
    \/ Commit \/ Process \/ NextProcess

TreeSpec == TreeInit /\ [][TreeNext]_allvars

----------------------------------------------------------------------------
\* Properties.

\* Index::write_tree, flatten_tree and the binary search give back the index: for
\* every path the data it was staged with, and nothing for a path that is not
\* tracked, also when a name is both a file and a directory.
CommitHoldsIndex ==
    LET flat == FlattenTree(Committed)
    IN  \A p \in Paths : Lookup(flat, p) = {data[i] : i \in Found(p)}

\* Every directory is written once and as it is, so that following a path name by name
\* (show, checkout of a path) ends at the staged file, whatever the process read before and
\* the cache still has, unless a file is tracked under the name of a directory above it.
WalkFindsStaged ==
    LET s == IF commits = <<>> THEN Opened(TreesWritten.storage) ELSE Session
    IN  \A p \in Paths :
            Above(p) \cap {paths[i] : i \in DOMAIN paths} = {} =>
                LET found == WalkTree(s, TreeOf(Committed), p).result
                IN  {h \in found : h.tag = "blob"} = {BlobOf(data[i]) : i \in Found(p)}

\* log shows every commit with its author, message and tree, newest first, whatever the
\* process read before, and then ends.
LogIsHistory ==
    commits # <<>> =>
        Log(Session, CommitOf(Last(commits)), Len(commits) + 1) = Reverse(commits)

\* mog write-tree of a directory with the tracked files writes the files mog commit writes,
\* although the order within its trees, and so their hashes, can differ.
TreesAgree ==
    (\A i \in DOMAIN paths : Above(paths[i]) \cap {paths[j] : j \in DOMAIN paths} = {}) =>
        FlattenTree(DirectoryTree({EntriesInOrder[i] : i \in DOMAIN paths})) = FlattenTree(Committed)
============================================================================
