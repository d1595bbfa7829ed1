-------------------------------- MODULE Views --------------------------------
(***************************************************************************)
(* What mog status and mog diff show of the state of Workspace:            *)
(* collect_status_impl of src/src/status.rs and the three comparisons of   *)
(* src/src/diff.rs.  They change nothing.  Ignored files do not exist here *)
(* (as in Workspace); what is shown of a path is whether it is listed.     *)
(***************************************************************************)
EXTENDS Workspace

CONSTANT Text   \* the contents that are valid UTF-8

ASSUME TextAssumption == Text \subseteq Data

----------------------------------------------------------------------------
\* Mutant: the files that only HEAD has are not looked for.
StatusBucketsOfIndex ==
    [staged_new_modified |-> {p \in DOMAIN index : p \in DOMAIN head => head[p] # index[p].data},
     staged_deleted      |-> {},
     modified            |-> {p \in DOMAIN index \cap DOMAIN disk : IsDirty(index, disk, p)},
     deleted             |-> DOMAIN index \ DOMAIN disk,
     untracked           |-> DOMAIN disk \ DOMAIN index]

StatusBuckets ==
    [staged_new_modified |-> {p \in DOMAIN index : p \in DOMAIN head => head[p] # index[p].data},
     staged_deleted      |-> DOMAIN head \ DOMAIN index,
     modified            |-> {p \in DOMAIN index \cap DOMAIN disk : IsDirty(index, disk, p)},
     deleted             |-> DOMAIN index \ DOMAIN disk,
     untracked           |-> DOMAIN disk \ DOMAIN index]

Listed == UNION {StatusBuckets[b] : b \in DOMAIN StatusBuckets}

----------------------------------------------------------------------------
\* Text is compared line by line; of two files one of which is not text, it is only said that
\* they differ.  (They are asked about even if they are equal: the test that should skip them
\* compares the hash of the file's bytes with a blob hash, which is that of the bytes after
\* their header.)
Prints(before, after) == {before, after} \subseteq Text => before # after

\* A file that is compared with nothing: an empty text has no lines to show.
PrintsAll(c) == c \in Text => Size[c] # 0

\* mog diff: tracked files on disk against the index.
DiffWorkingVsIndex ==
    {p \in DOMAIN index \cap DOMAIN disk : Prints(index[p].data, disk[p].data)}

\* mog diff --staged: the index against HEAD.
DiffStaged ==
    {p \in DOMAIN index \cap DOMAIN head : head[p] # index[p].data}
    \cup {p \in DOMAIN index \ DOMAIN head : PrintsAll(index[p].data)}

\* Mutant: index entries are additions even if the tree has them.
DiffWorkingVsTreeTwice(tree) ==
    {p \in DOMAIN tree \cap DOMAIN disk : Prints(tree[p], disk[p].data)}
    \cup {p \in DOMAIN tree \ DOMAIN disk : PrintsAll(tree[p])}
    \cup {p \in DOMAIN index \cap DOMAIN disk : PrintsAll(disk[p].data)}

\* mog diff <commit>: files on disk against a tree, and tracked ones the tree lacks.
DiffWorkingVsTree(tree) ==
    {p \in DOMAIN tree \cap DOMAIN disk : Prints(tree[p], disk[p].data)}
    \cup {p \in DOMAIN tree \ DOMAIN disk : PrintsAll(tree[p])}
    \cup {p \in (DOMAIN index \cap DOMAIN disk) \ DOMAIN tree : PrintsAll(disk[p].data)}

----------------------------------------------------------------------------
\* Properties.

\* A path that mog status does not list is on disk, in the index and in HEAD, or in none of
\* them, and it is the same in all three: "working tree clean" (status.rs) is true when it is
\* printed.  For the part that is on disk it rests on the fast check: files to which that is
\* blind can differ unlisted.
StatusShowsAll ==
    \A p \in Paths \ Listed :
        /\ p \in DOMAIN index <=> p \in DOMAIN disk
        /\ p \in DOMAIN index <=> p \in DOMAIN head
        /\ p \in DOMAIN index => index[p].data = head[p]
        /\ p \in DOMAIN index \ blind => disk[p].data = index[p].data

\* The text files that a diff shows are among those that status lists, except those to which
\* the fast check is blind: the diffs read the files, status only their metadata.
DiffsAreListed ==
    \A p \in DiffWorkingVsIndex \cup DiffStaged \cup DiffWorkingVsTree(head) :
        \/ p \in Listed
        \/ p \in DOMAIN disk /\ disk[p].data \notin Text
        \/ p \in blind
============================================================================
