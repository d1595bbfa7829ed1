----------------------------- MODULE Workspace -----------------------------
(***************************************************************************)
(* The working directory, the index (.mog/index) and the commands that     *)
(* move contents between them, the tree HEAD names and the stash:          *)
(* src/src/stage.rs, unstage.rs, discard.rs, checkout.rs, stash.rs and the *)
(* Commit and Checkpoint arms of src/src/main.rs.                          *)
(*                                                                         *)
(* A command runs alone and is one step: mog is a short-lived process and  *)
(* what happens between two commands (the user edits files, the clock      *)
(* moves) is where this component is hard.  The one command whose duration *)
(* matters, the application of a stash, may cross into the next second     *)
(* between its writes.  Everything is written in whatever second it comes. *)
(*                                                                         *)
(* mtimes are kept in seconds.  A file that is written without its entry,  *)
(* in the very second the entry records, keeps an mtime that agrees with   *)
(* it: if the length agrees too it looks clean whatever it holds.  The     *)
(* user's editor does that, and so do mog discard and the overlay of a     *)
(* stash, which never wait.  The history variable blind says which files   *)
(* are in that position; the properties say what holds of the others.      *)
(*                                                                         *)
(* Trees, index and directory are functions whose domain is the set of     *)
(* paths they hold.  A blob hash is identified with the contents it names; *)
(* modes are left out (mog never restores them and chmod leaves mtime      *)
(* alone), as are ignored files, which no command but checkout looks at.   *)
(***************************************************************************)
EXTENDS Integers, Sequences, SequencesExt, Functions

CONSTANTS
    Paths,       \* repository-relative file paths, none a directory of another
    Nested,      \* the paths that lie in a subdirectory
    Data,        \* file contents
    Size,        \* length of each of the contents
    MaxFile,     \* STAGE_MAX_FILE_BYTES
    MaxTime,     \* bound: seconds of clock explored
    MaxHistory,  \* bound: different trees committed
    MaxStashes   \* bound: length of the stash list

ASSUME PathsAssumption == Nested \subseteq Paths
ASSUME SizeAssumption  == Size \in [Data -> Nat]
ASSUME BoundAssumption == {MaxFile, MaxTime, MaxHistory, MaxStashes} \subseteq Nat

VARIABLES
    disk,     \* the working directory: contents and mtime (seconds) of each file
    index,    \* the index: blob and recorded mtime of each entry
    head,     \* tree of the commit HEAD names, NoTree before the first commit
    history,  \* trees of all commits
    stashes,  \* the stash list, stash@{0} first
    now,      \* the clock, in the seconds mtimes are compared in
    blind     \* history: files written, not recorded, in the second their entry records

vars == <<disk, index, head, history, stashes, now, blind>>

Partial(S) == UNION {[D -> S] : D \in SUBSET Paths}
Stat       == [data : Data, mtime : 0 .. MaxTime]
Trees      == Partial(Data)
NoTree     == [p \in {} |-> 0]
\* A stash commit: its tree, and the tree its message names (dirty=<hash>).
Stash      == {st \in [staged : Trees, dirty : Trees] : DOMAIN st.dirty \subseteq DOMAIN st.staged}

TypeOK ==
    /\ disk \in Partial(Stat)
    /\ index \in Partial(Stat)
    /\ head \in history \cup {NoTree}
    /\ history \subseteq Trees \ {NoTree}
    /\ stashes \in Seq(Stash)
    /\ now \in 0 .. MaxTime
    /\ blind \subseteq Paths

----------------------------------------------------------------------------
\* Operators on directories, indexes and trees.

\* f written over g (@@ of TLC, which the prover cannot expand).
Over(f, g)     == [p \in DOMAIN f \cup DOMAIN g |-> IF p \in DOMAIN f THEN f[p] ELSE g[p]]
Without(f, S)  == Restrict(f, DOMAIN f \ S)
Contents(f)    == [p \in DOMAIN f |-> f[p].data]
Stamp(tree, t) == [p \in DOMAIN tree |-> [data |-> tree[p], mtime |-> t]]

\* Mutant: lengths only.
IsDirtySizeOnly(ix, d, p) == Size[ix[p].data] # Size[d[p].data]

\* Index::is_dirty: the file's mtime in seconds and its length against the entry's.
IsDirty(ix, d, p) ==
    \/ ix[p].mtime # d[p].mtime
    \/ Size[ix[p].data] # Size[d[p].data]

\* The files of S of which a write now escapes the entry in ix.
Unseen(ix, S) == {p \in S \cap DOMAIN ix : ix[p].mtime = now}

\* The state a command works on, so that commands compose.
Work == [disk |-> disk, index |-> index, stashes |-> stashes, blind |-> blind]

Becomes(w) == /\ disk' = w.disk
              /\ index' = w.index
              /\ stashes' = w.stashes
              /\ blind' = w.blind

\* checkout_tree_impl, and the end of stash(): tracked files the tree lacks are
\* deleted, its files written, and the index rebuilt from what was written.
SwitchTo(w, tree) ==
    [disk    |-> Over(Stamp(tree, now), Without(w.disk, DOMAIN w.index \ DOMAIN tree)),
     index   |-> Stamp(tree, now),
     stashes |-> w.stashes,
     blind   |-> {}]

----------------------------------------------------------------------------
\* The user between two commands.

Edit == \E p \in Paths, c \in Data :
    /\ disk' = Over(Stamp([q \in {p} |-> c], now), disk)
    /\ blind' = (blind \ {p}) \cup Unseen(index, {p})
    /\ UNCHANGED <<index, head, history, stashes, now>>

Delete == \E p \in DOMAIN disk :
    /\ disk' = Without(disk, {p})
    /\ blind' = blind \ {p}
    /\ UNCHANGED <<index, head, history, stashes, now>>

Tick == /\ now < MaxTime
        /\ now' = now + 1
        /\ UNCHANGED <<disk, index, head, history, stashes, blind>>

----------------------------------------------------------------------------
\* mog stage and mog unstage: S is what the patterns match.

\* Mutant: tracked files are not looked at again.
ToStageNew(S) == {p \in S \cap DOMAIN disk :
                 /\ Size[disk[p].data] <= MaxFile
                 /\ p \notin DOMAIN index}

\* Files that are new or look dirty, and are not over the size limit.
ToStage(S) == {p \in S \cap DOMAIN disk :
                 /\ Size[disk[p].data] <= MaxFile
                 /\ p \in DOMAIN index => IsDirty(index, disk, p)}

\* Every entry whose file is gone leaves the index, whatever the patterns match.
Stage(S) ==
    /\ index' = Over(Restrict(disk, ToStage(S)), Restrict(index, DOMAIN index \cap DOMAIN disk))
    /\ blind' = blind \ ToStage(S)
    /\ UNCHANGED <<disk, head, history, stashes, now>>

\* A literal path reaches files on disk only, a regex the index too: any set.
Unstage(S) ==
    /\ S \cap DOMAIN index # {}
    /\ index' = Without(index, S)
    /\ blind' = blind \ S
    /\ UNCHANGED <<disk, head, history, stashes, now>>

\* Mutant: the empty index is not refused.
CommitEmpty ==
    /\ head' = Contents(index)
    /\ history' = history \cup {head'}
    /\ Cardinality(history') <= MaxHistory
    /\ UNCHANGED <<disk, index, stashes, now, blind>>

\* mog commit: an empty index is refused, so the tree of a commit is not empty.
Commit ==
    /\ DOMAIN index # {}
    /\ head' = Contents(index)
    /\ history' = history \cup {head'}
    /\ Cardinality(history') <= MaxHistory
    /\ UNCHANGED <<disk, index, stashes, now, blind>>

\* mog checkout <branch or commit>: local changes are overwritten unasked.
Checkout == \E tree \in history :
    /\ Becomes(SwitchTo(Work, tree))
    /\ head' = tree
    /\ UNCHANGED <<history, now>>

\* mog checkout <branch or commit> -p <file>.
CheckoutPath == \E tree \in history : \E p \in DOMAIN tree :
    LET one == Stamp(Restrict(tree, {p}), now)
    IN  /\ disk' = Over(one, disk)
        /\ index' = Over(one, index)
        /\ blind' = blind \ {p}
        /\ UNCHANGED <<head, history, stashes, now>>

\* mog discard <patterns>: HEAD is the source of truth, the index only before
\* the first commit; a matched file in neither is deleted and unstaged.  The entry of
\* a file that is written back stays what it was.
Discard(S) ==
    LET matched == S \cap DOMAIN disk
        truth   == IF head = NoTree THEN Contents(index) ELSE head
        kept    == matched \cap DOMAIN truth
    IN  /\ disk' = Over(Stamp(Restrict(truth, kept), now), Without(disk, matched))
        /\ index' = Without(index, matched \ kept)
        /\ blind' = (blind \ matched) \cup Unseen(index, kept)
        /\ UNCHANGED <<head, history, stashes, now>>

\* mog discard: untracked files are deleted, every index entry is written out.
DiscardAll ==
    /\ disk' = Over(Stamp(Contents(index), now), Restrict(disk, DOMAIN disk \cap DOMAIN index))
    /\ blind' = {}
    /\ UNCHANGED <<index, head, history, stashes, now>>

----------------------------------------------------------------------------
\* mog stash and mog checkpoint.

\* The index as a tree, and the tracked files that look dirty.
Stashed(w) ==
    [staged |-> Contents(w.index),
     dirty  |-> Restrict(Contents(w.disk),
                  {p \in DOMAIN w.index \cap DOMAIN w.disk : IsDirty(w.index, w.disk, p)})]

\* The staged tree is written flat, one entry per index path, and compared by
\* hash with the nested tree of HEAD: with a path in a subdirectory the two differ.
\* (With two paths at the root the hash also depends on the order they were staged
\* in, which is not kept here: instances have at most one path outside Nested.)
LooksUnchanged(st) ==
    /\ st.staged = head
    /\ DOMAIN st.staged \cap Nested = {}
    /\ DOMAIN st.dirty = {}

\* stash(): w itself when nothing looks changed.
Saved(w) ==
    LET st == Stashed(w)
    IN  IF LooksUnchanged(st) THEN w
        ELSE [SwitchTo(w, head) EXCEPT !.stashes = <<st>> \o @]

\* Mutant: the staged files are written over the dirty ones.
AppliedBackwards(w, st, late) ==
    [disk    |-> Over(Stamp(st.staged, now), Over(Stamp(st.dirty, now), w.disk)),
     index   |-> Over(Stamp(st.staged, now), w.index),
     stashes |-> w.stashes,
     blind   |-> w.blind \ DOMAIN st.staged]

\* apply_stash: the staged files are written and recorded, then the dirty ones are written
\* over them and not recorded, those of late in the second after.
Applied(w, st, late) ==
    [disk    |-> Over(Stamp(Restrict(st.dirty, late), now + 1),
                      Over(Stamp(st.dirty, now), Over(Stamp(st.staged, now), w.disk))),
     index   |-> Over(Stamp(st.staged, now), w.index),
     stashes |-> w.stashes,
     blind   |-> (w.blind \ DOMAIN st.staged) \cup (DOMAIN st.dirty \ late)]

\* The clock moves on before the first file of late.
Passes(late) == /\ late # {} => now < MaxTime
                /\ now' = IF late = {} THEN now ELSE now + 1

StashSave ==
    /\ Becomes(Saved(Work))
    /\ Len(stashes') <= MaxStashes
    /\ UNCHANGED <<head, history, now>>

StashApply(i) == \E late \in SUBSET DOMAIN stashes[i].dirty :
    /\ Passes(late)
    /\ Becomes(Applied(Work, stashes[i], late))
    /\ UNCHANGED <<head, history>>

StashPop ==
    /\ Len(stashes) > 0
    /\ \E late \in SUBSET DOMAIN stashes[1].dirty :
          /\ Passes(late)
          /\ Becomes([Applied(Work, stashes[1], late) EXCEPT !.stashes = Tail(@)])
    /\ UNCHANGED <<head, history>>

StashDrop(i) ==
    /\ stashes' = RemoveAt(stashes, i)
    /\ UNCHANGED <<disk, index, head, history, now, blind>>

\* mog checkpoint: stash(), then stash_apply(0) whether or not stash() saved.
Checkpoint ==
    /\ LET w == Saved(Work)
       IN  /\ 0 < Len(w.stashes) /\ Len(w.stashes) <= MaxStashes
           /\ \E late \in SUBSET DOMAIN w.stashes[1].dirty :
                 /\ Passes(late)
                 /\ Becomes(Applied(w, w.stashes[1], late))
    /\ UNCHANGED <<head, history>>

----------------------------------------------------------------------------
Init ==
    /\ disk = NoTree
    /\ index = NoTree
    /\ head = NoTree
    /\ history = {}
    /\ stashes = <<>>
    /\ now = 0
    /\ blind = {}

Next ==
    \/ \E S \in SUBSET Paths : Stage(S) \/ Unstage(S) \/ Discard(S)
    \/ Commit \/ Checkout \/ CheckoutPath \/ DiscardAll
    \/ StashSave \/ StashPop \/ Checkpoint
    \/ \E i \in 1 .. Len(stashes) : StashApply(i) \/ StashDrop(i)
    \/ Edit \/ Delete \/ Tick

Spec == Init /\ [][Next]_vars

----------------------------------------------------------------------------
\* Properties.

\* The fast check, which stage, stash and status rely on to skip files, fails in one way
\* only: a tracked file that looks clean has the contents its entry names, unless it was
\* written, and not recorded, in the second the entry records.
CleanMeansSame ==
    \A p \in (DOMAIN index \cap DOMAIN disk) \ blind :
        ~IsDirty(index, disk, p) => disk[p].data = index[p].data

\* The files that look clean whatever they hold: what the fast check is there to find in
\* them, it misses.
Missed == {p \in blind \cap DOMAIN index \cap DOMAIN disk : ~IsDirty(index, disk, p)}

\* After mog stage no entry is left whose file is gone, and the matched files that are not
\* over the limit have one, with what is on disk: what is committed next is what the user
\* sees.  Of a file the fast check misses, the old entry is kept.
StageCaptures ==
    [][\A S \in SUBSET Paths : Stage(S) =>
         /\ DOMAIN index' \subseteq DOMAIN disk
         /\ \A p \in S \cap DOMAIN disk :
              Size[disk[p].data] <= MaxFile =>
                  /\ p \in DOMAIN index'
                  /\ p \notin Missed => index'[p].data = disk[p].data]_vars

\* Whenever a stash would be saved, applying it right away, in the same second or across
\* seconds, gives back every staged version, and every tracked file that was on disk and that the
\* fast check does not miss: save followed by pop loses no work that save can see.
StashRoundTrip ==
    LET w  == Saved(Work)
        st == Head(w.stashes)
    IN  w # Work => \A late \in SUBSET DOMAIN st.dirty :
          LET a == Applied(w, st, late)
          IN  /\ \A p \in DOMAIN index : /\ p \in DOMAIN a.index
                                         /\ a.index[p].data = index[p].data
              /\ \A p \in (DOMAIN index \cap DOMAIN disk) \ Missed :
                    a.disk[p].data = disk[p].data

\* "Don't update index, dirty files should show as modified" (stash.rs:360): after a
\* stash is applied, a file whose dirty contents differ from the staged ones looks dirty.
AppliedShowsModified ==
    [][\A i \in 1 .. Len(stashes) : StashApply(i) =>
         \A p \in DOMAIN stashes[i].dirty :
            stashes[i].dirty[p] # stashes[i].staged[p] => IsDirty(index', disk', p)]_vars

\* "Stash changes and apply them right away, saving the stash" (main.rs): a
\* checkpoint leaves the tracked files on disk as they were.
CheckpointKeepsWork ==
    [][Checkpoint => \A p \in DOMAIN index \cap DOMAIN disk :
            p \in DOMAIN disk' /\ disk'[p].data = disk[p].data]_vars

\* A stash of a clean tree is a no-op (tests/integration.rs): with the index equal
\* to HEAD and every tracked file clean on disk, mog stash save adds no stash.
StashOfCleanIsNoop ==
    (/\ Contents(index) = head
     /\ \A p \in DOMAIN index : p \in DOMAIN disk /\ ~IsDirty(index, disk, p))
    => Saved(Work) = Work
============================================================================
