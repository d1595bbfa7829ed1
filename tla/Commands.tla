------------------------------ MODULE Commands ------------------------------
(***************************************************************************)
(* The commands of Workspace as they run: one call on a file at a time,    *)
(* with an editor at work in between and the possibility of dying at each  *)
(* point.  src/src/stage.rs, checkout.rs, stash.rs and the Commit arm of   *)
(* src/src/main.rs.                                                        *)
(*                                                                         *)
(* A command loads the index, changes files and its own copy of the index  *)
(* one path after the other, and saves the copy at the end.  What it read  *)
(* of a file before (its metadata) may be stale when it is used.  Files    *)
(* are taken in any order, which includes the order of the tree; rayon     *)
(* leaves the reads of stage unordered anyway.                             *)
(*                                                                         *)
(* An entry keeps the length metadata gave apart from the contents: the    *)
(* two can disagree here.  Files are written in whatever second it is, by  *)
(* the user and by the commands: blind and blindIx, as in Workspace, say   *)
(* for the index on disk and for the copy which files a write has put out  *)
(* of reach of the fast check.                                             *)
(***************************************************************************)
EXTENDS Integers, Sequences, SequencesExt, Functions

CONSTANTS
    Paths, Nested, Data, Size, MaxFile,   \* as in Workspace
    MaxTime, MaxHistory, MaxStashes       \* bounds: as in Workspace

ASSUME PathsAssumption == Nested \subseteq Paths
ASSUME SizeAssumption  == Size \in [Data -> Nat]
ASSUME BoundAssumption == {MaxFile, MaxTime, MaxHistory, MaxStashes} \subseteq Nat

VARIABLES
    disk, index, head, history, stashes, now, \* as in Workspace
    durable,   \* blobs whose storage was synced: trees and commits go with them
    run,       \* the command in progress
    work,      \* history: contents the user has entrusted to a stash
    blind,     \* history: as in Workspace, for the index on disk
    blindIx,   \* history: the same for the copy in memory, and files edited before recorded
    before,    \* history: the state in which the command in progress began
    disturbed  \* history: some command did not run alone, or died

vars == <<disk, index, head, history, stashes, now, durable, run, work, blind, blindIx,
          before, disturbed>>

\* Workspace on this directory, as it was when the command in progress began.
Plain(ix) == [p \in DOMAIN ix |-> [data |-> ix[p].data, mtime |-> ix[p].mtime]]
Undisturbed == ~disturbed /\ run.cmd # "none"

WholeDisk    == IF Undisturbed THEN before.disk ELSE disk
WholeIndex   == Plain(IF Undisturbed THEN before.index ELSE index)
WholeHead    == IF Undisturbed THEN before.head ELSE head
WholeStashes == IF Undisturbed THEN before.stashes ELSE stashes
WholeNow     == IF Undisturbed THEN before.now ELSE now
WholeBlind   == IF Undisturbed THEN before.blind ELSE blind

W == INSTANCE Workspace WITH
        disk    <- WholeDisk,
        index   <- WholeIndex,
        head    <- WholeHead,
        stashes <- WholeStashes,
        now     <- WholeNow,
        blind   <- WholeBlind

NoTree == W!NoTree
Entry  == [data : Data, mtime : 0 .. MaxTime, size : {Size[c] : c \in Data}]

\* The command in progress: where it is, the index in its memory, metadata it has read, files
\* to delete, the tree to write and what is left of it, the file written but not yet
\* recorded, and the files to write without recording them.
Idle == [cmd |-> "none", at |-> "idle", ix |-> NoTree, stats |-> NoTree, gone |-> {},
         goal |-> NoTree, todo |-> {}, cur |-> {}, over |-> NoTree]

Nothing == [disk |-> NoTree, index |-> NoTree, head |-> NoTree, stashes |-> <<>>, now |-> 0,
            blind |-> {}]

Runs == [cmd : {"none", "stage", "checkout", "detach", "save", "apply", "pop"},
         at : {"idle", "removes", "files", "flush", "put", "end"},
         ix : W!Partial(Entry), stats : W!Partial(W!Stat), gone : SUBSET Paths,
         goal : W!Trees, todo : SUBSET Paths, cur : SUBSET Paths, over : W!Trees]

\* Where each command can be.
Places == [none |-> {"idle"}, stage |-> {"removes", "files", "end"}, checkout |-> {"files"},
           detach |-> {"files", "end"}, save |-> {"flush", "put", "files"},
           apply |-> {"files"}, pop |-> {"files", "end"}]

RunOK ==
    /\ run \in Runs
    /\ run.at \in Places[run.cmd]
    /\ run.todo \cup run.cur \cup DOMAIN run.over \subseteq DOMAIN run.goal
    /\ run.at = "files" \/ run.cur = {}
    /\ run.cmd = "none" <=> run = Idle
    /\ run.cmd = "pop" => stashes # <<>>
    /\ run.cmd = "stage" => run.goal = NoTree
    /\ run.cmd \in {"stage", "apply", "pop"} => run.gone = {}
    /\ run.cmd = "detach" => run.goal \in history

TypeOK ==
    /\ disk \in W!Partial(W!Stat)
    /\ index \in W!Partial(Entry)
    /\ head \in history \cup {NoTree}
    /\ history \subseteq W!Trees \ {NoTree}
    /\ stashes \in Seq(W!Stash)
    /\ now \in 0 .. MaxTime
    /\ durable \subseteq Data
    /\ work \in W!Trees /\ blind \subseteq Paths /\ blindIx \subseteq Paths
    /\ disturbed \in BOOLEAN
    /\ RunOK

----------------------------------------------------------------------------
\* Operators.

One(p, v) == [q \in {p} |-> v]
Put(f, p, v) == W!Over(One(p, v), f)

\* Mutant: the seconds are not compared.
LooksSize(ix, d, p) == ix[p].size # Size[d[p].data]

\* Index::is_dirty: seconds and lengths.
Looks(ix, d, p) == ix[p].mtime # d[p].mtime \/ ix[p].size # Size[d[p].data]

\* S after a write of p: does ix record this second?
Marked(S, ix, p) == (S \ {p}) \cup {q \in {p} \cap DOMAIN ix : ix[q].mtime = now}

\* A file is written, whatever the second: fs::write.
Write(p, c) ==
    /\ disk' = Put(disk, p, [data |-> c, mtime |-> now])
    /\ blind' = Marked(blind, index, p)

\* A file is deleted: fs::remove_file.
Unlink(p) ==
    /\ disk' = W!Without(disk, {p})
    /\ blind' = blind \ {p}
    /\ blindIx' = blindIx \ {p}

\* A command begins in this state.
Begin(r) ==
    /\ run = Idle
    /\ run' = r
    /\ before' = IF disturbed THEN Nothing
                 ELSE [disk |-> disk, index |-> index, head |-> head, stashes |-> stashes, now |-> now,
                       blind |-> blind]
    /\ UNCHANGED <<blind, disturbed>>

\* A step of the command in progress.
Goes(r) ==
    /\ run' = r
    /\ UNCHANGED <<before, disturbed>>

\* The command is over.
Ends ==
    /\ run' = Idle
    /\ before' = Nothing
    /\ blindIx' = {}
    /\ UNCHANGED disturbed

\* Something happens that Workspace does not let happen within a command.
Disturbs ==
    /\ disturbed' = (disturbed \/ run.cmd # "none")
    /\ before' = IF disturbed' THEN Nothing ELSE before

----------------------------------------------------------------------------
\* The user.

Edit(p, c) ==
    /\ Write(p, c)
    /\ work' = W!Without(work, {p})
    /\ blindIx' = IF p \in run.cur THEN blindIx \cup {p} ELSE Marked(blindIx, run.ix, p)
    /\ Disturbs
    /\ UNCHANGED <<index, head, history, stashes, now, durable, run>>

Delete(p) ==
    /\ p \in DOMAIN disk
    /\ Unlink(p)
    /\ work' = W!Without(work, {p})
    /\ Disturbs
    /\ UNCHANGED <<index, head, history, stashes, now, durable, run>>

\* The clock.  Workspace lets it move before the overlay of a stash.
Overlays ==
    /\ run.cmd \in {"apply", "pop"} /\ run.at = "files"
    /\ run.todo = {} /\ run.cur = {} /\ DOMAIN run.over # {}

Tick ==
    /\ now < MaxTime
    /\ now' = now + 1
    /\ IF Undisturbed /\ Overlays /\ now = before.now THEN UNCHANGED <<before, disturbed>> ELSE Disturbs
    /\ UNCHANGED <<disk, index, head, history, stashes, durable, run, work, blind, blindIx>>

\* The process dies, or a call fails, before its next step: the copy of the index is gone.
Crash ==
    /\ run.cmd # "none"
    /\ run' = Idle /\ blindIx' = {}
    /\ Disturbs
    /\ UNCHANGED <<disk, index, head, history, stashes, now, durable, work, blind>>

----------------------------------------------------------------------------
\* stage().

\* The walk and the metadata of what it finds.
ToStage(S) ==
    {p \in S \cap DOMAIN disk :
        /\ Size[disk[p].data] <= MaxFile
        /\ p \in DOMAIN index => Looks(index, disk, p)}

StageBegin(S) ==
    /\ Begin([Idle EXCEPT !.cmd = "stage", !.at = "removes", !.ix = index,
                          !.stats = Restrict(disk, ToStage(S))])
    /\ blindIx' = blind
    /\ UNCHANGED <<disk, index, head, history, stashes, now, durable, work>>

StageRemoves ==
    /\ run.at = "removes"
    /\ Goes([run EXCEPT !.at = "files", !.ix = Restrict(@, DOMAIN @ \cap DOMAIN disk)])
    /\ UNCHANGED <<disk, index, head, history, stashes, now, durable, work, blind, blindIx>>

\* Mutant: a file that is gone is tried again.
StageReadAgain(p) ==
    /\ run.cmd = "stage" /\ run.at = "files" /\ p \in DOMAIN run.stats \cap DOMAIN disk
    /\ LET entry == [data |-> disk[p].data, mtime |-> run.stats[p].mtime,
                     size |-> Size[run.stats[p].data]]
       IN  Goes([run EXCEPT !.stats = W!Without(@, {p}), !.ix = Put(@, p, entry)])
    /\ blindIx' = blindIx \ {p}
    /\ UNCHANGED <<disk, index, head, history, stashes, now, durable, work, blind>>

\* A file is read now and recorded with the metadata of before; one that is gone is skipped.
StageRead(p) ==
    /\ run.cmd = "stage" /\ run.at = "files" /\ p \in DOMAIN run.stats
    /\ LET entry == [data |-> disk[p].data, mtime |-> run.stats[p].mtime,
                     size |-> Size[run.stats[p].data]]
       IN  Goes([run EXCEPT !.stats = W!Without(@, {p}),
                            !.ix = IF p \in DOMAIN disk THEN Put(@, p, entry) ELSE @])
    /\ blindIx' = blindIx \ {p}
    /\ UNCHANGED <<disk, index, head, history, stashes, now, durable, work, blind>>

StageSync ==
    /\ run.cmd = "stage" /\ run.at = "files" /\ DOMAIN run.stats = {}
    /\ durable' = durable \cup {run.ix[p].data : p \in DOMAIN run.ix}
    /\ Goes([run EXCEPT !.at = "end"])
    /\ UNCHANGED <<disk, index, head, history, stashes, now, work, blind, blindIx>>

\* Mutant: the save does not wait for the blobs.
StageSaveUnsynced ==
    /\ run.cmd = "stage" /\ run.at = "files" /\ DOMAIN run.stats = {}
    /\ index' = run.ix /\ blind' = blindIx
    /\ Ends
    /\ UNCHANGED <<disk, head, history, stashes, now, durable, work>>

StageSave ==
    /\ run.cmd = "stage" /\ run.at = "end"
    /\ index' = run.ix /\ blind' = blindIx
    /\ Ends
    /\ UNCHANGED <<disk, head, history, stashes, now, durable, work>>

\* The Commit arm, as one step: what dies within it is in Refs.
Commit ==
    /\ run = Idle
    /\ DOMAIN index # {}
    /\ head' = W!Contents(index)
    /\ history' = history \cup {head'}
    /\ Cardinality(history') <= MaxHistory
    /\ UNCHANGED <<disk, index, stashes, now, durable, run, work, blind, blindIx, before, disturbed>>

----------------------------------------------------------------------------
\* What checkout, stash and apply have in common.

\* Tracked files that the tree lacks are deleted.
RemoveFile(p) ==
    /\ run.at = "files" /\ p \in run.gone
    /\ Unlink(p)
    /\ Goes([run EXCEPT !.gone = @ \ {p}])
    /\ UNCHANGED <<index, head, history, stashes, now, durable, work>>

WriteFile(p) ==
    /\ run.at = "files" /\ run.gone = {} /\ run.cur = {} /\ p \in run.todo
    /\ Write(p, run.goal[p])
    /\ blindIx' = blindIx \ {p}
    /\ Goes([run EXCEPT !.todo = @ \ {p}, !.cur = {p}])
    /\ UNCHANGED <<index, head, history, stashes, now, durable, work>>

\* Its metadata is read back, and the blob is recorded with it.
RecordFile(p) ==
    /\ p \in run.cur /\ p \in DOMAIN disk
    /\ LET entry == [data |-> run.goal[p], mtime |-> disk[p].mtime, size |-> Size[disk[p].data]]
       IN  Goes([run EXCEPT !.cur = {}, !.ix = Put(@, p, entry)])
    /\ UNCHANGED <<disk, index, head, history, stashes, now, durable, work, blind, blindIx>>

SaveIndex ==
    /\ run.cmd # "stage" /\ run.at = "files"
    /\ run.gone = {} /\ run.todo = {} /\ run.cur = {} /\ DOMAIN run.over = {}
    /\ index' = run.ix /\ blind' = blindIx
    /\ IF run.cmd \in {"detach", "pop"} THEN Goes([run EXCEPT !.at = "end"]) /\ UNCHANGED blindIx
                                       ELSE Ends
    /\ UNCHANGED <<disk, head, history, stashes, now, durable, work>>

----------------------------------------------------------------------------
\* checkout(): HEAD is written first for a branch, last for a commit.

CheckoutBegin(tree, cmd) ==
    /\ Begin([Idle EXCEPT !.cmd = cmd, !.at = "files", !.gone = DOMAIN index \ DOMAIN tree,
                          !.goal = tree, !.todo = DOMAIN tree])
    /\ head' = IF cmd = "checkout" THEN tree ELSE head
    /\ work' = W!Without(work, DOMAIN index \cup DOMAIN tree)
    /\ blindIx' = {}
    /\ UNCHANGED <<disk, index, history, stashes, now, durable>>

DetachEnd ==
    /\ run.cmd = "detach" /\ run.at = "end"
    /\ head' = run.goal
    /\ Ends
    /\ UNCHANGED <<disk, index, history, stashes, now, durable, work, blind>>

----------------------------------------------------------------------------
\* stash(), stash_apply() and stash_pop().

\* The staged tree, and the tracked files that look dirty.
Stashed ==
    [staged |-> W!Contents(index),
     dirty  |-> Restrict(W!Contents(disk),
                         {p \in DOMAIN index \cap DOMAIN disk : Looks(index, disk, p)})]

\* The files that look clean whatever they hold.
Missed == {p \in blind \cap DOMAIN index \cap DOMAIN disk : ~Looks(index, disk, p)}

\* Contents of the tracked files, which are the stash's to keep from here on; a file that
\* only HEAD has is overwritten as it is, and so is one the fast check misses.
SaveBegin ==
    /\ ~W!LooksUnchanged(Stashed)
    /\ Len(stashes) < MaxStashes
    /\ Begin([Idle EXCEPT !.cmd = "save", !.at = "flush", !.ix = index,
                          !.goal = Stashed.staged, !.over = Stashed.dirty])
    /\ work' = W!Over(Restrict(W!Contents(disk), (DOMAIN index \cap DOMAIN disk) \ Missed),
                      W!Without(work, DOMAIN head \cup Missed))
    /\ blindIx' = blind
    /\ UNCHANGED <<disk, index, head, history, stashes, now, durable>>

SaveFlush ==
    /\ run.at = "flush"
    /\ durable' = durable \cup {run.over[p] : p \in DOMAIN run.over}
    /\ Goes([run EXCEPT !.at = "put"])
    /\ UNCHANGED <<disk, index, head, history, stashes, now, work, blind, blindIx>>

\* Mutant: the files of the stash are written, not those of HEAD.
SavePutOwn ==
    /\ run.at = "put"
    /\ stashes' = <<[staged |-> run.goal, dirty |-> run.over]>> \o stashes
    /\ Goes([run EXCEPT !.at = "files", !.ix = NoTree, !.gone = DOMAIN run.ix \ DOMAIN head,
                        !.goal = head, !.todo = DOMAIN run.ix, !.over = NoTree])
    /\ blindIx' = {}
    /\ UNCHANGED <<disk, index, head, history, now, durable, work, blind>>

\* Mutant: files that HEAD lacks are left.
SavePutLeaves ==
    /\ run.at = "put"
    /\ stashes' = <<[staged |-> run.goal, dirty |-> run.over]>> \o stashes
    /\ Goes([run EXCEPT !.at = "files", !.ix = NoTree,
                        !.goal = head, !.todo = DOMAIN head, !.over = NoTree])
    /\ blindIx' = {}
    /\ UNCHANGED <<disk, index, head, history, now, durable, work, blind>>

\* The ref of the stash, whose renames are in StashRefs; then files and index go to HEAD.
SavePut ==
    /\ run.at = "put"
    /\ stashes' = <<[staged |-> run.goal, dirty |-> run.over]>> \o stashes
    /\ Goes([run EXCEPT !.at = "files", !.ix = NoTree, !.gone = DOMAIN run.ix \ DOMAIN head,
                        !.goal = head, !.todo = DOMAIN head, !.over = NoTree])
    /\ blindIx' = {}
    /\ UNCHANGED <<disk, index, head, history, now, durable, work, blind>>

\* Mutant: pop takes the stash from the list first.
ApplyBeginDropped(i, cmd) ==
    LET st == stashes[i]
    IN  /\ cmd = "pop" => i = 1
        /\ Begin([Idle EXCEPT !.cmd = IF cmd = "pop" THEN "apply" ELSE cmd, !.at = "files",
                              !.ix = index, !.goal = st.staged, !.todo = DOMAIN st.staged,
                              !.over = st.dirty])
        /\ stashes' = IF cmd = "pop" THEN Tail(stashes) ELSE stashes
        /\ work' = IF cmd = "pop" THEN W!Over(st.dirty, W!Over(st.staged, work))
                   ELSE W!Without(work, DOMAIN st.staged)
        /\ blindIx' = blind
        /\ UNCHANGED <<disk, index, head, history, now, durable>>

ApplyBegin(i, cmd) ==
    LET st == stashes[i]
    IN  /\ cmd = "pop" => i = 1
        /\ Begin([Idle EXCEPT !.cmd = cmd, !.at = "files", !.ix = index,
                              !.goal = st.staged, !.todo = DOMAIN st.staged, !.over = st.dirty])
        /\ work' = IF cmd = "pop" THEN W!Over(st.dirty, W!Over(st.staged, work))
                   ELSE W!Without(work, DOMAIN st.staged)
        /\ blindIx' = blind
        /\ UNCHANGED <<disk, index, head, history, stashes, now, durable>>

\* Dirty files are written over the staged ones, and not recorded.
Overlay(p) ==
    /\ Overlays /\ p \in DOMAIN run.over
    /\ Write(p, run.over[p])
    /\ blindIx' = Marked(blindIx, run.ix, p)
    /\ Goes([run EXCEPT !.over = W!Without(@, {p})])
    /\ UNCHANGED <<index, head, history, stashes, now, durable, work>>

PopEnd ==
    /\ run.cmd = "pop" /\ run.at = "end"
    /\ stashes' = Tail(stashes)
    /\ Ends
    /\ UNCHANGED <<disk, index, head, history, now, durable, work, blind>>

----------------------------------------------------------------------------
Init ==
    /\ disk = NoTree /\ index = NoTree /\ head = NoTree
    /\ history = {} /\ stashes = <<>> /\ now = 0
    /\ durable = {} /\ run = Idle
    /\ work = NoTree /\ blind = {} /\ blindIx = {} /\ before = Nothing /\ disturbed = FALSE

User ==
    \/ \E p \in Paths : Delete(p) \/ \E c \in Data : Edit(p, c)
    \/ Tick
    \/ Crash

StageStep == StageRemoves \/ (\E p \in Paths : StageRead(p)) \/ StageSync \/ StageSave

Step ==
    \/ StageStep
    \/ \E p \in Paths : RemoveFile(p) \/ WriteFile(p) \/ RecordFile(p) \/ Overlay(p)
    \/ SaveIndex \/ DetachEnd \/ SaveFlush \/ SavePut \/ PopEnd

Start ==
    \/ \E S \in SUBSET Paths : StageBegin(S)
    \/ Commit
    \/ \E tree \in history : CheckoutBegin(tree, "checkout") \/ CheckoutBegin(tree, "detach")
    \/ SaveBegin
    \/ \E i \in 1 .. Len(stashes) : ApplyBegin(i, "apply") \/ ApplyBegin(i, "pop")

Next == User \/ Step \/ Start

Spec == Init /\ [][Next]_vars

\* A command goes on as long as it can: it waits for nothing but the disk.
FairSpec == Spec /\ WF_vars(Step)

----------------------------------------------------------------------------
\* Properties.

\* Whatever a ref, a stash or the index on disk leads to has been synced before, so that it
\* can be read whenever the command dies.
AllDurable ==
    /\ \A p \in DOMAIN index : index[p].data \in durable
    /\ \A t \in history : \A p \in DOMAIN t : t[p] \in durable
    /\ \A i \in 1 .. Len(stashes) : \A t \in {stashes[i].staged, stashes[i].dirty} :
          \A p \in DOMAIN t : t[p] \in durable

\* However edits fall between the metadata, the read, the write and the save of a command,
\* and wherever it dies, a tracked file that looks clean has the contents its entry names.
\* The exceptions are a file written, and not recorded, in the second its entry records and
\* one edited between a command's own write of it and the metadata call.
CleanMeansSame ==
    \A p \in (DOMAIN index \cap DOMAIN disk) \ blind :
        ~Looks(index, disk, p) => disk[p].data = index[p].data

\* What a stash holds of a path: the dirty contents if there are any.
Holds(st, p, c) == p \in DOMAIN st.staged /\ W!Over(st.dirty, st.staged)[p] = c

\* "Stash changes" (main.rs): from the moment the user stashes or pops until the next edit,
\* checkout or apply, the contents of a tracked file are on disk or in a stash, wherever save
\* or pop dies and whatever is popped next.  The next save takes over what it can see: it
\* loses the contents of a file the fast check misses, a dirty one popped within a second
\* for instance.
WorkKept ==
    \A p \in DOMAIN work :
        \/ p \in DOMAIN disk /\ disk[p].data = work[p]
        \/ \E i \in 1 .. Len(stashes) : Holds(stashes[i], p, work[p])

\* As long as every command has run alone and to its end, the commands are those of
\* Workspace, each of which is one step there.
WholeCommands == W!Init /\ [][W!Next \/ disturbed']_(W!vars)

\* The index is what the working directory is, files over the limit aside.
Captured ==
    /\ DOMAIN index \subseteq DOMAIN disk
    /\ \A p \in DOMAIN disk : Size[disk[p].data] <= MaxFile =>
          p \in DOMAIN index /\ (p \notin blind => index[p].data = disk[p].data)

\* When in the end the user does nothing but stage everything, whenever they can, the index
\* comes to be what is on disk, also if a file was edited or a command died under an earlier
\* stage.
StagingConverges ==
    /\ <>[](run.cmd \in {"none", "stage"})
    /\ <>[][Tick \/ StageStep \/ StageBegin(Paths)]_vars
    /\ WF_vars(StageBegin(Paths))
    => <>[]Captured
=============================================================================
