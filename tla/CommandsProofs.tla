--------------------------- MODULE CommandsProofs ---------------------------
(***************************************************************************)
(* Proofs about Commands for any paths, contents, lengths and bounds:      *)
(* however the steps of a command, the edits of the user and deaths of the *)
(* process fall, types are kept, nothing on disk names a blob that was not *)
(* synced, the fast check is sound, stashed work is kept, and a command    *)
(* that runs alone and to its end is one step of Workspace.                *)
(***************************************************************************)
EXTENDS Commands, TLAPS

----------------------------------------------------------------------------
\* The operators on directories, indexes and trees.

LEMMA OverIs ==
    ASSUME NEW a, NEW b
    PROVE  /\ DOMAIN W!Over(a, b) = DOMAIN a \cup DOMAIN b
           /\ \A p \in DOMAIN a : W!Over(a, b)[p] = a[p]
           /\ \A p \in DOMAIN b \ DOMAIN a : W!Over(a, b)[p] = b[p]
  BY DEF W!Over

LEMMA PutIs ==
    ASSUME NEW f, NEW p, NEW v
    PROVE  /\ DOMAIN Put(f, p, v) = DOMAIN f \cup {p}
           /\ Put(f, p, v)[p] = v
           /\ \A q \in DOMAIN f \ {p} : Put(f, p, v)[q] = f[q]
  BY DEF Put, One, W!Over

LEMMA RestrictIs ==
    ASSUME NEW a, NEW S
    PROVE  /\ DOMAIN Restrict(a, S) = S
           /\ \A p \in S : Restrict(a, S)[p] = a[p]
  BY DEF Restrict

LEMMA WithoutIs ==
    ASSUME NEW a, NEW S
    PROVE  /\ DOMAIN W!Without(a, S) = DOMAIN a \ S
           /\ \A p \in DOMAIN a \ S : W!Without(a, S)[p] = a[p]
  BY DEF W!Without, W!Restrict

LEMMA ContentsIs ==
    ASSUME NEW f
    PROVE  /\ DOMAIN W!Contents(f) = DOMAIN f
           /\ \A p \in DOMAIN f : W!Contents(f)[p] = f[p].data
  BY DEF W!Contents

LEMMA PartialIs ==
    ASSUME NEW S, NEW f
    PROVE  f \in W!Partial(S) <=> /\ DOMAIN f \subseteq Paths
                                  /\ f \in [DOMAIN f -> S]
  <1>1. ASSUME f \in W!Partial(S)
        PROVE  DOMAIN f \subseteq Paths /\ f \in [DOMAIN f -> S]
    BY <1>1 DEF W!Partial
  <1>2. ASSUME DOMAIN f \subseteq Paths, f \in [DOMAIN f -> S]
        PROVE  f \in W!Partial(S)
    BY <1>2 DEF W!Partial
  <1> QED BY <1>1, <1>2

\* A value of a directory, an index, a tree.
LEMMA DirIs ==
    ASSUME NEW f \in W!Partial(W!Stat), NEW p \in DOMAIN f
    PROVE  p \in Paths /\ f[p].data \in Data /\ f[p].mtime \in 0 .. MaxTime
  <1>1. f[p] \in W!Stat /\ p \in Paths BY PartialIs
  <1> QED BY <1>1 DEF W!Stat

LEMMA IndexIs ==
    ASSUME NEW f \in W!Partial(Entry), NEW p \in DOMAIN f
    PROVE  p \in Paths /\ f[p].data \in Data /\ f[p].mtime \in 0 .. MaxTime
  <1>1. f[p] \in Entry /\ p \in Paths BY PartialIs
  <1> QED BY <1>1 DEF Entry

LEMMA TreeIs ==
    ASSUME NEW f \in W!Trees, NEW p \in DOMAIN f
    PROVE  p \in Paths /\ f[p] \in Data
  <1>1. f \in W!Partial(Data) BY DEF W!Trees
  <1> QED BY <1>1, PartialIs

LEMMA OverType ==
    ASSUME NEW S, NEW f \in W!Partial(S), NEW g \in W!Partial(S)
    PROVE  W!Over(f, g) \in W!Partial(S)
  <1>1. DOMAIN f \subseteq Paths /\ f \in [DOMAIN f -> S] BY PartialIs
  <1>2. DOMAIN g \subseteq Paths /\ g \in [DOMAIN g -> S] BY PartialIs
  <1>3. W!Over(f, g) \in [DOMAIN f \cup DOMAIN g -> S] BY <1>1, <1>2 DEF W!Over
  <1> QED BY <1>1, <1>2, <1>3, PartialIs

LEMMA PutType ==
    ASSUME NEW S, NEW f \in W!Partial(S), NEW p \in Paths, NEW v \in S
    PROVE  Put(f, p, v) \in W!Partial(S)
  <1>1. One(p, v) \in [{p} -> S] BY DEF One
  <1>2. One(p, v) \in W!Partial(S) BY <1>1, PartialIs
  <1> QED BY <1>2, OverType DEF Put

LEMMA RestrictType ==
    ASSUME NEW S, NEW f \in W!Partial(S), NEW D, D \subseteq DOMAIN f
    PROVE  Restrict(f, D) \in W!Partial(S)
  <1>1. DOMAIN f \subseteq Paths /\ f \in [DOMAIN f -> S] BY PartialIs
  <1>2. Restrict(f, D) \in [D -> S] BY <1>1 DEF Restrict
  <1> QED BY <1>1, <1>2, PartialIs

LEMMA WithoutType ==
    ASSUME NEW S, NEW f \in W!Partial(S), NEW D
    PROVE  W!Without(f, D) \in W!Partial(S)
  <1>1. DOMAIN f \subseteq Paths /\ f \in [DOMAIN f -> S] BY PartialIs
  <1>2. W!Without(f, D) \in [DOMAIN f \ D -> S] BY <1>1 DEF W!Without, W!Restrict
  <1> QED BY <1>1, <1>2, PartialIs

LEMMA NoTreeType == ASSUME NEW S PROVE NoTree \in W!Partial(S)
  <1>1. NoTree \in [{} -> S] BY DEF NoTree, W!NoTree
  <1> QED BY <1>1, PartialIs

\* Contents of a directory or an index.
LEMMA ContentsType ==
    ASSUME NEW f, f \in W!Partial(W!Stat) \/ f \in W!Partial(Entry)
    PROVE  W!Contents(f) \in W!Trees
  <1>1. /\ DOMAIN f \subseteq Paths
        /\ f \in [DOMAIN f -> W!Stat] \/ f \in [DOMAIN f -> Entry]
    BY PartialIs
  <1>2. \A p \in DOMAIN f : f[p].data \in Data BY <1>1 DEF W!Stat, Entry
  <1>3. W!Contents(f) \in [DOMAIN f -> Data] BY <1>2 DEF W!Contents
  <1> QED BY <1>1, <1>3, PartialIs DEF W!Trees

LEMMA HeadType == ASSUME TypeOK PROVE head \in W!Trees
  BY NoTreeType DEF TypeOK, W!Trees

LEMMA StashedType == ASSUME TypeOK PROVE Stashed \in W!Stash
  <1> DEFINE looks == {p \in DOMAIN index \cap DOMAIN disk : Looks(index, disk, p)}
  <1>1. W!Contents(index) \in W!Trees /\ W!Contents(disk) \in W!Trees
    BY ContentsType DEF TypeOK
  <1>2. looks \subseteq DOMAIN W!Contents(disk) /\ looks \subseteq DOMAIN W!Contents(index)
    BY ContentsIs
  <1>3. Restrict(W!Contents(disk), looks) \in W!Trees
    BY <1>1, <1>2, RestrictType DEF W!Trees
  <1>4. DOMAIN Restrict(W!Contents(disk), looks) = looks BY RestrictIs
  <1> QED BY <1>1, <1>2, <1>3, <1>4 DEF Stashed, W!Stash

----------------------------------------------------------------------------
\* The command in progress.

LEMMA IdleType == Idle \in Runs
  BY NoTreeType DEF Idle, Runs, W!Trees

\* A step of a command: RunOK holds of the new state of it.
LEMMA GoesOK ==
    ASSUME TypeOK, run.cmd # "none", NEW r \in Runs, run' = r, history' = history,
           r.cmd = run.cmd, r.todo \cup r.cur \cup DOMAIN r.over \subseteq DOMAIN r.goal,
           run.cmd # "save" => r.goal = run.goal /\ r.gone \subseteq run.gone, r.at \in Places[r.cmd],
           r.at = "files" \/ r.cur = {}, run.cmd = "pop" => stashes' = stashes
    PROVE  RunOK'
  <1>1. r # Idle BY DEF Idle
  <1> QED BY <1>1 DEF TypeOK, RunOK

\* The start of a command.
LEMMA BeginOK ==
    ASSUME NEW r \in Runs, run' = r, r.cmd # "none", r.todo \cup r.cur \cup DOMAIN r.over \subseteq DOMAIN r.goal,
           r.cmd = "detach" => r.goal \in history', r.at \in Places[r.cmd], r.cur = {},
           r.cmd = "pop" => stashes' # <<>>, r.cmd = "stage" => r.goal = NoTree,
           r.cmd \in {"stage", "apply", "pop"} => r.gone = {}
    PROVE  RunOK'
  <1>1. r # Idle BY DEF Idle
  <1> QED BY <1>1 DEF RunOK

LEMMA EndsOK == ASSUME run' = Idle PROVE RunOK'
  <1>1. /\ Idle.cmd = "none" /\ Idle.todo \cup Idle.cur \cup DOMAIN Idle.over \subseteq DOMAIN Idle.goal
        /\ Idle.cur = {} /\ Idle.at \in Places[Idle.cmd]
    BY DEF Idle, Places, NoTree, W!NoTree
  <1> QED BY <1>1, IdleType DEF RunOK

LEMMA StaysOK ==
    ASSUME RunOK, run' = run, history \subseteq history', stashes' = stashes
    PROVE  RunOK'
  BY DEF RunOK

\* Whatever is under way has a command.
LEMMA UnderWay ==
    ASSUME TypeOK, run.at # "idle" \/ run.cur # {}
    PROVE  run.cmd # "none"
  BY DEF TypeOK, RunOK, Idle

\* Only a stash is at flush or put, only a stage at removes.
LEMMA At ==
    ASSUME TypeOK
    PROVE  /\ run.at \in {"flush", "put"} => run.cmd = "save"
           /\ run.at = "removes" => run.cmd = "stage"
           /\ run.at = "files" => run.cmd # "none"
           /\ run.at = "end" => run.cmd \in {"stage", "detach", "pop"}
  BY DEF TypeOK, RunOK, Places, Runs

LEMMA DisturbedType ==
    ASSUME TypeOK, Disturbs \/ disturbed' = disturbed
    PROVE  disturbed' \in BOOLEAN
  <1>1. disturbed \in BOOLEAN BY DEF TypeOK
  <1> QED BY <1>1, Zenon DEF Disturbs

----------------------------------------------------------------------------
\* Types, action by action.

LEMMA TypeInit == Init => TypeOK
  <1> SUFFICES ASSUME Init PROVE TypeOK OBVIOUS
  <1>1. RunOK BY IdleType DEF Init, RunOK, Idle, Places
  <1>2. now \in 0 .. MaxTime BY BoundAssumption DEF Init
  <1>3. /\ disk \in W!Partial(W!Stat) /\ index \in W!Partial(Entry) /\ work \in W!Trees
    BY NoTreeType DEF Init, W!Trees
  <1>4. /\ head \in history \cup {NoTree} /\ history \subseteq W!Trees \ {NoTree}
        /\ durable \subseteq Data /\ blind \subseteq Paths /\ blindIx \subseteq Paths
    BY DEF Init
  <1>5. disturbed \in BOOLEAN BY Zenon DEF Init
  <1>6. stashes \in Seq(W!Stash)
    <2>1. <<>> \in Seq(W!Stash) OBVIOUS
    <2> QED BY <2>1 DEF Init
  <1> QED BY <1>1, <1>2, <1>3, <1>4, <1>5, <1>6 DEF TypeOK

\* A file written now is a file of the directory.
LEMMA WriteType ==
    ASSUME TypeOK, NEW p \in Paths, NEW c \in Data, Write(p, c)
    PROVE  disk' \in W!Partial(W!Stat) /\ blind' \subseteq Paths
  <1>1. [data |-> c, mtime |-> now] \in W!Stat BY DEF TypeOK, W!Stat
  <1>2. blind' \subseteq Paths BY DEF Write, Marked, TypeOK
  <1> QED BY <1>1, <1>2, PutType DEF Write, TypeOK

LEMMA MarkedType ==
    ASSUME NEW S \in SUBSET Paths, NEW ix, NEW p \in Paths
    PROVE  Marked(S, ix, p) \subseteq Paths
  BY DEF Marked

\* What Edit, Delete, Tick and Crash leave alone.
LEMMA TypeUser ==
    ASSUME TypeOK, User
    PROVE  TypeOK'
  <1> USE DisturbedType
  <1>1. ASSUME NEW p \in Paths, NEW c \in Data, Edit(p, c) PROVE TypeOK'
    <2>1. disk' \in W!Partial(W!Stat) /\ blind' \subseteq Paths BY <1>1, WriteType DEF Edit
    <2>2. work' \in W!Trees BY <1>1, WithoutType DEF Edit, TypeOK, W!Trees
    <2>3. RunOK' BY <1>1, StaysOK DEF Edit, TypeOK
    <2>4. blindIx' \subseteq Paths BY <1>1, MarkedType DEF Edit, TypeOK
    <2>5. disturbed' \in BOOLEAN BY <1>1 DEF Edit
    <2> QED BY <1>1, <2>1, <2>2, <2>3, <2>4, <2>5 DEF Edit, TypeOK
  <1>2. ASSUME NEW p \in Paths, Delete(p) PROVE TypeOK'
    <2>1. disk' \in W!Partial(W!Stat) BY <1>2, WithoutType DEF Delete, Unlink, TypeOK
    <2>2. work' \in W!Trees BY <1>2, WithoutType DEF Delete, TypeOK, W!Trees
    <2>3. RunOK' BY <1>2, StaysOK DEF Delete, TypeOK
    <2>4. disturbed' \in BOOLEAN BY <1>2 DEF Delete
    <2> QED BY <1>2, <2>1, <2>2, <2>3, <2>4 DEF Delete, Unlink, TypeOK
  <1>3. CASE Tick
    <2>1. now' \in 0 .. MaxTime BY <1>3, BoundAssumption DEF Tick, TypeOK
    <2>2. RunOK' BY <1>3, StaysOK DEF Tick, TypeOK
    <2>3. disturbed' \in BOOLEAN
      <3>1. Disturbs \/ disturbed' = disturbed BY <1>3 DEF Tick
      <3> QED BY <3>1
    <2> QED BY <1>3, <2>1, <2>2, <2>3 DEF Tick, TypeOK
  <1>4. CASE Crash
    <2>1. RunOK' BY <1>4, EndsOK DEF Crash
    <2>2. disturbed' \in BOOLEAN BY <1>4 DEF Crash
    <2> QED BY <1>4, <2>1, <2>2 DEF Crash, TypeOK
  <1> QED BY <1>1, <1>2, <1>3, <1>4 DEF User

LEMMA TypeStage ==
    ASSUME TypeOK, StageStep \/ \E S \in SUBSET Paths : StageBegin(S)
    PROVE  TypeOK'
  <1>1. ASSUME NEW S \in SUBSET Paths, StageBegin(S) PROVE TypeOK'
    <2> DEFINE r == [Idle EXCEPT !.cmd = "stage", !.at = "removes", !.ix = index,
                                 !.stats = Restrict(disk, ToStage(S))]
    <2>1. ToStage(S) \subseteq DOMAIN disk BY DEF ToStage
    <2>2. Restrict(disk, ToStage(S)) \in W!Partial(W!Stat) BY <2>1, RestrictType DEF TypeOK
    <2>3. r \in Runs BY <2>2, IdleType DEF TypeOK, Runs
    <2>4. /\ r.cmd = "stage" /\ r.todo \cup r.cur \cup DOMAIN r.over \subseteq DOMAIN r.goal
          /\ r.at \in Places[r.cmd] /\ r.cur = {} /\ r.gone = {} /\ r.goal = NoTree
      BY DEF Idle, Places, NoTree, W!NoTree
    <2>5. run' = r BY <1>1 DEF StageBegin, Begin
    <2> HIDE DEF r
    <2>6. RunOK' BY <2>3, <2>4, <2>5, BeginOK
    <2> QED BY <1>1, <2>6 DEF StageBegin, Begin, TypeOK
  <1>2. CASE StageRemoves
    <2> DEFINE ix == Restrict(run.ix, DOMAIN run.ix \cap DOMAIN disk)
               r  == [run EXCEPT !.at = "files", !.ix = ix]
    <2>1. run \in Runs /\ run.cmd # "none" BY <1>2, UnderWay DEF StageRemoves, TypeOK, RunOK
    <2>2. ix \in W!Partial(Entry) BY <2>1, RestrictType DEF Runs
    <2>3. r \in Runs BY <2>1, <2>2 DEF Runs
    <2>4. /\ r.cmd = run.cmd /\ r.goal = run.goal /\ r.todo = run.todo /\ r.cur = run.cur
          /\ r.over = run.over /\ r.gone = run.gone
          /\ r.at \in Places[r.cmd]
      BY <1>2, <2>1, At DEF Runs, Places, StageRemoves
    <2>5. run' = r BY <1>2 DEF StageRemoves, Goes
    <2> HIDE DEF r
    <2>6. RunOK' BY <1>2, <2>1, <2>3, <2>4, <2>5, GoesOK DEF StageRemoves, TypeOK, RunOK
    <2> QED BY <1>2, <2>6 DEF StageRemoves, Goes, TypeOK
  <1>3. ASSUME NEW p \in Paths, StageRead(p) PROVE TypeOK'
    <2> DEFINE entry == [data |-> disk[p].data, mtime |-> run.stats[p].mtime,
                         size |-> Size[run.stats[p].data]]
               ix    == IF p \in DOMAIN disk THEN Put(run.ix, p, entry) ELSE run.ix
               r     == [run EXCEPT !.stats = W!Without(run.stats, {p}), !.ix = ix]
    <2>1. run \in Runs /\ run.cmd # "none" BY <1>3 DEF StageRead, TypeOK, RunOK
    <2>2. ix \in W!Partial(Entry)
      <3>1. CASE p \in DOMAIN disk
        <4>1. disk[p].data \in Data BY <3>1, DirIs DEF TypeOK
        <4>2. run.stats[p].mtime \in 0 .. MaxTime /\ run.stats[p].data \in Data
          BY <1>3, <2>1, DirIs DEF StageRead, Runs
        <4>3. entry \in Entry BY <4>1, <4>2 DEF Entry
        <4> HIDE DEF entry
        <4> QED BY <2>1, <4>3, <3>1, PutType DEF Runs
      <3> QED BY <2>1, <3>1 DEF Runs
    <2>3. W!Without(run.stats, {p}) \in W!Partial(W!Stat) BY <2>1, WithoutType DEF Runs
    <2>4. run' = r BY <1>3 DEF StageRead, Goes
    <2> HIDE DEF ix
    <2>5. r \in Runs BY <2>1, <2>2, <2>3 DEF Runs
    <2>6. /\ r.cmd = run.cmd /\ r.goal = run.goal /\ r.todo = run.todo /\ r.cur = run.cur
          /\ r.over = run.over /\ r.gone = run.gone
          /\ r.at \in Places[r.cmd] /\ r.at = "files"
      BY <1>3, <2>1, At DEF Runs, Places, StageRead
    <2> HIDE DEF r
    <2>7. RunOK' BY <1>3, <2>1, <2>4, <2>5, <2>6, GoesOK DEF StageRead, TypeOK, RunOK
    <2> QED BY <1>3, <2>7 DEF StageRead, Goes, TypeOK
  <1>4. CASE StageSync
    <2> DEFINE r == [run EXCEPT !.at = "end"]
    <2>1. run \in Runs /\ run.cmd # "none" BY <1>4 DEF StageSync, TypeOK, RunOK
    <2>2. r \in Runs BY <2>1 DEF Runs
    <2>3. /\ r.cmd = run.cmd /\ r.goal = run.goal /\ r.todo = run.todo /\ r.cur = run.cur
          /\ r.over = run.over /\ r.gone = run.gone
          /\ r.at \in Places[r.cmd]
      BY <1>4, <2>1, At DEF Runs, Places, StageSync
    <2>4. run' = r BY <1>4 DEF StageSync, Goes
    <2> HIDE DEF r
    <2>7. run.cur = {} BY <1>4, <2>1 DEF StageSync, TypeOK, RunOK, NoTree, W!NoTree
    <2>5. RunOK' BY <1>4, <2>1, <2>2, <2>3, <2>4, <2>7, GoesOK DEF StageSync, TypeOK, RunOK
    <2>6. \A p \in DOMAIN run.ix : run.ix[p].data \in Data
      BY <2>1, IndexIs DEF Runs
    <2> QED BY <1>4, <2>5, <2>6 DEF StageSync, Goes, TypeOK
  <1>5. CASE StageSave
    <2>1. RunOK' BY <1>5, EndsOK DEF StageSave, Ends
    <2>2. index' \in W!Partial(Entry) BY <1>5 DEF StageSave, TypeOK, RunOK, Runs
    <2> QED BY <1>5, <2>1, <2>2 DEF StageSave, Ends, TypeOK
  <1> QED BY <1>1, <1>2, <1>3, <1>4, <1>5 DEF StageStep

\* The steps that checkout, stash and apply share.
LEMMA TypeFiles ==
    ASSUME TypeOK, NEW p \in Paths, RemoveFile(p) \/ WriteFile(p) \/ RecordFile(p) \/ Overlay(p)
    PROVE  TypeOK'
  <1>0. /\ run \in Runs
        /\ run.todo \cup run.cur \cup DOMAIN run.over \subseteq DOMAIN run.goal
        /\ run.at = "files" \/ run.cur = {}
        /\ run.at \in Places[run.cmd]
    BY DEF TypeOK, RunOK
  <1>1. CASE RemoveFile(p)
    <2> DEFINE r == [run EXCEPT !.gone = run.gone \ {p}]
    <2>1. run' = r BY <1>1 DEF RemoveFile, Goes
    <2>2. run.cmd # "none" BY <1>1, At DEF RemoveFile
    <2>3. r \in Runs BY <1>0 DEF Runs
    <2>4. /\ r.cmd = run.cmd /\ r.goal = run.goal /\ r.todo = run.todo /\ r.cur = run.cur
          /\ r.over = run.over
          /\ r.at = run.at /\ DOMAIN r.over \subseteq DOMAIN run.over /\ r.gone \subseteq run.gone
      BY <1>0 DEF Runs
    <2> HIDE DEF r
    <2>5. RunOK' BY <1>0, <1>1, <2>1, <2>2, <2>3, <2>4, GoesOK DEF RemoveFile
    <2>6. disk' \in W!Partial(W!Stat) BY <1>1, WithoutType DEF RemoveFile, Unlink, TypeOK
    <2> QED BY <1>1, <2>5, <2>6 DEF RemoveFile, Unlink, Goes, TypeOK
  <1>2. CASE WriteFile(p)
    <2> DEFINE r == [run EXCEPT !.todo = run.todo \ {p}, !.cur = {p}]
    <2>1. run' = r BY <1>2 DEF WriteFile, Goes
    <2>2. run.cmd # "none" BY <1>2, At DEF WriteFile
    <2>3. r \in Runs BY <1>0 DEF Runs
    <2>4. /\ r.cmd = run.cmd /\ r.goal = run.goal /\ r.todo \cup r.cur \subseteq run.todo \cup {p}
          /\ r.at = run.at /\ DOMAIN r.over \subseteq DOMAIN run.over /\ r.gone \subseteq run.gone
      BY <1>0 DEF Runs
    <2>5. p \in DOMAIN run.goal BY <1>0, <1>2 DEF WriteFile
    <2> HIDE DEF r
    <2>6. RunOK' BY <1>0, <1>2, <2>1, <2>2, <2>3, <2>4, <2>5, GoesOK DEF WriteFile
    <2>7. run.goal[p] \in Data BY <1>0, <2>5, TreeIs DEF Runs
    <2>8. disk' \in W!Partial(W!Stat) /\ blind' \subseteq Paths BY <1>2, <2>7, WriteType DEF WriteFile
    <2> QED BY <1>2, <2>6, <2>8 DEF WriteFile, Goes, TypeOK
  <1>3. CASE RecordFile(p)
    <2> DEFINE entry == [data |-> run.goal[p], mtime |-> disk[p].mtime, size |-> Size[disk[p].data]]
               r     == [run EXCEPT !.cur = {}, !.ix = Put(run.ix, p, entry)]
    <2>1. run' = r BY <1>3 DEF RecordFile, Goes
    <2>2. run.cmd # "none" BY <1>3, UnderWay DEF RecordFile
    <2>3. p \in DOMAIN run.goal /\ p \in DOMAIN disk BY <1>0, <1>3 DEF RecordFile
    <2>4. entry \in Entry
      <3>1. run.goal[p] \in Data BY <1>0, <2>3, TreeIs DEF Runs
      <3>2. disk[p].data \in Data /\ disk[p].mtime \in 0 .. MaxTime BY <2>3, DirIs DEF TypeOK
      <3> QED BY <3>1, <3>2 DEF Entry
    <2> HIDE DEF entry
    <2>5. Put(run.ix, p, entry) \in W!Partial(Entry) BY <1>0, <2>4, PutType DEF Runs
    <2>6. r \in Runs BY <1>0, <2>5 DEF Runs
    <2>7. /\ r.cmd = run.cmd /\ r.goal = run.goal /\ r.todo = run.todo /\ r.cur = {}
          /\ r.at = run.at /\ DOMAIN r.over \subseteq DOMAIN run.over /\ r.gone \subseteq run.gone
      BY <1>0 DEF Runs
    <2> HIDE DEF r
    <2>8. RunOK' BY <1>0, <1>3, <2>1, <2>2, <2>6, <2>7, GoesOK DEF RecordFile
    <2> QED BY <1>3, <2>8 DEF RecordFile, Goes, TypeOK
  <1>4. CASE Overlay(p)
    <2> DEFINE r == [run EXCEPT !.over = W!Without(run.over, {p})]
    <2>1. run' = r BY <1>4 DEF Overlay, Goes
    <2>2. run.cmd # "none" BY <1>4, At DEF Overlay, Overlays
    <2>3. W!Without(run.over, {p}) \in W!Trees BY <1>0, WithoutType DEF Runs, W!Trees
    <2>4. r \in Runs BY <1>0, <2>3 DEF Runs
    <2>5. /\ r.cmd = run.cmd /\ r.goal = run.goal /\ r.todo = run.todo /\ r.cur = run.cur
          /\ r.at = run.at /\ r.over = W!Without(run.over, {p}) /\ r.gone = run.gone
      BY <1>0 DEF Runs
    <2> HIDE DEF r
    <2>9. DOMAIN r.over \subseteq DOMAIN run.over BY <2>5 DEF W!Without, W!Restrict
    <2>6. RunOK' BY <1>0, <1>4, <2>1, <2>2, <2>4, <2>5, <2>9, GoesOK DEF Overlay
    <2>7. run.over[p] \in Data BY <1>0, <1>4, TreeIs DEF Overlay, Runs
    <2>8. disk' \in W!Partial(W!Stat) /\ blind' \subseteq Paths BY <1>4, <2>7, WriteType DEF Overlay
    <2>10. blindIx' \subseteq Paths BY <1>4, MarkedType DEF Overlay, TypeOK
    <2> QED BY <1>4, <2>6, <2>8, <2>10 DEF Overlay, Goes, TypeOK
  <1> QED BY <1>1, <1>2, <1>3, <1>4

\* The ends of checkout, stash and pop, and the steps of a stash before it restores.
LEMMA TypeEnds ==
    ASSUME TypeOK, SaveIndex \/ DetachEnd \/ SaveFlush \/ SavePut \/ PopEnd
    PROVE  TypeOK'
  <1>0. /\ run \in Runs
        /\ run.todo \cup run.cur \cup DOMAIN run.over \subseteq DOMAIN run.goal
        /\ run.at = "files" \/ run.cur = {}
        /\ run.at \in Places[run.cmd]
    BY DEF TypeOK, RunOK
  <1>1. CASE SaveIndex
    <2> DEFINE r == [run EXCEPT !.at = "end"]
    <2>1. index' \in W!Partial(Entry) BY <1>0, <1>1 DEF SaveIndex, Runs
    <2>2. RunOK'
      <3>1. CASE run.cmd \in {"detach", "pop"}
        <4>1. run' = r BY <1>1, <3>1 DEF SaveIndex, Goes
        <4>2. r \in Runs BY <1>0 DEF Runs
        <4>3. /\ r.cmd = run.cmd /\ r.goal = run.goal /\ r.todo = run.todo /\ r.cur = run.cur
              /\ r.over = run.over /\ r.gone = run.gone /\ r.at \in Places[r.cmd]
          BY <1>0, <3>1 DEF Runs, Places
        <4> HIDE DEF r
        <4> QED BY <1>0, <1>1, <3>1, <4>1, <4>2, <4>3, GoesOK DEF SaveIndex
      <3>2. CASE run.cmd \notin {"detach", "pop"}
        BY <1>1, <3>2, EndsOK DEF SaveIndex, Ends
      <3> QED BY <3>1, <3>2
    <2>3. disturbed' = disturbed BY <1>1 DEF SaveIndex, Goes, Ends
    <2>4. blind' \subseteq Paths /\ blindIx' \subseteq Paths BY <1>1 DEF SaveIndex, Ends, TypeOK
    <2> QED BY <1>1, <2>1, <2>2, <2>3, <2>4 DEF SaveIndex, TypeOK
  <1>2. CASE DetachEnd
    <2>1. RunOK' BY <1>2, EndsOK DEF DetachEnd, Ends
    <2>2. head' \in history BY <1>2 DEF DetachEnd, TypeOK, RunOK
    <2> QED BY <1>2, <2>1, <2>2 DEF DetachEnd, Ends, TypeOK
  <1>3. CASE SaveFlush
    <2> DEFINE r == [run EXCEPT !.at = "put"]
    <2>1. run' = r BY <1>3 DEF SaveFlush, Goes
    <2>2. run.cmd = "save" BY <1>3, At DEF SaveFlush
    <2>3. r \in Runs BY <1>0 DEF Runs
    <2>4. /\ r.cmd = run.cmd /\ r.goal = run.goal /\ r.todo = run.todo /\ r.cur = run.cur
          /\ r.over = run.over /\ r.gone = run.gone
          /\ r.at \in Places[r.cmd]
      BY <1>0, <2>2 DEF Runs, Places
    <2> HIDE DEF r
    <2>5. RunOK' BY <1>0, <1>3, <2>1, <2>2, <2>3, <2>4, GoesOK DEF SaveFlush
    <2>6. \A p \in DOMAIN run.over : run.over[p] \in Data BY <1>0, TreeIs DEF Runs
    <2> QED BY <1>3, <2>5, <2>6 DEF SaveFlush, Goes, TypeOK
  <1>4. CASE SavePut
    <2> DEFINE r == [run EXCEPT !.at = "files", !.ix = NoTree,
                                !.gone = DOMAIN run.ix \ DOMAIN head, !.goal = head,
                                !.todo = DOMAIN head, !.over = NoTree]
    <2>1. run' = r BY <1>4 DEF SavePut, Goes
    <2>2. run.cmd = "save" BY <1>4, At DEF SavePut
    <2>3. DOMAIN head \subseteq Paths /\ DOMAIN run.ix \subseteq Paths
      BY <1>0, HeadType, PartialIs DEF W!Trees, Runs
    <2>4. r \in Runs BY <1>0, <2>3, HeadType, NoTreeType DEF Runs, W!Trees
    <2>5. /\ r.cmd = run.cmd /\ r.goal = head /\ r.todo = DOMAIN head /\ r.at = "files" /\ r.cur = run.cur
          /\ r.over = NoTree
      BY <1>0 DEF Runs
    <2>6. run.cur = {} BY <1>0, <1>4 DEF SavePut
    <2>7. r.at \in Places[r.cmd] BY <2>2, <2>5 DEF Places
    <2> HIDE DEF r
    <2>8. RunOK' BY <1>0, <1>4, <2>1, <2>2, <2>4, <2>5, <2>6, <2>7, GoesOK DEF SavePut, NoTree, W!NoTree
    <2>9. stashes' \in Seq(W!Stash)
      <3>1. [staged |-> run.goal, dirty |-> run.over] \in W!Stash
        BY <1>0 DEF W!Stash, Runs
      <3>2. stashes \in Seq(W!Stash) BY DEF TypeOK
      <3> QED BY <1>4, <3>1, <3>2 DEF SavePut
    <2> QED BY <1>4, <2>8, <2>9 DEF SavePut, Goes, TypeOK
  <1>5. CASE PopEnd
    <2>1. RunOK' BY <1>5, EndsOK DEF PopEnd, Ends
    <2>2. stashes' \in Seq(W!Stash)
      <3>1. stashes \in Seq(W!Stash) /\ stashes # <<>> BY <1>5 DEF TypeOK, RunOK, PopEnd
      <3> QED BY <1>5, <3>1 DEF PopEnd
    <2> QED BY <1>5, <2>1, <2>2 DEF PopEnd, Ends, TypeOK
  <1> QED BY <1>1, <1>2, <1>3, <1>4, <1>5

LEMMA TypeStart ==
    ASSUME TypeOK, Start
    PROVE  TypeOK'
  <1>1. CASE \E S \in SUBSET Paths : StageBegin(S) BY <1>1, TypeStage
  <1>2. CASE Commit
    <2>1. head' \in W!Trees BY <1>2, ContentsType DEF Commit, TypeOK
    <2>2. head' # NoTree
      <3>1. DOMAIN head' # {} BY <1>2, ContentsIs DEF Commit
      <3> QED BY <3>1 DEF NoTree, W!NoTree
    <2>3. RunOK' BY <1>2, StaysOK DEF Commit, TypeOK
    <2> QED BY <1>2, <2>1, <2>2, <2>3 DEF Commit, TypeOK
  <1>3. ASSUME NEW tree \in history, NEW cmd \in {"checkout", "detach"}, CheckoutBegin(tree, cmd)
        PROVE  TypeOK'
    <2> DEFINE r == [Idle EXCEPT !.cmd = cmd, !.at = "files", !.gone = DOMAIN index \ DOMAIN tree,
                                 !.goal = tree, !.todo = DOMAIN tree]
    <2>1. run' = r BY <1>3 DEF CheckoutBegin, Begin
    <2>2. tree \in W!Trees /\ DOMAIN tree \subseteq Paths /\ DOMAIN index \subseteq Paths
      BY <1>3, PartialIs DEF TypeOK, W!Trees
    <2>3. r \in Runs BY <1>3, <2>2, IdleType DEF Runs
    <2>4. /\ r.cmd = cmd /\ r.todo \cup r.cur \cup DOMAIN r.over \subseteq DOMAIN r.goal
          /\ r.at \in Places[r.cmd] /\ r.cur = {} /\ r.goal = tree
      BY <1>3 DEF Idle, Places, NoTree, W!NoTree
    <2> HIDE DEF r
    <2>5. RunOK' BY <1>3, <2>1, <2>3, <2>4, BeginOK DEF CheckoutBegin
    <2>6. work' \in W!Trees BY <1>3, WithoutType DEF CheckoutBegin, TypeOK, W!Trees
    <2>7. head' \in history \cup {NoTree} BY <1>3 DEF CheckoutBegin, TypeOK
    <2> QED BY <1>3, <2>5, <2>6, <2>7 DEF CheckoutBegin, Begin, TypeOK
  <1>4. CASE SaveBegin
    <2> DEFINE r == [Idle EXCEPT !.cmd = "save", !.at = "flush", !.ix = index,
                                 !.goal = Stashed.staged, !.over = Stashed.dirty]
    <2>1. run' = r BY <1>4 DEF SaveBegin, Begin
    <2>2. Stashed.staged \in W!Trees /\ Stashed.dirty \in W!Trees
          /\ DOMAIN Stashed.dirty \subseteq DOMAIN Stashed.staged
      BY StashedType DEF W!Stash
    <2>3. r \in Runs BY <2>2, IdleType DEF Runs, TypeOK
    <2>4. /\ r.cmd = "save" /\ r.todo \cup r.cur \cup DOMAIN r.over \subseteq DOMAIN r.goal
          /\ r.at \in Places[r.cmd] /\ r.cur = {}
      BY <2>2 DEF Idle, Places
    <2> HIDE DEF r
    <2>5. RunOK' BY <2>1, <2>3, <2>4, BeginOK
    <2>6. work' \in W!Trees
      <3>1. W!Without(work, DOMAIN head \cup Missed) \in W!Trees
        BY WithoutType DEF TypeOK, W!Trees
      <3>2. Restrict(W!Contents(disk), (DOMAIN index \cap DOMAIN disk) \ Missed) \in W!Trees
        <4>1. W!Contents(disk) \in W!Trees BY ContentsType DEF TypeOK
        <4> QED BY <4>1, ContentsIs, RestrictType DEF W!Trees
      <3> QED BY <1>4, <3>1, <3>2, OverType DEF SaveBegin, W!Trees
    <2> QED BY <1>4, <2>5, <2>6 DEF SaveBegin, Begin, TypeOK
  <1>5. ASSUME NEW i \in 1 .. Len(stashes), NEW cmd \in {"apply", "pop"}, ApplyBegin(i, cmd)
        PROVE  TypeOK'
    <2> DEFINE st == stashes[i]
               r  == [Idle EXCEPT !.cmd = cmd, !.at = "files", !.ix = index,
                                  !.goal = st.staged, !.todo = DOMAIN st.staged, !.over = st.dirty]
    <2>1. run' = r BY <1>5 DEF ApplyBegin, Begin
    <2>2. stashes \in Seq(W!Stash) /\ st \in W!Stash BY <1>5 DEF TypeOK
    <2>3. st.staged \in W!Trees /\ st.dirty \in W!Trees
          /\ DOMAIN st.dirty \subseteq DOMAIN st.staged
      BY <2>2 DEF W!Stash
    <2> HIDE DEF st
    <2>4. DOMAIN st.staged \subseteq Paths BY <2>3, PartialIs DEF W!Trees
    <2>5. r \in Runs BY <1>5, <2>3, <2>4, IdleType DEF Runs, TypeOK
    <2>6. /\ r.cmd = cmd /\ r.todo \cup r.cur \cup DOMAIN r.over \subseteq DOMAIN r.goal
          /\ r.at \in Places[r.cmd] /\ r.cur = {} /\ r.gone = {}
      BY <1>5, <2>3 DEF Idle, Places
    <2> HIDE DEF r
    <2>7. stashes' # <<>> BY <1>5, <2>2 DEF ApplyBegin
    <2>8. RunOK' BY <1>5, <2>1, <2>5, <2>6, <2>7, BeginOK
    <2>9. work' \in W!Trees
      <3>1. W!Over(st.dirty, W!Over(st.staged, work)) \in W!Trees
        BY <2>3, OverType DEF TypeOK, W!Trees
      <3>2. W!Without(work, DOMAIN st.staged) \in W!Trees BY WithoutType DEF TypeOK, W!Trees
      <3> QED BY <1>5, <3>1, <3>2 DEF ApplyBegin, st
    <2> QED BY <1>5, <2>8, <2>9 DEF ApplyBegin, Begin, TypeOK
  <1> QED BY <1>1, <1>2, <1>3, <1>4, <1>5 DEF Start

LEMMA TypeNext == TypeOK /\ [Next]_vars => TypeOK'
  <1> SUFFICES ASSUME TypeOK, [Next]_vars PROVE TypeOK' OBVIOUS
  <1>1. CASE User BY <1>1, TypeUser
  <1>2. CASE Step BY <1>2, TypeStage, TypeFiles, TypeEnds DEF Step
  <1>3. CASE Start BY <1>3, TypeStart
  <1>4. CASE UNCHANGED vars BY <1>4 DEF vars, TypeOK, RunOK
  <1> QED BY <1>1, <1>2, <1>3, <1>4 DEF Next

\* Whatever a command, the user and death do, the state keeps its shape: the files a command
\* is about to write are among those of its tree, a stash's dirty files among its staged ones.
THEOREM TypeCorrect == Spec => []TypeOK
  BY TypeInit, TypeNext, PTL DEF Spec

----------------------------------------------------------------------------
\* The inductive invariants behind the three safety properties.

\* All that the files, the commits and the command in progress lead to.  What stage reads is
\* synced before its end, the dirty files of a stash before its ref is written.
Synced(tree)    == \A p \in DOMAIN tree : tree[p] \in durable
SyncedIndex(ix) == \A p \in DOMAIN ix : ix[p].data \in durable

DurableInv ==
    /\ SyncedIndex(index)
    /\ \A t \in history : Synced(t)
    /\ \A i \in 1 .. Len(stashes) : Synced(stashes[i].staged) /\ Synced(stashes[i].dirty)
    /\ (run.cmd = "stage" => run.at = "end") => SyncedIndex(run.ix)
    /\ Synced(run.goal)
    /\ run.at # "flush" => Synced(run.over)

\* The mtime of an entry identifies the contents of its file, in the index on disk and in
\* that of the command; a file just written, whose entry is still the one of before, has the
\* contents it was given.
Truth(ix, d, B) ==
    \A p \in (DOMAIN ix \cap DOMAIN d) \ B :
        ix[p].mtime = d[p].mtime => d[p].data = ix[p].data

TruthInv ==
    /\ Truth(index, disk, blind)
    /\ Truth(run.ix, disk, blindIx \cup run.cur)
    /\ \A p, q \in run.cur : p = q
    /\ \A p \in (run.cur \cap DOMAIN disk) \ blindIx : disk[p].data = run.goal[p]

\* A file whose contents are work is about to be lost only to a command that has them in a
\* stash, and pop ends with the files of its stash on disk.
InStash(p) == \E i \in 1 .. Len(stashes) : Holds(stashes[i], p, work[p])
OnDisk(p)  == p \in DOMAIN disk /\ disk[p].data = work[p]
Pending    == run.todo \cup DOMAIN run.over

SaveInv ==
    /\ run.at \in {"flush", "put"} =>
         /\ DOMAIN run.ix = DOMAIN run.goal
         /\ \A p \in DOMAIN work \cap (DOMAIN run.goal \cup DOMAIN head) :
              Holds([staged |-> run.goal, dirty |-> run.over], p, work[p]) \/ InStash(p)
    /\ run.at = "files" => \A p \in DOMAIN work \cap (run.gone \cup run.todo) : InStash(p)

PopInv ==
    LET st == stashes[1]
    IN  /\ run.goal = st.staged
        /\ \A p \in DOMAIN run.over : p \in DOMAIN st.dirty /\ run.over[p] = st.dirty[p]
        /\ run.todo # {} => run.over = st.dirty
        /\ \A p \in DOMAIN work \cap DOMAIN run.goal :
             /\ work[p] = W!Over(st.dirty, st.staged)[p]
             /\ p \notin Pending => OnDisk(p)
        /\ run.at = "end" => Pending = {}

KeptInv ==
    /\ \A p \in DOMAIN work : OnDisk(p) \/ InStash(p)
    /\ run.cmd \in {"checkout", "detach"} => (run.gone \cup run.todo) \cap DOMAIN work = {}
    /\ run.cmd = "apply" => Pending \cap DOMAIN work = {}
    /\ run.cmd = "save" => SaveInv
    /\ run.cmd = "pop" => PopInv

----------------------------------------------------------------------------
\* Whatever is named is synced.

LEMMA DurableInit == Init => DurableInv
  BY DEF Init, Idle, NoTree, W!NoTree, DurableInv, Synced, SyncedIndex

\* What the index, or the command's, gives as a tree.
LEMMA SyncedContents ==
    ASSUME NEW ix, SyncedIndex(ix)
    PROVE  Synced(W!Contents(ix))
  BY ContentsIs DEF SyncedIndex, Synced

\* durable grows.
LEMMA MoreDurable ==
    ASSUME durable \subseteq durable', NEW f
    PROVE  /\ Synced(f) => Synced(f)'
           /\ SyncedIndex(f) => SyncedIndex(f)'
  BY DEF Synced, SyncedIndex

LEMMA DurableNext == TypeOK /\ DurableInv /\ [Next]_vars => DurableInv'
  <1> SUFFICES ASSUME TypeOK, DurableInv, [Next]_vars PROVE DurableInv' OBVIOUS
  <1>0. run \in Runs /\ run.at \in Places[run.cmd] BY DEF TypeOK, RunOK
  <1>h. Synced(head) BY DEF TypeOK, DurableInv, Synced, NoTree, W!NoTree
  <1>n. Synced(NoTree) /\ SyncedIndex(NoTree) BY DEF Synced, SyncedIndex, NoTree, W!NoTree
  <1>e. ASSUME run' = Idle, UNCHANGED <<history, stashes, durable>>, SyncedIndex(index')
        PROVE  DurableInv'
    BY <1>e, <1>n DEF DurableInv, Idle, Synced, SyncedIndex
  <1>1. CASE User
    <2>1. CASE Crash
      <3>1. SyncedIndex(index') BY <2>1 DEF Crash, DurableInv
      <3> QED BY <1>e, <2>1, <3>1 DEF Crash
    <2>2. CASE ~Crash
      <3>1. UNCHANGED <<index, history, stashes, durable, run>>
        BY <1>1, <2>2 DEF User, Edit, Delete, Tick
      <3> QED BY <3>1 DEF DurableInv, Synced, SyncedIndex
    <2> QED BY <2>1, <2>2
  <1>2. CASE StageStep
    <2>1. CASE StageRemoves
      <3>1. /\ run'.cmd = run.cmd /\ run'.at = "files" /\ run.cmd = "stage"
            /\ run'.goal = run.goal /\ run'.over = run.over
        BY <1>0, <2>1, At DEF StageRemoves, Goes, Runs
      <3> QED BY <2>1, <3>1, At DEF StageRemoves, DurableInv, Synced, SyncedIndex
    <2>2. ASSUME NEW p \in Paths, StageRead(p) PROVE DurableInv'
      <3>1. /\ run'.cmd = run.cmd /\ run'.at = run.at
            /\ run'.goal = run.goal /\ run'.over = run.over
        BY <1>0, <2>2 DEF StageRead, Goes, Runs
      <3> QED BY <2>2, <3>1 DEF StageRead, DurableInv, Synced, SyncedIndex
    <2>3. CASE StageSync
      <3>1. /\ run'.cmd = run.cmd /\ run'.at = "end" /\ run'.ix = run.ix
            /\ run'.goal = run.goal /\ run'.over = run.over
        BY <1>0, <2>3 DEF StageSync, Goes, Runs
      <3>2. SyncedIndex(run.ix)' BY <2>3, <3>1 DEF StageSync, SyncedIndex
      <3> QED BY <2>3, <3>1, <3>2 DEF StageSync, DurableInv, Synced, SyncedIndex
    <2>4. CASE StageSave
      <3>1. SyncedIndex(index') BY <2>4 DEF StageSave, DurableInv
      <3> QED BY <1>e, <2>4, <3>1 DEF StageSave, Ends
    <2> QED BY <1>2, <2>1, <2>2, <2>3, <2>4 DEF StageStep
  <1>3. ASSUME NEW p \in Paths, RemoveFile(p) \/ WriteFile(p) \/ Overlay(p) PROVE DurableInv'
    <2>1. UNCHANGED <<index, history, stashes, durable>>
      BY <1>3 DEF RemoveFile, WriteFile, Overlay
    <2>2. /\ run'.cmd = run.cmd /\ run'.at = run.at /\ run'.ix = run.ix /\ run'.goal = run.goal
      BY <1>0, <1>3 DEF RemoveFile, WriteFile, Overlay, Goes, Runs
    <2>3. run.at # "flush" => Synced(run'.over)
      <3>1. run'.over \in {run.over, W!Without(run.over, {p})}
        BY <1>0, <1>3 DEF RemoveFile, WriteFile, Overlay, Goes, Runs
      <3>2. Synced(run.over) => Synced(W!Without(run.over, {p}))
        BY DEF Synced, W!Without, W!Restrict
      <3> QED BY <3>1, <3>2 DEF DurableInv
    <2> QED BY <2>1, <2>2, <2>3 DEF DurableInv, Synced, SyncedIndex
  <1>4. ASSUME NEW p \in Paths, RecordFile(p) PROVE DurableInv'
    <2> DEFINE entry == [data |-> run.goal[p], mtime |-> disk[p].mtime, size |-> Size[disk[p].data]]
    <2>1. UNCHANGED <<index, history, stashes, durable>> BY <1>4 DEF RecordFile
    <2>2. /\ run'.cmd = run.cmd /\ run'.at = run.at /\ run'.goal = run.goal
          /\ run'.over = run.over /\ run'.ix = Put(run.ix, p, entry)
      BY <1>0, <1>4 DEF RecordFile, Goes, Runs
    <2>3. p \in DOMAIN run.goal BY <1>4 DEF RecordFile, TypeOK, RunOK
    <2>4. entry.data \in durable BY <2>3 DEF DurableInv, Synced
    <2> HIDE DEF entry
    <2>5. SyncedIndex(run.ix) => SyncedIndex(run'.ix) 
      BY <2>2, <2>4 DEF SyncedIndex, Put, One, W!Over
    <2> QED BY <2>1, <2>2, <2>5 DEF DurableInv, Synced, SyncedIndex
  <1>5. CASE SaveIndex
    <2>1. UNCHANGED <<history, stashes, durable>> BY <1>5 DEF SaveIndex
    <2>2. SyncedIndex(run.ix) BY <1>5 DEF SaveIndex, DurableInv
    <2>3. CASE run' = Idle BY <1>5, <1>e, <2>1, <2>2, <2>3 DEF SaveIndex
    <2>4. CASE run' = [run EXCEPT !.at = "end"]
      <3>1. /\ run'.cmd = run.cmd /\ run'.ix = run.ix /\ run'.goal = run.goal
            /\ run'.over = run.over
        BY <1>0, <2>4 DEF Runs
      <3>2. run.at # "flush" BY <1>5 DEF SaveIndex
      <3> QED BY <1>5, <2>1, <2>2, <3>1, <3>2 DEF SaveIndex, DurableInv, Synced, SyncedIndex
    <2> QED BY <1>5, <2>3, <2>4 DEF SaveIndex, Goes, Ends
  <1>6. CASE DetachEnd
    <2>1. SyncedIndex(index') BY <1>6 DEF DetachEnd, DurableInv
    <2> QED BY <1>e, <1>6, <2>1 DEF DetachEnd, Ends
  <1>7. CASE SaveFlush
    <2>1. /\ run'.cmd = run.cmd /\ run'.ix = run.ix /\ run'.goal = run.goal
          /\ run'.over = run.over
      BY <1>0, <1>7 DEF SaveFlush, Goes, Runs
    <2>2. Synced(run.over)' BY <1>7, <2>1 DEF SaveFlush, Synced
    <2>3. run.cmd = "save" BY <1>7, At DEF SaveFlush
    <2> QED BY <1>7, <2>1, <2>2, <2>3 DEF SaveFlush, DurableInv, Synced, SyncedIndex
  <1>8. CASE SavePut
    <2> DEFINE st == [staged |-> run.goal, dirty |-> run.over]
    <2>1. run.cmd = "save" BY <1>8, At DEF SavePut
    <2>2. /\ run'.cmd = run.cmd /\ run'.ix = NoTree /\ run'.goal = head /\ run'.over = NoTree
      BY <1>0, <1>8 DEF SavePut, Goes, Runs
    <2>3. Synced(st.staged) /\ Synced(st.dirty) BY <1>8 DEF SavePut, DurableInv
    <2>4. \A i \in 1 .. Len(stashes') : Synced(stashes'[i].staged) /\ Synced(stashes'[i].dirty)
      <3>1. stashes' = <<st>> \o stashes /\ stashes \in Seq(W!Stash) BY <1>8 DEF SavePut, TypeOK
      <3>2. \A i \in 1 .. Len(stashes') : stashes'[i] = st \/ \E j \in 1 .. Len(stashes) : stashes'[i] = stashes[j]
        <4> HIDE DEF st
        <4> QED BY <3>1
      <3> QED BY <2>3, <3>2 DEF DurableInv
    <2>5. UNCHANGED <<index, history, durable>> BY <1>8 DEF SavePut
    <2> QED BY <1>h, <1>n, <2>1, <2>2, <2>4, <2>5 DEF DurableInv, Synced, SyncedIndex
  <1>9. CASE PopEnd
    <2>1. \A i \in 1 .. Len(stashes') : Synced(stashes'[i].staged) /\ Synced(stashes'[i].dirty)
      <3>1. stashes \in Seq(W!Stash) /\ stashes # <<>> /\ stashes' = Tail(stashes)
        BY <1>9 DEF PopEnd, TypeOK, RunOK
      <3>2. \A i \in 1 .. Len(stashes') : i + 1 \in 1 .. Len(stashes) /\ stashes'[i] = stashes[i + 1]
        BY <3>1
      <3> QED BY <3>2 DEF DurableInv
    <2>2. UNCHANGED <<index, history, durable>> /\ run' = Idle BY <1>9 DEF PopEnd, Ends
    <2> QED BY <1>n, <2>1, <2>2 DEF DurableInv, Idle, Synced, SyncedIndex
  <1>10. ASSUME NEW S \in SUBSET Paths, StageBegin(S) PROVE DurableInv'
    <2>1. UNCHANGED <<index, history, stashes, durable>> BY <1>10 DEF StageBegin
    <2>2. run'.cmd = "stage" /\ run'.at = "removes" /\ run'.goal = NoTree /\ run'.over = NoTree
      BY <1>10 DEF StageBegin, Begin, Idle
    <2> QED BY <1>n, <2>1, <2>2 DEF DurableInv, Synced, SyncedIndex
  <1>11. CASE Commit
    <2>1. Synced(head') BY <1>11, SyncedContents DEF Commit, DurableInv
    <2> QED BY <1>11, <2>1 DEF Commit, DurableInv, Synced, SyncedIndex
  <1>12. ASSUME NEW tree \in history, NEW cmd \in {"checkout", "detach"}, CheckoutBegin(tree, cmd)
         PROVE  DurableInv'
    <2>1. UNCHANGED <<index, history, stashes, durable>> BY <1>12 DEF CheckoutBegin
    <2>2. run'.cmd = cmd /\ run'.ix = NoTree /\ run'.goal = tree /\ run'.over = NoTree
      BY <1>12 DEF CheckoutBegin, Begin, Idle
    <2>3. Synced(tree) BY DEF DurableInv
    <2> QED BY <1>n, <1>12, <2>1, <2>2, <2>3 DEF DurableInv, Synced, SyncedIndex
  <1>13. CASE SaveBegin
    <2>1. UNCHANGED <<index, history, stashes, durable>> BY <1>13 DEF SaveBegin
    <2>2. run'.cmd = "save" /\ run'.at = "flush" /\ run'.ix = index /\ run'.goal = Stashed.staged
      BY <1>13 DEF SaveBegin, Begin, Idle
    <2>3. Synced(Stashed.staged) BY SyncedContents DEF Stashed, DurableInv
    <2> QED BY <2>1, <2>2, <2>3 DEF DurableInv, Synced, SyncedIndex
  <1>14. ASSUME NEW i \in 1 .. Len(stashes), NEW cmd \in {"apply", "pop"}, ApplyBegin(i, cmd)
         PROVE  DurableInv'
    <2>1. UNCHANGED <<index, history, stashes, durable>> BY <1>14 DEF ApplyBegin
    <2>2. /\ run'.cmd = cmd /\ run'.ix = index /\ run'.goal = stashes[i].staged
          /\ run'.over = stashes[i].dirty
      BY <1>14 DEF ApplyBegin, Begin, Idle
    <2> QED BY <1>14, <2>1, <2>2 DEF DurableInv, Synced, SyncedIndex
  <1>15. CASE UNCHANGED vars BY <1>15 DEF vars, DurableInv, Synced, SyncedIndex
  <1> QED
    BY <1>1, <1>2, <1>3, <1>4, <1>5, <1>6, <1>7, <1>8, <1>9, <1>10, <1>11, <1>12, <1>13, <1>14, <1>15
    DEF Next, Step, Start

\* A crash costs no contents: whatever the index on disk, a commit or a stash leads to was
\* synced before it was named, in every command and wherever it dies.
THEOREM NamedIsSynced == Spec => []AllDurable
  <1>1. DurableInv => AllDurable BY DEF DurableInv, AllDurable, Synced, SyncedIndex
  <1> QED BY <1>1, TypeCorrect, DurableInit, DurableNext, PTL DEF Spec

----------------------------------------------------------------------------
\* The fast check.

LEMMA TruthInit == Init => TruthInv
  BY DEF Init, Idle, NoTree, W!NoTree, TruthInv, Truth

LEMMA TruthNoTree == ASSUME NEW d, NEW o PROVE Truth(NoTree, d, o)
  BY DEF Truth, NoTree, W!NoTree

\* What is written is left out of account, or has an mtime the entry does not record.
LEMMA TruthWrite ==
    ASSUME NEW ix, NEW o, Truth(ix, disk, o), NEW p, NEW c, NEW o2, o \ {p} \subseteq o2,
           p \in DOMAIN ix \ o2 => ix[p].mtime # now
    PROVE  Truth(ix, Put(disk, p, [data |-> c, mtime |-> now]), o2)
  BY DEF Truth, Put, One, W!Over

\* What is deleted has no say.
LEMMA TruthDelete ==
    ASSUME NEW ix, NEW o, Truth(ix, disk, o), NEW p, NEW o2, o \ {p} \subseteq o2
    PROVE  Truth(ix, W!Without(disk, {p}), o2)
  BY DEF Truth, W!Without, W!Restrict

\* An entry that is recorded of what is on disk.
LEMMA TruthRecord ==
    ASSUME NEW ix, NEW o, Truth(ix, disk, o), NEW p, NEW entry, NEW o2, o \ {p} \subseteq o2,
           p \in DOMAIN disk \ o2 => entry.data = disk[p].data
    PROVE  Truth(Put(ix, p, entry), disk, o2)
  BY DEF Truth, Put, One, W!Over

\* The index on disk after a write by the user or by a command.
LEMMA TruthWritten ==
    ASSUME TruthInv, NEW p, NEW c, Write(p, c)
    PROVE  Truth(index, disk', blind')
  <1>1. disk' = Put(disk, p, [data |-> c, mtime |-> now]) BY DEF Write
  <1>2. /\ blind \ {p} \subseteq blind'
        /\ p \in DOMAIN index \ blind' => index[p].mtime # now
    BY DEF Write, Marked
  <1>3. Truth(index, disk, blind) BY DEF TruthInv
  <1> QED BY <1>1, <1>2, <1>3, TruthWrite

LEMMA TruthNext == TypeOK /\ TruthInv /\ [Next]_vars => TruthInv'
  <1> SUFFICES ASSUME TypeOK, TruthInv, [Next]_vars PROVE TruthInv' OBVIOUS
  <1>0. run \in Runs BY DEF TypeOK, RunOK
  <1>i. Truth(index, disk, blind) /\ Truth(run.ix, disk, blindIx \cup run.cur) BY DEF TruthInv
  <1>e. ASSUME run' = Idle, disk' = disk, Truth(index', disk, blind')
        PROVE  TruthInv'
    BY <1>e, TruthNoTree DEF TruthInv, Idle
  <1>1. ASSUME NEW p \in Paths, NEW c \in Data, Edit(p, c) PROVE TruthInv'
    <2>1. Write(p, c) /\ index' = index /\ run' = run BY <1>1 DEF Edit
    <2>2. blindIx' = IF p \in run.cur THEN blindIx \cup {p} ELSE Marked(blindIx, run.ix, p)
      BY <1>1 DEF Edit
    <2>3. \A q \in (run.cur \cap DOMAIN disk') \ blindIx' : disk'[q].data = run.goal[q]
      <3>1. p \in run.cur => p \in blindIx' BY <2>2
      <3>2. \A q \in DOMAIN disk' \ {p} : q \in DOMAIN disk /\ disk'[q] = disk[q]
        BY <2>1 DEF Write, Put, One, W!Over
      <3>3. blindIx \ {p} \subseteq blindIx' BY <2>2 DEF Marked
      <3> QED BY <2>1, <3>1, <3>2, <3>3 DEF TruthInv
    <2>4. Truth(run.ix, disk', blindIx' \cup run.cur)
      <3>1. (blindIx \cup run.cur) \ {p} \subseteq blindIx' \cup run.cur BY <2>2 DEF Marked
      <3>2. p \in DOMAIN run.ix \ (blindIx' \cup run.cur) => run.ix[p].mtime # now
        BY <2>2 DEF Marked
      <3>3. disk' = Put(disk, p, [data |-> c, mtime |-> now]) BY <2>1 DEF Write
      <3> QED BY <1>i, <3>1, <3>2, <3>3, TruthWrite
    <2> QED BY <2>1, <2>3, <2>4, TruthWritten DEF TruthInv
  <1>2. ASSUME NEW p \in Paths, Delete(p) \/ RemoveFile(p) PROVE TruthInv'
    <2>1. /\ disk' = W!Without(disk, {p}) /\ index' = index
          /\ blind' = blind \ {p} /\ blindIx' = blindIx \ {p}
      BY <1>2 DEF Delete, RemoveFile, Unlink
    <2>2. run'.ix = run.ix /\ run'.cur = run.cur /\ run'.goal = run.goal
      BY <1>0, <1>2 DEF Delete, RemoveFile, Goes, Runs
    <2>3. \A q \in (run.cur \cap DOMAIN disk') \ blindIx' : disk'[q].data = run.goal[q]
      BY <2>1 DEF W!Without, W!Restrict, TruthInv
    <2>4. Truth(index, disk', blind') BY <1>i, <2>1, TruthDelete
    <2>5. Truth(run.ix, disk', blindIx' \cup run.cur)
      <3>1. (blindIx \cup run.cur) \ {p} \subseteq blindIx' \cup run.cur BY <2>1
      <3> QED BY <1>i, <2>1, <3>1, TruthDelete
    <2> QED BY <2>1, <2>2, <2>3, <2>4, <2>5 DEF TruthInv
  <1>3. CASE Tick BY <1>3 DEF Tick, TruthInv
  <1>4. CASE Crash BY <1>4, <1>e, <1>i DEF Crash
  <1>5. CASE StageRemoves
    <2>1. /\ run'.ix = Restrict(run.ix, DOMAIN run.ix \cap DOMAIN disk)
          /\ run'.cur = run.cur /\ run'.goal = run.goal
      BY <1>0, <1>5 DEF StageRemoves, Goes, Runs
    <2>2. Truth(run'.ix, disk, blindIx \cup run.cur) BY <2>1 DEF Restrict, Truth, TruthInv
    <2> QED BY <1>5, <2>1, <2>2 DEF StageRemoves, TruthInv
  <1>6. ASSUME NEW p \in Paths, StageRead(p) PROVE TruthInv'
    <2> DEFINE entry == [data |-> disk[p].data, mtime |-> run.stats[p].mtime,
                         size |-> Size[run.stats[p].data]]
    <2>1. /\ run'.ix = IF p \in DOMAIN disk THEN Put(run.ix, p, entry) ELSE run.ix
          /\ run'.cur = run.cur /\ run'.goal = run.goal
      BY <1>0, <1>6 DEF StageRead, Goes, Runs
    <2>2. entry.data = disk[p].data OBVIOUS
    <2>3. /\ blindIx' = blindIx \ {p} /\ UNCHANGED <<disk, index, blind>>
          /\ run.cur = {}
      BY <1>6 DEF StageRead, TypeOK, RunOK, NoTree, W!NoTree
    <2> HIDE DEF entry
    <2>4. Truth(run'.ix, disk, blindIx')
      <3>1. Truth(run.ix, disk, blindIx) BY <1>i, <2>3
      <3>2. CASE p \in DOMAIN disk
        BY <2>1, <2>2, <2>3, <3>1, <3>2, TruthRecord
      <3>3. CASE p \notin DOMAIN disk BY <2>1, <2>3, <3>1, <3>3 DEF Truth
      <3> QED BY <3>2, <3>3
    <2> QED BY <1>i, <2>1, <2>3, <2>4 DEF TruthInv
  <1>7. CASE StageSync \/ SaveFlush
    <2>1. run'.ix = run.ix /\ run'.cur = run.cur /\ run'.goal = run.goal
      BY <1>0, <1>7 DEF StageSync, SaveFlush, Goes, Runs
    <2> QED BY <1>7, <2>1 DEF StageSync, SaveFlush, TruthInv
  <1>8. CASE StageSave
    <2>1. run.cur = {} BY <1>8 DEF StageSave, TypeOK, RunOK
    <2> QED BY <1>8, <1>e, <1>i, <2>1 DEF StageSave, Ends
  <1>9. ASSUME NEW p \in Paths, WriteFile(p) PROVE TruthInv'
    <2>1. run'.ix = run.ix /\ run'.cur = {p} /\ run'.goal = run.goal
      BY <1>0, <1>9 DEF WriteFile, Goes, Runs
    <2>2. /\ Write(p, run.goal[p]) /\ index' = index /\ blindIx' = blindIx \ {p}
          /\ run.cur = {}
      BY <1>9 DEF WriteFile
    <2>3. disk'[p].data = run.goal[p] BY <2>2 DEF Write, Put, One, W!Over
    <2>4. Truth(run.ix, disk', blindIx' \cup {p})
      <3>1. blindIx \ {p} \subseteq blindIx' \cup {p} BY <2>2
      <3>2. disk' = Put(disk, p, [data |-> run.goal[p], mtime |-> now]) BY <2>2 DEF Write
      <3>3. Truth(run.ix, disk, blindIx) BY <1>i, <2>2
      <3> QED BY <3>1, <3>2, <3>3, TruthWrite
    <2> QED BY <2>1, <2>2, <2>3, <2>4, TruthWritten DEF TruthInv
  <1>10. ASSUME NEW p \in Paths, RecordFile(p) PROVE TruthInv'
    <2> DEFINE entry == [data |-> run.goal[p], mtime |-> disk[p].mtime, size |-> Size[disk[p].data]]
    <2>1. run'.ix = Put(run.ix, p, entry) /\ run'.cur = {}
      BY <1>0, <1>10 DEF RecordFile, Goes, Runs
    <2>2. p \in DOMAIN disk \ blindIx => entry.data = disk[p].data
      BY <1>10 DEF RecordFile, TruthInv
    <2>3. UNCHANGED <<disk, index, blind, blindIx>> BY <1>10 DEF RecordFile
    <2>c. run.cur \subseteq {p}
      BY <1>10 DEF RecordFile, TruthInv
    <2> HIDE DEF entry
    <2>4. Truth(run'.ix, disk, blindIx)
      <3>1. (blindIx \cup run.cur) \ {p} \subseteq blindIx BY <2>c
      <3> QED BY <1>i, <2>1, <2>2, <3>1, TruthRecord
    <2> QED BY <1>i, <2>1, <2>3, <2>4 DEF TruthInv
  <1>11. ASSUME NEW p \in Paths, Overlay(p) PROVE TruthInv'
    <2>1. run'.ix = run.ix /\ run'.cur = {} /\ run.cur = {}
      BY <1>0, <1>11 DEF Overlay, Overlays, Goes, Runs
    <2>2. Write(p, run.over[p]) /\ index' = index /\ blindIx' = Marked(blindIx, run.ix, p)
      BY <1>11 DEF Overlay
    <2>3. Truth(run.ix, disk', blindIx')
      <3>1. /\ blindIx \ {p} \subseteq blindIx'
            /\ p \in DOMAIN run.ix \ blindIx' => run.ix[p].mtime # now
        BY <2>2 DEF Marked
      <3>2. disk' = Put(disk, p, [data |-> run.over[p], mtime |-> now]) BY <2>2 DEF Write
      <3>3. Truth(run.ix, disk, blindIx) BY <1>i, <2>1
      <3> QED BY <3>1, <3>2, <3>3, TruthWrite
    <2> QED BY <2>1, <2>2, <2>3, TruthWritten DEF TruthInv
  <1>12. CASE SaveIndex
    <2>1. disk' = disk /\ blind' = blindIx /\ index' = run.ix /\ run.cur = {}
      BY <1>12 DEF SaveIndex
    <2>s. Truth(run.ix, disk, blindIx) BY <1>i, <2>1
    <2>2. CASE run' = Idle BY <1>e, <2>1, <2>2, <2>s
    <2>3. CASE run' = [run EXCEPT !.at = "end"] /\ blindIx' = blindIx
      <3>1. run'.ix = run.ix /\ run'.cur = run.cur /\ run'.goal = run.goal
        BY <1>0, <2>3 DEF Runs
      <3> QED BY <2>1, <2>s, <2>3, <3>1 DEF TruthInv
    <2> QED BY <1>12, <2>2, <2>3 DEF SaveIndex, Goes, Ends
  <1>13. CASE DetachEnd \/ PopEnd BY <1>13, <1>e, <1>i DEF DetachEnd, PopEnd, Ends
  <1>14. CASE SavePut
    <2>1. run'.ix = NoTree /\ run'.cur = run.cur BY <1>0, <1>14 DEF SavePut, Goes, Runs
    <2>2. run.cur = {} BY <1>14 DEF SavePut, TypeOK, RunOK
    <2> QED BY <1>14, <2>1, <2>2, TruthNoTree DEF SavePut, TruthInv
  <1>15. CASE Commit BY <1>15 DEF Commit, TruthInv
  <1>16. ASSUME UNCHANGED <<disk, index, blind>>, run'.cur = {},
                run'.ix = NoTree \/ (run'.ix = index /\ blindIx' = blind)
         PROVE  TruthInv'
    BY <1>16, TruthNoTree DEF TruthInv
  <1>17. ASSUME NEW S \in SUBSET Paths, StageBegin(S) PROVE TruthInv'
    BY <1>16, <1>17 DEF StageBegin, Begin, Idle
  <1>18. ASSUME NEW tree \in history, NEW cmd, CheckoutBegin(tree, cmd) PROVE TruthInv'
    <2>1. UNCHANGED <<disk, index, blind>> BY <1>18 DEF CheckoutBegin, Begin
    <2>2. run'.cur = {} /\ run'.ix = NoTree BY <1>18 DEF CheckoutBegin, Begin, Idle
    <2> QED BY <1>16, <2>1, <2>2
  <1>19. CASE SaveBegin BY <1>16, <1>19 DEF SaveBegin, Begin, Idle
  <1>20. ASSUME NEW i \in 1 .. Len(stashes), NEW cmd, ApplyBegin(i, cmd) PROVE TruthInv'
    BY <1>16, <1>20 DEF ApplyBegin, Begin, Idle
  <1>21. CASE UNCHANGED vars BY <1>21 DEF vars, TruthInv
  <1> QED
    BY <1>1, <1>2, <1>3, <1>4, <1>5, <1>6, <1>7, <1>8, <1>9, <1>10, <1>11, <1>12, <1>13, <1>14,
       <1>15, <1>17, <1>18, <1>19, <1>20, <1>21
    DEF Next, User, Step, StageStep, Start

\* However edits fall between the calls of a command, and wherever it dies, a tracked file
\* that looks clean has the contents its entry names, unless it was written without its entry
\* in the second that records, or edited between a command's own write and its metadata call.
THEOREM FastCheckSound == Spec => []CleanMeansSame
  <1>1. TruthInv => CleanMeansSame BY DEF TruthInv, Truth, CleanMeansSame, Looks
  <1> QED BY <1>1, TypeCorrect, TruthInit, TruthNext, PTL DEF Spec

----------------------------------------------------------------------------
\* Stashed work.

LEMMA KeptInit == Init => KeptInv
  BY DEF Init, Idle, NoTree, W!NoTree, KeptInv

\* A stash that holds work goes on holding it.
LEMMA StillInStash ==
    ASSUME stashes' = stashes, NEW q, work'[q] = work[q], InStash(q)
    PROVE  InStash(q)'
  BY DEF InStash, Holds

\* Files change only where they have what work says, or a stash has it.
LEMMA KeptStep ==
    ASSUME \A q \in DOMAIN work : OnDisk(q) \/ InStash(q),
           stashes' = stashes,
           \A q \in DOMAIN work' : q \in DOMAIN work /\ work'[q] = work[q],
           \A q \in DOMAIN work' :
              \/ q \in DOMAIN disk => q \in DOMAIN disk' /\ disk'[q] = disk[q]
              \/ OnDisk(q)'
              \/ InStash(q)
    PROVE  \A q \in DOMAIN work' : OnDisk(q)' \/ InStash(q)'
  <1> SUFFICES ASSUME NEW q \in DOMAIN work' PROVE OnDisk(q)' \/ InStash(q)' OBVIOUS
  <1>2. q \in DOMAIN work /\ work'[q] = work[q] OBVIOUS
  <1>3. CASE InStash(q) BY <1>2, <1>3, StillInStash
  <1>4. CASE OnDisk(q) /\ q \in DOMAIN disk' /\ disk'[q] = disk[q] BY <1>2, <1>4 DEF OnDisk
  <1> QED BY <1>2, <1>3, <1>4 DEF OnDisk

\* What the user edits or deletes is work no longer; the rest is untouched.
LEMMA KeptUser ==
    ASSUME KeptInv, UNCHANGED <<stashes, head, run>>,
           \A q \in DOMAIN work' :
              /\ q \in DOMAIN work /\ work'[q] = work[q]
              /\ q \in DOMAIN disk => q \in DOMAIN disk' /\ disk'[q] = disk[q]
    PROVE  KeptInv'
  <1>1. \A q \in DOMAIN work : OnDisk(q) \/ InStash(q) BY DEF KeptInv
  <1>2. \A q \in DOMAIN work' : OnDisk(q)' \/ InStash(q)' BY <1>1, KeptStep
  <1>3. DOMAIN work' \subseteq DOMAIN work OBVIOUS
  <1>4. ASSUME run.cmd = "save" PROVE SaveInv'
    <2>1. \A q \in DOMAIN work' : InStash(q) => InStash(q)' BY StillInStash
    <2>2. \A q \in DOMAIN work' : work'[q] = work[q] OBVIOUS
    <2> QED BY <1>3, <1>4, <2>1, <2>2 DEF KeptInv, SaveInv
  <1>5. ASSUME run.cmd = "pop" PROVE PopInv'
    <2>1. \A q \in DOMAIN work' : OnDisk(q) => OnDisk(q)' BY DEF OnDisk
    <2>2. Pending' = Pending BY DEF Pending
    <2> QED BY <1>3, <1>5, <2>1, <2>2 DEF KeptInv, PopInv
  <1> QED BY <1>2, <1>3, <1>4, <1>5 DEF KeptInv, Pending

\* A command ends, or begins, with files and stashes as they are.
LEMMA KeptIdle ==
    ASSUME KeptInv, UNCHANGED <<stashes, work, disk>>, run'.cmd \in {"none", "stage"}
    PROVE  KeptInv'
  <1>1. \A q \in DOMAIN work : OnDisk(q) \/ InStash(q) BY DEF KeptInv
  <1>2. \A q \in DOMAIN work' : OnDisk(q)' \/ InStash(q)' BY <1>1, KeptStep
  <1> QED BY <1>2 DEF KeptInv

\* The stash that is popped holds the work in its files.
LEMMA PopHolds ==
    ASSUME TypeOK, run.cmd = "pop", PopInv, NEW p \in DOMAIN work \cap DOMAIN run.goal
    PROVE  InStash(p)
  <1>1. 1 \in 1 .. Len(stashes) BY DEF TypeOK, RunOK
  <1> QED BY <1>1 DEF PopInv, InStash, Holds

LEMMA KeptRemove ==
    ASSUME TypeOK, KeptInv, NEW p \in Paths, RemoveFile(p)
    PROVE  KeptInv'
  <1>1. run \in Runs /\ run.at = "files" /\ p \in run.gone
    BY DEF TypeOK, RunOK, RemoveFile
  <1>2. /\ run'.cmd = run.cmd /\ run'.at = run.at /\ run'.todo = run.todo
        /\ run'.gone = run.gone \ {p} /\ run'.goal = run.goal /\ run'.over = run.over
    BY <1>1 DEF RemoveFile, Goes, Runs
  <1>3. run.cmd \in {"checkout", "detach", "save"}
    BY <1>1 DEF TypeOK, RunOK, Runs, Idle
  <1>4. UNCHANGED <<stashes, work>> /\ disk' = W!Without(disk, {p})
    BY DEF RemoveFile, Unlink
  <1>5. p \in DOMAIN work => InStash(p) BY <1>1, <1>3 DEF KeptInv, SaveInv
  <1>6. \A q \in DOMAIN disk \ {p} : q \in DOMAIN disk' /\ disk'[q] = disk[q]
    BY <1>4 DEF W!Without, W!Restrict
  <1>7. \A q \in DOMAIN work : OnDisk(q) \/ InStash(q) BY DEF KeptInv
  <1>8. \A q \in DOMAIN work' : OnDisk(q)' \/ InStash(q)'
    BY <1>4, <1>5, <1>6, <1>7, KeptStep
  <1>9. ASSUME run.cmd = "save" PROVE SaveInv'
    <2>1. \A q \in DOMAIN work : InStash(q) => InStash(q)' BY <1>4, StillInStash
    <2> QED BY <1>1, <1>2, <1>4, <1>9, <2>1 DEF KeptInv, SaveInv
  <1> QED BY <1>2, <1>3, <1>4, <1>8, <1>9 DEF KeptInv

LEMMA KeptWrite ==
    ASSUME TypeOK, KeptInv, NEW p \in Paths, WriteFile(p)
    PROVE  KeptInv'
  <1>1. run \in Runs /\ run.at = "files" /\ p \in run.todo /\ p \in DOMAIN run.goal
    BY DEF TypeOK, RunOK, WriteFile
  <1>2. /\ run'.cmd = run.cmd /\ run'.at = run.at /\ run'.todo = run.todo \ {p}
        /\ run'.gone = run.gone /\ run'.goal = run.goal /\ run'.over = run.over
    BY <1>1 DEF WriteFile, Goes, Runs
  <1>3. run.cmd \in {"checkout", "detach", "save", "apply", "pop"}
    BY <1>1 DEF TypeOK, RunOK, Runs, Idle, NoTree, W!NoTree
  <1>4. /\ UNCHANGED <<stashes, work>>
        /\ disk' = Put(disk, p, [data |-> run.goal[p], mtime |-> now])
    BY DEF WriteFile, Write
  <1>5. p \in DOMAIN work => InStash(p)
    BY <1>1, <1>3, PopHolds DEF KeptInv, SaveInv, Pending
  <1>6. /\ \A q \in DOMAIN disk \ {p} : q \in DOMAIN disk' /\ disk'[q] = disk[q]
        /\ p \in DOMAIN disk' /\ disk'[p].data = run.goal[p]
    BY <1>4 DEF Put, One, W!Over
  <1>7. \A q \in DOMAIN work : OnDisk(q) \/ InStash(q) BY DEF KeptInv
  <1>8. \A q \in DOMAIN work' : OnDisk(q)' \/ InStash(q)'
    BY <1>4, <1>5, <1>6, <1>7, KeptStep
  <1>9. ASSUME run.cmd = "save" PROVE SaveInv'
    <2>1. \A q \in DOMAIN work : InStash(q) => InStash(q)' BY <1>4, StillInStash
    <2> QED BY <1>1, <1>2, <1>4, <1>9, <2>1 DEF KeptInv, SaveInv
  <1>10. ASSUME run.cmd = "pop" PROVE PopInv'
    <2> DEFINE st == stashes[1]
    <2>1. /\ run.goal = st.staged /\ run.over = st.dirty
          /\ \A q \in DOMAIN work \cap DOMAIN run.goal :
               /\ work[q] = W!Over(st.dirty, st.staged)[q]
               /\ q \notin Pending => OnDisk(q)
      BY <1>1, <1>10 DEF KeptInv, PopInv
    <2>2. ASSUME NEW q \in DOMAIN work \cap DOMAIN run.goal, q \notin Pending' PROVE OnDisk(q)'
      <3>1. CASE q = p
        <4>1. p \notin DOMAIN st.dirty BY <1>2, <2>1, <2>2, <3>1 DEF Pending
        <4>2. work[p] = run.goal[p] BY <1>1, <2>1, <2>2, <3>1, <4>1 DEF W!Over
        <4> QED BY <1>4, <1>6, <3>1, <4>2 DEF OnDisk
      <3>2. CASE q # p
        <4>1. q \notin Pending BY <1>2, <2>2, <3>2 DEF Pending
        <4>2. OnDisk(q) BY <2>1, <4>1
        <4> QED BY <1>4, <1>6, <3>2, <4>2 DEF OnDisk
      <3> QED BY <3>1, <3>2
    <2> QED BY <1>1, <1>2, <1>4, <1>10, <2>1, <2>2 DEF KeptInv, PopInv
  <1> QED BY <1>2, <1>3, <1>4, <1>8, <1>9, <1>10 DEF KeptInv, Pending

LEMMA KeptOverlay ==
    ASSUME TypeOK, KeptInv, NEW p \in Paths, Overlay(p)
    PROVE  KeptInv'
  <1>1. /\ run \in Runs /\ run.at = "files" /\ run.todo = {} /\ p \in DOMAIN run.over
        /\ p \in DOMAIN run.goal /\ run.cmd \in {"apply", "pop"}
    BY DEF TypeOK, RunOK, Overlay, Overlays
  <1>2. /\ run'.cmd = run.cmd /\ run'.at = run.at /\ run'.todo = run.todo
        /\ run'.goal = run.goal /\ run'.over = W!Without(run.over, {p})
    BY <1>1 DEF Overlay, Goes, Runs
  <1>3. /\ UNCHANGED <<stashes, work>>
        /\ disk' = Put(disk, p, [data |-> run.over[p], mtime |-> now])
    BY DEF Overlay, Write
  <1>4. /\ \A q \in DOMAIN disk \ {p} : q \in DOMAIN disk' /\ disk'[q] = disk[q]
        /\ p \in DOMAIN disk' /\ disk'[p].data = run.over[p]
    BY <1>3 DEF Put, One, W!Over
  <1>5. /\ DOMAIN run'.over = DOMAIN run.over \ {p}
        /\ \A q \in DOMAIN run'.over : run'.over[q] = run.over[q]
    BY <1>2 DEF W!Without, W!Restrict
  <1>6. p \in DOMAIN work => OnDisk(p)'
    <2>1. CASE run.cmd = "apply" BY <1>1, <2>1 DEF KeptInv, Pending
    <2>2. CASE run.cmd = "pop"
      <3>1. ASSUME p \in DOMAIN work PROVE work[p] = run.over[p]
        BY <1>1, <2>2, <3>1 DEF KeptInv, PopInv, W!Over
      <3> QED BY <1>3, <1>4, <3>1 DEF OnDisk
    <2> QED BY <1>1, <2>1, <2>2
  <1>7. \A q \in DOMAIN work : OnDisk(q) \/ InStash(q) BY DEF KeptInv
  <1>8. \A q \in DOMAIN work' : OnDisk(q)' \/ InStash(q)'
    BY <1>3, <1>4, <1>6, <1>7, KeptStep
  <1>9. ASSUME run.cmd = "pop" PROVE PopInv'
    <2>1. ASSUME NEW q \in DOMAIN work \cap DOMAIN run.goal, q \notin Pending' PROVE OnDisk(q)'
      <3>1. CASE q = p BY <1>6, <2>1, <3>1
      <3>2. CASE q # p
        <4>1. q \notin Pending BY <1>2, <1>5, <2>1, <3>2 DEF Pending
        <4>2. OnDisk(q) BY <1>9, <4>1 DEF KeptInv, PopInv
        <4> QED BY <1>3, <1>4, <3>2, <4>2 DEF OnDisk
      <3> QED BY <3>1, <3>2
    <2> QED BY <1>1, <1>2, <1>3, <1>5, <1>9, <2>1 DEF KeptInv, PopInv
  <1> QED BY <1>1, <1>2, <1>3, <1>5, <1>8, <1>9 DEF KeptInv, Pending

\* The command moves on with files and stashes as they are.
LEMMA KeptGoes ==
    ASSUME KeptInv, UNCHANGED <<disk, stashes, work, head>>,
           run'.cmd = run.cmd, run'.todo = run.todo, run'.gone = run.gone,
           run'.goal = run.goal, run'.over = run.over,
           \/ run'.at = run.at /\ run.at = "files"
           \/ run'.at = "put" /\ run.at = "flush" /\ run'.ix = run.ix
           \/ run'.at = "end" /\ Pending = {}
    PROVE  KeptInv'
  <1>1. \A q : /\ InStash(q)' <=> InStash(q)
               /\ OnDisk(q)' <=> OnDisk(q)
    BY DEF InStash, OnDisk, Holds
  <1>2. DOMAIN work' = DOMAIN work /\ Pending' = Pending BY DEF Pending
  <1>3. \A q \in DOMAIN work' : OnDisk(q)' \/ InStash(q)' BY <1>1, <1>2 DEF KeptInv
  <1>4. ASSUME run.cmd = "save" PROVE SaveInv'
    <2>1. SaveInv BY <1>4 DEF KeptInv
    <2>2. ASSUME run'.at \in {"flush", "put"}
          PROVE  /\ DOMAIN run'.ix = DOMAIN run'.goal
                 /\ \A p \in DOMAIN work' \cap (DOMAIN run'.goal \cup DOMAIN head') :
                      Holds([staged |-> run'.goal, dirty |-> run'.over], p, work'[p]) \/ InStash(p)'
      <3>1. run.at = "flush" /\ run'.ix = run.ix BY <2>2
      <3> QED BY <1>1, <1>2, <2>1, <3>1 DEF SaveInv
    <2>3. ASSUME run'.at = "files"
          PROVE  \A p \in DOMAIN work' \cap (run'.gone \cup run'.todo) : InStash(p)'
      BY <1>1, <1>2, <2>1, <2>3 DEF SaveInv
    <2> QED BY <2>2, <2>3 DEF SaveInv
  <1>5. ASSUME run.cmd = "pop" PROVE PopInv'
    <2>1. PopInv BY <1>5 DEF KeptInv
    <2> QED BY <1>1, <1>2, <2>1 DEF PopInv
  <1> QED BY <1>2, <1>3, <1>4, <1>5 DEF KeptInv

LEMMA KeptRecord ==
    ASSUME TypeOK, KeptInv, NEW p \in Paths, RecordFile(p)
    PROVE  KeptInv'
  <1>1. run \in Runs /\ run.at = "files" BY DEF TypeOK, RunOK, RecordFile
  <1>2. /\ run'.cmd = run.cmd /\ run'.todo = run.todo /\ run'.gone = run.gone
        /\ run'.goal = run.goal /\ run'.over = run.over /\ run'.at = run.at
    BY <1>1 DEF RecordFile, Goes, Runs
  <1> QED BY <1>1, <1>2, KeptGoes DEF RecordFile

LEMMA KeptEnds ==
    ASSUME TypeOK, KeptInv, SaveIndex \/ DetachEnd \/ SaveFlush
    PROVE  KeptInv'
  <1>0. run \in Runs BY DEF TypeOK, RunOK
  <1>1. CASE SaveIndex
    <2>1. CASE run' = Idle BY <1>1, <2>1, KeptIdle DEF SaveIndex, Idle
    <2>2. CASE run' = [run EXCEPT !.at = "end"]
      <3>1. /\ run'.cmd = run.cmd /\ run'.todo = run.todo /\ run'.gone = run.gone
            /\ run'.goal = run.goal /\ run'.over = run.over /\ run'.at = "end"
        BY <1>0, <2>2 DEF Runs
      <3>2. Pending = {} BY <1>1 DEF SaveIndex, Pending
      <3> QED BY <1>1, <3>1, <3>2, KeptGoes DEF SaveIndex
    <2> QED BY <1>1, <2>1, <2>2 DEF SaveIndex, Goes, Ends
  <1>2. CASE DetachEnd BY <1>2, KeptIdle DEF DetachEnd, Ends, Idle
  <1>3. CASE SaveFlush
    <2>1. /\ run'.cmd = run.cmd /\ run'.todo = run.todo /\ run'.gone = run.gone /\ run'.ix = run.ix
          /\ run'.goal = run.goal /\ run'.over = run.over /\ run'.at = "put"
      BY <1>0, <1>3 DEF SaveFlush, Goes, Runs
    <2> QED BY <1>3, <2>1, KeptGoes DEF SaveFlush
  <1> QED BY <1>1, <1>2, <1>3

\* Work that a stash is to hold is in the list once its ref is written.
LEMMA Pushed ==
    ASSUME TypeOK, NEW st \in W!Stash, stashes' = <<st>> \o stashes, work' = work
    PROVE  /\ \A q : InStash(q) => InStash(q)'
           /\ \A q : Holds(st, q, work[q]) => InStash(q)'
  <1>1. stashes \in Seq(W!Stash) BY DEF TypeOK
  <1>2. /\ Len(stashes') = Len(stashes) + 1 /\ stashes'[1] = st
        /\ \A i \in 1 .. Len(stashes) : stashes'[i + 1] = stashes[i]
    BY <1>1
  <1>3. ASSUME NEW q, InStash(q) PROVE InStash(q)'
    <2>1. PICK i \in 1 .. Len(stashes) : Holds(stashes[i], q, work[q]) BY <1>3 DEF InStash
    <2>2. i + 1 \in 1 .. Len(stashes') /\ Holds(stashes'[i + 1], q, work'[q])
      BY <1>1, <1>2, <2>1
    <2> QED BY <2>2 DEF InStash
  <1>4. ASSUME NEW q, Holds(st, q, work[q]) PROVE InStash(q)'
    <2>1. 1 \in 1 .. Len(stashes') /\ Holds(stashes'[1], q, work'[q]) BY <1>1, <1>2, <1>4
    <2> QED BY <2>1 DEF InStash
  <1> QED BY <1>3, <1>4

LEMMA KeptPut ==
    ASSUME TypeOK, KeptInv, SavePut
    PROVE  KeptInv'
  <1> DEFINE st == [staged |-> run.goal, dirty |-> run.over]
  <1>1. run \in Runs /\ run.cmd = "save" /\ run.at = "put" /\ SaveInv
    BY At DEF TypeOK, RunOK, SavePut, KeptInv
  <1>2. st \in W!Stash
    <2>1. DOMAIN run.over \subseteq DOMAIN run.goal BY DEF TypeOK, RunOK
    <2> QED BY <1>1, <2>1 DEF Runs, W!Stash
  <1>3. stashes' = <<st>> \o stashes /\ UNCHANGED <<disk, work, head>> BY DEF SavePut
  <1>4. /\ run'.cmd = "save" /\ run'.at = "files"
        /\ run'.gone = DOMAIN run.ix \ DOMAIN head /\ run'.todo = DOMAIN head
    BY <1>1 DEF SavePut, Goes, Runs
  <1> HIDE DEF st
  <1>5. /\ \A q : InStash(q) => InStash(q)'
        /\ \A q : Holds(st, q, work[q]) => InStash(q)'
    BY <1>2, <1>3, Pushed
  <1>6. DOMAIN work' = DOMAIN work BY <1>3
  <1>7. \A q \in DOMAIN work' : OnDisk(q)' \/ InStash(q)'
    BY <1>3, <1>5, <1>6 DEF KeptInv, OnDisk
  <1>8. \A q \in DOMAIN work \cap (DOMAIN run.goal \cup DOMAIN head) : InStash(q)'
    BY <1>1, <1>5 DEF SaveInv, st
  <1>9. SaveInv' BY <1>1, <1>4, <1>6, <1>8 DEF SaveInv
  <1> QED BY <1>4, <1>7, <1>9 DEF KeptInv

\* The stash that pop removes holds nothing that is not on disk.
LEMMA KeptPop ==
    ASSUME TypeOK, KeptInv, PopEnd
    PROVE  KeptInv'
  <1>1. /\ stashes \in Seq(W!Stash) /\ stashes # <<>> /\ PopInv /\ Pending = {}
    BY DEF TypeOK, RunOK, PopEnd, KeptInv, PopInv
  <1>2. /\ stashes' = Tail(stashes) /\ UNCHANGED <<disk, work>> /\ run'.cmd = "none"
    BY DEF PopEnd, Ends, Idle
  <1>3. /\ Len(stashes') = Len(stashes) - 1
        /\ \A i \in 1 .. Len(stashes') : stashes'[i] = stashes[i + 1]
    BY <1>1, <1>2
  <1>4. ASSUME NEW q \in DOMAIN work, InStash(q) PROVE OnDisk(q) \/ InStash(q)'
    <2>1. PICK i \in 1 .. Len(stashes) : Holds(stashes[i], q, work[q]) BY <1>4 DEF InStash
    <2>2. CASE i = 1
      <3>1. q \in DOMAIN work \cap DOMAIN run.goal
        BY <1>1, <2>1, <2>2 DEF PopInv, Holds
      <3> QED BY <1>1, <3>1 DEF PopInv
    <2>3. CASE i # 1
      <3>1. i - 1 \in 1 .. Len(stashes') /\ stashes'[i - 1] = stashes[i]
        <4>1. i - 1 \in 1 .. Len(stashes') BY <1>1, <1>3, <2>3
        <4>2. stashes'[i - 1] = stashes[(i - 1) + 1] BY <1>3, <4>1
        <4> QED BY <4>1, <4>2
      <3>2. Holds(stashes'[i - 1], q, work'[q]) BY <1>2, <2>1, <3>1
      <3> QED BY <3>1, <3>2 DEF InStash
    <2> QED BY <2>2, <2>3
  <1>5. \A q \in DOMAIN work' : OnDisk(q)' \/ InStash(q)'
    BY <1>2, <1>4 DEF KeptInv, OnDisk
  <1> QED BY <1>2, <1>5 DEF KeptInv

LEMMA KeptCheckout ==
    ASSUME TypeOK, KeptInv, NEW tree \in history, NEW cmd \in {"checkout", "detach"},
           CheckoutBegin(tree, cmd)
    PROVE  KeptInv'
  <1>1. /\ run'.cmd = cmd /\ run'.todo = DOMAIN tree /\ run'.gone = DOMAIN index \ DOMAIN tree
        /\ UNCHANGED <<disk, stashes>>
    BY DEF CheckoutBegin, Begin, Idle
  <1>2. work' = W!Without(work, DOMAIN index \cup DOMAIN tree) BY DEF CheckoutBegin
  <1>3. /\ DOMAIN work' = DOMAIN work \ (DOMAIN index \cup DOMAIN tree)
        /\ \A q \in DOMAIN work' : work'[q] = work[q]
    BY <1>2 DEF W!Without, W!Restrict
  <1>4. \A q \in DOMAIN work : OnDisk(q) \/ InStash(q) BY DEF KeptInv
  <1>5. \A q \in DOMAIN work' : OnDisk(q)' \/ InStash(q)' BY <1>1, <1>3, <1>4, KeptStep
  <1> QED BY <1>1, <1>3, <1>5 DEF KeptInv

\* All that a stash is to take is in it: what looks clean is what is staged.
LEMMA KeptSave ==
    ASSUME TypeOK, TruthInv, KeptInv, SaveBegin
    PROVE  KeptInv'
  <1> DEFINE tracked == (DOMAIN index \cap DOMAIN disk) \ Missed
             dirty   == {p \in DOMAIN index \cap DOMAIN disk : Looks(index, disk, p)}
             lost    == DOMAIN head \cup Missed
  <1>1. /\ run'.cmd = "save" /\ run'.at = "flush" /\ run'.ix = index
        /\ run'.goal = Stashed.staged /\ run'.over = Stashed.dirty
        /\ UNCHANGED <<disk, index, head, stashes>>
    BY DEF SaveBegin, Begin, Idle
  <1>2. /\ Stashed.staged = W!Contents(index)
        /\ Stashed.dirty = Restrict(W!Contents(disk), dirty)
    BY DEF Stashed
  <1>3. work' = W!Over(Restrict(W!Contents(disk), tracked), W!Without(work, lost))
    BY DEF SaveBegin
  <1>4. /\ DOMAIN Restrict(W!Contents(disk), tracked) = tracked
        /\ \A q \in tracked : Restrict(W!Contents(disk), tracked)[q] = disk[q].data
    BY ContentsIs DEF Restrict
  <1>5. /\ DOMAIN work' = tracked \cup (DOMAIN work \ lost)
        /\ \A q \in tracked : work'[q] = disk[q].data
        /\ \A q \in (DOMAIN work \ lost) \ tracked : work'[q] = work[q]
    <2> DEFINE files == Restrict(W!Contents(disk), tracked)
    <2> HIDE DEF tracked, files, lost
    <2> QED BY <1>3, <1>4 DEF files, W!Over, W!Without, W!Restrict
  <1>6. ASSUME NEW q \in DOMAIN work', q \notin tracked
        PROVE  /\ q \in DOMAIN work \ lost
               /\ OnDisk(q) => OnDisk(q)'
               /\ InStash(q) => InStash(q)'
               /\ OnDisk(q) \/ InStash(q)
    <2>1. q \in DOMAIN work \ lost /\ work'[q] = work[q] BY <1>5, <1>6
    <2>2. InStash(q) => InStash(q)' BY <1>1, <2>1, StillInStash
    <2>3. OnDisk(q) => OnDisk(q)' BY <1>1, <2>1 DEF OnDisk
    <2>4. OnDisk(q) \/ InStash(q) BY <2>1 DEF KeptInv
    <2> QED BY <2>1, <2>2, <2>3, <2>4
  <1>7. \A q \in DOMAIN work' : OnDisk(q)' \/ InStash(q)'
    <2>1. \A q \in tracked : OnDisk(q)' BY <1>1, <1>5 DEF OnDisk
    <2> QED BY <1>6, <2>1
  <1>8. /\ DOMAIN run'.goal = DOMAIN index
        /\ \A q \in DOMAIN index : run'.goal[q] = index[q].data
        /\ DOMAIN run'.over = dirty
        /\ \A q \in dirty : run'.over[q] = disk[q].data
    <2>1. /\ DOMAIN run'.goal = DOMAIN index
          /\ \A q \in DOMAIN index : run'.goal[q] = index[q].data
      BY <1>1, <1>2, ContentsIs
    <2>2. dirty \subseteq DOMAIN disk OBVIOUS
    <2>3. run'.over = Restrict(W!Contents(disk), dirty) BY <1>1, <1>2
    <2> HIDE DEF dirty
    <2>4. DOMAIN run'.over = dirty /\ \A q \in dirty : run'.over[q] = disk[q].data
      BY <2>2, <2>3, ContentsIs DEF Restrict
    <2> QED BY <2>1, <2>4
  <1>9. ASSUME NEW q \in DOMAIN work', q \in tracked
        PROVE  Holds([staged |-> run'.goal, dirty |-> run'.over], q, work'[q])
    <2> DEFINE st == [staged |-> run'.goal, dirty |-> run'.over]
    <2>1. q \notin Missed /\ work'[q] = disk[q].data BY <1>5, <1>9
    <2>2. q \notin dirty => index[q].data = disk[q].data
      <3> SUFFICES ASSUME q \notin dirty PROVE index[q].data = disk[q].data OBVIOUS
      <3>1. q \notin blind /\ ~Looks(index, disk, q) BY <1>9, <2>1 DEF Missed
      <3> QED BY <1>9, <3>1 DEF TruthInv, Truth, Looks
    <2>3. /\ q \in dirty => W!Over(run'.over, run'.goal)[q] = disk[q].data
          /\ q \notin dirty => W!Over(run'.over, run'.goal)[q] = index[q].data
      <3> HIDE DEF dirty
      <3>1. q \in DOMAIN run'.goal BY <1>8, <1>9
      <3> QED BY <1>8, <1>9, <3>1 DEF W!Over
    <2>4. W!Over(st.dirty, st.staged)[q] = work'[q] BY <2>1, <2>2, <2>3
    <2>5. q \in DOMAIN st.staged BY <1>8, <1>9
    <2> QED BY <2>4, <2>5 DEF Holds
  <1>10. \A q \in DOMAIN work' \cap (DOMAIN run'.goal \cup DOMAIN head') :
            Holds([staged |-> run'.goal, dirty |-> run'.over], q, work'[q]) \/ InStash(q)'
    <2> SUFFICES ASSUME NEW q \in DOMAIN work', q \in DOMAIN run'.goal \cup DOMAIN head,
                        q \notin tracked
                 PROVE  InStash(q)'
      BY <1>1, <1>9
    <2>1. q \notin lost /\ (OnDisk(q) \/ InStash(q)) /\ (InStash(q) => InStash(q)') BY <1>6
    <2>2. q \in DOMAIN index \ Missed BY <1>8, <2>1
    <2>3. ~OnDisk(q) BY <2>2 DEF OnDisk
    <2> QED BY <2>1, <2>3
  <1> HIDE DEF tracked, dirty, lost
  <1>11. DOMAIN run'.ix = DOMAIN run'.goal BY <1>1, <1>8
  <1>12. SaveInv' BY <1>1, <1>10, <1>11 DEF SaveInv
  <1> QED BY <1>1, <1>7, <1>12 DEF KeptInv

LEMMA KeptApply ==
    ASSUME TypeOK, KeptInv, NEW i \in 1 .. Len(stashes), NEW cmd \in {"apply", "pop"},
           ApplyBegin(i, cmd)
    PROVE  KeptInv'
  <1> DEFINE st == stashes[i]
  <1>1. /\ run'.cmd = cmd /\ run'.goal = st.staged /\ run'.over = st.dirty
        /\ run'.at = "files" /\ run'.todo = DOMAIN st.staged
        /\ UNCHANGED <<disk, stashes>>
    BY DEF ApplyBegin, Begin, Idle
  <1>2. st \in W!Stash BY DEF TypeOK
  <1>3. DOMAIN st.dirty \subseteq DOMAIN st.staged BY <1>2 DEF W!Stash
  <1>4. Pending' = DOMAIN st.staged BY <1>1, <1>3 DEF Pending
  <1>5. CASE cmd = "apply"
    <2>1. work' = W!Without(work, DOMAIN st.staged) BY <1>5 DEF ApplyBegin
    <2>2. /\ DOMAIN work' = DOMAIN work \ DOMAIN st.staged
          /\ \A q \in DOMAIN work' : work'[q] = work[q]
      BY <2>1 DEF W!Without, W!Restrict
    <2>3. \A q \in DOMAIN work : OnDisk(q) \/ InStash(q) BY DEF KeptInv
    <2>4. \A q \in DOMAIN work' : OnDisk(q)' \/ InStash(q)' BY <1>1, <2>2, <2>3, KeptStep
    <2> QED BY <1>1, <1>4, <1>5, <2>2, <2>4 DEF KeptInv
  <1>6. CASE cmd = "pop"
    <2>1. work' = W!Over(st.dirty, W!Over(st.staged, work)) /\ i = 1 BY <1>6 DEF ApplyBegin
    <2> HIDE DEF st
    <2>2. /\ DOMAIN work' = DOMAIN st.staged \cup DOMAIN work
          /\ \A q \in DOMAIN st.staged : work'[q] = W!Over(st.dirty, st.staged)[q]
          /\ \A q \in DOMAIN work \ DOMAIN st.staged : work'[q] = work[q]
      BY <1>3, <2>1 DEF W!Over
    <2>3. \A q \in DOMAIN work' : OnDisk(q)' \/ InStash(q)'
      <3> SUFFICES ASSUME NEW q \in DOMAIN work' PROVE OnDisk(q)' \/ InStash(q)' OBVIOUS
      <3>1. CASE q \in DOMAIN st.staged
        <4>1. Holds(stashes'[1], q, work'[q]) BY <1>1, <2>1, <2>2, <3>1 DEF Holds, st
        <4>2. 1 \in 1 .. Len(stashes') BY <1>1, <2>1
        <4> QED BY <4>1, <4>2 DEF InStash
      <3>2. CASE q \notin DOMAIN st.staged
        <4>1. q \in DOMAIN work /\ work'[q] = work[q]
          BY <1>1, <2>2, <3>2
        <4>2. InStash(q) => InStash(q)' BY <1>1, <4>1, StillInStash
        <4>3. OnDisk(q) => OnDisk(q)' BY <1>1, <4>1 DEF OnDisk
        <4> QED BY <4>1, <4>2, <4>3 DEF KeptInv
      <3> QED BY <3>1, <3>2
    <2>4. stashes'[1] = st BY <1>1, <2>1 DEF st
    <2>5. PopInv' BY <1>1, <1>4, <2>2, <2>4 DEF PopInv
    <2> QED BY <1>1, <1>6, <2>3, <2>5 DEF KeptInv
  <1> QED BY <1>5, <1>6

LEMMA KeptNext == TypeOK /\ TruthInv /\ KeptInv /\ [Next]_vars => KeptInv'
  <1> SUFFICES ASSUME TypeOK, TruthInv, KeptInv, [Next]_vars PROVE KeptInv' OBVIOUS
  <1>0. run \in Runs BY DEF TypeOK, RunOK
  <1>1. ASSUME NEW p \in Paths, NEW c \in Data, Edit(p, c) PROVE KeptInv'
    <2>1. /\ disk' = Put(disk, p, [data |-> c, mtime |-> now]) /\ work' = W!Without(work, {p})
          /\ UNCHANGED <<stashes, head, run>>
      BY <1>1 DEF Edit, Write
    <2>2. \A q \in DOMAIN disk \ {p} : q \in DOMAIN disk' /\ disk'[q] = disk[q]
      BY <2>1 DEF Put, One, W!Over
    <2>3. \A q \in DOMAIN work' : q \in DOMAIN work \ {p} /\ work'[q] = work[q]
      BY <2>1 DEF W!Without, W!Restrict
    <2> QED BY <2>1, <2>2, <2>3, KeptUser
  <1>2. ASSUME NEW p \in Paths, Delete(p) PROVE KeptInv'
    <2>1. /\ disk' = W!Without(disk, {p}) /\ work' = W!Without(work, {p})
          /\ UNCHANGED <<stashes, head, run>>
      BY <1>2 DEF Delete, Unlink
    <2>2. \A q \in DOMAIN disk \ {p} : q \in DOMAIN disk' /\ disk'[q] = disk[q]
      BY <2>1 DEF W!Without, W!Restrict
    <2>3. \A q \in DOMAIN work' : q \in DOMAIN work \ {p} /\ work'[q] = work[q]
      BY <2>1 DEF W!Without, W!Restrict
    <2> QED BY <2>1, <2>2, <2>3, KeptUser
  <1>3. CASE Tick \/ UNCHANGED vars BY <1>3, KeptUser DEF Tick, vars
  <1>4. CASE Crash BY <1>4, KeptIdle DEF Crash, Idle
  <1>5. CASE StageStep
    <2>1. UNCHANGED <<stashes, work, disk>>
      BY <1>5 DEF StageStep, StageRemoves, StageRead, StageSync, StageSave
    <2>2. run'.cmd \in {"none", "stage"}
      <3>1. CASE StageRemoves BY <1>0, <3>1, At DEF StageRemoves, Goes, Runs
      <3>2. ASSUME NEW p \in Paths, StageRead(p) PROVE run'.cmd \in {"none", "stage"}
        BY <1>0, <3>2 DEF StageRead, Goes, Runs
      <3>3. CASE StageSync BY <1>0, <3>3 DEF StageSync, Goes, Runs
      <3>4. CASE StageSave BY <3>4 DEF StageSave, Ends, Idle
      <3> QED BY <1>5, <3>1, <3>2, <3>3, <3>4 DEF StageStep
    <2> QED BY <2>1, <2>2, KeptIdle
  <1>6. ASSUME NEW p \in Paths, RemoveFile(p) \/ WriteFile(p) \/ RecordFile(p) \/ Overlay(p)
        PROVE  KeptInv'
    BY <1>6, KeptRemove, KeptWrite, KeptRecord, KeptOverlay
  <1>7. CASE SaveIndex \/ DetachEnd \/ SaveFlush \/ SavePut \/ PopEnd
    BY <1>7, KeptEnds, KeptPut, KeptPop
  <1>8. ASSUME NEW S \in SUBSET Paths, StageBegin(S) PROVE KeptInv'
    BY <1>8, KeptIdle DEF StageBegin, Begin, Idle
  <1>9. CASE Commit BY <1>9, KeptIdle DEF Commit, Idle
  <1>10. ASSUME NEW tree \in history, CheckoutBegin(tree, "checkout") \/ CheckoutBegin(tree, "detach")
         PROVE  KeptInv'
    BY <1>10, KeptCheckout
  <1>11. CASE SaveBegin BY <1>11, KeptSave
  <1>12. ASSUME NEW i \in 1 .. Len(stashes), ApplyBegin(i, "apply") \/ ApplyBegin(i, "pop")
         PROVE  KeptInv'
    BY <1>12, KeptApply
  <1> QED
    BY <1>1, <1>2, <1>3, <1>4, <1>5, <1>6, <1>7, <1>8, <1>9, <1>10, <1>11, <1>12
    DEF Next, User, Step, Start

\* "Stash changes" (main.rs): from the moment the user stashes or pops until the next edit,
\* checkout or apply, the contents of a tracked file are on disk or in a stash, however edits
\* and the steps of save and pop fall and wherever they die; a save takes over the contents
\* the fast check does not miss.
THEOREM StashedWorkIsKept == Spec => []WorkKept
  <1>1. KeptInv => WorkKept BY DEF KeptInv, OnDisk, InStash, WorkKept
  <1> QED
    BY <1>1, TypeCorrect, KeptInit, KeptNext, TruthInit, TruthNext, PTL DEF Spec

----------------------------------------------------------------------------
\* Commands that run alone are those of Workspace: what has been done of the command in
\* progress is a part of what it does there in one step.

\* Entries recorded by commands that ran alone have the length of their contents.
Sized(ix) == \A p \in DOMAIN ix : ix[p].size = Size[ix[p].data]

\* The files of a tree but those of S; and a directory or an index with files written at t.
But(tree, S)          == W!Restrict(tree, DOMAIN tree \ S)
Written(files, t, d)  == W!Over(W!Stamp(files, t), d)

Unmoved == disk = WholeDisk /\ stashes = WholeStashes /\ now = WholeNow /\ blind = WholeBlind

\* The index with these of the files recorded, and without the entries whose files are gone.
StagePart(files) ==
    W!Over(W!Restrict(WholeDisk, files),
           W!Restrict(WholeIndex, DOMAIN WholeIndex \cap DOMAIN WholeDisk))

StageWhole == \E S \in SUBSET Paths :
    LET found == W!ToStage(S)
    IN  /\ Unmoved /\ head = WholeHead /\ Plain(index) = WholeIndex
        /\ run.stats = Restrict(disk, DOMAIN run.stats) /\ DOMAIN run.stats \subseteq found
        /\ IF run.at = "removes" THEN DOMAIN run.stats = found /\ run.ix = index
           ELSE Plain(run.ix) = StagePart(found \ DOMAIN run.stats)
        /\ blindIx = WholeBlind \ (found \ DOMAIN run.stats)
        /\ run.at = "end" => DOMAIN run.stats = {}

\* The index of the command when it began with ix, and the index on disk.
Recording(ix) ==
    /\ Plain(run.ix) = Written(But(run.goal, run.todo \cup run.cur), WholeNow, ix)
    /\ run.cur \cap run.todo = {} /\ \A p, q \in run.cur : p = q
    /\ IF run.at = "end"
       THEN Plain(index) = Plain(run.ix) /\ blind = blindIx /\ run.gone \cup run.todo \cup run.cur = {}
       ELSE Plain(index) = WholeIndex

\* The way to the tree run.goal.
SwitchWhole ==
    LET lacked == DOMAIN WholeIndex \ DOMAIN run.goal
    IN  /\ now = WholeNow /\ DOMAIN run.over = {} /\ run.gone \subseteq lacked
        /\ disk = Written(But(run.goal, run.todo), WholeNow, W!Without(WholeDisk, lacked \ run.gone))
        /\ blindIx = {}
        /\ Recording(NoTree)

CheckoutWhole ==
    /\ SwitchWhole /\ run.goal \in history /\ stashes = WholeStashes
    /\ head = IF run.cmd = "checkout" THEN run.goal ELSE WholeHead

SaveWhole ==
    LET st == W!Stashed(W!Work)
    IN  /\ head = WholeHead /\ ~W!LooksUnchanged(st)
        /\ IF run.at = "files"
           THEN /\ SwitchWhole /\ run.goal = head
                /\ stashes = <<st>> \o WholeStashes /\ Len(stashes) <= MaxStashes
           ELSE /\ Unmoved /\ Len(stashes) < MaxStashes /\ Plain(index) = WholeIndex /\ run.ix = index
                /\ st = [staged |-> run.goal, dirty |-> run.over]

\* The files of done are written, those of late among them in the second after.
Laid(dirty, done, late, d) ==
    Written(W!Restrict(dirty, late), WholeNow + 1, Written(W!Restrict(dirty, done), WholeNow, d))

\* The way of an apply or a pop, the stash st being the one it began with: the dirty files are
\* written when every staged one is recorded.
Applying(st, late) ==
    LET done == DOMAIN st.dirty \ DOMAIN run.over
    IN  /\ run.goal = st.staged /\ run.gone = {}
        /\ DOMAIN run.over \subseteq DOMAIN st.dirty
        /\ run.over = W!Restrict(st.dirty, DOMAIN run.over)
        /\ run.at = "end" => DOMAIN run.over = {}
        /\ run.todo \cup run.cur # {} => done = {} /\ now = WholeNow
        /\ late \subseteq done
        /\ \/ now = WholeNow /\ late = {}
           \/ WholeNow \in Nat /\ now = WholeNow + 1 /\ late \cup DOMAIN run.over # {}
        /\ disk = Laid(st.dirty, done, late, Written(But(run.goal, run.todo), WholeNow, WholeDisk))
        /\ blindIx = (WholeBlind \ (DOMAIN run.goal \ run.todo)) \cup (done \ late)
        /\ Recording(WholeIndex)

ApplyWhole == \E i \in 1 .. Len(WholeStashes) : \E late \in SUBSET Paths :
    /\ run.cmd = "pop" => i = 1
    /\ head = WholeHead /\ stashes = WholeStashes
    /\ Applying(WholeStashes[i], late)

WholeInv ==
    ~disturbed =>
        /\ Sized(index) /\ Sized(run.ix)
        /\ run.cmd = "stage" => StageWhole
        /\ run.cmd \in {"checkout", "detach"} => CheckoutWhole
        /\ run.cmd = "save" => SaveWhole
        /\ run.cmd \in {"apply", "pop"} => ApplyWhole

LEMMA IsFunction ==
    ASSUME NEW S, NEW d \in W!Partial(S)
    PROVE  d = [p \in DOMAIN d |-> d[p]]
  <1>1. d \in [DOMAIN d -> S] BY PartialIs
  <1> QED BY <1>1

\* Nothing is written yet.
LEMMA WrittenNone ==
    ASSUME NEW tree, NEW S, DOMAIN tree \subseteq S, NEW t, NEW d, d = [p \in DOMAIN d |-> d[p]]
    PROVE  Written(But(tree, S), t, d) = d
  BY DEF Written, W!Over, W!Stamp, But, W!Restrict

\* Everything is written.
LEMMA WrittenAll ==
    ASSUME NEW tree, NEW t, NEW d
    PROVE  Written(But(tree, {}), t, d) = W!Over(W!Stamp(tree, t), d)
  BY DEF Written, W!Over, W!Stamp, But, W!Restrict

\* One more file is written.
LEMMA WrittenOne ==
    ASSUME NEW tree, NEW S, NEW p \in S \cap DOMAIN tree, NEW t, NEW d
    PROVE  Put(Written(But(tree, S), t, d), p, [data |-> tree[p], mtime |-> t])
             = Written(But(tree, S \ {p}), t, d)
  BY DEF Put, One, Written, W!Over, W!Stamp, But, W!Restrict

LEMMA PlainPut ==
    ASSUME NEW ix, NEW p, NEW c, NEW t, NEW n
    PROVE  Plain(Put(ix, p, [data |-> c, mtime |-> t, size |-> n]))
             = Put(Plain(ix), p, [data |-> c, mtime |-> t])
  BY DEF Put, One, W!Over, Plain

\* A file that the tree lacks is deleted before or after the others are written.
LEMMA WrittenWithout ==
    ASSUME NEW files, NEW t, NEW d, NEW S, NEW p, p \notin DOMAIN files
    PROVE  W!Without(Written(files, t, W!Without(d, S)), {p})
             = Written(files, t, W!Without(d, S \cup {p}))
  BY DEF Written, W!Over, W!Stamp, W!Without, W!Restrict

\* Between commands, and in the middle of one that runs alone.
LEMMA WholeIdle ==
    ASSUME run.cmd = "none"
    PROVE  /\ WholeDisk = disk /\ WholeIndex = Plain(index) /\ WholeHead = head
           /\ WholeStashes = stashes /\ WholeNow = now /\ WholeBlind = blind
  <1>1. ~Undisturbed BY DEF Undisturbed
  <1> QED BY <1>1 DEF WholeDisk, WholeIndex, WholeHead, WholeStashes, WholeNow, WholeBlind

LEMMA WholeBegins ==
    ASSUME NEW r, Begin(r), r.cmd # "none", ~disturbed
    PROVE  /\ WholeDisk = disk /\ WholeIndex = Plain(index) /\ WholeHead = head
           /\ WholeStashes = stashes /\ WholeNow = now /\ WholeBlind = blind
           /\ UNCHANGED <<WholeDisk, WholeIndex, WholeHead, WholeStashes, WholeNow, WholeBlind>>
  <1>1. run.cmd = "none" BY DEF Begin, Idle
  <1>2. Undisturbed'
    <2>1. ~disturbed' BY Zenon DEF Begin
    <2>2. run' = r BY DEF Begin
    <2> QED BY <2>1, <2>2 DEF Undisturbed
  <1>3. before' = [disk |-> disk, index |-> index, head |-> head, stashes |-> stashes, now |-> now,
                   blind |-> blind]
    BY DEF Begin
  <1>4. /\ WholeDisk' = disk /\ WholeIndex' = Plain(index) /\ WholeHead' = head
        /\ WholeStashes' = stashes /\ WholeNow' = now /\ WholeBlind' = blind
    BY <1>2, <1>3 DEF WholeDisk, WholeIndex, WholeHead, WholeStashes, WholeNow, WholeBlind
  <1> QED BY <1>1, <1>4, WholeIdle

LEMMA WholeGoes ==
    ASSUME NEW r, Goes(r), r.cmd # "none", run.cmd # "none", ~disturbed
    PROVE  /\ ~disturbed'
           /\ UNCHANGED <<WholeDisk, WholeIndex, WholeHead, WholeStashes, WholeNow, WholeBlind>>
  <1>1. ~disturbed' /\ before' = before BY Zenon DEF Goes
  <1>2. run' = r BY DEF Goes
  <1>3. Undisturbed /\ Undisturbed' BY <1>1, <1>2 DEF Undisturbed
  <1> QED BY <1>1, <1>3 DEF WholeDisk, WholeIndex, WholeHead, WholeStashes, WholeNow, WholeBlind

LEMMA WholeInit == Init => WholeInv
  BY DEF Init, Idle, NoTree, W!NoTree, WholeInv, Sized

LEMMA SizedPut ==
    ASSUME NEW ix, Sized(ix), NEW p, NEW c, NEW t
    PROVE  Sized(Put(ix, p, [data |-> c, mtime |-> t, size |-> Size[c]]))
  BY DEF Sized, Put, One, W!Over

LEMMA SizedNone == Sized(NoTree)
  BY DEF Sized, NoTree, W!NoTree

\* For such an index the fast check looks at the length of the contents, as in Workspace.
LEMMA LooksSame ==
    ASSUME NEW ix, Sized(ix), NEW d, NEW p \in DOMAIN ix
    PROVE  W!IsDirty(Plain(ix), d, p) <=> Looks(ix, d, p)
  BY DEF Sized, W!IsDirty, Plain, Looks

\* Nothing is in progress.
LEMMA WholeNone ==
    ASSUME WholeInv, ~disturbed, run'.cmd = "none", Sized(index)', Sized(run.ix)'
    PROVE  WholeInv'
  BY DEF WholeInv

LEMMA WholeEnds ==
    ASSUME run' = Idle, Sized(index')
    PROVE  WholeInv'
  <1>1. run'.cmd = "none" /\ run'.ix = NoTree BY DEF Idle
  <1> QED BY <1>1, SizedNone DEF WholeInv, Sized

\* The steps of stage.
LEMMA WholeStage ==
    ASSUME TypeOK, WholeInv, ~disturbed, ~disturbed',
           StageStep \/ \E S \in SUBSET Paths : StageBegin(S)
    PROVE  WholeInv'
  <1>0. run \in Runs /\ disk = [p \in DOMAIN disk |-> disk[p]]
    BY IsFunction DEF TypeOK, RunOK
  <1>z. Sized(index) /\ Sized(run.ix) BY DEF WholeInv
  <1>1. ASSUME NEW S \in SUBSET Paths, StageBegin(S) PROVE WholeInv'
    <2> DEFINE r == [Idle EXCEPT !.cmd = "stage", !.at = "removes", !.ix = index,
                                 !.stats = Restrict(disk, ToStage(S))]
    <2>1. Begin(r) /\ UNCHANGED <<disk, index, head, stashes, now, blind>> /\ blindIx' = blind
      BY <1>1 DEF StageBegin, Begin
    <2>2. /\ run' = r /\ r.cmd = "stage" /\ r.at = "removes" /\ r.ix = index
          /\ r.stats = Restrict(disk, ToStage(S))
      BY <2>1 DEF Begin, Idle
    <2> HIDE DEF r
    <2>3. /\ WholeDisk' = disk /\ WholeIndex' = Plain(index) /\ WholeHead' = head
          /\ WholeStashes' = stashes /\ WholeNow' = now /\ WholeBlind' = blind
      BY <2>1, <2>2, WholeBegins
    <2>4. W!ToStage(S)' = ToStage(S)
      <3>1. DOMAIN Plain(index) = DOMAIN index BY DEF Plain
      <3>2. \A p \in DOMAIN index : W!IsDirty(Plain(index), disk, p) <=> Looks(index, disk, p)
        BY <1>z, LooksSame
      <3> QED BY <2>3, <3>1, <3>2 DEF W!ToStage, ToStage
    <2>5. DOMAIN run'.stats = ToStage(S) /\ run'.stats = Restrict(disk, DOMAIN run'.stats)
      BY <2>2 DEF Restrict
    <2>6. StageWhole' BY <2>1, <2>2, <2>3, <2>4, <2>5 DEF StageWhole, Unmoved
    <2> QED BY <1>z, <2>1, <2>2, <2>6 DEF WholeInv
  <1>2. ASSUME run.cmd = "stage", NEW r, Goes(r), r.cmd = "stage", UNCHANGED <<disk, index, head, stashes, now, blind>>,
               Sized(r.ix), DOMAIN r.stats \subseteq DOMAIN run.stats,
               r.stats = Restrict(disk, DOMAIN r.stats), r.at # "removes",
               r.at = "end" => DOMAIN r.stats = {},
               blindIx' = blindIx \ (DOMAIN run.stats \ DOMAIN r.stats),
               \A found :
                   /\ disk = WholeDisk /\ Plain(index) = WholeIndex /\ DOMAIN run.stats \subseteq found
                   /\ IF run.at = "removes" THEN DOMAIN run.stats = found /\ run.ix = index
                      ELSE Plain(run.ix) = StagePart(found \ DOMAIN run.stats)
                   => Plain(r.ix) = StagePart(found \ DOMAIN r.stats)
        PROVE  WholeInv'
    <2>1. StageWhole BY <1>2 DEF WholeInv
    <2>2. PICK S \in SUBSET Paths :
              /\ Unmoved /\ head = WholeHead /\ Plain(index) = WholeIndex
              /\ run.stats = Restrict(disk, DOMAIN run.stats) /\ DOMAIN run.stats \subseteq W!ToStage(S)
              /\ IF run.at = "removes" THEN DOMAIN run.stats = W!ToStage(S) /\ run.ix = index
                 ELSE Plain(run.ix) = StagePart(W!ToStage(S) \ DOMAIN run.stats)
              /\ blindIx = WholeBlind \ (W!ToStage(S) \ DOMAIN run.stats)
              /\ run.at = "end" => DOMAIN run.stats = {}
      BY <2>1, Zenon DEF StageWhole
    <2>3. UNCHANGED <<WholeDisk, WholeIndex, WholeHead, WholeStashes, WholeNow, WholeBlind>> /\ run' = r
      BY <1>2, WholeGoes DEF Goes
    <2>4. W!ToStage(S)' = W!ToStage(S) BY <2>3 DEF W!ToStage
    <2>5. Plain(r.ix) = StagePart(W!ToStage(S) \ DOMAIN r.stats)
      BY <1>2, <2>2 DEF Unmoved
    <2>8. StagePart(W!ToStage(S) \ DOMAIN r.stats)' = StagePart(W!ToStage(S) \ DOMAIN r.stats)
      BY <2>3, <2>4 DEF StagePart
    <2>6. StageWhole'
      <3>1. Unmoved' /\ head' = WholeHead' /\ Plain(index') = WholeIndex'
        BY <1>2, <2>2, <2>3 DEF Unmoved
      <3>2. blindIx' = WholeBlind' \ (W!ToStage(S)' \ DOMAIN run'.stats)
        BY <1>2, <2>2, <2>3, <2>4
      <3> QED BY <1>2, <2>2, <2>3, <2>4, <2>5, <2>8, <3>1, <3>2 DEF StageWhole
    <2>7. run'.cmd = "stage" /\ run'.ix = r.ix /\ index' = index BY <1>2, <2>3
    <2> QED BY <1>z, <1>2, <2>6, <2>7 DEF WholeInv
  <1>3. CASE StageRemoves
    <2> DEFINE r == [run EXCEPT !.at = "files", !.ix = Restrict(@, DOMAIN @ \cap DOMAIN disk)]
    <2>1. run.cmd = "stage" BY <1>3, At DEF StageRemoves
    <2>2. /\ r.cmd = "stage" /\ r.at = "files" /\ r.stats = run.stats
          /\ r.ix = Restrict(run.ix, DOMAIN run.ix \cap DOMAIN disk)
      BY <1>0, <2>1 DEF Runs
    <2>3. Goes(r) /\ UNCHANGED <<disk, index, head, stashes, now, blind, blindIx>> BY <1>3 DEF StageRemoves
    <2> HIDE DEF r
    <2>4. Sized(r.ix) BY <1>z, <2>2 DEF Sized, Restrict
    <2>5. run.stats = Restrict(disk, DOMAIN run.stats)
      BY <2>1 DEF WholeInv, StageWhole
    <2>6. ASSUME NEW found, DOMAIN run.stats = found, run.ix = index, disk = WholeDisk,
                 Plain(index) = WholeIndex
          PROVE  Plain(r.ix) = StagePart(found \ DOMAIN r.stats)
      <3>1. Plain(r.ix) = W!Over(W!Restrict(disk, found \ DOMAIN r.stats),
                                 W!Restrict(Plain(index), DOMAIN Plain(index) \cap DOMAIN disk))
        BY <2>2, <2>6 DEF Restrict, W!Restrict, W!Over, Plain
      <3> HIDE DEF Plain
      <3> QED BY <2>6, <3>1 DEF StagePart
    <2>7. run.at = "removes" BY <1>3 DEF StageRemoves
    <2> QED BY <1>2, <2>1, <2>2, <2>3, <2>4, <2>5, <2>6, <2>7
  <1>4. ASSUME NEW p \in Paths, StageRead(p) PROVE WholeInv'
    <2> DEFINE entry == [data |-> disk[p].data, mtime |-> run.stats[p].mtime,
                         size |-> Size[run.stats[p].data]]
               r == [run EXCEPT !.stats = W!Without(@, {p}),
                                !.ix = IF p \in DOMAIN disk THEN Put(@, p, entry) ELSE @]
    <2>1. run.cmd = "stage" /\ run.at = "files" /\ p \in DOMAIN run.stats BY <1>4 DEF StageRead
    <2>2. /\ r.cmd = "stage" /\ r.at = "files" /\ r.stats = W!Without(run.stats, {p})
          /\ r.ix = IF p \in DOMAIN disk THEN Put(run.ix, p, entry) ELSE run.ix
      BY <1>0, <2>1 DEF Runs
    <2>3. /\ Goes(r) /\ UNCHANGED <<disk, index, head, stashes, now, blind>>
          /\ blindIx' = blindIx \ {p}
      BY <1>4 DEF StageRead
    <2> HIDE DEF r, entry
    <2>4. PICK S : /\ run.stats = Restrict(disk, DOMAIN run.stats) /\ disk = WholeDisk
                   /\ DOMAIN run.stats \subseteq W!ToStage(S)
      BY <2>1, Zenon DEF WholeInv, StageWhole, Unmoved
    <2>5. p \in DOMAIN disk BY <2>1, <2>4 DEF W!ToStage
    <2>6. run.stats[p] = disk[p] BY <2>1, <2>4 DEF Restrict
    <2>7. disk[p].data = disk[p].data /\ entry = [data |-> disk[p].data, mtime |-> disk[p].mtime, size |-> Size[disk[p].data]]
      BY <2>6 DEF entry
    <2>8. r.ix = Put(run.ix, p, [data |-> disk[p].data, mtime |-> disk[p].mtime, size |-> Size[disk[p].data]])
      BY <2>2, <2>5, <2>7
    <2>9. Sized(r.ix) BY <1>z, <2>8, SizedPut
    <2>10. Plain(r.ix) = Put(Plain(run.ix), p, [data |-> disk[p].data, mtime |-> disk[p].mtime])
      BY <2>8, PlainPut
    <2>11. r.stats = Restrict(disk, DOMAIN r.stats) /\ DOMAIN r.stats = DOMAIN run.stats \ {p}
      BY <2>2, <2>4 DEF W!Without, W!Restrict, Restrict
    <2>12. [data |-> disk[p].data, mtime |-> disk[p].mtime] = disk[p]
      <3>1. disk[p] \in W!Stat BY <2>5, PartialIs DEF TypeOK
      <3> QED BY <3>1 DEF W!Stat
    <2>13. ASSUME NEW found, DOMAIN run.stats \subseteq found, disk = WholeDisk,
                  Plain(run.ix) = StagePart(found \ DOMAIN run.stats)
           PROVE  Plain(r.ix) = StagePart(found \ DOMAIN r.stats)
      <3>1. found \ DOMAIN r.stats = (found \ DOMAIN run.stats) \cup {p} BY <2>1, <2>11, <2>13
      <3>2. Plain(r.ix) = Put(Plain(run.ix), p, disk[p]) BY <2>10, <2>12
      <3> HIDE DEF Plain
      <3> QED BY <2>13, <3>1, <3>2 DEF StagePart, Put, One, W!Over, W!Restrict
    <2>14. blindIx' = blindIx \ (DOMAIN run.stats \ DOMAIN r.stats) BY <2>1, <2>3, <2>11
    <2> QED BY <1>2, <2>1, <2>2, <2>3, <2>9, <2>11, <2>13, <2>14
  <1>5. CASE StageSync
    <2> DEFINE r == [run EXCEPT !.at = "end"]
    <2>1. run.cmd = "stage" /\ run.at = "files" /\ DOMAIN run.stats = {} BY <1>5 DEF StageSync
    <2>2. r.cmd = "stage" /\ r.at = "end" /\ r.stats = run.stats /\ r.ix = run.ix
      BY <1>0, <2>1 DEF Runs
    <2>3. Goes(r) /\ UNCHANGED <<disk, index, head, stashes, now, blind, blindIx>> BY <1>5 DEF StageSync
    <2> HIDE DEF r
    <2>4. run.stats = Restrict(disk, DOMAIN run.stats)
      BY <2>1 DEF WholeInv, StageWhole
    <2> QED BY <1>2, <1>z, <2>1, <2>2, <2>3, <2>4
  <1>6. CASE StageSave BY <1>6, <1>z, WholeEnds DEF StageSave, Ends
  <1> QED BY <1>1, <1>3, <1>4, <1>5, <1>6 DEF StageStep

\* A file that is written.
LEMMA WrittenAt ==
    ASSUME NEW tree, NEW S, NEW p \in DOMAIN tree \ S, NEW t, NEW d
    PROVE  /\ p \in DOMAIN Written(But(tree, S), t, d)
           /\ Written(But(tree, S), t, d)[p] = [data |-> tree[p], mtime |-> t]
  BY DEF Written, W!Over, W!Stamp, But, W!Restrict

LEMMA WrittenFunction ==
    ASSUME NEW files, NEW t, NEW d
    PROVE  Written(files, t, d) = [p \in DOMAIN Written(files, t, d) |-> Written(files, t, d)[p]]
  BY DEF Written, W!Over

\* What is recorded of the files that are written.
LEMMA RecordingWrite ==
    ASSUME TypeOK, NEW ix, Recording(ix), NEW p, WriteFile(p), ix' = ix, WholeNow' = WholeNow,
           WholeIndex' = WholeIndex
    PROVE  /\ Recording(ix)' /\ run'.ix = run.ix /\ run'.todo = run.todo \ {p}
           /\ run'.at = "files" /\ run'.goal = run.goal /\ run'.gone = run.gone /\ run'.over = run.over
           /\ p \in run.todo \cap DOMAIN run.goal
  <1>0. run \in Runs BY DEF TypeOK, RunOK
  <1>1. /\ run'.ix = run.ix /\ run'.todo = run.todo \ {p} /\ run'.cur = {p} /\ run'.at = "files"
        /\ run'.goal = run.goal /\ run'.gone = run.gone /\ run'.over = run.over
    BY <1>0 DEF WriteFile, Goes, Runs
  <1>2. p \in run.todo \cap DOMAIN run.goal BY DEF WriteFile, TypeOK, RunOK
  <1>3. run.cur = {} /\ run.at = "files" /\ index' = index BY DEF WriteFile
  <1>4. run'.todo \cup run'.cur = run.todo \cup run.cur BY <1>1, <1>2, <1>3
  <1>5. Plain(run'.ix) = Written(But(run'.goal, run'.todo \cup run'.cur), WholeNow', ix')
    BY <1>1, <1>4 DEF Recording
  <1>6. run'.cur \cap run'.todo = {} /\ \A q1, q2 \in run'.cur : q1 = q2 BY <1>1
  <1>7. Plain(index') = WholeIndex' BY <1>3 DEF Recording
  <1> QED BY <1>1, <1>2, <1>5, <1>6, <1>7 DEF Recording

LEMMA RecordingRecord ==
    ASSUME TypeOK, NEW ix, Recording(ix), Sized(run.ix), NEW p, RecordFile(p), ix' = ix,
           WholeNow' = WholeNow, WholeIndex' = WholeIndex,
           disk[p] = [data |-> run.goal[p], mtime |-> WholeNow]
    PROVE  /\ Recording(ix)' /\ Sized(run'.ix) /\ run'.todo = run.todo
           /\ run'.at = "files" /\ run'.goal = run.goal /\ run'.gone = run.gone /\ run'.over = run.over
           /\ run'.cur = {}
  <1>0. run \in Runs /\ run.at = "files" /\ p \in DOMAIN run.goal BY DEF TypeOK, RunOK, RecordFile
  <1> DEFINE e == [data |-> run.goal[p], mtime |-> WholeNow, size |-> Size[run.goal[p]]]
  <1>1. disk[p].data = run.goal[p] /\ disk[p].mtime = WholeNow OBVIOUS
  <1>2. /\ run'.todo = run.todo /\ run'.cur = {} /\ run'.at = "files"
        /\ run'.goal = run.goal /\ run'.gone = run.gone /\ run'.over = run.over
    BY <1>0 DEF RecordFile, Goes, Runs
  <1>3. run'.ix = Put(run.ix, p, e) BY <1>0, <1>1 DEF RecordFile, Goes, Runs
  <1>4. Sized(run'.ix) BY <1>3, SizedPut
  <1>5. Plain(run'.ix) = Put(Plain(run.ix), p, [data |-> run.goal[p], mtime |-> WholeNow])
    BY <1>3, PlainPut
  <1>6. p \in run.cur /\ index' = index BY DEF RecordFile
  <1>7. run.cur = {p} BY <1>6 DEF Recording
  <1>8. (run.todo \cup run.cur) \ {p} = run'.todo \cup run'.cur BY <1>2, <1>7 DEF Recording
  <1>9. p \in (run.todo \cup run.cur) \cap DOMAIN run.goal BY <1>0, <1>6
  <1>10. Plain(run'.ix) = Written(But(run'.goal, run'.todo \cup run'.cur), WholeNow', ix')
    <2>1. Plain(run.ix) = Written(But(run.goal, run.todo \cup run.cur), WholeNow, ix)
      BY DEF Recording
    <2>2. Plain(run'.ix) = Written(But(run.goal, (run.todo \cup run.cur) \ {p}), WholeNow, ix)
      BY <1>5, <1>9, <2>1, WrittenOne
    <2> QED BY <1>2, <1>8, <2>2
  <1>11. Plain(index') = WholeIndex' BY <1>0, <1>6 DEF Recording
  <1> QED BY <1>2, <1>4, <1>10, <1>11 DEF Recording

\* On the way to a tree.
LEMMA SwitchStep ==
    ASSUME TypeOK, SwitchWhole, Sized(run.ix), NEW p \in Paths,
           RemoveFile(p) \/ WriteFile(p) \/ RecordFile(p),
           UNCHANGED <<WholeDisk, WholeIndex, WholeHead, WholeStashes, WholeNow, WholeBlind>>
    PROVE  SwitchWhole' /\ Sized(run'.ix) /\ run'.at = "files" /\ run'.goal = run.goal
  <1>0. run \in Runs BY DEF TypeOK, RunOK
  <1> DEFINE lacked == DOMAIN WholeIndex \ DOMAIN run.goal
             base   == W!Without(WholeDisk, lacked \ run.gone)
  <1>1. /\ now = WholeNow /\ DOMAIN run.over = {} /\ run.gone \subseteq lacked
        /\ disk = Written(But(run.goal, run.todo), WholeNow, base) /\ blindIx = {} /\ Recording(NoTree)
    BY DEF SwitchWhole
  <1>2. NoTree' = NoTree BY DEF NoTree, W!NoTree
  <1>3. CASE RemoveFile(p)
    <2>1. /\ run'.ix = run.ix /\ run'.todo = run.todo /\ run'.cur = run.cur /\ run'.at = "files"
          /\ run'.goal = run.goal /\ run'.gone = run.gone \ {p} /\ run'.over = run.over
          /\ p \in run.gone /\ run.at = "files" /\ UNCHANGED <<index, now>>
          /\ disk' = W!Without(disk, {p}) /\ blindIx' = blindIx \ {p}
      BY <1>0, <1>3 DEF RemoveFile, Unlink, Goes, Runs
    <2>2. Recording(NoTree)' BY <1>1, <1>2, <2>1 DEF Recording
    <2>3. p \in lacked /\ p \notin DOMAIN But(run.goal, run.todo)
      BY <1>1, <2>1 DEF But, W!Restrict
    <2>4. (lacked \ run.gone) \cup {p} = lacked \ (run.gone \ {p}) BY <2>1, <2>3
    <2>5. disk' = Written(But(run.goal, run.todo), WholeNow, W!Without(WholeDisk, lacked \ (run.gone \ {p})))
      BY <1>1, <2>1, <2>3, <2>4, WrittenWithout
    <2> QED BY <1>1, <2>1, <2>2, <2>5 DEF SwitchWhole
  <1>4. CASE WriteFile(p)
    <2>1. /\ Recording(NoTree)' /\ run'.ix = run.ix /\ run'.todo = run.todo \ {p}
          /\ run'.at = "files" /\ run'.goal = run.goal /\ run'.gone = run.gone /\ run'.over = run.over
          /\ p \in run.todo \cap DOMAIN run.goal
      BY <1>1, <1>2, <1>4, RecordingWrite
    <2>2. /\ disk' = Put(disk, p, [data |-> run.goal[p], mtime |-> now]) /\ now' = now
          /\ blindIx' = blindIx \ {p}
      BY <1>4 DEF WriteFile, Write
    <2>3. disk' = Written(But(run.goal, run.todo \ {p}), WholeNow, base)
      <3> HIDE DEF base
      <3> QED BY <1>1, <2>1, <2>2, WrittenOne
    <2> QED BY <1>1, <2>1, <2>2, <2>3 DEF SwitchWhole
  <1>5. CASE RecordFile(p)
    <2>1. p \in DOMAIN run.goal \ run.todo
      <3>1. p \in run.cur BY <1>5 DEF RecordFile
      <3> QED BY <3>1, <1>1 DEF Recording, TypeOK, RunOK
    <2>2. disk[p] = [data |-> run.goal[p], mtime |-> WholeNow]
      <3> HIDE DEF base
      <3> QED BY <1>1, <2>1, WrittenAt
    <2>3. /\ Recording(NoTree)' /\ Sized(run'.ix) /\ run'.todo = run.todo
          /\ run'.at = "files" /\ run'.goal = run.goal /\ run'.gone = run.gone /\ run'.over = run.over
      BY <1>1, <1>2, <1>5, <2>2, RecordingRecord
    <2>4. UNCHANGED <<disk, now, blindIx>> BY <1>5 DEF RecordFile
    <2> QED BY <1>1, <2>3, <2>4 DEF SwitchWhole
  <1> QED BY <1>3, <1>4, <1>5

\* The stash that is saved is that of the beginning.
LEMMA StashKept ==
    ASSUME UNCHANGED <<WholeDisk, WholeIndex, WholeHead, WholeStashes, WholeNow, WholeBlind>>
    PROVE  /\ W!Stashed(W!Work)' = W!Stashed(W!Work)
           /\ \A st : W!LooksUnchanged(st)' <=> W!LooksUnchanged(st)
  BY DEF W!Stashed, W!Work, W!LooksUnchanged

\* Nothing is laid over d; one file more is, in the first second or in the one after.
LEMMA LaidNone ==
    ASSUME NEW dirty, NEW d, d = [p \in DOMAIN d |-> d[p]]
    PROVE  Laid(dirty, {}, {}, d) = d
  BY DEF Laid, Written, W!Over, W!Stamp, W!Restrict

LEMMA LaidNow ==
    ASSUME NEW dirty, NEW done, NEW d, NEW p
    PROVE  Put(Laid(dirty, done, {}, d), p, [data |-> dirty[p], mtime |-> WholeNow])
             = Laid(dirty, done \cup {p}, {}, d)
  BY DEF Laid, Put, One, Written, W!Over, W!Stamp, W!Restrict

LEMMA LaidLate ==
    ASSUME NEW dirty, NEW done, NEW late, NEW d, NEW p
    PROVE  Put(Laid(dirty, done, late, d), p, [data |-> dirty[p], mtime |-> WholeNow + 1])
             = Laid(dirty, done \cup {p}, late \cup {p}, d)
  BY DEF Laid, Put, One, Written, W!Over, W!Stamp, W!Restrict

\* As long as staged files are to come, nothing is written over them.
LEMMA ApplyingFirst ==
    ASSUME NEW st, NEW late, Applying(st, late), run.todo \cup run.cur # {}
    PROVE  /\ disk = Written(But(run.goal, run.todo), WholeNow, WholeDisk)
           /\ now = WholeNow /\ late = {} /\ DOMAIN st.dirty \ DOMAIN run.over = {}
  <1> DEFINE x == Written(But(run.goal, run.todo), WholeNow, WholeDisk)
  <1>1. x = [p \in DOMAIN x |-> x[p]] BY WrittenFunction
  <1>2. /\ now = WholeNow /\ late = {} /\ DOMAIN st.dirty \ DOMAIN run.over = {}
        /\ disk = Laid(st.dirty, {}, {}, x)
    BY DEF Applying
  <1> HIDE DEF x
  <1>3. disk = x BY <1>1, <1>2, LaidNone
  <1> QED BY <1>2, <1>3 DEF x

LEMMA ApplyStep ==
    ASSUME TypeOK, NEW st \in W!Stash, NEW late \in SUBSET Paths, Applying(st, late), Sized(run.ix),
           NEW p \in Paths,
           RemoveFile(p) \/ WriteFile(p) \/ RecordFile(p) \/ Overlay(p), st' = st,
           UNCHANGED <<WholeDisk, WholeIndex, WholeHead, WholeStashes, WholeNow, WholeBlind>>
    PROVE  (\E l \in SUBSET Paths : Applying(st, l)') /\ Sized(run'.ix)
  <1>0. run \in Runs /\ now \in Nat BY DEF TypeOK, RunOK
  <1> DEFINE x    == Written(But(run.goal, run.todo), WholeNow, WholeDisk)
             done == DOMAIN st.dirty \ DOMAIN run.over
  <1>1. /\ run.goal = st.staged /\ run.gone = {} /\ DOMAIN run.over \subseteq DOMAIN st.dirty
        /\ run.over = W!Restrict(st.dirty, DOMAIN run.over) /\ late \subseteq done
        /\ \/ now = WholeNow /\ late = {}
           \/ WholeNow \in Nat /\ now = WholeNow + 1 /\ late \cup DOMAIN run.over # {}
        /\ disk = Laid(st.dirty, done, late, x) /\ Recording(WholeIndex)
        /\ blindIx = (WholeBlind \ (DOMAIN run.goal \ run.todo)) \cup (done \ late)
    BY DEF Applying
  <1>2. CASE RemoveFile(p) BY <1>1, <1>2 DEF RemoveFile
  <1>3. CASE WriteFile(p)
    <2>1. /\ Recording(WholeIndex)' /\ run'.ix = run.ix /\ run'.todo = run.todo \ {p}
          /\ run'.at = "files" /\ run'.goal = run.goal /\ run'.gone = run.gone /\ run'.over = run.over
          /\ p \in run.todo \cap DOMAIN run.goal
      BY <1>1, <1>3, RecordingWrite
    <2>2. /\ disk' = Put(disk, p, [data |-> run.goal[p], mtime |-> now]) /\ now' = now
          /\ blindIx' = blindIx \ {p}
      BY <1>3 DEF WriteFile, Write
    <2>3. disk = x /\ now = WholeNow /\ late = {} /\ done = {} BY <2>1, ApplyingFirst
    <2>4. disk' = Written(But(run.goal, run.todo \ {p}), WholeNow, WholeDisk)
      BY <2>1, <2>2, <2>3, WrittenOne
    <2> DEFINE y == Written(But(run.goal, run.todo \ {p}), WholeNow, WholeDisk)
    <2>5. disk' = Laid(st.dirty, {}, {}, y)
      <3>1. y = [q \in DOMAIN y |-> y[q]] BY WrittenFunction
      <3>2. disk' = y BY <2>4
      <3> HIDE DEF y
      <3> QED BY <3>1, <3>2, LaidNone
    <2>6. Laid(st.dirty, {}, {}, x)' = Laid(st.dirty, {}, {}, y) BY <2>1 DEF Laid
    <2>7. blindIx' = WholeBlind \ (DOMAIN run.goal \ (run.todo \ {p}))
      BY <1>1, <2>1, <2>2, <2>3
    <2>8. Applying(st, {})' BY <1>1, <2>1, <2>2, <2>3, <2>5, <2>6, <2>7 DEF Applying, Laid
    <2> QED BY <2>1, <2>8
  <1>4. CASE RecordFile(p)
    <2>1. p \in run.cur BY <1>4 DEF RecordFile
    <2>2. disk = x /\ now = WholeNow /\ late = {} /\ done = {} BY <2>1, ApplyingFirst
    <2>3. p \in DOMAIN run.goal \ run.todo BY <1>1, <2>1 DEF Recording, TypeOK, RunOK
    <2>4. disk[p] = [data |-> run.goal[p], mtime |-> WholeNow] BY <2>2, <2>3, WrittenAt
    <2>5. /\ Recording(WholeIndex)' /\ Sized(run'.ix) /\ run'.todo = run.todo
          /\ run'.at = "files" /\ run'.goal = run.goal /\ run'.gone = run.gone /\ run'.over = run.over
      BY <1>1, <1>4, <2>4, RecordingRecord
    <2>6. UNCHANGED <<disk, now, blindIx>> BY <1>4 DEF RecordFile
    <2>7. Applying(st, {})' BY <1>1, <2>2, <2>5, <2>6 DEF Applying, Laid
    <2> QED BY <2>5, <2>7
  <1>5. CASE Overlay(p)
    <2>1. /\ run'.ix = run.ix /\ run'.todo = run.todo /\ run'.cur = run.cur /\ run'.at = "files"
          /\ run'.goal = run.goal /\ run'.gone = run.gone /\ run'.over = W!Without(run.over, {p})
          /\ run.at = "files" /\ run.todo = {} /\ run.cur = {} /\ p \in DOMAIN run.over
          /\ UNCHANGED <<index, now>>
      BY <1>0, <1>5 DEF Overlay, Overlays, Write, Goes, Runs
    <2>2. /\ disk' = Put(disk, p, [data |-> run.over[p], mtime |-> now])
          /\ blindIx' = Marked(blindIx, run.ix, p)
      BY <1>5 DEF Overlay, Write
    <2>3. run.over[p] = st.dirty[p]
      <3>1. \A q \in DOMAIN run.over : W!Restrict(st.dirty, DOMAIN run.over)[q] = st.dirty[q]
        BY DEF W!Restrict
      <3> QED BY <1>1, <2>1, <3>1
    <2>4. Recording(WholeIndex)' BY <1>1, <2>1 DEF Recording
    <2>5. p \in DOMAIN run.goal /\ p \in DOMAIN run.ix /\ run.ix[p].mtime = WholeNow
      <3>1. p \in DOMAIN run.goal \ (run.todo \cup run.cur)
        <4>1. DOMAIN st.dirty \subseteq DOMAIN st.staged BY DEF W!Stash
        <4> QED BY <1>1, <2>1, <4>1
      <3>2. Plain(run.ix) = Written(But(run.goal, run.todo \cup run.cur), WholeNow, WholeIndex)
        BY <1>1 DEF Recording
      <3> DEFINE e == [data |-> run.goal[p], mtime |-> WholeNow]
                 ix == Written(But(run.goal, run.todo \cup run.cur), WholeNow, WholeIndex)
      <3>a. p \in DOMAIN ix /\ ix[p] = e BY <3>1, WrittenAt
      <3> HIDE DEF ix
      <3>3. p \in DOMAIN Plain(run.ix) /\ Plain(run.ix)[p] = e
        <4>1. Plain(run.ix) = ix BY <3>2 DEF ix
        <4> QED BY <3>a, <4>1
      <3>4. e.mtime = WholeNow OBVIOUS
      <3>5. p \in DOMAIN run.ix /\ Plain(run.ix)[p].mtime = run.ix[p].mtime BY <3>3 DEF Plain
      <3> HIDE DEF e
      <3> QED BY <3>1, <3>3, <3>4, <3>5
    <2>6. DOMAIN run'.over = DOMAIN run.over \ {p} BY <2>1, WithoutIs
    <2>7. run'.over = W!Restrict(st.dirty, DOMAIN run'.over)
      BY <1>1, <2>1, <2>6 DEF W!Without, W!Restrict
    <2>8. DOMAIN st.dirty \ DOMAIN run'.over = done \cup {p} /\ p \notin done
      BY <1>1, <2>1, <2>6
    <2>9. CASE now = WholeNow
      <3>1. late = {} BY <1>0, <1>1, <2>9
      <3>2. disk' = Laid(st.dirty, done \cup {p}, {}, x)
        <4> HIDE DEF x, done
        <4> QED BY <1>1, <2>2, <2>3, <2>9, <3>1, LaidNow
      <3>3. blindIx' = blindIx \cup {p} BY <2>2, <2>5, <2>9 DEF Marked
      <3>4. blindIx' = (WholeBlind \ (DOMAIN run.goal \ run.todo)) \cup ((done \cup {p}) \ {})
        BY <1>1, <3>1, <3>3
      <3>5. Applying(st, {})'
        BY <1>1, <2>1, <2>4, <2>6, <2>7, <2>8, <2>9, <3>2, <3>4 DEF Applying, Laid
      <3> QED BY <2>1, <3>5
    <2>10. CASE now # WholeNow
      <3>1. WholeNow \in Nat /\ now = WholeNow + 1 BY <1>1, <2>10
      <3>2. disk' = Laid(st.dirty, done \cup {p}, late \cup {p}, x)
        <4> HIDE DEF x, done
        <4> QED BY <1>1, <2>2, <2>3, <3>1, LaidLate
      <3>3. blindIx' = blindIx \ {p} BY <2>2, <2>5, <2>10 DEF Marked
      <3>4. blindIx' = (WholeBlind \ (DOMAIN run.goal \ run.todo)) \cup ((done \cup {p}) \ (late \cup {p}))
        BY <1>1, <2>1, <2>5, <2>8, <3>3
      <3>5. Applying(st, late \cup {p})'
        BY <1>1, <2>1, <2>4, <2>6, <2>7, <2>8, <3>1, <3>2, <3>4 DEF Applying, Laid
      <3> QED BY <2>1, <3>5
    <2> QED BY <2>9, <2>10
  <1> QED BY <1>2, <1>3, <1>4, <1>5

\* The clock moves before one of the dirty files.
LEMMA ApplyTick ==
    ASSUME TypeOK, NEW st, NEW late, Applying(st, late), st' = st, run' = run, Overlays,
           now = WholeNow, now' = now + 1, UNCHANGED <<disk, index, blind, blindIx>>,
           UNCHANGED <<WholeDisk, WholeIndex, WholeHead, WholeStashes, WholeNow, WholeBlind>>
    PROVE  Applying(st, late)'
  <1>0. now \in Nat BY DEF TypeOK
  <1>1. run.at = "files" /\ run.todo \cup run.cur = {} /\ DOMAIN run.over # {} BY DEF Overlays
  <1>2. Recording(WholeIndex)' BY DEF Applying, Recording
  <1> QED BY <1>0, <1>1, <1>2 DEF Applying, Laid

\* A step of a command that goes on.
LEMMA WholeStep ==
    ASSUME TypeOK, WholeInv, ~disturbed, NEW p \in Paths,
           RemoveFile(p) \/ WriteFile(p) \/ RecordFile(p) \/ Overlay(p)
    PROVE  WholeInv'
  <1>0. run \in Runs /\ Sized(index) /\ Sized(run.ix) BY DEF TypeOK, RunOK, WholeInv
  <1>1. run.at = "files"
    BY DEF RemoveFile, WriteFile, RecordFile, Overlay, Overlays, TypeOK, RunOK
  <1>2. run.cmd # "none" BY <1>1, At
  <1>3. /\ UNCHANGED <<before, disturbed, index, head, history, stashes>>
        /\ run'.cmd = run.cmd /\ Goes(run')
    BY <1>0 DEF RemoveFile, WriteFile, RecordFile, Overlay, Goes, Runs
  <1>4. UNCHANGED <<WholeDisk, WholeIndex, WholeHead, WholeStashes, WholeNow, WholeBlind>>
    BY <1>2, <1>3, WholeGoes
  <1>5. ASSUME run.cmd \in {"checkout", "detach"} PROVE WholeInv'
    <2>1. SwitchWhole /\ run.goal \in history /\ stashes = WholeStashes
          /\ head = IF run.cmd = "checkout" THEN run.goal ELSE WholeHead
      BY <1>5 DEF WholeInv, CheckoutWhole
    <2>2. ~Overlay(p) BY <1>5 DEF Overlay, Overlays
    <2>3. SwitchWhole' /\ Sized(run'.ix) /\ run'.goal = run.goal
      BY <1>0, <1>4, <2>1, <2>2, SwitchStep
    <2>4. CheckoutWhole' BY <1>3, <1>4, <2>1, <2>3 DEF CheckoutWhole
    <2> QED BY <1>0, <1>3, <1>5, <2>3, <2>4 DEF WholeInv
  <1>6. ASSUME run.cmd = "save" PROVE WholeInv'
    <2> DEFINE st == W!Stashed(W!Work)
    <2>1. /\ head = WholeHead /\ ~W!LooksUnchanged(st)
          /\ SwitchWhole /\ run.goal = head /\ stashes = <<st>> \o WholeStashes
          /\ Len(stashes) <= MaxStashes
      BY <1>1, <1>6 DEF WholeInv, SaveWhole
    <2>2. ~Overlay(p) BY <1>6 DEF Overlay, Overlays
    <2>3. SwitchWhole' /\ Sized(run'.ix) /\ run'.goal = run.goal /\ run'.at = "files"
      BY <1>0, <1>4, <2>1, <2>2, SwitchStep
    <2>4. st' = st /\ ~W!LooksUnchanged(st)' BY <1>4, <2>1, StashKept
    <2>5. SaveWhole' BY <1>3, <1>4, <2>1, <2>3, <2>4 DEF SaveWhole
    <2> QED BY <1>0, <1>3, <1>6, <2>3, <2>5 DEF WholeInv
  <1>7. ASSUME run.cmd \in {"apply", "pop"} PROVE WholeInv'
    <2>1. PICK i \in 1 .. Len(WholeStashes), late \in SUBSET Paths :
             /\ run.cmd = "pop" => i = 1
             /\ head = WholeHead /\ stashes = WholeStashes
             /\ Applying(WholeStashes[i], late)
      BY <1>7 DEF WholeInv, ApplyWhole
    <2>2. WholeStashes[i] \in W!Stash BY <2>1 DEF TypeOK
    <2>3. (\E l \in SUBSET Paths : Applying(WholeStashes[i], l)') /\ Sized(run'.ix)
      <3> DEFINE st == WholeStashes[i]
      <3>1. st' = st BY <1>4
      <3>2. /\ st \in W!Stash /\ Applying(st, late)
            /\ UNCHANGED <<WholeDisk, WholeIndex, WholeHead, WholeStashes, WholeNow, WholeBlind>>
        BY <1>4, <2>1, <2>2
      <3> HIDE DEF st
      <3>3. (\E l \in SUBSET Paths : Applying(st, l)') /\ Sized(run'.ix)
        BY <1>0, <3>1, <3>2, ApplyStep
      <3> QED BY <3>3 DEF st
    <2>4. ApplyWhole'
      <3>1. /\ i \in 1 .. Len(WholeStashes')
            /\ run'.cmd = "pop" => i = 1
            /\ head' = WholeHead' /\ stashes' = WholeStashes'
        BY <1>3, <1>4, <2>1
      <3>2. PICK l \in SUBSET Paths : Applying(WholeStashes[i], l)' BY <2>3
      <3> QED BY <3>1, <3>2 DEF ApplyWhole
    <2> QED BY <1>0, <1>3, <1>7, <2>3, <2>4 DEF WholeInv
  <1>8. run.cmd \in {"checkout", "detach", "save", "apply", "pop"}
    <2>1. run.cmd # "stage"
      <3>1. ASSUME run.cmd = "stage" PROVE run.gone = {} /\ DOMAIN run.goal = {}
        BY <3>1 DEF TypeOK, RunOK, NoTree, W!NoTree
      <3> QED BY <3>1 DEF RemoveFile, WriteFile, RecordFile, Overlay, Overlays, TypeOK, RunOK
    <2> QED BY <1>0, <1>2, <2>1 DEF Runs
  <1> QED BY <1>5, <1>6, <1>7, <1>8

\* Where the way to a tree begins.
LEMMA SwitchBegins ==
    ASSUME TypeOK, NEW tree, run'.goal = tree, run'.at = "files", run'.ix = NoTree,
           run'.gone = DOMAIN index \ DOMAIN tree, run'.todo = DOMAIN tree, run'.cur = {},
           run'.over = NoTree, blindIx' = {}, UNCHANGED <<disk, index, now>>,
           WholeDisk' = disk, WholeIndex' = Plain(index), WholeNow' = now
    PROVE  SwitchWhole' /\ Sized(run'.ix)
  <1>1. DOMAIN NoTree = {} /\ Plain(NoTree) = NoTree /\ NoTree' = NoTree
    BY DEF NoTree, W!NoTree, Plain
  <1>2. Written(But(tree, DOMAIN tree), now, NoTree) = NoTree
    BY DEF Written, But, W!Over, W!Stamp, W!Restrict, NoTree, W!NoTree
  <1>3. Recording(NoTree)'
    <2>1. run'.todo \cup run'.cur = DOMAIN tree OBVIOUS
    <2>2. Plain(run'.ix) = Written(But(run'.goal, run'.todo \cup run'.cur), WholeNow', NoTree')
      BY <1>1, <1>2, <2>1
    <2> QED BY <2>2 DEF Recording
  <1>4. DOMAIN Plain(index) = DOMAIN index BY DEF Plain
  <1>5. disk = [p \in DOMAIN disk |-> disk[p]] BY IsFunction DEF TypeOK
  <1>6. W!Without(disk, {}) = disk BY <1>5 DEF W!Without, W!Restrict
  <1>7. Written(But(tree, DOMAIN tree), now, W!Without(disk, {})) = disk
    BY <1>5, <1>6, WrittenNone
  <1>8. (DOMAIN WholeIndex' \ DOMAIN run'.goal) \ run'.gone = {} BY <1>4
  <1>9. disk' = Written(But(run'.goal, run'.todo), WholeNow',
                        W!Without(WholeDisk', (DOMAIN WholeIndex' \ DOMAIN run'.goal) \ run'.gone))
    BY <1>7, <1>8
  <1> QED BY <1>1, <1>3, <1>4, <1>9, SizedNone DEF SwitchWhole

\* The ends of the commands, and the steps of a stash before it restores.
LEMMA WholeLast ==
    ASSUME TypeOK, WholeInv, ~disturbed,
           SaveIndex \/ DetachEnd \/ PopEnd \/ SaveFlush \/ SavePut
    PROVE  WholeInv'
  <1>0. run \in Runs /\ Sized(index) /\ Sized(run.ix) BY DEF TypeOK, RunOK, WholeInv
  <1>1. CASE DetachEnd \/ PopEnd BY <1>0, <1>1, WholeEnds DEF DetachEnd, PopEnd, Ends
  <1>2. CASE SaveIndex
    <2>1. CASE run.cmd \notin {"detach", "pop"} BY <1>0, <1>2, <2>1, WholeEnds DEF SaveIndex, Ends
    <2>2. ASSUME run.cmd \in {"detach", "pop"} PROVE WholeInv'
      <3> DEFINE r == [run EXCEPT !.at = "end"]
      <3>1. /\ Goes(r) /\ index' = run.ix /\ UNCHANGED <<disk, head, history, stashes, now>>
            /\ run.gone = {} /\ run.todo = {} /\ run.cur = {} /\ DOMAIN run.over = {} /\ run.at = "files"
            /\ blind' = blindIx /\ blindIx' = blindIx
        BY <1>2, <2>2 DEF SaveIndex
      <3>2. /\ r.cmd = run.cmd /\ r.at = "end" /\ r.ix = run.ix /\ r.gone = run.gone
            /\ r.goal = run.goal /\ r.todo = run.todo /\ r.cur = run.cur /\ r.over = run.over
        BY <1>0 DEF Runs
      <3> HIDE DEF r
      <3>3. run' = r BY <3>1 DEF Goes
      <3>4. UNCHANGED <<WholeDisk, WholeIndex, WholeHead, WholeStashes, WholeNow, WholeBlind>>
        BY <2>2, <3>1, <3>2, WholeGoes
      <3>5. ASSUME NEW ix, Recording(ix), ix' = ix PROVE Recording(ix)'
        BY <3>1, <3>2, <3>3, <3>4, <3>5 DEF Recording
      <3>6. CASE run.cmd = "detach"
        <4>1. SwitchWhole /\ CheckoutWhole BY <3>6 DEF WholeInv, CheckoutWhole
        <4>2. Recording(NoTree)'
          <5>1. NoTree' = NoTree BY DEF NoTree, W!NoTree
          <5> QED BY <3>5, <4>1, <5>1 DEF SwitchWhole
        <4>3. SwitchWhole' BY <3>1, <3>2, <3>3, <3>4, <4>1, <4>2 DEF SwitchWhole
        <4>4. CheckoutWhole' BY <3>1, <3>2, <3>3, <3>4, <4>1, <4>3 DEF CheckoutWhole
        <4> QED BY <1>0, <3>1, <3>2, <3>3, <3>6, <4>4 DEF WholeInv
      <3>7. CASE run.cmd = "pop"
        <4>1. PICK i \in 1 .. Len(WholeStashes), late \in SUBSET Paths :
                 /\ run.cmd = "pop" => i = 1
                 /\ head = WholeHead /\ stashes = WholeStashes
                 /\ Applying(WholeStashes[i], late)
          BY <3>7 DEF WholeInv, ApplyWhole
        <4>2. Recording(WholeIndex)' BY <3>4, <3>5, <4>1 DEF Applying
        <4>3. Applying(WholeStashes[i], late)'
          BY <3>1, <3>2, <3>3, <3>4, <4>1, <4>2 DEF Applying, Laid
        <4>4. ApplyWhole'
          <5>1. /\ i \in 1 .. Len(WholeStashes')
                /\ run'.cmd = "pop" => i = 1
                /\ head' = WholeHead' /\ stashes' = WholeStashes'
            BY <3>1, <3>2, <3>3, <3>4, <4>1
          <5> QED BY <4>3, <5>1 DEF ApplyWhole
        <4> QED BY <1>0, <3>1, <3>2, <3>3, <3>7, <4>4 DEF WholeInv
      <3> QED BY <2>2, <3>6, <3>7
    <2> QED BY <2>1, <2>2
  <1>3. ASSUME SaveFlush \/ SavePut PROVE WholeInv'
    <2> DEFINE st == W!Stashed(W!Work)
    <2>1. run.cmd = "save" /\ run.at \in {"flush", "put"} BY <1>3, At DEF SaveFlush, SavePut
    <2>2. /\ head = WholeHead /\ Len(stashes) < MaxStashes /\ ~W!LooksUnchanged(st)
          /\ Unmoved /\ Plain(index) = WholeIndex /\ run.ix = index
          /\ st = [staged |-> run.goal, dirty |-> run.over]
      BY <2>1 DEF WholeInv, SaveWhole
    <2>3. run'.cmd = "save" /\ Goes(run') /\ UNCHANGED <<disk, index, head, now, blind>>
      BY <1>0, <1>3, <2>1 DEF SaveFlush, SavePut, Goes, Runs
    <2>4. UNCHANGED <<WholeDisk, WholeIndex, WholeHead, WholeStashes, WholeNow, WholeBlind>>
      BY <2>1, <2>3, WholeGoes
    <2>5. st' = st /\ ~W!LooksUnchanged(st)' BY <2>2, <2>4, StashKept
    <2> HIDE DEF st
    <2>6. CASE SaveFlush
      <3>1. /\ run'.at = "put" /\ run'.ix = run.ix /\ run'.goal = run.goal /\ run'.over = run.over
            /\ stashes' = stashes
        BY <1>0, <2>6 DEF SaveFlush, Goes, Runs
      <3>2. SaveWhole' BY <2>2, <2>3, <2>4, <2>5, <3>1 DEF SaveWhole, Unmoved, st
      <3> QED BY <1>0, <2>3, <3>1, <3>2 DEF WholeInv
    <2>7. CASE SavePut
      <3>1. /\ run'.at = "files" /\ run'.ix = NoTree /\ run'.gone = DOMAIN run.ix \ DOMAIN head
            /\ run'.goal = head /\ run'.todo = DOMAIN head /\ run'.over = NoTree /\ run'.cur = run.cur
            /\ stashes' = <<[staged |-> run.goal, dirty |-> run.over]>> \o stashes /\ blindIx' = {}
        BY <1>0, <2>7 DEF SavePut, Goes, Runs
      <3>2. run.cur = {} BY <2>1 DEF TypeOK, RunOK
      <3>3. SwitchWhole' /\ Sized(run'.ix)
        BY <2>2, <2>3, <2>4, <3>1, <3>2, SwitchBegins DEF Unmoved
      <3>11. SaveWhole'
        <4>1. stashes' = <<st'>> \o WholeStashes' BY <2>2, <2>4, <2>5, <3>1 DEF Unmoved
        <4>2. Len(stashes') <= MaxStashes
          <5> DEFINE x == [staged |-> run.goal, dirty |-> run.over]
          <5>1. stashes \in Seq(W!Stash) /\ stashes' = <<x>> \o stashes BY <3>1 DEF TypeOK
          <5> HIDE DEF x
          <5>2. Len(stashes') = 1 + Len(stashes) /\ Len(stashes) \in Nat BY <5>1
          <5> QED BY <2>2, <5>2, BoundAssumption
        <4> QED BY <2>2, <2>3, <2>4, <2>5, <3>1, <3>3, <4>1, <4>2 DEF SaveWhole, st
      <3> QED BY <1>0, <2>3, <3>3, <3>11 DEF WholeInv
    <2> QED BY <1>3, <2>6, <2>7
  <1> QED BY <1>1, <1>2, <1>3

\* The beginnings of the commands.
LEMMA WholeStart ==
    ASSUME TypeOK, WholeInv, ~disturbed, ~disturbed', Start
    PROVE  WholeInv'
  <1>0. Sized(index) /\ Sized(run.ix) /\ disk = [p \in DOMAIN disk |-> disk[p]]
    BY IsFunction DEF WholeInv, TypeOK
  <1>1. ASSUME NEW S \in SUBSET Paths, StageBegin(S) PROVE WholeInv'
    BY <1>1, WholeStage
  <1>2. CASE Commit
    <2>1. run' = run /\ index' = index /\ run.cmd = "none" BY <1>2 DEF Commit, Idle
    <2> QED BY <1>0, <2>1, WholeNone
  <1>3. ASSUME NEW tree \in history, NEW cmd \in {"checkout", "detach"}, CheckoutBegin(tree, cmd)
        PROVE  WholeInv'
    <2> DEFINE r == [Idle EXCEPT !.cmd = cmd, !.at = "files", !.gone = DOMAIN index \ DOMAIN tree,
                                 !.goal = tree, !.todo = DOMAIN tree]
    <2>1. /\ Begin(r) /\ UNCHANGED <<disk, index, history, stashes, now>>
          /\ head' = (IF cmd = "checkout" THEN tree ELSE head) /\ blindIx' = {}
      BY <1>3 DEF CheckoutBegin
    <2>2. /\ run' = r /\ r.cmd = cmd /\ r.at = "files" /\ r.ix = NoTree /\ r.cur = {}
          /\ r.gone = DOMAIN index \ DOMAIN tree /\ r.goal = tree /\ r.todo = DOMAIN tree
          /\ r.over = NoTree
      BY <2>1 DEF Begin, Idle
    <2> HIDE DEF r
    <2>3. /\ WholeDisk' = disk /\ WholeIndex' = Plain(index) /\ WholeHead' = head
          /\ WholeStashes' = stashes /\ WholeNow' = now /\ WholeBlind' = blind
      BY <2>1, <2>2, WholeBegins
    <2>4. SwitchWhole' /\ Sized(run'.ix) BY <2>1, <2>2, <2>3, SwitchBegins
    <2>5. CheckoutWhole' BY <2>1, <2>2, <2>3, <2>4 DEF CheckoutWhole
    <2> QED BY <1>0, <2>1, <2>2, <2>4, <2>5 DEF WholeInv
  <1>4. CASE SaveBegin
    <2> DEFINE r == [Idle EXCEPT !.cmd = "save", !.at = "flush", !.ix = index,
                                 !.goal = Stashed.staged, !.over = Stashed.dirty]
    <2>1. /\ Begin(r) /\ UNCHANGED <<disk, index, head, stashes, now, blind>>
          /\ ~W!LooksUnchanged(Stashed) /\ Len(stashes) < MaxStashes
      BY <1>4 DEF SaveBegin, Begin
    <2>2. /\ run' = r /\ r.cmd = "save" /\ r.at = "flush" /\ r.ix = index
          /\ r.goal = Stashed.staged /\ r.over = Stashed.dirty
      BY <2>1 DEF Begin, Idle
    <2> HIDE DEF r
    <2>3. /\ WholeDisk' = disk /\ WholeIndex' = Plain(index) /\ WholeHead' = head
          /\ WholeStashes' = stashes /\ WholeNow' = now /\ WholeBlind' = blind /\ WholeHead = head
      BY <2>1, <2>2, WholeBegins
    <2>4. W!Stashed(W!Work)' = Stashed
      <3>1. DOMAIN Plain(index) = DOMAIN index BY DEF Plain
      <3>2. \A p \in DOMAIN index : W!IsDirty(Plain(index), disk, p) <=> Looks(index, disk, p)
        BY <1>0, LooksSame
      <3>3. W!Contents(Plain(index)) = W!Contents(index) BY DEF Plain, W!Contents
      <3>4. {p \in DOMAIN Plain(index) \cap DOMAIN disk : W!IsDirty(Plain(index), disk, p)}
              = {p \in DOMAIN index \cap DOMAIN disk : Looks(index, disk, p)}
        BY <3>1, <3>2
      <3>5. \A S : W!Restrict(W!Contents(disk), S) = Restrict(W!Contents(disk), S)
        BY DEF W!Restrict, Restrict
      <3>6. W!Work' = [disk |-> disk, index |-> Plain(index), stashes |-> stashes, blind |-> blind]
        BY <2>3 DEF W!Work
      <3> HIDE DEF Plain
      <3> QED BY <3>3, <3>4, <3>5, <3>6 DEF W!Stashed, Stashed
    <2>5. ~W!LooksUnchanged(W!Stashed(W!Work))' BY <2>1, <2>3, <2>4 DEF W!LooksUnchanged
    <2>6. Stashed = [staged |-> r.goal, dirty |-> r.over] BY <2>2 DEF Stashed
    <2>7. SaveWhole' BY <2>1, <2>2, <2>3, <2>4, <2>5, <2>6 DEF SaveWhole, Unmoved
    <2> QED BY <1>0, <2>1, <2>2, <2>7 DEF WholeInv
  <1>5. ASSUME NEW i \in 1 .. Len(stashes), NEW cmd \in {"apply", "pop"}, ApplyBegin(i, cmd)
        PROVE  WholeInv'
    <2> DEFINE st == stashes[i]
               r == [Idle EXCEPT !.cmd = cmd, !.at = "files", !.ix = index,
                                 !.goal = st.staged, !.todo = DOMAIN st.staged, !.over = st.dirty]
    <2>1. /\ Begin(r) /\ UNCHANGED <<disk, index, head, stashes, now>> /\ (cmd = "pop" => i = 1)
          /\ blindIx' = blind
      BY <1>5 DEF ApplyBegin
    <2>2. /\ run' = r /\ r.cmd = cmd /\ r.at = "files" /\ r.ix = index /\ r.cur = {} /\ r.gone = {}
          /\ r.goal = st.staged /\ r.todo = DOMAIN st.staged /\ r.over = st.dirty
      BY <2>1 DEF Begin, Idle
    <2> HIDE DEF r
    <2>3. /\ WholeDisk' = disk /\ WholeIndex' = Plain(index) /\ WholeHead' = head
          /\ WholeStashes' = stashes /\ WholeNow' = now /\ WholeBlind' = blind
      BY <2>1, <2>2, WholeBegins
    <2>4. Written(But(r.goal, r.todo), now, disk) = disk BY <1>0, <2>2, WrittenNone
    <2>5. Laid(st.dirty, {}, {}, disk)' = disk
      <3>1. Laid(st.dirty, {}, {}, disk) = disk BY <1>0, LaidNone
      <3>2. W!Restrict(st.dirty, {}) = NoTree BY DEF W!Restrict, NoTree, W!NoTree
      <3>3. \A t, d : d = [p \in DOMAIN d |-> d[p]] => Written(NoTree, t, d) = d
        BY DEF Written, W!Over, W!Stamp, NoTree, W!NoTree
      <3>4. Laid(st.dirty, {}, {}, disk)' = Written(NoTree, WholeNow' + 1, Written(NoTree, WholeNow', disk))
        BY <2>1, <3>2 DEF Laid
      <3> QED BY <1>0, <3>3, <3>4
    <2>6. Plain(index) = [p \in DOMAIN Plain(index) |-> Plain(index)[p]] BY DEF Plain
    <2>7. Recording(WholeIndex)'
      <3>1. r.todo \cup r.cur = DOMAIN r.goal BY <2>2
      <3>2. Written(But(r.goal, r.todo \cup r.cur), now, Plain(index)) = Plain(index)
        <4> DEFINE x == Plain(index)
        <4>1. x = [p \in DOMAIN x |-> x[p]] BY <2>6
        <4> HIDE DEF x
        <4>2. Written(But(r.goal, r.todo \cup r.cur), now, x) = x BY <3>1, <4>1, WrittenNone
        <4> QED BY <4>2 DEF x
      <3> HIDE DEF Plain
      <3> QED BY <2>1, <2>2, <2>3, <3>2 DEF Recording
    <2>8. st \in W!Stash BY DEF TypeOK
    <2>9. st.dirty = W!Restrict(st.dirty, DOMAIN st.dirty)
      <3>1. st.dirty \in W!Partial(Data) BY <2>8 DEF W!Stash, W!Trees
      <3>2. st.dirty = [p \in DOMAIN st.dirty |-> st.dirty[p]] BY <3>1, IsFunction
      <3> QED BY <3>2 DEF W!Restrict
    <2>10. Applying(st, {})'
      <3>1. st' = st BY <2>1
      <3> HIDE DEF st
      <3> DEFINE done == DOMAIN st.dirty \ DOMAIN run.over
      <3>2. done' = {} /\ run'.todo = DOMAIN run'.goal BY <2>1, <2>2, <3>1
      <3>3. Written(But(run'.goal, run'.todo), WholeNow', WholeDisk') = disk
        BY <2>2, <2>3, <2>4
      <3>4. disk' = Laid(st.dirty, done, {}, Written(But(run.goal, run.todo), WholeNow, WholeDisk))'
        BY <2>1, <2>5, <3>2, <3>3 DEF Laid
      <3>5. blindIx' = (WholeBlind' \ (DOMAIN run'.goal \ run'.todo)) \cup (done' \ {})
        BY <2>1, <2>3, <3>2
      <3>6. now' = WholeNow' /\ run'.at = "files" /\ run'.cur = {} BY <2>1, <2>2, <2>3
      <3>7. /\ run'.goal = st'.staged /\ run'.gone = {} /\ DOMAIN run'.over \subseteq DOMAIN st'.dirty
            /\ run'.over = W!Restrict(st'.dirty, DOMAIN run'.over)
        BY <2>2, <2>9, <3>1
      <3> QED BY <2>7, <3>2, <3>4, <3>5, <3>6, <3>7 DEF Applying
    <2>11. ApplyWhole'
      <3>1. /\ i \in 1 .. Len(WholeStashes')
            /\ run'.cmd = "pop" => i = 1
            /\ head' = WholeHead' /\ stashes' = WholeStashes' /\ WholeStashes'[i] = st'
        BY <2>1, <2>2, <2>3
      <3>2. Applying(WholeStashes[i], {})' BY <2>10, <3>1 DEF Applying, Laid
      <3> QED BY <3>1, <3>2 DEF ApplyWhole
    <2> QED BY <1>0, <2>1, <2>2, <2>11 DEF WholeInv
  <1> QED BY <1>1, <1>2, <1>3, <1>4, <1>5 DEF Start

\* The user.
LEMMA WholeUser ==
    ASSUME TypeOK, WholeInv, ~disturbed, ~disturbed', User
    PROVE  WholeInv'
  <1>0. Sized(index) /\ Sized(run.ix) BY DEF WholeInv
  <1>1. Disturbs => run.cmd = "none"
    <2>1. ASSUME Disturbs PROVE ~(run.cmd # "none") BY <2>1, Zenon DEF Disturbs
    <2> QED BY <2>1
  <1>2. ASSUME NEW p \in Paths, Delete(p) \/ \E c \in Data : Edit(p, c) PROVE WholeInv'
    <2>1. Disturbs /\ UNCHANGED <<index, run>> BY <1>2 DEF Delete, Edit
    <2> QED BY <1>0, <1>1, <2>1, WholeNone
  <1>3. CASE Crash BY <1>1, <1>3 DEF Crash
  <1>4. CASE Tick
    <2>1. CASE Disturbs
      <3>1. UNCHANGED <<index, run>> BY <1>4 DEF Tick
      <3> QED BY <1>0, <1>1, <2>1, <3>1, WholeNone
    <2>2. CASE ~Disturbs
      <3>1. /\ Undisturbed /\ Overlays /\ now = before.now
            /\ UNCHANGED <<before, disturbed, disk, index, head, stashes, run, blind, blindIx>>
            /\ now' = now + 1
        BY <1>4, <2>2 DEF Tick
      <3>2. now = WholeNow BY <3>1 DEF WholeNow
      <3>3. UNCHANGED <<WholeDisk, WholeIndex, WholeHead, WholeStashes, WholeNow, WholeBlind>>
        <4>1. Undisturbed' = Undisturbed BY <3>1, Zenon DEF Undisturbed
        <4>2. Undisturbed' BY <3>1, <4>1
        <4> QED BY <3>1, <4>2 DEF WholeDisk, WholeIndex, WholeHead, WholeStashes, WholeNow, WholeBlind
      <3>4. run.cmd \in {"apply", "pop"} BY <3>1 DEF Overlays
      <3>5. PICK i \in 1 .. Len(WholeStashes), late \in SUBSET Paths :
               /\ run.cmd = "pop" => i = 1
               /\ head = WholeHead /\ stashes = WholeStashes
               /\ Applying(WholeStashes[i], late)
        BY <3>4 DEF WholeInv, ApplyWhole
      <3>6. Applying(WholeStashes[i], late)'
        <4> DEFINE st == WholeStashes[i]
        <4>1. st' = st /\ Applying(st, late) BY <3>3, <3>5
        <4> HIDE DEF st
        <4>2. Applying(st, late)' BY <3>1, <3>2, <3>3, <4>1, ApplyTick
        <4> QED BY <4>2 DEF st
      <3>7. ApplyWhole'
        <4>1. /\ i \in 1 .. Len(WholeStashes')
              /\ run'.cmd = "pop" => i = 1
              /\ head' = WholeHead' /\ stashes' = WholeStashes'
          BY <3>1, <3>3, <3>5
        <4> QED BY <3>6, <4>1 DEF ApplyWhole
      <3> QED BY <1>0, <3>1, <3>4, <3>7 DEF WholeInv
    <2> QED BY <2>1, <2>2
  <1> QED BY <1>2, <1>3, <1>4 DEF User

\* Once a command was disturbed, it stays so.
LEMMA StaysDisturbed == ASSUME [Next]_vars, disturbed PROVE disturbed'
  BY Zenon DEF Next, User, Step, StageStep, Start, vars, Edit, Delete, Tick, Crash, Disturbs, Begin, Goes, Ends,
     StageBegin, StageRemoves, StageRead, StageSync, StageSave, Commit, RemoveFile, WriteFile,
     RecordFile, SaveIndex, CheckoutBegin, DetachEnd, SaveBegin, SaveFlush, SavePut, ApplyBegin,
     Overlay, PopEnd

LEMMA WholeNext == TypeOK /\ WholeInv /\ [Next]_vars => WholeInv'
  <1> SUFFICES ASSUME TypeOK, WholeInv, [Next]_vars, ~disturbed' PROVE WholeInv'
    BY DEF WholeInv
  <1>0. ~disturbed BY StaysDisturbed
  <1>1. CASE User BY <1>0, <1>1, WholeUser
  <1>2. CASE Step BY <1>0, <1>2, WholeStage, WholeStep, WholeLast DEF Step
  <1>3. CASE Start BY <1>0, <1>3, WholeStart
  <1>4. CASE UNCHANGED vars
    <2>1. UNCHANGED <<disk, index, head, history, stashes, now, run, before, disturbed, blind, blindIx>>
      BY <1>4 DEF vars
    <2>2. UNCHANGED <<WholeDisk, WholeIndex, WholeHead, WholeStashes, WholeNow, WholeBlind>>
      BY <2>1 DEF WholeDisk, WholeIndex, WholeHead, WholeStashes, WholeNow, WholeBlind, Undisturbed
    <2>3. ASSUME StageWhole PROVE StageWhole'
      <3>1. Unmoved => Unmoved' BY <2>1, <2>2 DEF Unmoved
      <3>2. \A S : W!ToStage(S)' = W!ToStage(S) BY <2>1, <2>2 DEF W!ToStage, W!IsDirty
      <3>3. \A S : StagePart(S)' = StagePart(S) BY <2>2 DEF StagePart
      <3>4. Plain(index)' = Plain(index) /\ Plain(run.ix)' = Plain(run.ix) BY <2>1 DEF Plain
      <3> QED BY <2>1, <2>2, <2>3, <3>1, <3>2, <3>3, <3>4 DEF StageWhole
    <2>4. /\ Recording(NoTree) => Recording(NoTree)'
          /\ \A ix : ix' = ix => (Recording(ix) => Recording(ix)')
      BY <2>1, <2>2 DEF Recording, NoTree, W!NoTree
    <2>5. SwitchWhole => SwitchWhole' BY <2>1, <2>2, <2>4 DEF SwitchWhole
    <2>6. CheckoutWhole => CheckoutWhole' BY <2>1, <2>2, <2>5 DEF CheckoutWhole
    <2>7. SaveWhole => SaveWhole'
      BY <2>1, <2>2, <2>5, StashKept DEF SaveWhole, Unmoved
    <2>8. ASSUME ApplyWhole PROVE ApplyWhole'
      <3>1. PICK i \in 1 .. Len(WholeStashes), late \in SUBSET Paths :
               /\ run.cmd = "pop" => i = 1
               /\ head = WholeHead /\ stashes = WholeStashes
               /\ Applying(WholeStashes[i], late)
        BY <2>8 DEF ApplyWhole
      <3>2. Applying(WholeStashes[i], late)'
        <4> DEFINE st == WholeStashes[i]
        <4>1. st' = st /\ Applying(st, late) BY <2>2, <3>1
        <4>2. WholeIndex' = WholeIndex BY <2>2
        <4>3. Recording(WholeIndex)' BY <2>4, <3>1, <4>2 DEF Applying
        <4> HIDE DEF st
        <4>4. Applying(st, late)' BY <2>1, <2>2, <4>1, <4>3 DEF Applying, Laid
        <4> QED BY <4>4 DEF st
      <3> QED BY <2>1, <2>2, <3>1, <3>2 DEF ApplyWhole
    <2>9. Sized(index)' /\ Sized(run.ix)' BY <1>0, <2>1 DEF WholeInv, Sized
    <2> QED BY <1>0, <2>1, <2>3, <2>6, <2>7, <2>8, <2>9 DEF WholeInv
  <1> QED BY <1>1, <1>2, <1>3, <1>4 DEF Next

----------------------------------------------------------------------------
\* A command that ran alone was one step of Workspace.

LEMMA WholeAfter ==
    ASSUME run'.cmd = "none"
    PROVE  /\ WholeDisk' = disk' /\ WholeIndex' = Plain(index') /\ WholeHead' = head'
           /\ WholeStashes' = stashes' /\ WholeNow' = now' /\ WholeBlind' = blind'
  <1>1. ~Undisturbed' BY DEF Undisturbed
  <1> QED BY <1>1 DEF WholeDisk, WholeIndex, WholeHead, WholeStashes, WholeNow, WholeBlind

LEMMA ImplementsInit == Init => W!Init
  <1> SUFFICES ASSUME Init PROVE W!Init OBVIOUS
  <1>1. run.cmd = "none" BY DEF Init, Idle
  <1>2. Plain(NoTree) = NoTree /\ NoTree = W!NoTree BY DEF Plain, NoTree, W!NoTree
  <1> QED BY <1>1, <1>2, WholeIdle DEF Init, W!Init

\* What does not show: a command begins, or goes on.
LEMMA ImplementsGoes ==
    ASSUME TypeOK, ~disturbed, UNCHANGED history,
           (\E r : Begin(r) /\ r.cmd # "none")
             \/ (\E r : Goes(r) /\ r.cmd # "none" /\ run.cmd # "none")
    PROVE  UNCHANGED W!vars
  <1>1. UNCHANGED <<WholeDisk, WholeIndex, WholeHead, WholeStashes, WholeNow, WholeBlind>>
    BY WholeBegins, WholeGoes
  <1> QED BY <1>1 DEF W!vars

LEMMA ImplementsUser ==
    ASSUME TypeOK, ~disturbed, ~disturbed', User
    PROVE  [W!Next]_(W!vars)
  <1>1. Disturbs => run.cmd = "none"
    <2>1. ASSUME Disturbs PROVE ~(run.cmd # "none") BY <2>1, Zenon DEF Disturbs
    <2> QED BY <2>1
  <1>2. ASSUME NEW p \in Paths, NEW c \in Data, Edit(p, c) PROVE W!Edit
    <2>1. /\ run.cmd = "none" /\ run' = run /\ UNCHANGED <<index, head, history, stashes, now>>
          /\ disk' = Put(disk, p, [data |-> c, mtime |-> now]) /\ blind' = Marked(blind, index, p)
      BY <1>1, <1>2 DEF Edit, Write
    <2>2. disk' = W!Over(W!Stamp([q \in {p} |-> c], now), disk)
      BY <2>1 DEF Put, One, W!Over, W!Stamp
    <2>3. blind' = (WholeBlind \ {p}) \cup W!Unseen(WholeIndex, {p})
      <3>1. W!Unseen(Plain(index), {p}) = {q \in {p} \cap DOMAIN index : index[q].mtime = now}
        BY <2>1, WholeIdle DEF W!Unseen, Plain
      <3> QED BY <2>1, <3>1, WholeIdle DEF Marked
    <2> QED BY <2>1, <2>2, <2>3, WholeIdle, WholeAfter DEF W!Edit
  <1>3. ASSUME NEW p \in Paths, Delete(p) PROVE W!Delete
    <2>1. /\ run.cmd = "none" /\ run' = run /\ UNCHANGED <<index, head, history, stashes, now>>
          /\ p \in DOMAIN disk /\ disk' = W!Without(disk, {p}) /\ blind' = blind \ {p}
      BY <1>1, <1>3 DEF Delete, Unlink
    <2> QED BY <2>1, WholeIdle, WholeAfter DEF W!Delete
  <1>4. CASE Crash BY <1>1, <1>4 DEF Crash
  <1>5. CASE Tick
    <2>1. CASE Disturbs
      <3>1. /\ run.cmd = "none" /\ run' = run
            /\ UNCHANGED <<disk, index, head, history, stashes, blind>>
            /\ now < MaxTime /\ now' = now + 1
        BY <1>1, <1>5, <2>1 DEF Tick
      <3> QED BY <3>1, WholeIdle, WholeAfter DEF W!Tick, W!Next
    <2>2. CASE ~Disturbs
      <3>1. /\ Undisturbed /\ UNCHANGED <<before, disturbed, history, run>>
        BY <1>5, <2>2 DEF Tick
      <3>2. Undisturbed' = Undisturbed BY <3>1, Zenon DEF Undisturbed
      <3>3. UNCHANGED <<WholeDisk, WholeIndex, WholeHead, WholeStashes, WholeNow, WholeBlind>>
        BY <3>1, <3>2 DEF WholeDisk, WholeIndex, WholeHead, WholeStashes, WholeNow, WholeBlind
      <3> QED BY <3>1, <3>3 DEF W!vars
    <2> QED BY <2>1, <2>2
  <1> QED BY <1>2, <1>3, <1>4, <1>5 DEF User, W!Next

LEMMA ImplementsStage ==
    ASSUME TypeOK, WholeInv, ~disturbed, StageSave
    PROVE  W!Next
  <1>1. /\ run.cmd = "stage" /\ run.at = "end" /\ index' = run.ix /\ run' = Idle
        /\ blind' = blindIx /\ UNCHANGED <<disk, head, history, stashes, now>>
    BY DEF StageSave, Ends
  <1>2. PICK S \in SUBSET Paths :
           /\ Unmoved /\ head = WholeHead /\ Plain(run.ix) = StagePart(W!ToStage(S) \ DOMAIN run.stats)
           /\ DOMAIN run.stats = {} /\ blindIx = WholeBlind \ (W!ToStage(S) \ DOMAIN run.stats)
    BY <1>1 DEF WholeInv, StageWhole
  <1>3. run'.cmd = "none" BY <1>1 DEF Idle
  <1>4. WholeIndex' = W!Over(W!Restrict(WholeDisk, W!ToStage(S)),
                             W!Restrict(WholeIndex, DOMAIN WholeIndex \cap DOMAIN WholeDisk))
    <2>1. W!ToStage(S) \ DOMAIN run.stats = W!ToStage(S) BY <1>2
    <2> QED BY <1>1, <1>2, <1>3, <2>1, WholeAfter DEF StagePart
  <1>5. W!Stage(S)
    BY <1>1, <1>2, <1>3, <1>4, WholeAfter DEF W!Stage, Unmoved
  <1> QED BY <1>5 DEF W!Next

\* The way to a tree is at its end.
LEMMA SwitchEnds ==
    ASSUME SwitchWhole, run.gone = {}, run.todo = {}, run.cur = {}
    PROVE  /\ now = WholeNow
           /\ disk = W!SwitchTo(W!Work, run.goal).disk
           /\ Plain(run.ix) = W!SwitchTo(W!Work, run.goal).index
           /\ blindIx = W!SwitchTo(W!Work, run.goal).blind
  <1> DEFINE lacked == DOMAIN WholeIndex \ DOMAIN run.goal
  <1>1. lacked \ run.gone = lacked /\ run.todo \cup run.cur = {} OBVIOUS
  <1>2. disk = Written(But(run.goal, {}), WholeNow, W!Without(WholeDisk, lacked))
    BY <1>1 DEF SwitchWhole
  <1>3. Plain(run.ix) = Written(But(run.goal, {}), WholeNow, NoTree)
    BY <1>1 DEF SwitchWhole, Recording
  <1>4. Written(But(run.goal, {}), WholeNow, NoTree) = W!Stamp(run.goal, WholeNow)
    BY DEF Written, But, W!Over, W!Stamp, W!Restrict, NoTree, W!NoTree
  <1>5. disk = W!Over(W!Stamp(run.goal, WholeNow), W!Without(WholeDisk, lacked))
    BY <1>2, WrittenAll
  <1> QED BY <1>3, <1>4, <1>5 DEF SwitchWhole, W!SwitchTo, W!Work

\* So is that of a stash that was applied.
LEMMA ApplyingEnds ==
    ASSUME NEW st, NEW late, Applying(st, late), DOMAIN run.over = {}, run.todo = {}, run.cur = {}
    PROVE  /\ disk = W!Applied(W!Work, st, late).disk
           /\ Plain(run.ix) = W!Applied(W!Work, st, late).index
           /\ blindIx = W!Applied(W!Work, st, late).blind
           /\ late \in SUBSET DOMAIN st.dirty
  <1> DEFINE x == Written(But(run.goal, {}), WholeNow, WholeDisk)
  <1>1. run.todo \cup run.cur = {} /\ DOMAIN st.dirty \ DOMAIN run.over = DOMAIN st.dirty OBVIOUS
  <1>2. x = W!Over(W!Stamp(st.staged, WholeNow), WholeDisk) BY WrittenAll DEF Applying
  <1>3. disk = Laid(st.dirty, DOMAIN st.dirty, late, x) BY <1>1 DEF Applying
  <1> HIDE DEF x
  <1>4. disk = W!Over(W!Stamp(W!Restrict(st.dirty, late), WholeNow + 1),
                      W!Over(W!Stamp(st.dirty, WholeNow), x))
    <2>1. W!Stamp(W!Restrict(st.dirty, DOMAIN st.dirty), WholeNow) = W!Stamp(st.dirty, WholeNow)
      BY DEF W!Stamp, W!Restrict
    <2> QED BY <1>3, <2>1 DEF Laid, Written
  <1>5. Plain(run.ix) = Written(But(st.staged, {}), WholeNow, WholeIndex)
    BY <1>1 DEF Applying, Recording
  <1>6. Plain(run.ix) = W!Over(W!Stamp(st.staged, WholeNow), WholeIndex) BY <1>5, WrittenAll
  <1>7. blindIx = (WholeBlind \ DOMAIN st.staged) \cup (DOMAIN st.dirty \ late)
    BY <1>1 DEF Applying
  <1>8. late \in SUBSET DOMAIN st.dirty BY DEF Applying
  <1> QED BY <1>2, <1>4, <1>6, <1>7, <1>8 DEF W!Applied, W!Work

\* Checkout ends with the save of the index or with HEAD.
LEMMA ImplementsCheckout ==
    ASSUME TypeOK, WholeInv, ~disturbed, run.cmd \in {"checkout", "detach"},
           run.gone = {}, run.todo = {}, run.cur = {}, run' = Idle,
           Plain(index') = Plain(run.ix), head' = run.goal, blind' = {},
           UNCHANGED <<disk, history, stashes, now>>
    PROVE  W!Next
  <1>1. SwitchWhole /\ run.goal \in history /\ stashes = WholeStashes
    BY DEF WholeInv, CheckoutWhole
  <1>2. run'.cmd = "none" BY DEF Idle
  <1>3. /\ now = WholeNow /\ disk = W!SwitchTo(W!Work, run.goal).disk
        /\ Plain(run.ix) = W!SwitchTo(W!Work, run.goal).index
    BY <1>1, SwitchEnds
  <1>4. /\ W!SwitchTo(W!Work, run.goal).stashes = WholeStashes
        /\ W!SwitchTo(W!Work, run.goal).blind = {}
    BY DEF W!SwitchTo, W!Work
  <1>5. W!Becomes(W!SwitchTo(W!Work, run.goal))
    BY <1>1, <1>2, <1>3, <1>4, WholeAfter DEF W!Becomes
  <1>6. W!Checkout BY <1>1, <1>2, <1>3, <1>5, WholeAfter DEF W!Checkout
  <1> QED BY <1>6 DEF W!Next

LEMMA ImplementsSave ==
    ASSUME TypeOK, WholeInv, ~disturbed, run.cmd = "save", SaveIndex
    PROVE  W!Next
  <1> DEFINE st == W!Stashed(W!Work)
  <1>1. /\ run.at = "files" /\ run.gone = {} /\ run.todo = {} /\ run.cur = {} /\ index' = run.ix
        /\ run' = Idle /\ blind' = blindIx /\ UNCHANGED <<disk, head, history, stashes, now>>
    BY DEF SaveIndex, Ends
  <1>2. /\ head = WholeHead /\ ~W!LooksUnchanged(st) /\ Len(stashes) <= MaxStashes
        /\ SwitchWhole /\ run.goal = head /\ stashes = <<st>> \o WholeStashes
    BY <1>1 DEF WholeInv, SaveWhole
  <1>3. run'.cmd = "none" BY <1>1 DEF Idle
  <1>4. /\ now = WholeNow /\ disk = W!SwitchTo(W!Work, WholeHead).disk
        /\ Plain(run.ix) = W!SwitchTo(W!Work, WholeHead).index
        /\ blindIx = W!SwitchTo(W!Work, WholeHead).blind
    BY <1>1, <1>2, SwitchEnds
  <1>5. W!Saved(W!Work) = [W!SwitchTo(W!Work, WholeHead) EXCEPT !.stashes = <<st>> \o @]
    BY <1>2, Zenon DEF W!Saved
  <1>6. /\ W!Saved(W!Work).disk = W!SwitchTo(W!Work, WholeHead).disk
        /\ W!Saved(W!Work).index = W!SwitchTo(W!Work, WholeHead).index
        /\ W!Saved(W!Work).stashes = <<st>> \o WholeStashes
        /\ W!Saved(W!Work).blind = W!SwitchTo(W!Work, WholeHead).blind
    <2> HIDE DEF st
    <2> QED BY <1>5 DEF W!SwitchTo, W!Work
  <1>7. W!Becomes(W!Saved(W!Work))
    BY <1>1, <1>2, <1>3, <1>4, <1>6, WholeAfter DEF W!Becomes
  <1>9. W!StashSave BY <1>1, <1>2, <1>3, <1>4, <1>7, WholeAfter DEF W!StashSave
  <1> QED BY <1>9 DEF W!Next

LEMMA ImplementsApply ==
    ASSUME TypeOK, WholeInv, ~disturbed, run.cmd \in {"apply", "pop"},
           DOMAIN run.over = {}, run.todo = {}, run.cur = {}, run' = Idle,
           Plain(index') = Plain(run.ix), blind' = blindIx, UNCHANGED <<disk, head, history, now>>,
           stashes' = IF run.cmd = "pop" THEN Tail(stashes) ELSE stashes
    PROVE  W!Next
  <1>1. PICK i \in 1 .. Len(WholeStashes), late \in SUBSET Paths :
           /\ run.cmd = "pop" => i = 1
           /\ head = WholeHead /\ stashes = WholeStashes
           /\ Applying(WholeStashes[i], late)
    BY DEF WholeInv, ApplyWhole
  <1> DEFINE a == W!Applied(W!Work, WholeStashes[i], late)
  <1>2. /\ disk = a.disk /\ Plain(run.ix) = a.index /\ blindIx = a.blind
        /\ late \in SUBSET DOMAIN WholeStashes[i].dirty
    BY <1>1, ApplyingEnds
  <1>3. run'.cmd = "none" BY DEF Idle
  <1>4. a.stashes = WholeStashes BY DEF W!Applied, W!Work
  <1>5. W!Passes(late)
    <2>1. \/ now = WholeNow /\ late = {}
          \/ WholeNow \in Nat /\ now = WholeNow + 1 /\ late # {}
      BY <1>1 DEF Applying
    <2>2. now \in 0 .. MaxTime /\ MaxTime \in Nat BY BoundAssumption DEF TypeOK
    <2>3. WholeNow' = now BY <1>3, WholeAfter
    <2> QED BY <2>1, <2>2, <2>3 DEF W!Passes
  <1>6. CASE run.cmd = "apply"
    <2>1. W!Becomes(a) BY <1>1, <1>2, <1>3, <1>4, <1>6, WholeAfter DEF W!Becomes
    <2>2. WholeHead' = WholeHead /\ history' = history BY <1>1, <1>3, WholeAfter
    <2>3. W!StashApply(i) BY <1>2, <1>5, <2>1, <2>2 DEF W!StashApply
    <2> QED BY <2>3 DEF W!Next
  <1>7. CASE run.cmd = "pop"
    <2>1. i = 1 /\ Len(WholeStashes) > 0 BY <1>1, <1>7
    <2>2. LET b == [a EXCEPT !.stashes = Tail(@)]
          IN  /\ b.disk = a.disk /\ b.index = a.index /\ b.stashes = Tail(WholeStashes)
              /\ b.blind = a.blind
      BY <1>4 DEF W!Applied
    <2>3. W!Becomes([a EXCEPT !.stashes = Tail(@)])
      BY <1>1, <1>2, <1>3, <1>7, <2>2, WholeAfter DEF W!Becomes
    <2>4. WholeHead' = WholeHead /\ history' = history BY <1>1, <1>3, WholeAfter
    <2>5. W!StashPop BY <1>2, <1>5, <2>1, <2>3, <2>4 DEF W!StashPop
    <2> QED BY <2>5 DEF W!Next
  <1> QED BY <1>6, <1>7

LEMMA ImplementsStep ==
    ASSUME TypeOK, WholeInv, ~disturbed, Step
    PROVE  [W!Next]_(W!vars)
  <1>0. run \in Runs BY DEF TypeOK, RunOK
  <1>1. ASSUME NEW r, Goes(r), r.cmd = run.cmd, run.cmd # "none", UNCHANGED history
        PROVE  UNCHANGED W!vars
    BY <1>1, ImplementsGoes
  <1>2. CASE StageRemoves
    <2> DEFINE r == [run EXCEPT !.at = "files", !.ix = Restrict(@, DOMAIN @ \cap DOMAIN disk)]
    <2>1. r.cmd = run.cmd /\ run.cmd = "stage" BY <1>0, <1>2, At DEF StageRemoves, Runs
    <2> HIDE DEF r
    <2> QED BY <1>1, <1>2, <2>1 DEF StageRemoves, r
  <1>3. ASSUME NEW p \in Paths,
               StageRead(p) \/ RemoveFile(p) \/ WriteFile(p) \/ RecordFile(p) \/ Overlay(p)
        PROVE  UNCHANGED W!vars
    <2>1. run.at = "files"
      BY <1>3 DEF StageRead, RemoveFile, WriteFile, RecordFile, Overlay, Overlays, TypeOK, RunOK
    <2>2. run.cmd # "none" BY <2>1, At
    <2>3. Goes(run') /\ run'.cmd = run.cmd /\ UNCHANGED history
      BY <1>0, <1>3 DEF StageRead, RemoveFile, WriteFile, RecordFile, Overlay, Goes, Runs
    <2> QED BY <1>1, <2>2, <2>3
  <1>4. CASE StageSync \/ SaveFlush \/ SavePut
    <2>1. run.cmd # "none" BY <1>4, At DEF StageSync, SaveFlush, SavePut
    <2>2. Goes(run') /\ run'.cmd = run.cmd /\ UNCHANGED history
      BY <1>0, <1>4 DEF StageSync, SaveFlush, SavePut, Goes, Runs
    <2> QED BY <1>1, <2>1, <2>2
  <1>5. CASE StageSave BY <1>5, ImplementsStage
  <1>6. CASE SaveIndex
    <2>1. /\ run.at = "files" /\ run.gone = {} /\ run.todo = {} /\ run.cur = {} /\ DOMAIN run.over = {}
          /\ index' = run.ix /\ UNCHANGED <<disk, head, history, stashes, now>>
          /\ run.cmd # "stage" /\ run.cmd # "none"
      BY <1>6, At DEF SaveIndex
    <2>2. CASE run.cmd \in {"detach", "pop"}
      <3>1. Goes(run') /\ run'.cmd = run.cmd BY <1>0, <1>6, <2>2 DEF SaveIndex, Goes, Runs
      <3> QED BY <1>1, <2>1, <3>1
    <2>3. CASE run.cmd = "checkout"
      <3>1. run' = Idle BY <1>6, <2>3 DEF SaveIndex, Ends
      <3>2. head = run.goal /\ blindIx = {}
        BY <2>3 DEF WholeInv, CheckoutWhole, SwitchWhole
      <3>3. blind' = {} BY <1>6, <3>2 DEF SaveIndex
      <3> QED BY <2>1, <2>3, <3>1, <3>2, <3>3, ImplementsCheckout
    <2>4. CASE run.cmd = "save" BY <1>6, <2>4, ImplementsSave
    <2>5. CASE run.cmd = "apply"
      <3>1. run' = Idle /\ blind' = blindIx BY <1>6, <2>5 DEF SaveIndex, Ends
      <3> QED BY <2>1, <2>5, <3>1, ImplementsApply
    <2> QED BY <1>0, <2>1, <2>2, <2>3, <2>4, <2>5 DEF Runs
  <1>7. CASE DetachEnd
    <2>1. /\ run.cmd = "detach" /\ run.at = "end" /\ head' = run.goal /\ run' = Idle
          /\ UNCHANGED <<disk, index, history, stashes, now, blind>>
      BY <1>7 DEF DetachEnd, Ends
    <2>2. /\ Plain(index) = Plain(run.ix) /\ run.gone \cup run.todo \cup run.cur = {} /\ blind = {}
      BY <2>1 DEF WholeInv, CheckoutWhole, SwitchWhole, Recording
    <2>3. run.gone = {} /\ run.todo = {} /\ run.cur = {} BY <2>2
    <2>4. Plain(index') = Plain(run.ix) BY <2>1, <2>2
    <2>5. blind' = {} BY <2>1, <2>2
    <2> QED BY <2>1, <2>3, <2>4, <2>5, ImplementsCheckout
  <1>8. CASE PopEnd
    <2>1. /\ run.cmd = "pop" /\ run.at = "end" /\ stashes' = Tail(stashes) /\ run' = Idle
          /\ UNCHANGED <<disk, index, head, history, now, blind>>
      BY <1>8 DEF PopEnd, Ends
    <2>2. /\ Plain(index) = Plain(run.ix) /\ run.gone \cup run.todo \cup run.cur = {}
          /\ DOMAIN run.over = {} /\ blind = blindIx
      BY <2>1 DEF WholeInv, ApplyWhole, Applying, Recording
    <2>3. run.gone = {} /\ run.todo = {} /\ run.cur = {} BY <2>2
    <2>4. Plain(index') = Plain(run.ix) BY <2>1, <2>2
    <2> QED BY <2>1, <2>2, <2>3, <2>4, ImplementsApply
  <1> QED BY <1>2, <1>3, <1>4, <1>5, <1>6, <1>7, <1>8 DEF Step, StageStep

LEMMA ImplementsStart ==
    ASSUME TypeOK, ~disturbed, Start
    PROVE  [W!Next]_(W!vars)
  <1>1. CASE Commit
    <2>1. /\ run.cmd = "none" /\ run' = run /\ DOMAIN index # {} /\ head' = W!Contents(index)
          /\ history' = history \cup {head'} /\ Cardinality(history') <= MaxHistory
          /\ UNCHANGED <<disk, index, stashes, now, blind>>
      BY <1>1 DEF Commit, Idle
    <2>2. W!Contents(Plain(index)) = W!Contents(index) /\ DOMAIN Plain(index) = DOMAIN index
      BY DEF Plain, W!Contents
    <2> HIDE DEF Plain
    <2>3. W!Commit BY <2>1, <2>2, WholeIdle, WholeAfter DEF W!Commit, Cardinality, W!Cardinality
    <2> QED BY <2>3 DEF W!Next
  <1>2. ASSUME NEW r, Begin(r), r.cmd # "none", UNCHANGED history PROVE UNCHANGED W!vars
    BY <1>2, ImplementsGoes
  <1>3. ASSUME NEW S \in SUBSET Paths, StageBegin(S) PROVE UNCHANGED W!vars
    <2> DEFINE r == [Idle EXCEPT !.cmd = "stage", !.at = "removes", !.ix = index,
                                 !.stats = Restrict(disk, ToStage(S))]
    <2>1. r.cmd = "stage" BY DEF Idle
    <2>2. Begin(r) /\ UNCHANGED history BY <1>3 DEF StageBegin
    <2> HIDE DEF r
    <2> QED BY <1>2, <2>1, <2>2
  <1>4. ASSUME NEW tree \in history, NEW cmd \in {"checkout", "detach"}, CheckoutBegin(tree, cmd)
        PROVE  UNCHANGED W!vars
    <2> DEFINE r == [Idle EXCEPT !.cmd = cmd, !.at = "files", !.gone = DOMAIN index \ DOMAIN tree,
                                 !.goal = tree, !.todo = DOMAIN tree]
    <2>1. r.cmd = cmd BY DEF Idle
    <2>2. Begin(r) /\ UNCHANGED history BY <1>4 DEF CheckoutBegin
    <2> HIDE DEF r
    <2> QED BY <1>2, <2>1, <2>2
  <1>5. CASE SaveBegin
    <2> DEFINE r == [Idle EXCEPT !.cmd = "save", !.at = "flush", !.ix = index,
                                 !.goal = Stashed.staged, !.over = Stashed.dirty]
    <2>1. r.cmd = "save" BY DEF Idle
    <2>2. Begin(r) /\ UNCHANGED history BY <1>5 DEF SaveBegin
    <2> HIDE DEF r
    <2> QED BY <1>2, <2>1, <2>2
  <1>6. ASSUME NEW i \in 1 .. Len(stashes), NEW cmd \in {"apply", "pop"}, ApplyBegin(i, cmd)
        PROVE  UNCHANGED W!vars
    <2> DEFINE r == [Idle EXCEPT !.cmd = cmd, !.at = "files", !.ix = index,
                                 !.goal = stashes[i].staged, !.todo = DOMAIN stashes[i].staged,
                                 !.over = stashes[i].dirty]
    <2>1. r.cmd = cmd BY DEF Idle
    <2>2. Begin(r) /\ UNCHANGED history BY <1>6 DEF ApplyBegin
    <2> HIDE DEF r
    <2> QED BY <1>2, <2>1, <2>2
  <1> QED BY <1>1, <1>3, <1>4, <1>5, <1>6 DEF Start

\* As long as every command has run alone and to its end, stage, commit, checkout, stash save,
\* apply and pop, one call at a time, are the commands of Workspace, each of which is one step
\* there: what Workspace promises holds of them.
THEOREM CommandsAreWhole == Spec => WholeCommands
  <1>1. TypeOK /\ WholeInv /\ [Next]_vars => [W!Next \/ disturbed']_(W!vars)
    <2> SUFFICES ASSUME TypeOK, WholeInv, [Next]_vars, ~disturbed' PROVE [W!Next]_(W!vars)
      OBVIOUS
    <2>1. ~disturbed BY StaysDisturbed
    <2>2. CASE UNCHANGED vars
      <3>1. UNCHANGED <<disk, index, head, history, stashes, now, run, blind, before, disturbed>>
        BY <2>2 DEF vars
      <3> QED
        BY <3>1
        DEF W!vars, WholeDisk, WholeIndex, WholeHead, WholeStashes, WholeNow, WholeBlind, Undisturbed
    <2> QED BY <2>1, <2>2, ImplementsUser, ImplementsStep, ImplementsStart DEF Next
  <1> QED
    BY <1>1, ImplementsInit, TypeCorrect, WholeInit, WholeNext, PTL DEF Spec, WholeCommands

----------------------------------------------------------------------------
\* A user who only stages.

StagingOnly == Tick \/ StageStep \/ StageBegin(Paths)

\* What the stage in progress has taken: a file that can be staged is still to be read, or
\* the index in memory has it as it is; entries of files that are gone are dropped first.
Taken ==
    run.cmd = "stage" =>
        /\ run.at # "removes" => DOMAIN run.ix \subseteq DOMAIN disk
        /\ run.at = "end" => DOMAIN run.stats = {}
        /\ \A p \in DOMAIN disk : Size[disk[p].data] <= MaxFile =>
              \/ p \in DOMAIN run.stats
              \/ p \in DOMAIN run.ix /\ (p \notin blindIx => run.ix[p].data = disk[p].data)

\* A stage of everything takes everything, and the save of it captures the directory.
StagingTakes ==
    /\ StageBegin(Paths) => Taken'
    /\ StagingOnly /\ Taken => Taken'
    /\ StagingOnly /\ Taken /\ (StageSave \/ Captured) => Captured'

LEMMA TakenBegins ==
    ASSUME TypeOK, TruthInv, StageBegin(Paths)
    PROVE  Taken'
  <1>1. /\ run'.at = "removes" /\ run'.ix = index /\ run'.stats = Restrict(disk, ToStage(Paths))
        /\ disk' = disk /\ blindIx' = blind
    BY DEF StageBegin, Begin, Idle
  <1>2. DOMAIN run'.stats = ToStage(Paths) BY <1>1, RestrictIs
  <1>3. DOMAIN disk \subseteq Paths BY DirIs DEF TypeOK
  <1>4. ASSUME NEW p \in DOMAIN disk, Size[disk[p].data] <= MaxFile, p \notin ToStage(Paths)
        PROVE  p \in DOMAIN index /\ (p \notin blind => index[p].data = disk[p].data)
    <2>1. p \in DOMAIN index /\ ~Looks(index, disk, p) BY <1>3, <1>4 DEF ToStage
    <2> QED BY <2>1 DEF TruthInv, Truth, Looks
  <1> QED BY <1>1, <1>2, <1>4 DEF Taken

LEMMA TakenGoes ==
    ASSUME TypeOK, Taken, Tick \/ StageStep
    PROVE  Taken'
  <1>0. run \in Runs BY DEF TypeOK, RunOK
  <1>1. CASE Tick BY <1>1 DEF Tick, Taken
  <1>2. CASE StageRemoves
    <2>1. run.cmd = "stage" BY <1>2, At DEF StageRemoves
    <2>2. /\ run'.at = "files" /\ run'.ix = Restrict(run.ix, DOMAIN run.ix \cap DOMAIN disk)
          /\ run'.stats = run.stats /\ disk' = disk /\ blindIx' = blindIx
      BY <1>0, <1>2 DEF StageRemoves, Goes, Runs
    <2>3. /\ DOMAIN run'.ix = DOMAIN run.ix \cap DOMAIN disk
          /\ \A p \in DOMAIN run'.ix : run'.ix[p] = run.ix[p]
      BY <2>2, RestrictIs
    <2> QED BY <2>1, <2>2, <2>3 DEF Taken
  <1>3. ASSUME NEW p \in Paths, StageRead(p) PROVE Taken'
    <2> DEFINE entry == [data |-> disk[p].data, mtime |-> run.stats[p].mtime,
                         size |-> Size[run.stats[p].data]]
    <2>1. /\ run.cmd = "stage" /\ run.at = "files" /\ run'.at = "files"
          /\ run'.ix = IF p \in DOMAIN disk THEN Put(run.ix, p, entry) ELSE run.ix
          /\ run'.stats = W!Without(run.stats, {p}) /\ disk' = disk
          /\ blindIx' = blindIx \ {p}
      BY <1>0, <1>3 DEF StageRead, Goes, Runs
    <2>2. entry.data = disk[p].data OBVIOUS
    <2> HIDE DEF entry
    <2>3. DOMAIN run'.stats = DOMAIN run.stats \ {p}
      BY <2>1 DEF W!Without, W!Restrict
    <2>4. /\ DOMAIN Put(run.ix, p, entry) = DOMAIN run.ix \cup {p}
          /\ Put(run.ix, p, entry)[p] = entry
          /\ \A q \in DOMAIN run.ix \ {p} : Put(run.ix, p, entry)[q] = run.ix[q]
      BY DEF Put, One, W!Over
    <2>5. CASE p \in DOMAIN disk
      <3>1. run'.ix = Put(run.ix, p, entry) BY <2>1, <2>5
      <3>2. DOMAIN run'.ix \subseteq DOMAIN disk' BY <2>1, <2>4, <2>5, <3>1 DEF Taken
      <3>3. ASSUME NEW q \in DOMAIN disk, Size[disk[q].data] <= MaxFile
            PROVE  \/ q \in DOMAIN run'.stats
                   \/ q \in DOMAIN run'.ix /\ (q \notin blindIx' => run'.ix[q].data = disk[q].data)
        <4>1. CASE q = p BY <2>2, <2>4, <3>1, <4>1
        <4>2. CASE q # p BY <2>1, <2>3, <2>4, <3>1, <3>3, <4>2 DEF Taken
        <4> QED BY <4>1, <4>2
      <3> QED BY <2>1, <3>2, <3>3 DEF Taken
    <2>6. CASE p \notin DOMAIN disk
      BY <2>1, <2>3, <2>6 DEF Taken
    <2> QED BY <2>5, <2>6
  <1>4. CASE StageSync
    <2>1. /\ run.cmd = "stage" /\ run.at = "files" /\ DOMAIN run.stats = {} /\ run'.at = "end"
          /\ run'.ix = run.ix /\ run'.stats = run.stats /\ disk' = disk /\ blindIx' = blindIx
      BY <1>0, <1>4 DEF StageSync, Goes, Runs
    <2> QED BY <2>1 DEF Taken
  <1>5. CASE StageSave BY <1>5 DEF StageSave, Ends, Idle, Taken
  <1> QED BY <1>1, <1>2, <1>3, <1>4, <1>5 DEF StageStep

\* The save of a stage that has taken everything; nothing else touches index or directory.
LEMMA CapturedGoes ==
    ASSUME TypeOK, Taken, StagingOnly, StageSave \/ Captured
    PROVE  Captured'
  <1>1. disk' = disk
    <2>1. StageStep => UNCHANGED <<disk>>
      BY Zenon DEF StageStep, StageRemoves, StageRead, StageSync, StageSave
    <2>2. Tick \/ StageBegin(Paths) => UNCHANGED <<disk>>
      BY Zenon DEF Tick, StageBegin
    <2> QED BY <2>1, <2>2 DEF StagingOnly
  <1>2. CASE StageSave
    <2>1. run.cmd = "stage" /\ run.at = "end" /\ index' = run.ix /\ blind' = blindIx
      BY <1>2 DEF StageSave
    <2> QED BY <1>1, <2>1 DEF Taken, Captured
  <1>3. CASE Captured /\ ~StageSave
    <2>1. UNCHANGED <<index, blind>>
      BY <1>3, Zenon
      DEF StagingOnly, Tick, StageStep, StageRemoves, StageRead, StageSync, StageBegin, Begin
    <2> QED BY <1>1, <1>3, <2>1 DEF Captured
  <1> QED BY <1>2, <1>3

\* A stage of everything by a user who lets it run takes whatever is there, whatever happened
\* before it began (edits under an earlier stage, deaths of a command): when it saves the
\* index, the index is what is on disk, files over the limit and those the fast check was
\* blind to aside.
THEOREM StagingTakesAll == Spec => [][StagingTakes]_vars
  <1>1. TypeOK /\ TruthInv => StagingTakes
    BY TakenBegins, TakenGoes, CapturedGoes DEF StagingTakes, StagingOnly
  <1> QED BY <1>1, TypeCorrect, TruthInit, TruthNext, PTL DEF Spec

\* What was captured stays captured for as long as the user only stages, also while the next
\* stage is at work.
THEOREM CapturedStays ==
    Spec => []([][StagingOnly]_vars /\ Taken /\ Captured => []Captured)
  <1>1. TypeOK /\ TruthInv /\ Taken /\ Captured /\ [StagingOnly]_vars => Taken' /\ Captured'
    <2>1. CASE StagingOnly
      BY <2>1, TakenBegins, TakenGoes, CapturedGoes DEF StagingOnly
    <2>2. CASE UNCHANGED vars
      BY <2>2 DEF vars, Taken, Captured
    <2> QED BY <2>1, <2>2
  <1> QED BY <1>1, TypeCorrect, TruthInit, TruthNext, PTL DEF Spec
=============================================================================
