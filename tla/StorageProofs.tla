--------------------------- MODULE StorageProofs ---------------------------
(***************************************************************************)
(* Theorems about Storage, for every number of buckets, objects, batches   *)
(* and cells.  TypeOK needs no assumption beyond ConstantsOK; the others   *)
(* hold when one process at a time has the database open (sessions follow  *)
(* each other, and each may crash at any step) and write_at writes all it  *)
(* is given.  The runs MCStorageTwo and MCStorageShort show that neither   *)
(* assumption can be dropped.                                              *)
(***************************************************************************)
EXTENDS Storage, TLAPS

(***************************************************************************)
(* Operators.                                                              *)
(***************************************************************************)

(* Probing stays inside the table.                                         *)
LEMMA SlotType ==
    ASSUME NEW o \in Objects, NEW k \in BucketIds
    PROVE  Slot(o, k) \in BucketIds
BY ConstantsOK DEF Slot, BucketIds

(* A handle sees no object that is not in the database: what a stale       *)
(* mapping covers is a part of the file.                                   *)
LEMMA ExistsStored ==
    ASSUME NEW h \in Handles, NEW o \in Objects, Exists(h, o)
    PROVE  o \in Stored
BY DEF Exists, Found, Mapped, Stored

(* A step that leaves the used buckets, and the cells they name, as they   *)
(* are, loses no object.                                                   *)
LEMMA StoredKept ==
    ASSUME \A b \in BucketIds : table[b] \in 1 .. eof =>
               /\ table'[b] = table[b]
               /\ table[b] \in 1 .. eof'
               /\ cells'[table[b]] = cells[table[b]]
    PROVE  Stored \subseteq Stored'
<1> SUFFICES ASSUME NEW o \in Objects, Found(o, 1 .. eof)
             PROVE  Found(o, 1 .. eof)'
    BY DEF Stored
<1>1. PICK k \in BucketIds : /\ \A j \in 0 .. k : table[Slot(o, j)] \in 1 .. eof
                             /\ cells[table[Slot(o, k)]] = o
    BY DEF Found
<1>2. \A j \in 0 .. k : Slot(o, j) \in BucketIds
    BY SlotType, ConstantsOK DEF BucketIds
<1>3. \A j \in 0 .. k : table'[Slot(o, j)] = table[Slot(o, j)]
    BY <1>1, <1>2
<1>4. \A j \in 0 .. k : table'[Slot(o, j)] \in 1 .. eof'
    BY <1>1, <1>2
<1>5. k \in 0 .. k
    BY DEF BucketIds
<1>6. cells'[table'[Slot(o, k)]] = o
    BY <1>1, <1>2, <1>3, <1>5
<1> QED
    BY <1>4, <1>6 DEF Found, Slot

(* In particular a step that touches neither the file nor its length.      *)
LEMMA StoredUnchanged ==
    ASSUME UNCHANGED file
    PROVE  Stored' = Stored
BY DEF file, Stored, Found

-----------------------------------------------------------------------------
(***************************************************************************)
(* Type correctness.  The offsets of the entries being written stay inside *)
(* the file because set_len succeeded for all of them.                     *)
(***************************************************************************)
PlanFits ==
    \A h \in Handles : pc[h] \in {"write", "insert"} =>
        fileLen[h] \in Len(plan[h]) .. DiskCells

LEMMA TypeInit == Init => TypeOK /\ PlanFits
BY ConstantsOK DEF Init, TypeOK, PlanFits, PcStates, Cells, BucketIds

LocalOK ==
    /\ pc \in [Handles -> PcStates]
    /\ mapLen \in [Handles -> 0 .. DiskCells]
    /\ fileLen \in [Handles -> Nat]
    /\ pending \in [Handles -> Seq(Objects)]
    /\ batch \in [Handles -> Seq(Objects)]
    /\ plan \in [Handles -> Seq(Objects)]
    /\ done \in [Handles -> Nat]
    /\ closing \in [Handles -> BOOLEAN]
    /\ asked \in [Handles -> SUBSET Objects]

LEMMA TypeForget ==
    ASSUME TypeOK, NEW h \in Handles, Forget(h)
    PROVE  LocalOK'
BY ConstantsOK DEF Forget, TypeOK, LocalOK, PcStates

LEMMA TypeReturn ==
    ASSUME TypeOK, NEW h \in Handles, NEW len \in Nat, Return(h, len),
           UNCHANGED <<header, cells, eof, table>>,
           count' \in Nat, acked' \in SUBSET Objects
    PROVE  TypeOK'
<1>1. CASE closing[h]
  <2>1. Forget(h)
      BY <1>1 DEF Return
  <2>2. LocalOK'
      BY <2>1, TypeForget
  <2> QED BY <2>2 DEF LocalOK, TypeOK
<1>2. CASE ~closing[h]
  <2>1. /\ pc'      = [pc      EXCEPT ![h] = "idle"]
        /\ fileLen' = [fileLen EXCEPT ![h] = len]
        /\ plan'    = [plan    EXCEPT ![h] = << >>]
        /\ done'    = [done    EXCEPT ![h] = 0]
        /\ asked'   = [asked   EXCEPT ![h] = {}]
        /\ UNCHANGED <<mapLen, pending, batch, closing>>
      BY <1>2 DEF Return
  <2> QED BY <2>1 DEF TypeOK, PcStates
<1> QED BY <1>1, <1>2

LEMMA TypeReturnFile ==
    ASSUME TypeOK, NEW h \in Handles, NEW len \in Nat, Return(h, len),
           UNCHANGED file, acked' \in SUBSET Objects
    PROVE  TypeOK'
BY TypeReturn DEF file, TypeOK

LEMMA TypeStep == TypeOK /\ PlanFits /\ [Next]_vars => TypeOK'
<1> SUFFICES ASSUME TypeOK, PlanFits, [Next]_vars PROVE TypeOK'
    OBVIOUS
<1>1. CASE UNCHANGED vars
    BY <1>1 DEF vars, file, local, TypeOK
<1>2. ASSUME NEW h \in Handles, Open(h) PROVE TypeOK'
  <2>1. CASE OpenExisting(h)
      BY <2>1, ConstantsOK DEF OpenExisting, MapFile, TypeOK, PcStates, file
  <2>2. CASE OpenInvalid(h)
      BY <2>2 DEF OpenInvalid, vars, file, local, TypeOK
  <2>3. CASE OpenMissing(h)
      BY <2>3 DEF OpenMissing, TypeOK, PcStates, file
  <2> QED BY <1>2, <2>1, <2>2, <2>3 DEF Open
<1>3. ASSUME NEW h \in Handles, Create(h) PROVE TypeOK'
  <2>1. CASE CreateFile(h)
      BY <2>1, ConstantsOK DEF CreateFile, TypeOK, PcStates
  <2>2. CASE WriteHeader(h)
      BY <2>2, ConstantsOK DEF WriteHeader, TypeOK, PcStates
  <2> QED BY <1>3, <2>1, <2>2 DEF Create
<1>4. ASSUME NEW h \in Handles, Call(h) PROVE TypeOK'
  <2>1. ASSUME NEW o \in Objects, WriteKnown(h, o) PROVE TypeOK'
      BY <2>1 DEF WriteKnown, TypeOK, file, local
  <2>2. ASSUME NEW o \in Objects, WriteQueued(h, o) PROVE TypeOK'
      BY <2>2 DEF WriteQueued, TypeOK, file
  <2>3. ASSUME NEW w \in Batches, WriteBatch(h, w) PROVE TypeOK'
    <3>1. w \in Seq(Objects) /\ {w[i] : i \in 1 .. Len(w)} \subseteq Objects
        BY ConstantsOK
    <3> QED BY <2>3, <3>1 DEF WriteBatch, Begin, TypeOK, PcStates, file
  <2>4. ASSUME NEW dropping \in BOOLEAN, Flush(h, dropping) PROVE TypeOK'
    <3>1. /\ pending[h] \in Seq(Objects)
          /\ {pending[h][i] : i \in 1 .. Len(pending[h])} \subseteq Objects
        BY DEF TypeOK
    <3> QED BY <2>4, <3>1 DEF Flush, Begin, TypeOK, PcStates, file
  <2>5. CASE Remap(h)
      BY <2>5 DEF Remap, TypeOK, file
  <2> QED BY <1>4, <2>1, <2>2, <2>3, <2>4, <2>5 DEF Call
<1>5. ASSUME NEW h \in Handles, FlushStep(h) PROVE TypeOK'
  <2>0. fileLen[h] \in Nat /\ plan[h] \in Seq(Objects) /\ batch[h] \in Seq(Objects)
        /\ done[h] \in Nat /\ asked[h] \in SUBSET Objects /\ Len(plan[h]) \in Nat
      BY DEF TypeOK
  <2>1. CASE Gather(h)
    <3>1. Head(batch[h]) \in Objects /\ Tail(batch[h]) \in Seq(Objects)
        BY <2>0, <2>1 DEF Gather
    <3>2. /\ batch' \in [Handles -> Seq(Objects)]
          /\ plan' \in [Handles -> Seq(Objects)]
        BY <2>1, <3>1 DEF Gather, TypeOK
    <3> QED BY <2>1, <3>2 DEF Gather, TypeOK, file
  <2>2. CASE NothingToWrite(h)
      BY <2>0, <2>2, TypeReturnFile DEF NothingToWrite, ReturnOk, TypeOK
  <2>3. CASE Extend(h)
    <3>1. fileLen[h] + Len(plan[h]) \in 0 .. DiskCells
        BY <2>0, <2>3, ConstantsOK DEF Extend
    <3>2. cells' \in [Cells -> Objects \union {Hole}]
        BY <2>3 DEF Extend, TypeOK
    <3> QED BY <2>3, <3>1, <3>2 DEF Extend, TypeOK, PcStates
  <2>4. CASE ExtendFails(h)
    <3>1. fileLen[h] + Len(plan[h]) \in Nat
        BY <2>0
    <3> QED BY <2>4, <3>1, TypeReturnFile DEF ExtendFails, ReturnErr, TypeOK
  <2>5. CASE WriteData(h)
    <3>1. PICK n \in 0 .. Len(plan[h]) :
            /\ pc[h] = "write"
            /\ cells' = [i \in Cells |-> IF i \in Base(h) + 1 .. Base(h) + n
                                         THEN plan[h][i - Base(h)] ELSE cells[i]]
            /\ eof' = IF Base(h) + n > eof THEN Base(h) + n ELSE eof
        BY <2>0, <2>5 DEF WriteData
    <3>2. Base(h) \in Nat /\ Base(h) + n \in 0 .. DiskCells
        BY <2>0, <3>1, ConstantsOK DEF Base, PlanFits
    <3>3. \A i \in Base(h) + 1 .. Base(h) + n : plan[h][i - Base(h)] \in Objects
        BY <2>0, <3>2
    <3>4. cells' \in [Cells -> Objects \union {Hole}] /\ eof' \in 0 .. DiskCells
        BY <3>1, <3>2, <3>3 DEF TypeOK
    <3> QED BY <2>5, <3>4 DEF WriteData, TypeOK, PcStates
  <2>6. CASE WriteFails(h)
      BY <2>0, <2>6, TypeReturnFile DEF WriteFails, ReturnErr, TypeOK
  <2>7. CASE Insert(h)
    <3>1. pc[h] = "insert"
        BY <2>7 DEF Insert
    <3>2. Base(h) + done[h] + 1 \in Nat
        BY <2>0, <3>1, ConstantsOK DEF Base, PlanFits
    <3>3. PICK b : table' = [table EXCEPT ![b] = Base(h) + done[h] + 1]
        BY <2>7 DEF Insert
    <3>4. table \in [BucketIds -> Nat] /\ done \in [Handles -> Nat]
        BY DEF TypeOK
    <3>5. table' \in [BucketIds -> Nat]
        BY <3>2, <3>3, <3>4
    <3>6. done' = [done EXCEPT ![h] = @ + 1]
        BY <2>7 DEF Insert
    <3>7. done' \in [Handles -> Nat]
        BY <3>4, <3>6
    <3> QED BY <2>7, <3>5, <3>7 DEF Insert, TypeOK
  <2>8. CASE InsertFull(h)
      BY <2>0, <2>8, TypeReturnFile DEF InsertFull, ReturnErr, TypeOK
  <2>9. CASE Inserted(h)
    <3>1. count' = count + Len(plan[h]) /\ acked' = acked \union asked[h]
        BY <2>9 DEF Inserted, ReturnOk
    <3>2. count \in Nat /\ acked \in SUBSET Objects
        BY DEF TypeOK
    <3>3. count' \in Nat /\ acked' \in SUBSET Objects
        BY <2>0, <3>1, <3>2
    <3> QED BY <2>0, <2>9, <3>3, TypeReturn DEF Inserted, ReturnOk
  <2> QED BY <1>5, <2>1, <2>2, <2>3, <2>4, <2>5, <2>6, <2>7, <2>8, <2>9 DEF FlushStep
<1>6. ASSUME NEW h \in Handles, Crash(h) PROVE TypeOK'
    BY <1>6, TypeForget DEF Crash, LocalOK, TypeOK, file
<1> QED BY <1>1, <1>2, <1>3, <1>4, <1>5, <1>6 DEF Next

LEMMA PlanFitsStep == TypeOK /\ PlanFits /\ [Next]_vars => PlanFits'
<1> SUFFICES ASSUME TypeOK, PlanFits, [Next]_vars,
                    NEW g \in Handles, pc'[g] \in {"write", "insert"}
             PROVE  fileLen'[g] \in Len(plan'[g]) .. DiskCells
    BY DEF PlanFits
<1>0. fileLen[g] \in Nat /\ Len(plan[g]) \in Nat
    BY DEF TypeOK
<1>1. CASE /\ pc[g] \in {"write", "insert"}
           /\ fileLen'[g] = fileLen[g] /\ plan'[g] = plan[g]
    BY <1>1 DEF PlanFits
<1>2. CASE UNCHANGED vars
    BY <1>1, <1>2 DEF vars, local
<1>3. ASSUME NEW h \in Handles, Extend(h) PROVE fileLen'[g] \in Len(plan'[g]) .. DiskCells
  <2>1. CASE h = g
      BY <1>0, <1>3, <2>1, ConstantsOK DEF Extend, TypeOK
  <2>2. CASE h # g
      BY <1>1, <1>3, <2>2 DEF Extend, TypeOK
  <2> QED BY <2>1, <2>2
<1>4. ASSUME NEW h \in Handles, NEW len, Return(h, len)
      PROVE  fileLen'[g] \in Len(plan'[g]) .. DiskCells
  <2>1. h # g
      BY <1>4 DEF Return, Forget, TypeOK
  <2> QED BY <1>1, <1>4, <2>1 DEF Return, Forget, TypeOK
<1>5. ASSUME NEW h \in Handles, FlushStep(h)
      PROVE  fileLen'[g] \in Len(plan'[g]) .. DiskCells
  <2>1. CASE Gather(h)
    <3>1. h # g
        BY <1>5, <2>1 DEF Gather
    <3> QED BY <1>1, <2>1, <3>1 DEF Gather, TypeOK
  <2>2. CASE WriteData(h) \/ Insert(h)
      BY <1>1, <2>2 DEF WriteData, Insert, TypeOK
  <2>3. CASE \/ NothingToWrite(h) \/ ExtendFails(h) \/ WriteFails(h)
             \/ InsertFull(h) \/ Inserted(h)
      BY <1>4, <2>3 DEF NothingToWrite, ExtendFails, WriteFails, InsertFull, Inserted,
         ReturnOk, ReturnErr
  <2> QED BY <1>3, <1>5, <2>1, <2>2, <2>3 DEF FlushStep
<1>6. ASSUME NEW h \in Handles, Open(h) \/ Create(h) \/ Crash(h)
      PROVE  fileLen'[g] \in Len(plan'[g]) .. DiskCells
  <2>1. CASE OpenInvalid(h)
      BY <1>2, <2>1 DEF OpenInvalid
  <2>2. CASE OpenExisting(h) \/ OpenMissing(h)
    <3>1. h # g
        BY <2>2 DEF OpenExisting, OpenMissing, MapFile, TypeOK
    <3> QED BY <1>1, <2>2, <3>1 DEF OpenExisting, OpenMissing, MapFile, TypeOK
  <2>3. CASE Create(h)
    <3>1. h # g
        BY <2>3 DEF Create, CreateFile, WriteHeader, TypeOK
    <3> QED BY <1>1, <2>3, <3>1 DEF Create, CreateFile, WriteHeader, TypeOK
  <2>4. CASE Crash(h)
    <3>1. h # g
        BY <2>4 DEF Crash, Forget, TypeOK
    <3> QED BY <1>1, <2>4, <3>1 DEF Crash, Forget, TypeOK
  <2> QED BY <1>6, <2>1, <2>2, <2>3, <2>4 DEF Open
<1>7. ASSUME NEW h \in Handles, Call(h)
      PROVE  fileLen'[g] \in Len(plan'[g]) .. DiskCells
  <2>1. CASE \E o \in Objects : WriteKnown(h, o) \/ WriteQueued(h, o)
      BY <1>1, <2>1 DEF WriteKnown, WriteQueued, local
  <2>2. CASE Remap(h)
      BY <1>1, <2>2 DEF Remap
  <2>3. ASSUME NEW w, Begin(h, w) PROVE fileLen'[g] \in Len(plan'[g]) .. DiskCells
    <3>1. h # g
        BY <2>3 DEF Begin, TypeOK
    <3> QED BY <1>1, <2>3, <3>1 DEF Begin, TypeOK
  <2> QED BY <1>7, <2>1, <2>2, <2>3 DEF Call, WriteBatch, Flush
<1> QED BY <1>2, <1>5, <1>6, <1>7 DEF Next

(* The variables keep their types, with any number of processes.           *)
THEOREM TypeCorrect == Spec => []TypeOK
<1>1. TypeOK /\ PlanFits /\ [Next]_vars => (TypeOK /\ PlanFits)'
    BY TypeStep, PlanFitsStep
<1> QED BY TypeInit, <1>1, PTL DEF Spec

-----------------------------------------------------------------------------
(***************************************************************************)
(* Safety of one process at a time.  TableSound and AckedStored are not    *)
(* inductive: that an insertion links a complete entry, and that a flush   *)
(* overwrites none, follows from where the handle is in flush_impl and     *)
(* from its cached file length being right.                                *)
(***************************************************************************)
OneProcess == ~ShortWrites /\ \A g, h \in Handles : g = h

(* Nothing was written before the header.                                  *)
HeaderInv ==
    header # "ready" =>
        acked = {} /\ eof = 0 /\ \A b \in BucketIds : table[b] = 0

(* The header as the handle needs it.                                      *)
HandleInv(h) ==
    /\ pc[h] = "creating" => header = "absent"
    /\ pc[h] = "formatting" => header = "blank"
    /\ pc[h] \in {"idle", "gather", "write", "insert"} => header = "ready"

(* file_len is never short of the file, and exact after set_len.           *)
LengthInv(h) ==
    /\ pc[h] \in {"idle", "gather"} => fileLen[h] >= eof
    /\ pc[h] \in {"write", "insert"} => fileLen[h] = eof /\ batch[h] = << >>
    /\ pc[h] \in {"gather", "write"} => done[h] = 0
    /\ pc[h] = "insert" => done[h] <= Len(plan[h])

(* The cells of the plan are free before write_at and hold it afterwards.  *)
DataInv(h) ==
    /\ pc[h] = "write" => \A b \in BucketIds : table[b] <= Base(h)
    /\ pc[h] = "insert" =>
         \A i \in 1 .. Len(plan[h]) : cells[Base(h) + i] = plan[h][i]

(* What a flush was asked for and has not linked yet, it still holds.      *)
OwedInv(h) ==
    \A o \in asked[h] :
        /\ pc[h] \in {"gather", "write", "insert"}
        /\ \/ o \in Stored
           \/ \E i \in 1 .. Len(batch[h]) : batch[h][i] = o
           \/ \E i \in done[h] + 1 .. Len(plan[h]) : plan[h][i] = o

Inv ==
    /\ TypeOK /\ PlanFits
    /\ HeaderInv /\ TableSound /\ AckedStored
    /\ \A h \in Handles : HandleInv(h) /\ LengthInv(h) /\ DataInv(h) /\ OwedInv(h)

LEMMA InvInit == Init => Inv
<1> SUFFICES ASSUME Init PROVE Inv
    OBVIOUS
<1>1. TypeOK /\ PlanFits
    BY TypeInit
<1>2. HeaderInv /\ TableSound /\ AckedStored
    BY DEF Init, HeaderInv, TableSound, AckedStored
<1>3. ASSUME NEW h \in Handles
      PROVE  HandleInv(h) /\ LengthInv(h) /\ DataInv(h) /\ OwedInv(h)
    BY DEF Init, HandleInv, LengthInv, DataInv, OwedInv
<1> QED BY <1>1, <1>2, <1>3 DEF Inv

(* No step disturbs an entry the table names.                              *)
EntriesKept ==
    \A b \in BucketIds : table[b] \in 1 .. eof =>
        /\ table'[b] = table[b]
        /\ table[b] \in 1 .. eof'
        /\ cells'[table[b]] = cells[table[b]]

LEMMA EntriesKeptStep ==
    ASSUME OneProcess, Inv, [Next]_vars
    PROVE  EntriesKept
<1>1. CASE UNCHANGED <<cells, eof, table>>
    BY <1>1 DEF EntriesKept
<1>2. CASE UNCHANGED vars
    BY <1>1, <1>2 DEF vars, file
<1>3. ASSUME NEW h \in Handles, Open(h) PROVE EntriesKept
    BY <1>1, <1>3 DEF Open, OpenExisting, OpenInvalid, OpenMissing, file, vars
<1>4. ASSUME NEW h \in Handles, Create(h) PROVE EntriesKept
  <2>1. CASE CreateFile(h)
    <3>1. header = "absent"
        BY <2>1 DEF CreateFile, Inv, HandleInv
    <3> QED BY <3>1 DEF Inv, HeaderInv, EntriesKept
  <2>2. CASE WriteHeader(h)
      BY <1>1, <2>2 DEF WriteHeader
  <2> QED BY <1>4, <2>1, <2>2 DEF Create
<1>5. ASSUME NEW h \in Handles, Call(h) PROVE EntriesKept
    BY <1>1, <1>5 DEF Call, WriteKnown, WriteQueued, WriteBatch, Flush, Begin, Remap, file
<1>6. ASSUME NEW h \in Handles, Crash(h) PROVE EntriesKept
    BY <1>1, <1>6 DEF Crash, file
<1>7. ASSUME NEW h \in Handles, FlushStep(h) PROVE EntriesKept
  <2>0. /\ fileLen[h] \in Nat /\ Len(plan[h]) \in Nat /\ eof \in Nat /\ done[h] \in Nat
        /\ table \in [BucketIds -> Nat]
      BY ConstantsOK DEF Inv, TypeOK
  <2>1. CASE Gather(h) \/ NothingToWrite(h) \/ ExtendFails(h) \/ WriteFails(h)
             \/ InsertFull(h) \/ Inserted(h)
      BY <1>1, <2>1 DEF Gather, NothingToWrite, ExtendFails, WriteFails, InsertFull,
         Inserted, file
  <2>2. CASE Extend(h)
    <3>1. fileLen[h] >= eof /\ eof' = fileLen[h] + Len(plan[h]) /\ eof' <= DiskCells
        BY <2>2 DEF Extend, Inv, LengthInv
    <3>2. table' = table /\ \A i \in Cells : i <= eof' => cells'[i] = cells[i]
        BY <2>2 DEF Extend
    <3> QED BY <2>0, <3>1, <3>2, ConstantsOK DEF EntriesKept, Cells
  <2>3. CASE WriteData(h)
    <3>1. /\ pc[h] = "write" /\ table' = table
          /\ cells' = [i \in Cells |-> IF i \in Base(h) + 1 .. Base(h) + Len(plan[h])
                                       THEN plan[h][i - Base(h)] ELSE cells[i]]
          /\ eof' = IF Base(h) + Len(plan[h]) > eof THEN Base(h) + Len(plan[h]) ELSE eof
        BY <2>3 DEF WriteData, OneProcess
    <3>2. \A b \in BucketIds : table[b] <= Base(h)
        BY <3>1 DEF Inv, DataInv
    <3>3. Base(h) \in Int /\ eof <= DiskCells /\ eof' >= eof /\ eof' \in Int
        BY <2>0, <3>1, ConstantsOK DEF Base, Inv, TypeOK
    <3> QED BY <2>0, <3>1, <3>2, <3>3, ConstantsOK DEF EntriesKept, Cells
  <2>4. CASE Insert(h)
    <3>1. PICK b \in BucketIds : /\ table[b] = 0
                                /\ table' = [table EXCEPT ![b] = Base(h) + done[h] + 1]
      <4>1. plan[h][done[h] + 1] \in Objects
          BY <2>0, <2>4 DEF Insert, Inv, TypeOK
      <4> QED BY <2>4, <4>1, SlotType DEF Insert
    <3>2. UNCHANGED <<cells, eof>>
        BY <2>4 DEF Insert
    <3> QED BY <2>0, <3>1, <3>2 DEF EntriesKept
  <2> QED BY <1>7, <2>1, <2>2, <2>3, <2>4 DEF FlushStep
<1> QED BY <1>2, <1>3, <1>4, <1>5, <1>6, <1>7 DEF Next

LEMMA StoredGrows ==
    ASSUME OneProcess, Inv, [Next]_vars
    PROVE  Stored \subseteq Stored'
BY EntriesKeptStep, StoredKept DEF EntriesKept

(* An inserted entry is found: the buckets before the one it takes are in  *)
(* use, so they name cells of the file, and its data was written before.   *)
LEMMA InsertFinds ==
    ASSUME OneProcess, Inv, NEW h \in Handles, Insert(h)
    PROVE  /\ plan[h][done[h] + 1] \in Stored'
           /\ \E b \in BucketIds :
                /\ table' = [table EXCEPT ![b] = Base(h) + done[h] + 1]
                /\ Base(h) + done[h] + 1 \in 1 .. eof
                /\ cells[Base(h) + done[h] + 1] = plan[h][done[h] + 1]
<1> DEFINE o == plan[h][done[h] + 1]
           new == Base(h) + done[h] + 1
<1>1. /\ fileLen[h] \in Nat /\ plan[h] \in Seq(Objects) /\ Len(plan[h]) \in Nat
      /\ done[h] \in Nat /\ eof \in Nat /\ table \in [BucketIds -> Nat]
    BY ConstantsOK DEF Inv, TypeOK
<1>2. pc[h] = "insert" /\ done[h] < Len(plan[h]) /\ UNCHANGED <<cells, eof>>
    BY DEF Insert
<1>3. o \in Objects
    BY <1>1, <1>2
<1>4. fileLen[h] = eof /\ Len(plan[h]) <= fileLen[h]
    BY <1>1, <1>2 DEF Inv, LengthInv, PlanFits
<1>5. new \in 1 .. eof
    BY <1>1, <1>2, <1>4 DEF Base
<1>6. cells[new] = o
  <2>1. \A l, d, f \in Nat : d < l => d + 1 \in 1 .. l /\ f - l + (d + 1) = f - l + d + 1
      OBVIOUS
  <2>2. done[h] + 1 \in 1 .. Len(plan[h]) /\ Base(h) + (done[h] + 1) = new
      BY <1>1, <1>2, <2>1 DEF Base
  <2> QED BY <1>2, <2>2 DEF Inv, DataInv
<1>7. PICK k \in BucketIds :
        /\ table[Slot(o, k)] = 0
        /\ \A j \in 0 .. k : j < k => table[Slot(o, j)] # 0
        /\ table' = [table EXCEPT ![Slot(o, k)] = new]
    BY DEF Insert
<1> HIDE DEF o, new
<1>8. Slot(o, k) \in BucketIds /\ \A j \in 0 .. k : j \in BucketIds /\ Slot(o, j) \in BucketIds
    BY <1>3, SlotType, ConstantsOK DEF BucketIds
<1>9. \A j \in 0 .. k : table'[Slot(o, j)] \in 1 .. eof'
  <2> SUFFICES ASSUME NEW j \in 0 .. k PROVE table'[Slot(o, j)] \in 1 .. eof'
      OBVIOUS
  <2>1. CASE Slot(o, j) = Slot(o, k)
      BY <1>1, <1>2, <1>5, <1>7, <1>8, <2>1
  <2>2. CASE Slot(o, j) # Slot(o, k)
    <3>1. j \in 0 .. k /\ k \in Int /\ j # k
        BY <2>2, ConstantsOK DEF BucketIds
    <3>2. j < k
        BY <3>1
    <3>3. Slot(o, j) \in BucketIds /\ table[Slot(o, j)] # 0
        BY <1>7, <1>8, <3>2
    <3>4. table[Slot(o, j)] \in 1 .. eof
        BY <3>3 DEF Inv, TableSound
    <3> QED BY <1>1, <1>2, <1>7, <1>8, <2>2, <3>3, <3>4
  <2> QED BY <2>1, <2>2
<1>10. cells'[table'[Slot(o, k)]] = o
    BY <1>1, <1>2, <1>6, <1>7, <1>8
<1>11. o \in Stored'
    BY <1>3, <1>9, <1>10 DEF Stored, Found, Slot
<1>12. k \in 0 .. k
    BY ConstantsOK DEF BucketIds
<1>13. \E b \in BucketIds : table' = [table EXCEPT ![b] = new]
    BY <1>7, <1>8, <1>12
<1> QED BY <1>5, <1>6, <1>11, <1>13 DEF o, new

LEMMA TableSoundStep ==
    ASSUME OneProcess, Inv, [Next]_vars
    PROVE  TableSound'
<1>0. EntriesKept /\ Stored \subseteq Stored' /\ TableSound
    BY EntriesKeptStep, StoredGrows DEF Inv
<1>1. CASE table' = table
    BY <1>0, <1>1 DEF EntriesKept, TableSound
<1>2. CASE \E h \in Handles : CreateFile(h)
    BY <1>2 DEF CreateFile, TableSound
<1>3. ASSUME NEW h \in Handles, Insert(h) PROVE TableSound'
  <2>1. PICK b \in BucketIds :
          /\ table' = [table EXCEPT ![b] = Base(h) + done[h] + 1]
          /\ Base(h) + done[h] + 1 \in 1 .. eof
          /\ cells[Base(h) + done[h] + 1] = plan[h][done[h] + 1]
      BY <1>3, InsertFinds
  <2>2. plan[h][done[h] + 1] \in Stored'
      BY <1>3, InsertFinds
  <2>3. UNCHANGED <<cells, eof>> /\ table \in [BucketIds -> Nat]
      BY <1>3 DEF Insert, Inv, TypeOK
  <2> SUFFICES ASSUME NEW c \in BucketIds, table'[c] # 0
               PROVE  table'[c] \in 1 .. eof' /\ cells'[table'[c]] \in Stored'
      BY DEF TableSound
  <2>4. CASE c = b
      BY <2>1, <2>2, <2>3, <2>4
  <2>5. CASE c # b
      BY <1>0, <2>1, <2>3, <2>5 DEF TableSound
  <2> QED BY <2>4, <2>5
<1>4. CASE \E h \in Handles : Open(h) \/ WriteHeader(h) \/ Call(h) \/ Crash(h)
    BY <1>1, <1>4 DEF Open, OpenExisting, OpenInvalid, OpenMissing, WriteHeader, Call,
       WriteKnown, WriteQueued, WriteBatch, Flush, Begin, Remap, Crash, file, vars
<1>5. CASE \E h \in Handles : FlushStep(h) /\ ~Insert(h)
    BY <1>1, <1>5 DEF FlushStep, Gather, NothingToWrite, Extend, ExtendFails, WriteData,
       WriteFails, InsertFull, Inserted, file
<1>6. CASE UNCHANGED vars
    BY <1>1, <1>6 DEF vars, file
<1> QED BY <1>2, <1>3, <1>4, <1>5, <1>6 DEF Next, Create, FlushStep

LEMMA AckedStoredStep ==
    ASSUME OneProcess, Inv, [Next]_vars
    PROVE  AckedStored'
<1>0. Stored \subseteq Stored' /\ acked \subseteq Stored
    BY StoredGrows DEF Inv, AckedStored
<1>1. CASE acked' = acked
    BY <1>0, <1>1 DEF AckedStored
<1>2. ASSUME NEW h \in Handles, NEW o \in Objects, WriteKnown(h, o) PROVE AckedStored'
    BY <1>0, <1>2, ExistsStored DEF WriteKnown, AckedStored
<1>3. ASSUME NEW h \in Handles, NothingToWrite(h) \/ Inserted(h) PROVE AckedStored'
  <2>1. acked' = acked \union asked[h]
      BY <1>3 DEF NothingToWrite, Inserted, ReturnOk
  <2>2. batch[h] = << >> /\ done[h] = Len(plan[h])
    <3>1. CASE NothingToWrite(h)
        BY <3>1 DEF NothingToWrite, Inv, LengthInv
    <3>2. CASE Inserted(h)
        BY <3>2 DEF Inserted, Inv, LengthInv
    <3> QED BY <1>3, <3>1, <3>2
  <2>3. asked[h] \subseteq Stored
    <3>1. 1 .. Len(batch[h]) = {} /\ done[h] + 1 .. Len(plan[h]) = {}
        BY <2>2 DEF Inv, TypeOK
    <3> QED BY <3>1 DEF Inv, OwedInv
  <2> QED BY <1>0, <2>1, <2>3 DEF AckedStored
<1>4. CASE UNCHANGED vars
    BY <1>1, <1>4 DEF vars
<1>5. CASE \E h \in Handles : Open(h) \/ Create(h) \/ Crash(h)
    BY <1>1, <1>5 DEF Open, OpenExisting, OpenInvalid, OpenMissing, Create, CreateFile,
       WriteHeader, Crash, vars
<1>6. ASSUME NEW h \in Handles, Call(h) PROVE AckedStored'
    BY <1>1, <1>2, <1>6 DEF Call, WriteQueued, WriteBatch, Flush, Begin, Remap
<1>7. ASSUME NEW h \in Handles, FlushStep(h) PROVE AckedStored'
    BY <1>1, <1>3, <1>7 DEF FlushStep, Gather, Extend, ExtendFails, WriteData,
       WriteFails, Insert, InsertFull, ReturnErr
<1> QED BY <1>4, <1>5, <1>6, <1>7 DEF Next

HandlesInv == \A h \in Handles : HandleInv(h) /\ LengthInv(h) /\ DataInv(h) /\ OwedInv(h)

(* With one process, what holds for the handle that moved holds for all.   *)
LEMMA OneHandle ==
    ASSUME OneProcess, NEW h \in Handles,
           HandleInv(h)', LengthInv(h)', DataInv(h)', OwedInv(h)'
    PROVE  HandlesInv'
<1> SUFFICES ASSUME NEW g \in Handles
             PROVE  HandleInv(g)' /\ LengthInv(g)' /\ DataInv(g)' /\ OwedInv(g)'
    BY DEF HandlesInv
<1>1. g = h
    BY DEF OneProcess
<1> QED BY <1>1

LEMMA HandleForget ==
    ASSUME OneProcess, Inv, NEW h \in Handles, Forget(h)
    PROVE  HandlesInv'
<1>1. pc'[h] = "closed" /\ asked'[h] = {}
    BY DEF Forget, Inv, TypeOK
<1>2. HandleInv(h)' /\ LengthInv(h)' /\ DataInv(h)' /\ OwedInv(h)'
    BY <1>1 DEF HandleInv, LengthInv, DataInv, OwedInv
<1> QED BY <1>2, OneHandle

LEMMA HandleReturn ==
    ASSUME OneProcess, Inv, NEW h \in Handles, NEW len, Return(h, len),
           header' = "ready", len >= eof'
    PROVE  HandlesInv'
<1>1. CASE closing[h]
    BY <1>1, HandleForget DEF Return
<1>2. CASE ~closing[h]
  <2>1. pc'[h] = "idle" /\ asked'[h] = {} /\ fileLen'[h] = len
      BY <1>2 DEF Return, Inv, TypeOK
  <2>2. HandleInv(h)' /\ LengthInv(h)' /\ DataInv(h)' /\ OwedInv(h)'
      BY <2>1 DEF HandleInv, LengthInv, DataInv, OwedInv
  <2> QED BY <2>2, OneHandle
<1> QED BY <1>1, <1>2

(* Entering flush_impl, everything asked for is in the batch.              *)
LEMMA HandleBegin ==
    ASSUME OneProcess, Inv, NEW h \in Handles, pc[h] = "idle", NEW w, Begin(h, w)
    PROVE  HandlesInv'
<1>1. /\ pc'[h] = "gather" /\ batch'[h] = w /\ plan'[h] = << >> /\ done'[h] = 0
      /\ asked'[h] = {w[i] : i \in 1 .. Len(w)}
      /\ UNCHANGED <<header, eof, fileLen>>
    BY DEF Begin, Inv, TypeOK, file
<1>2. header = "ready" /\ fileLen[h] >= eof
    BY DEF Inv, HandleInv, LengthInv
<1>3. HandleInv(h)' /\ LengthInv(h)' /\ DataInv(h)'
    BY <1>1, <1>2 DEF HandleInv, LengthInv, DataInv
<1>4. OwedInv(h)'
  <2> SUFFICES ASSUME NEW o \in asked'[h]
               PROVE  \E i \in 1 .. Len(batch'[h]) : batch'[h][i] = o
      BY <1>1 DEF OwedInv
  <2> QED BY <1>1
<1> QED BY <1>3, <1>4, OneHandle

LEMMA HandlesOpenCreateCall ==
    ASSUME OneProcess, Inv, NEW h \in Handles, Open(h) \/ Create(h) \/ Call(h)
    PROVE  HandlesInv'
<1> USE DEF Inv, TypeOK
<1>1. CASE OpenExisting(h) \/ OpenMissing(h) \/ Create(h)
  <2>1. asked[h] = {}
      BY <1>1 DEF OpenExisting, OpenMissing, Create, CreateFile, WriteHeader, OwedInv
  <2>2. OwedInv(h)'
      BY <1>1, <2>1 DEF OpenExisting, OpenMissing, Create, CreateFile, WriteHeader, MapFile,
         OwedInv
  <2>3. CASE OpenExisting(h)
    <3>1. pc'[h] = "idle" /\ fileLen'[h] = eof' /\ header' = "ready" /\ eof' = eof
        BY <2>3 DEF OpenExisting, MapFile, file
    <3>2. eof' \in Nat
        BY <3>1, ConstantsOK
    <3> HIDE DEF Inv, TypeOK
    <3> QED BY <2>2, <3>1, <3>2, OneHandle DEF HandleInv, LengthInv, DataInv
  <2>4. CASE OpenMissing(h)
    <3>1. pc'[h] = "creating" /\ header' = "absent"
        BY <2>4 DEF OpenMissing, file
    <3> QED BY <2>2, <3>1, OneHandle DEF HandleInv, LengthInv, DataInv
  <2>5. CASE CreateFile(h)
    <3>1. pc'[h] = "formatting" /\ header' = "blank"
        BY <2>5 DEF CreateFile
    <3> QED BY <2>2, <3>1, OneHandle DEF HandleInv, LengthInv, DataInv
  <2>6. CASE WriteHeader(h)
    <3>1. pc'[h] = "idle" /\ header' = "ready" /\ fileLen'[h] = 0 /\ eof' = eof
        BY <2>6 DEF WriteHeader
    <3>2. eof = 0
        BY <2>6 DEF WriteHeader, HandleInv, HeaderInv
    <3> HIDE DEF Inv, TypeOK
    <3> QED BY <2>2, <3>1, <3>2, OneHandle DEF HandleInv, LengthInv, DataInv
  <2> QED BY <1>1, <2>3, <2>4, <2>5, <2>6 DEF Create
<1>2. CASE UNCHANGED <<file, pc, fileLen, batch, plan, done, asked>>
  <2>1. Stored' = Stored
      BY <1>2, StoredUnchanged
  <2> HIDE DEF TypeOK
  <2> QED BY <1>2, <2>1 DEF HandlesInv, HandleInv, LengthInv, DataInv, OwedInv, file, Base
<1>3. CASE OpenInvalid(h)
    BY <1>2, <1>3 DEF OpenInvalid, vars, local
<1>4. CASE \E o \in Objects : WriteKnown(h, o) \/ WriteQueued(h, o)
    BY <1>2, <1>4 DEF WriteKnown, WriteQueued, local
<1>5. CASE Remap(h)
    BY <1>2, <1>5 DEF Remap
<1>6. ASSUME NEW w \in Batches, WriteBatch(h, w) PROVE HandlesInv'
    BY <1>6, HandleBegin DEF WriteBatch
<1>7. ASSUME NEW dropping \in BOOLEAN, Flush(h, dropping) PROVE HandlesInv'
    BY <1>7, HandleBegin DEF Flush
<1> QED BY <1>1, <1>3, <1>4, <1>5, <1>6, <1>7 DEF Open, Call

LEMMA HandlesGather ==
    ASSUME OneProcess, Inv, NEW h \in Handles, Gather(h)
    PROVE  HandlesInv'
<1> DEFINE b == batch[h]
           p == plan[h]
<1>1. /\ b \in Seq(Objects) /\ b # << >> /\ p \in Seq(Objects)
      /\ pc[h] = "gather" /\ pc'[h] = "gather" /\ done[h] = 0 /\ done'[h] = 0
      /\ fileLen[h] >= eof /\ header = "ready"
      /\ UNCHANGED <<header, eof, fileLen, asked>>
    BY DEF Gather, file, Inv, TypeOK, LengthInv, HandleInv
<1>2. /\ batch'[h] = Tail(b)
      /\ plan'[h] = IF Exists(h, Head(b)) THEN p ELSE Append(p, Head(b))
    BY DEF Gather, Inv, TypeOK
<1>3. Stored' = Stored
    BY StoredUnchanged DEF Gather
<1>4. HandleInv(h)' /\ LengthInv(h)' /\ DataInv(h)'
    BY <1>1 DEF HandleInv, LengthInv, DataInv
<1>5. OwedInv(h)'
  <2> SUFFICES ASSUME NEW o \in asked[h]
               PROVE  \/ o \in Stored
                      \/ \E i \in 1 .. Len(batch'[h]) : batch'[h][i] = o
                      \/ \E i \in 1 .. Len(plan'[h]) : plan'[h][i] = o
      BY <1>1, <1>3 DEF OwedInv
  <2> HIDE DEF b, p
  <2>0. \/ o \in Stored
        \/ \E i \in 1 .. Len(b) : b[i] = o
        \/ \E i \in 1 .. Len(p) : p[i] = o
      BY <1>1 DEF Inv, OwedInv, b, p
  <2>1. CASE o \in Stored
      BY <2>1
  <2>2. ASSUME NEW i \in 1 .. Len(p), p[i] = o
        PROVE  \E k \in 1 .. Len(plan'[h]) : plan'[h][k] = o
      BY <1>1, <1>2, <2>2
  <2>3. ASSUME NEW i \in 1 .. Len(b), b[i] = o, i # 1
        PROVE  \E k \in 1 .. Len(batch'[h]) : batch'[h][k] = o
    <3>1. i - 1 \in 1 .. Len(Tail(b)) /\ Tail(b)[i - 1] = o
        BY <1>1, <2>3
    <3> QED BY <1>2, <3>1
  <2>4. CASE b[1] = o
    <3>1. CASE Exists(h, o)
      <4>1. o \in Objects
          BY <1>1, <2>4
      <4> QED BY <3>1, <4>1, ExistsStored
    <3>2. CASE ~Exists(h, o)
      <4>1. plan'[h] = Append(p, o) /\ o \in Objects
          BY <1>1, <1>2, <2>4, <3>2
      <4>2. Len(p) + 1 \in 1 .. Len(Append(p, o)) /\ Append(p, o)[Len(p) + 1] = o
          BY <1>1, <4>1
      <4> QED BY <4>1, <4>2
    <3> QED BY <3>1, <3>2
  <2> QED BY <2>0, <2>1, <2>2, <2>3, <2>4
<1> QED BY <1>4, <1>5, OneHandle

LEMMA HandlesExtend ==
    ASSUME OneProcess, Inv, NEW h \in Handles, Extend(h)
    PROVE  HandlesInv'
<1>1. /\ fileLen[h] \in Nat /\ Len(plan[h]) \in Nat /\ eof \in Nat
      /\ table \in [BucketIds -> Nat]
    BY ConstantsOK DEF Inv, TypeOK
<1>2. /\ pc[h] = "gather" /\ pc'[h] = "write" /\ batch[h] = << >>
      /\ fileLen'[h] = fileLen[h] + Len(plan[h]) /\ eof' = fileLen[h] + Len(plan[h])
      /\ UNCHANGED <<header, table, batch, plan, done, asked>>
    BY DEF Extend, Inv, TypeOK
<1>3. done[h] = 0 /\ fileLen[h] >= eof /\ header = "ready"
    BY <1>2 DEF Inv, LengthInv, HandleInv
<1>4. \A b \in BucketIds : table[b] <= fileLen[h]
    BY <1>1, <1>3 DEF Inv, TableSound
<1>5. Base(h)' = fileLen[h]
    BY <1>1, <1>2 DEF Base
<1>6. HandleInv(h)' /\ LengthInv(h)' /\ DataInv(h)'
    BY <1>2, <1>3, <1>4, <1>5 DEF HandleInv, LengthInv, DataInv
<1>7. Stored \subseteq Stored'
    BY StoredGrows DEF Next, FlushStep
<1>8. OwedInv(h)'
    BY <1>2, <1>7 DEF OwedInv, Inv
<1> QED BY <1>6, <1>8, OneHandle

LEMMA HandlesWriteData ==
    ASSUME OneProcess, Inv, NEW h \in Handles, WriteData(h)
    PROVE  HandlesInv'
<1>1. /\ fileLen[h] \in Nat /\ Len(plan[h]) \in Nat /\ eof \in Nat
    BY ConstantsOK DEF Inv, TypeOK
<1>2. /\ pc[h] = "write" /\ pc'[h] = "insert"
      /\ cells' = [i \in Cells |-> IF i \in Base(h) + 1 .. Base(h) + Len(plan[h])
                                   THEN plan[h][i - Base(h)] ELSE cells[i]]
      /\ eof' = IF Base(h) + Len(plan[h]) > eof THEN Base(h) + Len(plan[h]) ELSE eof
      /\ UNCHANGED <<header, fileLen, batch, plan, done, asked>>
    BY DEF WriteData, OneProcess, Inv, TypeOK
<1>3. /\ done[h] = 0 /\ fileLen[h] = eof /\ batch[h] = << >> /\ header = "ready"
      /\ Len(plan[h]) <= fileLen[h] /\ fileLen[h] <= DiskCells
    BY <1>1, <1>2, ConstantsOK DEF Inv, LengthInv, HandleInv, PlanFits
<1>4. eof' = eof
    BY <1>1, <1>2, <1>3 DEF Base
<1>5. \A i \in 1 .. Len(plan[h]) : cells'[Base(h) + i] = plan[h][i]
  <2> SUFFICES ASSUME NEW i \in 1 .. Len(plan[h])
               PROVE  cells'[Base(h) + i] = plan[h][i]
      OBVIOUS
  <2>1. /\ Base(h) + i \in Cells
        /\ Base(h) + i \in Base(h) + 1 .. Base(h) + Len(plan[h])
        /\ (Base(h) + i) - Base(h) = i
      BY <1>1, <1>3, ConstantsOK DEF Base, Cells
  <2> QED BY <1>2, <2>1
<1>6. Base(h)' = Base(h)
    BY <1>2 DEF Base
<1>7. HandleInv(h)' /\ LengthInv(h)' /\ DataInv(h)'
    BY <1>1, <1>2, <1>3, <1>4, <1>5, <1>6 DEF HandleInv, LengthInv, DataInv
<1>8. Stored \subseteq Stored'
    BY StoredGrows DEF Next, FlushStep
<1>9. OwedInv(h)'
    BY <1>2, <1>8 DEF OwedInv, Inv
<1> QED BY <1>7, <1>9, OneHandle

LEMMA HandlesInsert ==
    ASSUME OneProcess, Inv, NEW h \in Handles, Insert(h)
    PROVE  HandlesInv'
<1>1. done[h] \in Nat /\ Len(plan[h]) \in Nat
    BY DEF Inv, TypeOK
<1>2. /\ pc[h] = "insert" /\ pc'[h] = "insert" /\ done[h] < Len(plan[h])
      /\ done'[h] = done[h] + 1
      /\ UNCHANGED <<header, cells, eof, fileLen, batch, plan, asked>>
    BY DEF Insert, Inv, TypeOK
<1>3. Base(h)' = Base(h)
    BY <1>2 DEF Base
<1>4. HandleInv(h)' /\ LengthInv(h)' /\ DataInv(h)'
    BY <1>1, <1>2, <1>3 DEF HandleInv, LengthInv, DataInv, Inv
<1>5. Stored \subseteq Stored' /\ plan[h][done[h] + 1] \in Stored'
    BY StoredGrows, InsertFinds DEF Next, FlushStep
<1>6. OwedInv(h)'
  <2> SUFFICES ASSUME NEW o \in asked[h]
               PROVE  \/ o \in Stored'
                      \/ \E i \in 1 .. Len(batch[h]) : batch[h][i] = o
                      \/ \E i \in done[h] + 2 .. Len(plan[h]) : plan[h][i] = o
      BY <1>1, <1>2 DEF OwedInv
  <2>1. ASSUME NEW i \in done[h] + 1 .. Len(plan[h]), plan[h][i] = o
        PROVE  i = done[h] + 1 \/ i \in done[h] + 2 .. Len(plan[h])
      BY <1>1
  <2> QED BY <1>5, <2>1 DEF Inv, OwedInv
<1> QED BY <1>4, <1>6, OneHandle

LEMMA HandlesFlushStep ==
    ASSUME OneProcess, Inv, NEW h \in Handles, FlushStep(h)
    PROVE  HandlesInv'
<1>0. /\ fileLen[h] \in Nat /\ Len(plan[h]) \in Nat /\ eof \in Nat
    BY ConstantsOK DEF Inv, TypeOK
<1>1. CASE NothingToWrite(h)
  <2>1. Return(h, fileLen[h]) /\ header' = "ready" /\ fileLen[h] >= eof'
      BY <1>1 DEF NothingToWrite, ReturnOk, file, Inv, HandleInv, LengthInv
  <2> QED BY <2>1, HandleReturn
<1>2. CASE ExtendFails(h)
  <2>1. /\ Return(h, fileLen[h] + Len(plan[h])) /\ header' = "ready"
        /\ fileLen[h] >= eof /\ eof' = eof
      BY <1>2 DEF ExtendFails, ReturnErr, file, Inv, HandleInv, LengthInv
  <2>2. fileLen[h] + Len(plan[h]) >= eof'
      BY <1>0, <2>1
  <2> QED BY <2>1, <2>2, HandleReturn
<1>3. CASE WriteFails(h) \/ InsertFull(h) \/ Inserted(h)
  <2>1. Return(h, fileLen[h]) /\ header' = "ready" /\ fileLen[h] = eof /\ eof' = eof
      BY <1>3 DEF WriteFails, InsertFull, Inserted, ReturnErr, ReturnOk, file, Inv,
         HandleInv, LengthInv
  <2>2. fileLen[h] >= eof'
      BY <1>0, <2>1
  <2> QED BY <2>1, <2>2, HandleReturn
<1> QED BY <1>1, <1>2, <1>3, HandlesGather, HandlesExtend, HandlesWriteData, HandlesInsert
    DEF FlushStep

LEMMA HeaderStep ==
    ASSUME OneProcess, Inv, [Next]_vars
    PROVE  HeaderInv'
<1>1. CASE UNCHANGED <<header, eof, table, acked>>
    BY <1>1 DEF Inv, HeaderInv
<1>2. CASE header' = "ready"
    BY <1>2 DEF HeaderInv
<1>3. CASE UNCHANGED vars
    BY <1>1, <1>3 DEF vars, file
<1>4. ASSUME NEW h \in Handles, Open(h) \/ Crash(h) PROVE HeaderInv'
    BY <1>1, <1>4 DEF Open, OpenExisting, OpenInvalid, OpenMissing, Crash, file, vars
<1>5. ASSUME NEW h \in Handles, Create(h) PROVE HeaderInv'
  <2>1. CASE CreateFile(h)
    <3>1. header = "absent"
        BY <2>1 DEF CreateFile, Inv, HandleInv
    <3> QED BY <2>1, <3>1 DEF CreateFile, Inv, HeaderInv
  <2>2. CASE WriteHeader(h)
      BY <1>2, <2>2 DEF WriteHeader
  <2> QED BY <1>5, <2>1, <2>2 DEF Create
<1>6. ASSUME NEW h \in Handles, Call(h) \/ FlushStep(h) PROVE HeaderInv'
  <2>1. pc[h] \in {"idle", "gather", "write", "insert"}
      BY <1>6 DEF Call, WriteKnown, WriteQueued, WriteBatch, Flush, Remap, FlushStep, Gather,
         NothingToWrite, Extend, ExtendFails, WriteData, WriteFails, Insert, InsertFull, Inserted
  <2>2. header = "ready"
      BY <2>1 DEF Inv, HandleInv
  <2>3. header' = header
      BY <1>6 DEF Call, WriteKnown, WriteQueued, WriteBatch, Flush, Begin, Remap, FlushStep,
         Gather, NothingToWrite, Extend, ExtendFails, WriteData, WriteFails, Insert,
         InsertFull, Inserted, file
  <2> QED BY <1>2, <2>2, <2>3
<1> QED BY <1>3, <1>4, <1>5, <1>6 DEF Next

LEMMA InvStep == ASSUME OneProcess PROVE Inv /\ [Next]_vars => Inv'
<1> SUFFICES ASSUME Inv, [Next]_vars PROVE Inv'
    OBVIOUS
<1>1. TypeOK' /\ PlanFits'
    BY TypeStep, PlanFitsStep DEF Inv
<1>2. HeaderInv' /\ TableSound' /\ AckedStored'
    BY HeaderStep, TableSoundStep, AckedStoredStep
<1>3. HandlesInv'
  <2>1. CASE UNCHANGED vars
    <3>1. Stored' = Stored
        BY <2>1, StoredUnchanged DEF vars
    <3> QED BY <2>1, <3>1 DEF vars, file, local, HandlesInv, HandleInv, LengthInv, DataInv,
               OwedInv, Base, Inv
  <2>2. ASSUME NEW h \in Handles, Crash(h) PROVE HandlesInv'
      BY <2>2, HandleForget DEF Crash
  <2> QED BY <2>1, <2>2, HandlesOpenCreateCall, HandlesFlushStep DEF Next
<1> QED BY <1>1, <1>2, <1>3 DEF Inv, HandlesInv

LEMMA InvAlways == ASSUME OneProcess PROVE Spec => []Inv
<1>1. Inv /\ [Next]_vars => Inv'
    BY InvStep
<1> QED BY InvInit, <1>1, PTL DEF Spec

-----------------------------------------------------------------------------
(* Everything a caller was told is stored can be found by whoever opens    *)
(* the file, at every moment and after any crash.                          *)
THEOREM AcknowledgedIsStored == ASSUME OneProcess PROVE Spec => []AckedStored
<1>1. Inv => AckedStored
    BY DEF Inv
<1> QED BY InvAlways, <1>1, PTL

(* The table never names an incomplete entry, nor one the lookup misses.   *)
THEOREM TableAlwaysSound == ASSUME OneProcess PROVE Spec => []TableSound
<1>1. Inv => TableSound
    BY DEF Inv
<1> QED BY InvAlways, <1>1, PTL

(* A mapping is made of the whole file, and stays what it is.              *)
LEMMA MappingMoves ==
    ASSUME OneProcess, Inv, [Next]_vars, NEW h \in Handles
    PROVE  \/ mapLen'[h] = mapLen[h]
           \/ mapLen'[h] = eof /\ pc'[h] = "idle"
           \/ mapLen'[h] = 0 /\ pc'[h] = "closed"
<1>0. /\ mapLen \in [Handles -> 0 .. DiskCells] /\ pc \in [Handles -> PcStates]
    BY DEF Inv, TypeOK
<1>1. CASE UNCHANGED vars
    BY <1>1 DEF vars, local
<1>2. ASSUME NEW g \in Handles, Open(g) \/ Create(g)
      PROVE  mapLen'[h] = mapLen[h] \/ (mapLen'[h] = eof /\ pc'[h] = "idle")
  <2>1. g = h
      BY DEF OneProcess
  <2>2. CASE WriteHeader(h)
    <3>1. header = "blank" /\ mapLen'[h] = 0 /\ pc'[h] = "idle"
        BY <1>0, <2>2 DEF WriteHeader, Inv, HandleInv
    <3> QED BY <3>1 DEF Inv, HeaderInv
  <2>3. CASE OpenExisting(h)
      BY <1>0, <2>3 DEF OpenExisting, MapFile, file
  <2> QED BY <1>2, <2>1, <2>2, <2>3 DEF Open, OpenInvalid, OpenMissing, Create,
             CreateFile, vars, local
<1>3. ASSUME NEW g \in Handles, Call(g)
      PROVE  mapLen'[h] = mapLen[h] \/ (mapLen'[h] = eof /\ pc'[h] = "idle")
  <2>1. g = h
      BY DEF OneProcess
  <2> QED BY <1>0, <1>3, <2>1 DEF Call, WriteKnown, WriteQueued, WriteBatch, Flush, Begin, Remap, local
<1>4. ASSUME Forget(h) PROVE mapLen'[h] = 0 /\ pc'[h] = "closed"
    BY <1>0, <1>4 DEF Forget
<1>5. ASSUME NEW g \in Handles, FlushStep(g)
      PROVE  mapLen'[h] = mapLen[h] \/ (mapLen'[h] = 0 /\ pc'[h] = "closed")
  <2>1. g = h
      BY DEF OneProcess
  <2>2. ASSUME NEW len, Return(h, len)
        PROVE  mapLen'[h] = mapLen[h] \/ (mapLen'[h] = 0 /\ pc'[h] = "closed")
      BY <1>4, <2>2 DEF Return
  <2> QED BY <1>5, <2>1, <2>2 DEF FlushStep, Gather, NothingToWrite, Extend, ExtendFails,
             WriteData, WriteFails, Insert, InsertFull, Inserted, ReturnOk, ReturnErr
<1>6. ASSUME NEW g \in Handles, Crash(g) PROVE mapLen'[h] = 0 /\ pc'[h] = "closed"
    BY <1>4, <1>6 DEF Crash, OneProcess
<1> QED BY <1>1, <1>2, <1>3, <1>5, <1>6 DEF Next

(* What a handle finds through its mapping it goes on finding.             *)
LEMMA FindsStill ==
    ASSUME OneProcess, Inv, [Next]_vars, NEW h \in Handles,
           pc[h] # "closed", pc'[h] # "closed", NEW o \in Objects, Exists(h, o)
    PROVE  Exists(h, o)'
<1>1. EntriesKept
    BY EntriesKeptStep
<1>2. PICK k \in BucketIds : /\ \A j \in 0 .. k : table[Slot(o, j)] \in Mapped(h)
                            /\ cells[table[Slot(o, k)]] = o
    BY DEF Exists, Found
<1>3. k \in 0 .. k /\ \A j \in 0 .. k : Slot(o, j) \in BucketIds
    BY SlotType, ConstantsOK DEF BucketIds
<1>4. \A i \in Mapped(h) : i \in 1 .. eof' => i <= mapLen'[h]
    BY MappingMoves DEF Mapped
<1>5. \A j \in 0 .. k : /\ table'[Slot(o, j)] = table[Slot(o, j)]
                       /\ table[Slot(o, j)] \in Mapped(h)'
    BY <1>1, <1>2, <1>3, <1>4 DEF EntriesKept, Mapped
<1>6. cells'[table'[Slot(o, k)]] = o
    BY <1>1, <1>2, <1>3, <1>5 DEF EntriesKept, Mapped
<1> QED BY <1>3, <1>5, <1>6 DEF Exists, Found, Slot

(* No step takes an object from what a handle sees.                        *)
THEOREM MappingsStayStable == ASSUME OneProcess PROVE Spec => MappingStable
<1> DEFINE Stable == \A h \in Handles : (pc[h] # "closed" /\ pc'[h] # "closed")
                                          => Seen(h) \subseteq Seen(h)'
<1>1. Inv /\ [Next]_vars => [Stable]_vars
    BY FindsStill DEF Seen
<1> QED BY InvAlways, <1>1, PTL DEF Spec, MappingStable

(* The file does not shrink, a flush appends behind it, and only Insert    *)
(* takes a bucket.                                                         *)
LEMMA FileGrows ==
    ASSUME OneProcess, Inv, [Next]_vars, NEW h \in Handles
    PROVE  /\ eof <= eof'
           /\ pc'[h] \in {"write", "insert"} =>
                \/ pc[h] \in {"write", "insert"} /\ Base(h)' = Base(h)
                \/ Base(h)' >= eof
           /\ Insert(h) \/ \A b \in BucketIds : table[b] = 0 => table'[b] = 0
<1>0. /\ eof \in Nat /\ fileLen[h] \in Nat /\ Len(plan[h]) \in Nat
      /\ pc \in [Handles -> PcStates] /\ fileLen \in [Handles -> Nat]
    BY ConstantsOK DEF Inv, TypeOK
<1> DEFINE Goal == /\ eof <= eof'
                   /\ pc'[h] \in {"write", "insert"} =>
                        \/ pc[h] \in {"write", "insert"} /\ Base(h)' = Base(h)
                        \/ Base(h)' >= eof
                   /\ Insert(h) \/ \A b \in BucketIds : table[b] = 0 => table'[b] = 0
<1>1. CASE UNCHANGED vars
    BY <1>0, <1>1 DEF vars, file, local, Base
<1>2. ASSUME Forget(h) PROVE pc'[h] = "closed"
    BY <1>0, <1>2 DEF Forget
<1>3. ASSUME UNCHANGED <<eof, table>>, pc'[h] \notin {"write", "insert"} PROVE Goal
    BY <1>0, <1>3
<1>4. ASSUME NEW g \in Handles, Open(g) \/ Create(g) \/ Call(g) \/ Crash(g) PROVE Goal
  <2>1. g = h
      BY DEF OneProcess
  <2>2. CASE CreateFile(h)
    <3>1. /\ pc'[h] = "formatting" /\ eof' = 0 /\ \A b \in BucketIds : table'[b] = 0
          /\ header = "absent"
        BY <1>0, <2>2 DEF CreateFile, Inv, HandleInv
    <3> QED BY <3>1 DEF Inv, HeaderInv
  <2>3. CASE WriteHeader(h)
      BY <1>0, <1>3, <2>3 DEF WriteHeader
  <2>4. CASE Open(h)
    <3>1. UNCHANGED <<eof, table>> /\ pc[h] = "closed"
        BY <2>4 DEF Open, OpenExisting, OpenInvalid, OpenMissing, vars, file
    <3>2. pc'[h] \notin {"write", "insert"}
        BY <1>0, <2>4, <3>1 DEF Open, OpenExisting, OpenInvalid, OpenMissing, MapFile, vars, local
    <3> QED BY <1>3, <3>1, <3>2
  <2>5. CASE Call(h)
    <3>1. UNCHANGED <<eof, table>> /\ pc[h] = "idle"
        BY <2>5 DEF Call, WriteKnown, WriteQueued, WriteBatch, Flush, Begin, Remap, file
    <3>2. pc'[h] \notin {"write", "insert"}
        BY <1>0, <2>5, <3>1 DEF Call, WriteKnown, WriteQueued, WriteBatch, Flush, Begin, Remap, local
    <3> QED BY <1>3, <3>1, <3>2
  <2>6. CASE Crash(h)
      BY <1>2, <1>3, <2>6 DEF Crash, file
  <2> QED BY <1>4, <2>1, <2>2, <2>3, <2>4, <2>5, <2>6 DEF Create
<1>5. ASSUME NEW g \in Handles, FlushStep(g) PROVE Goal
  <2>1. g = h
      BY DEF OneProcess
  <2>2. CASE Gather(h)
      BY <1>0, <1>3, <2>2 DEF Gather, file
  <2>3. ASSUME NEW len, Return(h, len) PROVE pc'[h] \notin {"write", "insert"}
      BY <1>0, <1>2, <2>3 DEF Return
  <2>4. CASE NothingToWrite(h) \/ ExtendFails(h) \/ WriteFails(h) \/ InsertFull(h) \/ Inserted(h)
    <3>1. UNCHANGED <<eof, table>>
        BY <2>4 DEF NothingToWrite, ExtendFails, WriteFails, InsertFull, Inserted, file
    <3>2. pc'[h] \notin {"write", "insert"}
        BY <2>3, <2>4 DEF NothingToWrite, ExtendFails, WriteFails, InsertFull, Inserted, ReturnOk,
           ReturnErr
    <3> QED BY <1>3, <3>1, <3>2
  <2>5. CASE Extend(h)
    <3>1. /\ fileLen[h] >= eof /\ fileLen'[h] = fileLen[h] + Len(plan[h]) /\ table' = table
          /\ eof' = fileLen[h] + Len(plan[h]) /\ plan' = plan
        BY <1>0, <2>5 DEF Extend, Inv, LengthInv
    <3> QED BY <1>0, <3>1 DEF Base
  <2>6. CASE WriteData(h)
    <3>1. /\ pc[h] = "write" /\ UNCHANGED <<fileLen, plan, table>>
          /\ eof' = IF Base(h) + Len(plan[h]) > eof THEN Base(h) + Len(plan[h]) ELSE eof
        BY <2>6 DEF WriteData, OneProcess
    <3>2. Base(h) \in Int /\ Base(h)' = Base(h)
        BY <1>0, <3>1 DEF Base
    <3>3. eof <= eof'
        BY <1>0, <3>1, <3>2
    <3>4. \A b \in BucketIds : table[b] = 0 => table'[b] = 0
        BY <3>1
    <3> QED BY <3>1, <3>2, <3>3, <3>4
  <2>7. CASE Insert(h)
    <3>1. pc[h] = "insert" /\ UNCHANGED <<eof, fileLen, plan>>
        BY <2>7 DEF Insert
    <3>2. eof <= eof' /\ Base(h)' = Base(h)
        BY <1>0, <3>1 DEF Base
    <3> QED BY <2>7, <3>1, <3>2
  <2> QED BY <1>5, <2>1, <2>2, <2>4, <2>5, <2>6, <2>7 DEF FlushStep
<1> QED BY <1>1, <1>4, <1>5 DEF Next

(* The mapping ends before the entries the flush is about to link, and an  *)
(* entry it covers is found in it.                                         *)
MappedInv(h) ==
    /\ mapLen[h] <= eof
    /\ pc[h] \in {"write", "insert"} => mapLen[h] <= Base(h)
    /\ \A b \in BucketIds : table[b] \in Mapped(h) => Exists(h, cells[table[b]])

LEMMA MappedStep ==
    ASSUME OneProcess, Inv, [Next]_vars, NEW h \in Handles, MappedInv(h)
    PROVE  MappedInv(h)'
<1>a. TypeOK /\ TypeOK'
    BY TypeStep DEF Inv
<1>b. /\ eof \in Nat /\ mapLen[h] \in Nat /\ fileLen[h] \in Nat /\ Len(plan[h]) \in Nat
      /\ done[h] \in Nat /\ table \in [BucketIds -> Nat]
    BY <1>a, ConstantsOK DEF TypeOK
<1>c. eof' \in Nat /\ mapLen'[h] \in Nat /\ fileLen'[h] \in Nat /\ Len(plan'[h]) \in Nat
    BY <1>a, ConstantsOK DEF TypeOK
<1>0. /\ eof \in Nat /\ mapLen[h] \in Nat /\ done[h] \in Nat /\ table \in [BucketIds -> Nat]
      /\ eof' \in Nat /\ mapLen'[h] \in Nat /\ Base(h) \in Int /\ Base(h)' \in Int
    BY <1>b, <1>c DEF Base
<1>1. EntriesKept
    BY EntriesKeptStep
<1>2. \/ mapLen'[h] = mapLen[h]
      \/ mapLen'[h] = eof /\ pc'[h] = "idle"
      \/ mapLen'[h] = 0 /\ pc'[h] = "closed"
    BY MappingMoves
<1>3. mapLen'[h] <= eof'
    BY <1>0, <1>2, FileGrows DEF MappedInv
<1>4. ASSUME pc'[h] \in {"write", "insert"} PROVE mapLen'[h] <= Base(h)'
  <2>1. mapLen'[h] = mapLen[h]
      BY <1>2, <1>4
  <2>2. CASE pc[h] \in {"write", "insert"} /\ Base(h)' = Base(h)
      BY <2>1, <2>2 DEF MappedInv
  <2>3. CASE Base(h)' >= eof
      BY <1>0, <2>1, <2>3 DEF MappedInv
  <2> QED BY <1>4, <2>2, <2>3, FileGrows
<1>5. ASSUME NEW b \in BucketIds, table'[b] \in Mapped(h)', table[b] = 0 PROVE FALSE
  <2>1. table'[b] # 0 /\ table'[b] <= mapLen'[h]
      BY <1>5 DEF Mapped
  <2>2. Insert(h)
      BY <1>5, <2>1, FileGrows
  <2>3. PICK c \in BucketIds : table' = [table EXCEPT ![c] = Base(h) + done[h] + 1]
      BY <2>2, InsertFinds
  <2>4. c = b /\ table'[b] = Base(h) + done[h] + 1
      BY <1>0, <1>5, <2>1, <2>3
  <2>5. pc[h] = "insert" /\ mapLen' = mapLen
      BY <2>2 DEF Insert
  <2> QED BY <1>0, <2>1, <2>4, <2>5 DEF MappedInv
<1>6. ASSUME NEW b \in BucketIds, table'[b] \in Mapped(h)'
      PROVE  Exists(h, cells[table[b]])'
  <2> DEFINE o == cells[table[b]]
  <2>1. table[b] \in 1 .. eof /\ o \in Stored
      BY <1>0, <1>5, <1>6 DEF Inv, TableSound
  <2>2. /\ table'[b] = table[b] /\ cells'[table'[b]] = o
        /\ table[b] <= mapLen'[h] /\ 0 < mapLen'[h]
      BY <1>0, <1>1, <1>6, <2>1 DEF EntriesKept, Mapped
  <2>3. o \in Objects
      BY <2>1 DEF Stored
  <2> HIDE DEF o
  <2>4. PICK k \in BucketIds :
           /\ \A j \in 0 .. k : table[Slot(o, j)] \in 1 .. eof /\ table[Slot(o, j)] <= mapLen'[h]
           /\ cells[table[Slot(o, k)]] = o
    <3>1. CASE mapLen'[h] = mapLen[h]
      <4>1. Exists(h, o)
          BY <2>1, <2>2, <3>1 DEF MappedInv, Mapped, o
      <4> QED BY <3>1, <4>1 DEF Exists, Found, Mapped
    <3>2. CASE mapLen'[h] = eof
        BY <2>1, <3>2 DEF Stored, Found
    <3> QED BY <1>0, <1>2, <2>2, <3>1, <3>2
  <2>5. k \in 0 .. k /\ \A j \in 0 .. k : Slot(o, j) \in BucketIds
      BY <2>3, SlotType, ConstantsOK DEF BucketIds
  <2>6. \A j \in 0 .. k : /\ table'[Slot(o, j)] = table[Slot(o, j)]
                         /\ table[Slot(o, j)] \in Mapped(h)'
      BY <1>1, <2>4, <2>5 DEF EntriesKept, Mapped
  <2>7. cells'[table'[Slot(o, k)]] = o
      BY <1>1, <2>4, <2>5, <2>6 DEF EntriesKept
  <2>8. \E i \in BucketIds : /\ \A j \in 0 .. i : table'[Slot(o, j)] \in Mapped(h)'
                             /\ cells'[table'[Slot(o, i)]] = o
      BY <2>5, <2>6, <2>7
  <2> QED BY <2>2, <2>8 DEF Exists, Found, Slot
<1> QED BY <1>3, <1>4, <1>6 DEF MappedInv

(* What the mapping covers is read, however stale the mapping is: a probe  *)
(* for it meets its entry before any that the mapping does not cover.      *)
THEOREM MappedIsRead == ASSUME OneProcess PROVE Spec => []MappedReadsSafe
<1> DEFINE AllMapped == \A h \in Handles : MappedInv(h)
<1>1. Init => AllMapped
    BY ConstantsOK DEF Init, MappedInv, Mapped
<1>2. Inv /\ AllMapped /\ [Next]_vars => AllMapped'
    BY MappedStep
<1>3. Inv /\ AllMapped => MappedReadsSafe
  <2> SUFFICES ASSUME Inv, AllMapped, NEW h \in Handles, NEW b \in BucketIds,
                      table[b] \in Mapped(h), ReadPanics(h, cells[table[b]])
               PROVE  FALSE
      BY DEF MappedReadsSafe
  <2> DEFINE o == cells[table[b]]
  <2>1. Exists(h, o)
      BY DEF MappedInv
  <2> HIDE DEF o
  <2>2. PICK k \in BucketIds : /\ \A j \in 0 .. k : table[Slot(o, j)] \in Mapped(h)
                              /\ cells[table[Slot(o, k)]] = o
      BY <2>1 DEF Exists, Found
  <2>3. ReadPanics(h, o)
      BY DEF o
  <2>4. PICK i \in BucketIds :
           /\ \A j \in 0 .. i : j < i => /\ table[Slot(o, j)] \in Mapped(h)
                                         /\ cells[table[Slot(o, j)]] # o
           /\ table[Slot(o, i)] \notin Mapped(h)
      BY <2>3 DEF ReadPanics
  <2>5. k \in Nat /\ i \in Nat
      BY ConstantsOK DEF BucketIds
  <2>6. CASE i <= k
      BY <2>2, <2>4, <2>5, <2>6
  <2>7. CASE k < i
      BY <2>2, <2>4, <2>5, <2>7
  <2> QED BY <2>5, <2>6, <2>7
<1> QED BY InvAlways, <1>1, <1>2, <1>3, PTL DEF Spec

-----------------------------------------------------------------------------
(***************************************************************************)
(* The file format implements ObjectStore.                                 *)
(***************************************************************************)

(* Steps that link no entry make no object appear.                         *)
LEMMA StoredSame ==
    ASSUME OneProcess, Inv, [Next]_vars, table' = table
    PROVE  Stored' = Stored
<1>1. Stored \subseteq Stored' /\ EntriesKept
    BY StoredGrows, EntriesKeptStep
<1>2. ASSUME NEW o \in Stored' PROVE o \in Stored
  <2>1. PICK k \in BucketIds : /\ \A j \in 0 .. k : table'[Slot(o, j)] \in 1 .. eof'
                              /\ cells'[table'[Slot(o, k)]] = o
      BY <1>2 DEF Stored, Found, Slot
  <2>2. o \in Objects /\ k \in 0 .. k
      BY <1>2, ConstantsOK DEF Stored, BucketIds
  <2>3. Slot(o, k) \in BucketIds /\ table[Slot(o, k)] # 0
      BY <2>1, <2>2, SlotType
  <2> QED BY <1>1, <2>1, <2>3 DEF EntriesKept, Inv, TableSound
<1> QED BY <1>1, <1>2

(* Linking an entry makes its object appear, and no other.                 *)
LEMMA InsertIsPut ==
    ASSUME OneProcess, Inv, NEW h \in Handles, Insert(h)
    PROVE  \E o \in Objects : Store!Put(o)
<1>1. PICK b \in BucketIds :
        /\ table' = [table EXCEPT ![b] = Base(h) + done[h] + 1]
        /\ Base(h) + done[h] + 1 \in 1 .. eof
        /\ cells[Base(h) + done[h] + 1] = plan[h][done[h] + 1]
    BY InsertFinds
<1>2. PICK new : new \in Stored' /\ new = plan[h][done[h] + 1]
    BY InsertFinds
<1>3. Stored \subseteq Stored'
    BY StoredGrows DEF Next, FlushStep
<1>4. UNCHANGED <<cells, eof, acked>> /\ table \in [BucketIds -> Nat]
    BY DEF Insert, Inv, TypeOK
<1>5. ASSUME NEW o \in Stored' PROVE o \in Stored \union {new}
  <2>1. PICK k \in BucketIds : /\ \A j \in 0 .. k : table'[Slot(o, j)] \in 1 .. eof'
                              /\ cells'[table'[Slot(o, k)]] = o
      BY <1>5 DEF Stored, Found, Slot
  <2>2. o \in Objects /\ k \in 0 .. k
      BY <1>5, ConstantsOK DEF Stored, BucketIds
  <2>3. Slot(o, k) \in BucketIds /\ table'[Slot(o, k)] # 0
      BY <2>1, <2>2, SlotType
  <2>4. CASE Slot(o, k) = b
      BY <1>1, <1>2, <1>4, <2>1, <2>3, <2>4
  <2>5. CASE Slot(o, k) # b
    <3>1. table'[Slot(o, k)] = table[Slot(o, k)]
        BY <1>1, <1>4, <2>3, <2>5
    <3> QED BY <1>4, <2>1, <2>3, <3>1 DEF Inv, TableSound
  <2> QED BY <2>4, <2>5
<1>6. Stored' = Stored \union {new} /\ new \in Objects
    BY <1>2, <1>3, <1>5 DEF Stored
<1> QED BY <1>4, <1>6 DEF Store!Put

(* Every behaviour of the database is one of the abstract store.           *)
THEOREM StorageImplementsStore == ASSUME OneProcess PROVE Spec => StoreSpec
<1>1. Init => Store!Init
  <2> SUFFICES ASSUME Init PROVE Stored = {} /\ acked = {} BY DEF Store!Init
  <2>1. ASSUME NEW o \in Objects, NEW k \in BucketIds PROVE table[Slot(o, k)] \notin 1 .. eof
    <3>1. Slot(o, k) \in BucketIds BY SlotType
    <3>2. table[Slot(o, k)] = 0 BY <3>1 DEF Init
    <3> QED BY <3>2
  <2>2. \A k \in BucketIds : k \in 0 .. k BY ConstantsOK DEF BucketIds
  <2>3. \A o \in Objects : ~Found(o, 1 .. eof) BY <2>1, <2>2 DEF Found
  <2> QED BY <2>3 DEF Init, Stored
<1>2. Inv /\ [Next]_vars => [Store!Next]_(Store!vars)
  <2> SUFFICES ASSUME Inv, [Next]_vars PROVE Store!Next \/ UNCHANGED Store!vars
      BY DEF Store!vars
  <2>1. CASE UNCHANGED <<table, acked>>
    <3>1. Stored' = Stored
        BY <2>1, StoredSame
    <3> QED BY <2>1, <3>1 DEF Store!vars
  <2>2. ASSUME NEW h \in Handles, Insert(h) PROVE Store!Next
      BY <2>2, InsertIsPut DEF Store!Next
  <2>3. ASSUME NEW S \in SUBSET Objects, S \subseteq Stored', acked' = acked \union S,
               table' = table
        PROVE  Store!Next
    <3>1. Stored' = Stored
        BY <2>3, StoredSame
    <3> QED BY <2>3, <3>1 DEF Store!Next, Store!Report
  <2>4. AckedStored'
      BY AckedStoredStep
  <2>5. ASSUME NEW h \in Handles, NothingToWrite(h) \/ Inserted(h) PROVE Store!Next
    <3>1. acked' = acked \union asked[h] /\ table' = table /\ asked[h] \in SUBSET Objects
        BY <2>5 DEF NothingToWrite, Inserted, ReturnOk, file, Inv, TypeOK
    <3> QED BY <2>3, <2>4, <3>1 DEF AckedStored
  <2>6. ASSUME NEW h \in Handles, NEW o \in Objects, WriteKnown(h, o) PROVE Store!Next
    <3>1. acked' = acked \union {o} /\ table' = table
        BY <2>6 DEF WriteKnown, file
    <3> QED BY <2>3, <2>4, <3>1 DEF AckedStored
  <2>7. CASE UNCHANGED vars
      BY <2>1, <2>7 DEF vars, file
  <2>8. ASSUME NEW h \in Handles, CreateFile(h) PROVE UNCHANGED <<table, acked>>
    <3>1. header = "absent"
        BY <2>8 DEF CreateFile, Inv, HandleInv
    <3>2. table' = table
        BY <2>8, <3>1 DEF CreateFile, Inv, HeaderInv, TypeOK
    <3> QED BY <2>8, <3>2 DEF CreateFile
  <2>9. ASSUME NEW h \in Handles, Open(h) \/ WriteHeader(h) \/ Crash(h)
        PROVE  UNCHANGED <<table, acked>>
      BY <2>9 DEF Open, OpenExisting, OpenInvalid, OpenMissing, WriteHeader, Crash, file, vars
  <2>10. ASSUME NEW h \in Handles, Call(h) PROVE Store!Next \/ UNCHANGED <<table, acked>>
      BY <2>6, <2>10 DEF Call, WriteQueued, WriteBatch, Flush, Begin, Remap, file
  <2>11. ASSUME NEW h \in Handles, FlushStep(h) PROVE Store!Next \/ UNCHANGED <<table, acked>>
      BY <2>2, <2>5, <2>11 DEF FlushStep, Gather, Extend, ExtendFails, WriteData, WriteFails,
         InsertFull, ReturnErr, file
  <2> QED BY <2>1, <2>7, <2>8, <2>9, <2>10, <2>11 DEF Next, Create
<1> QED BY InvAlways, <1>1, <1>2, PTL DEF Spec, StoreSpec, Store!Spec
=============================================================================
