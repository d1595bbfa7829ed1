------------------------------ MODULE Storage ------------------------------
(***************************************************************************)
(* The on-disk object database of storage.rs: the file .mog/objects.bin    *)
(* holds a header (magic, entry count), an open-addressing hash table with *)
(* linear probing, and a data area to which entries are appended.          *)
(*                                                                         *)
(* A handle is one process that has called Storage::new.  Every handle     *)
(* maps the file once, when it opens it (and again only in `remap`), and   *)
(* caches the length of the file.  The table is written through the shared *)
(* mapping, so all processes see it at once; the data area is written with *)
(* write_at, so a handle sees of it only what its mapping covers.          *)
(*                                                                         *)
(* An entry (hash, size, bytes) is one cell, and offsets count cells from  *)
(* 1, so that 0 keeps its meaning of an empty bucket.  A process may be    *)
(* killed between any two steps; what it wrote to the page cache survives. *)
(***************************************************************************)
EXTENDS Integers, Sequences, FiniteSets

CONSTANTS
    Objects,      \* encoded objects; an object stands for its own hash
    Hole,         \* content of a cell that set_len created and nobody wrote
    Buckets,      \* HASH_TABLE_BUCKETS
    Home,         \* hash_to_bucket: the bucket where probing starts
    Handles,      \* processes that may have the database open
    Created,      \* whether `mog init` has run before the behaviour starts
    Batches,      \* the batches of objects that write_batch is called with
    ShortWrites,  \* whether write_at may write less than it was given
    DiskCells,    \* cells the disk has room for: set_len fails beyond, and
                  \* (a bound) nothing more is written once file_len is
    MaxPending    \* bound on the length of pending_writes

ASSUME ConstantsOK ==
    /\ Hole \notin Objects
    /\ Buckets \in Nat \ {0}
    /\ Home \in [Objects -> 0 .. Buckets - 1]
    /\ Batches \subseteq Seq(Objects)
    /\ Created \in BOOLEAN
    /\ ShortWrites \in BOOLEAN
    /\ DiskCells \in Nat
    /\ MaxPending \in Nat

VARIABLES
    (* the file *)
    header,       \* "absent", "blank" (created, magic not yet written), "ready"
    cells, eof,   \* the data area and its length
    table,        \* bucket -> offset of an entry, 0 when empty
    count,        \* the header's entry count
    (* one Storage value per handle *)
    pc,           \* where the handle is in the operation it executes
    mapLen,       \* cells covered by the mapping `mmap`
    fileLen,      \* the cached `file_len`
    pending,      \* `pending_writes`
    batch,        \* the writes flush_impl has not looked at yet
    plan,         \* `to_insert`: entry i goes to offset Base(h) + i
    done,         \* how many entries of plan are in the table
    closing,      \* the flush was called by Drop
    (* history *)
    asked,        \* what the running flush or write_batch was asked to store
    acked         \* objects some caller was told are stored

file  == <<header, cells, eof, table, count>>
local == <<pc, mapLen, fileLen, pending, batch, plan, done, closing, asked>>
vars  == <<file, local, acked>>

BucketIds == 0 .. Buckets - 1
Cells     == 1 .. DiskCells

(***************************************************************************)
(* Probing.                                                                *)
(***************************************************************************)
Slot(o, k) == (Home[o] + k) % Buckets

(* `exists` with the cells in `readable` covered by the mapping: probing   *)
(* stops at an empty bucket and at an offset outside the mapping.          *)
Found(o, readable) ==
    \E k \in BucketIds :
        /\ \A j \in 0 .. k : table[Slot(o, j)] \in readable
        /\ cells[table[Slot(o, k)]] = o

Mapped(h) == {i \in 1 .. eof : i <= mapLen[h]}
(* Mutant: the hash is not compared, a used home bucket is taken for a hit. *)
ExistsUncompared(h, o) == table[Slot(o, 0)] \in Mapped(h)
Exists(h, o) == Found(o, Mapped(h))

(* The objects a process that opens the file now would find.               *)
Stored == {o \in Objects : Found(o, 1 .. eof)}
(* The objects the handle finds with the mapping it has.                   *)
Seen(h) == {o \in Objects : Exists(h, o)}

(* `read` has no check of the offset: it indexes the mapping with it, and  *)
(* the process panics when the entry lies outside.                         *)
ReadPanics(h, o) ==
    \E k \in BucketIds :
        /\ \A j \in 0 .. k : table[Slot(o, j)] # 0
        /\ \A j \in 0 .. k : j < k => /\ table[Slot(o, j)] \in Mapped(h)
                                      /\ cells[table[Slot(o, j)]] # o
        /\ table[Slot(o, k)] \notin Mapped(h)

-----------------------------------------------------------------------------
Init ==
    /\ header = IF Created THEN "ready" ELSE "absent"
    /\ cells = [i \in Cells |-> Hole]
    /\ eof = 0
    /\ table = [b \in BucketIds |-> 0]
    /\ count = 0
    /\ pc = [h \in Handles |-> "closed"]
    /\ mapLen  = [h \in Handles |-> 0]
    /\ fileLen = [h \in Handles |-> 0]
    /\ pending = [h \in Handles |-> << >>]
    /\ batch   = [h \in Handles |-> << >>]
    /\ plan    = [h \in Handles |-> << >>]
    /\ done    = [h \in Handles |-> 0]
    /\ closing = [h \in Handles |-> FALSE]
    /\ asked   = [h \in Handles |-> {}]
    /\ acked   = {}

(* What is left of a Storage value when its process is gone.               *)
Forget(h) ==
    /\ pc'      = [pc      EXCEPT ![h] = "closed"]
    /\ mapLen'  = [mapLen  EXCEPT ![h] = 0]
    /\ fileLen' = [fileLen EXCEPT ![h] = 0]
    /\ pending' = [pending EXCEPT ![h] = << >>]
    /\ batch'   = [batch   EXCEPT ![h] = << >>]
    /\ plan'    = [plan    EXCEPT ![h] = << >>]
    /\ done'    = [done    EXCEPT ![h] = 0]
    /\ closing' = [closing EXCEPT ![h] = FALSE]
    /\ asked'   = [asked   EXCEPT ![h] = {}]

(***************************************************************************)
(* Storage::new: open_existing when the path exists, create_new otherwise. *)
(* create_new truncates the file, so the test and the creation are steps   *)
(* of their own, and so is writing the header.                             *)
(***************************************************************************)
MapFile(h) ==
    /\ pc'      = [pc      EXCEPT ![h] = "idle"]
    /\ mapLen'  = [mapLen  EXCEPT ![h] = eof']
    /\ fileLen' = [fileLen EXCEPT ![h] = eof']
    /\ UNCHANGED <<pending, batch, plan, done, closing, asked>>

OpenExisting(h) ==
    /\ pc[h] = "closed" /\ header = "ready"
    /\ UNCHANGED <<file, acked>>
    /\ MapFile(h)

(* "invalid object database magic" *)
OpenInvalid(h) == pc[h] = "closed" /\ header = "blank" /\ UNCHANGED vars

OpenMissing(h) ==
    /\ pc[h] = "closed" /\ header = "absent"
    /\ pc' = [pc EXCEPT ![h] = "creating"]
    /\ UNCHANGED <<file, acked, mapLen, fileLen, pending, batch, plan, done, closing, asked>>

CreateFile(h) ==
    /\ pc[h] = "creating"
    /\ header' = "blank"
    /\ cells' = [i \in Cells |-> Hole]
    /\ eof' = 0
    /\ table' = [b \in BucketIds |-> 0]
    /\ count' = 0
    /\ pc' = [pc EXCEPT ![h] = "formatting"]
    /\ UNCHANGED <<acked, mapLen, fileLen, pending, batch, plan, done, closing, asked>>

(* The mapping of a new file was made when only header and table existed.  *)
WriteHeader(h) ==
    /\ pc[h] = "formatting"
    /\ header' = "ready" /\ count' = 0
    /\ pc'      = [pc      EXCEPT ![h] = "idle"]
    /\ mapLen'  = [mapLen  EXCEPT ![h] = 0]
    /\ fileLen' = [fileLen EXCEPT ![h] = 0]
    /\ UNCHANGED <<cells, eof, table, acked, pending, batch, plan, done, closing, asked>>

-----------------------------------------------------------------------------
(* `write` of an object the handle finds returns at once: to the caller    *)
(* the object is stored.                                                   *)
WriteKnown(h, o) ==
    /\ pc[h] = "idle" /\ Exists(h, o)
    /\ acked' = acked \union {o}
    /\ UNCHANGED <<file, local>>

(* Otherwise it is queued, without a look at what is queued already.       *)
WriteQueued(h, o) ==
    /\ pc[h] = "idle" /\ ~Exists(h, o)
    /\ Len(pending[h]) < MaxPending /\ fileLen[h] <= DiskCells
    /\ pending' = [pending EXCEPT ![h] = Append(@, o)]
    /\ UNCHANGED <<file, acked, pc, mapLen, fileLen, batch, plan, done, closing, asked>>

(* Entering flush_impl with the writes w.                                  *)
Begin(h, w) ==
    /\ pc'    = [pc    EXCEPT ![h] = "gather"]
    /\ batch' = [batch EXCEPT ![h] = w]
    /\ plan'  = [plan  EXCEPT ![h] = << >>]
    /\ done'  = [done  EXCEPT ![h] = 0]
    /\ asked' = [asked EXCEPT ![h] = {w[i] : i \in 1 .. Len(w)}]
    /\ UNCHANGED <<file, acked, mapLen, fileLen>>

WriteBatch(h, w) ==
    /\ pc[h] = "idle" /\ fileLen[h] <= DiskCells
    /\ Begin(h, w)
    /\ UNCHANGED <<pending, closing>>

(* `flush`, called by a command or by Drop; it takes the queue first.      *)
Flush(h, dropping) ==
    /\ pc[h] = "idle"
    /\ pending' = [pending EXCEPT ![h] = << >>]
    /\ closing' = [closing EXCEPT ![h] = dropping]
    /\ Begin(h, pending[h])

(* Mutant: the mapping is one cell longer than the file.                   *)
RemapPastEnd(h) ==
    /\ pc[h] = "idle"
    /\ mapLen' = [mapLen EXCEPT ![h] = eof + 1]
    /\ UNCHANGED <<file, acked, pc, fileLen, pending, batch, plan, done, closing, asked>>

Remap(h) ==
    /\ pc[h] = "idle"
    /\ mapLen' = [mapLen EXCEPT ![h] = eof]
    /\ UNCHANGED <<file, acked, pc, fileLen, pending, batch, plan, done, closing, asked>>

(***************************************************************************)
(* flush_impl.                                                             *)
(***************************************************************************)
Base(h) == fileLen[h] - Len(plan[h])

(* Back to the caller, with file_len = len; after Drop there is no caller  *)
(* and no handle, whatever the result.                                     *)
Return(h, len) ==
    IF closing[h]
    THEN Forget(h)
    ELSE /\ pc'      = [pc      EXCEPT ![h] = "idle"]
         /\ fileLen' = [fileLen EXCEPT ![h] = len]
         /\ plan'    = [plan    EXCEPT ![h] = << >>]
         /\ done'    = [done    EXCEPT ![h] = 0]
         /\ asked'   = [asked   EXCEPT ![h] = {}]
         /\ UNCHANGED <<mapLen, pending, batch, closing>>

ReturnOk(h)       == Return(h, fileLen[h]) /\ acked' = acked \union asked[h]
ReturnErr(h, len) == Return(h, len) /\ UNCHANGED acked

(* The next write of the batch: skipped when the object is found.          *)
Gather(h) ==
    /\ pc[h] = "gather" /\ batch[h] # << >>
    /\ batch' = [batch EXCEPT ![h] = Tail(@)]
    /\ plan'  = [plan  EXCEPT ![h] = IF Exists(h, Head(batch[h])) THEN @
                                     ELSE Append(@, Head(batch[h]))]
    /\ UNCHANGED <<file, acked, pc, mapLen, fileLen, pending, done, closing, asked>>

NothingToWrite(h) ==
    /\ pc[h] = "gather" /\ batch[h] = << >> /\ plan[h] = << >>
    /\ UNCHANGED file
    /\ ReturnOk(h)

(* file_len advances first; then set_len, which cuts the file when another *)
(* process has made it longer.                                             *)
Extend(h) ==
    LET len == fileLen[h] + Len(plan[h]) IN
    /\ pc[h] = "gather" /\ batch[h] = << >> /\ plan[h] # << >>
    /\ len <= DiskCells
    /\ fileLen' = [fileLen EXCEPT ![h] = len]
    /\ eof' = len
    /\ cells' = [i \in Cells |-> IF i <= len THEN cells[i] ELSE Hole]
    /\ pc' = [pc EXCEPT ![h] = "write"]
    /\ UNCHANGED <<header, table, count, acked, mapLen, pending, batch, plan, done, closing, asked>>

ExtendFails(h) ==
    /\ pc[h] = "gather" /\ batch[h] = << >> /\ plan[h] # << >>
    /\ UNCHANGED file
    /\ ReturnErr(h, fileLen[h] + Len(plan[h]))

(* Mutant: the table is filled before the data is written.                 *)
WriteDataSkipped(h) ==
    /\ pc[h] = "write"
    /\ pc' = [pc EXCEPT ![h] = "insert"]
    /\ UNCHANGED <<file, acked, mapLen, fileLen, pending, batch, plan, done, closing, asked>>

(* One write_at for all entries.  write_at may write a prefix only, and    *)
(* say so in the number it returns; flush_impl does not look at it.        *)
WriteData(h) ==
    \E n \in (IF ShortWrites THEN 0 .. Len(plan[h]) ELSE {Len(plan[h])}) :
        /\ pc[h] = "write"
        /\ cells' = [i \in Cells |-> IF i \in Base(h) + 1 .. Base(h) + n
                                     THEN plan[h][i - Base(h)] ELSE cells[i]]
        /\ eof' = IF Base(h) + n > eof THEN Base(h) + n ELSE eof
        /\ pc' = [pc EXCEPT ![h] = "insert"]
        /\ UNCHANGED <<header, table, count, acked, mapLen, fileLen, pending,
                       batch, plan, done, closing, asked>>

WriteFails(h) ==
    /\ pc[h] = "write"
    /\ UNCHANGED file
    /\ ReturnErr(h, fileLen[h])

(* Mutant: no probing, the home bucket is overwritten.                     *)
InsertHome(h) ==
    LET o == plan[h][done[h] + 1] IN
    /\ pc[h] = "insert" /\ done[h] < Len(plan[h])
    /\ table' = [table EXCEPT ![Slot(o, 0)] = Base(h) + done[h] + 1]
    /\ done' = [done EXCEPT ![h] = @ + 1]
    /\ UNCHANGED <<header, cells, eof, count, acked, pc, mapLen, fileLen, pending,
                   batch, plan, closing, asked>>

(* Mutant: the entry takes its home bucket, the one there moves on.        *)
InsertPushes(h) ==
    LET o == plan[h][done[h] + 1] IN
    /\ pc[h] = "insert" /\ done[h] < Len(plan[h])
    /\ \E k \in BucketIds :
          /\ table[Slot(o, k)] = 0
          /\ \A j \in 0 .. k : j < k => table[Slot(o, j)] # 0
          /\ table' = [table EXCEPT ![Slot(o, k)] = table[Slot(o, 0)],
                                   ![Slot(o, 0)] = Base(h) + done[h] + 1]
    /\ done' = [done EXCEPT ![h] = @ + 1]
    /\ UNCHANGED <<header, cells, eof, count, acked, pc, mapLen, fileLen, pending,
                   batch, plan, closing, asked>>

(* The next entry takes the first empty bucket from its home on.           *)
Insert(h) ==
    LET o == plan[h][done[h] + 1] IN
    /\ pc[h] = "insert" /\ done[h] < Len(plan[h])
    /\ \E k \in BucketIds :
          /\ table[Slot(o, k)] = 0
          /\ \A j \in 0 .. k : j < k => table[Slot(o, j)] # 0
          /\ table' = [table EXCEPT ![Slot(o, k)] = Base(h) + done[h] + 1]
    /\ done' = [done EXCEPT ![h] = @ + 1]
    /\ UNCHANGED <<header, cells, eof, count, acked, pc, mapLen, fileLen, pending,
                   batch, plan, closing, asked>>

(* Mutant: the bail is a break that ends in Ok.                            *)
InsertFullOk(h) ==
    /\ pc[h] = "insert" /\ done[h] < Len(plan[h])
    /\ \A k \in BucketIds : table[Slot(plan[h][done[h] + 1], k)] # 0
    /\ UNCHANGED file
    /\ ReturnOk(h)

(* "hash table full": the entries inserted so far stay.                    *)
InsertFull(h) ==
    /\ pc[h] = "insert" /\ done[h] < Len(plan[h])
    /\ \A k \in BucketIds : table[Slot(plan[h][done[h] + 1], k)] # 0
    /\ UNCHANGED file
    /\ ReturnErr(h, fileLen[h])

Inserted(h) ==
    /\ pc[h] = "insert" /\ done[h] = Len(plan[h])
    /\ count' = count + Len(plan[h])
    /\ UNCHANGED <<header, cells, eof, table>>
    /\ ReturnOk(h)

(* Killed, or a panic: panic = "abort", so Drop does not run.              *)
Crash(h) ==
    /\ pc[h] # "closed"
    /\ Forget(h)
    /\ UNCHANGED <<file, acked>>

-----------------------------------------------------------------------------
Open(h)   == OpenExisting(h) \/ OpenInvalid(h) \/ OpenMissing(h)
Create(h) == CreateFile(h) \/ WriteHeader(h)
Call(h)   == \/ \E o \in Objects : WriteKnown(h, o) \/ WriteQueued(h, o)
             \/ \E w \in Batches : WriteBatch(h, w)
             \/ \E dropping \in BOOLEAN : Flush(h, dropping)
             \/ Remap(h)
FlushStep(h) == \/ Gather(h) \/ NothingToWrite(h)
                \/ Extend(h) \/ ExtendFails(h)
                \/ WriteData(h) \/ WriteFails(h)
                \/ Insert(h) \/ InsertFull(h) \/ Inserted(h)

Next == \E h \in Handles : Open(h) \/ Create(h) \/ Call(h) \/ FlushStep(h) \/ Crash(h)

Spec == Init /\ [][Next]_vars

(***************************************************************************)
(* Properties.                                                             *)
(***************************************************************************)
PcStates == {"closed", "creating", "formatting", "idle", "gather", "write", "insert"}

(* The values the variables range over.                                    *)
TypeOK ==
    /\ header \in {"absent", "blank", "ready"}
    /\ cells \in [Cells -> Objects \union {Hole}]
    /\ eof \in 0 .. DiskCells
    /\ table \in [BucketIds -> Nat]
    /\ count \in Nat
    /\ pc \in [Handles -> PcStates]
    /\ mapLen \in [Handles -> 0 .. DiskCells]
    /\ fileLen \in [Handles -> Nat]
    /\ pending \in [Handles -> Seq(Objects)]
    /\ batch \in [Handles -> Seq(Objects)]
    /\ plan \in [Handles -> Seq(Objects)]
    /\ done \in [Handles -> Nat]
    /\ closing \in [Handles -> BOOLEAN]
    /\ asked \in [Handles -> SUBSET Objects]
    /\ acked \in SUBSET Objects

(* At every moment, so also for whoever opens the file after a crash in    *)
(* the middle of a flush, a bucket in use names a complete entry inside    *)
(* the file, and the lookup of that entry's hash finds it: flush_impl      *)
(* writes the data before the table, and nothing shadows an older entry.   *)
TableSound ==
    \A b \in BucketIds : table[b] # 0 =>
        /\ table[b] \in 1 .. eof
        /\ cells[table[b]] \in Stored

(* What flush or write_batch returned Ok for, and what `write` took as     *)
(* known, is in the database: through later flushes that fail half way, a  *)
(* full table, a full disk, crashes and reopenings (commit.rs: "durably    *)
(* stored").                                                               *)
AckedStored == acked \subseteq Stored

(* read indexes the mapping without a look at its length.  A process whose *)
(* mapping has grown stale, through any number of flushes and failed ones  *)
(* since it opened the file, can still read every object whose entry the   *)
(* mapping covers: no probe for it meets an entry outside.  The panic is   *)
(* left to what the process stored itself and to what is not there         *)
(* (Checkpoint in main.rs calls remap for that reason).                    *)
MappedReadsSafe ==
    \A h \in Handles : \A b \in BucketIds :
        (pc[h] # "closed" /\ table[b] \in Mapped(h)) => ~ReadPanics(h, cells[table[b]])

(* The mapping grows stale while the process flushes, but what `exists`    *)
(* and `read` found once they go on finding: a new entry, which the stale  *)
(* mapping does not cover and which ends a probe, never lands on the probe *)
(* path of an older one.                                                   *)
MappingStable ==
    [][\A h \in Handles : (pc[h] # "closed" /\ pc'[h] # "closed")
            => Seen(h) \subseteq Seen(h)']_vars

(* The file format implements the abstract store: the objects an opening   *)
(* process would find appear one by one, in the step that links them into  *)
(* the table, and none ever disappears.                                    *)
Store == INSTANCE ObjectStore WITH objects <- Stored, reported <- acked
StoreSpec == Store!Spec
=============================================================================
