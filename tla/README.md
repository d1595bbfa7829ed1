# A verification of mog-vcs

mog is a small version-control program in Rust (`src/src/`, 28 files): an
object database in one memory-mapped file, an index, branches, a stash, and the
commands that move files between them. It runs as one short-lived process per
command and takes no lock. This directory holds TLA+ models of its stateful
parts and of its algorithms, the TLC configurations that check them on small
instances, and TLAPS proofs of what matters most for every value of the
constants. `PROJECT.json` says which definition models which lines.

    tlc -config MCStorage.cfg MCStorage.tla      # a run
    tlapm StorageProofs.tla                      # the proofs

## Inventory

| component | state | operations | interacts with | hard behaviour |
|---|---|---|---|---|
| object database, `storage.rs` | file: header, hash table, entries; per process: mapping, cached `file_len`, queue of writes | open, create, write, write_batch, flush, sync, exists, read, remap | every command, through `Repository` | crash in the middle of a flush; errors of `set_len`, `write_at`; a full table; probes that collide and wrap; a mapping older than the file; two processes |
| index, `index.rs` | parallel arrays of entries, `path_index` from hashes to positions; `.mog/index` | load, save, find, add, remove, clear, write_tree | every command | renumbering on removal, hash collisions |
| trees, `index.rs`, `status.rs`, `repository.rs` | tree objects | build_tree, flatten_tree, lookup, walk_tree_path | commit writes them; checkout, status, stash, discard, show read them | one-pass grouping over byte order |
| objects in memory, `object.rs`, `tree.rs`, `commit.rs`, `store.rs`, `cache.rs` | arenas that all objects of a kind share; LRU from hash to encoding | push, get, encode, decode; get, insert, evict; read_object, write_object | storage; every reader of trees and commits | ids that outlive an eviction; offsets into shared arrays |
| working directory commands, `stage.rs`, `unstage.rs`, `discard.rs`, `checkout.rs`, `stash.rs`, `main.rs` | files with mtimes, index, HEAD's tree, stashes | stage, unstage, discard, commit, checkout, stash save, apply, pop, drop, checkpoint | index, trees, object database, refs | "unchanged" is decided by mtime and length, in whole seconds; an editor that writes while a command runs; death in the middle |
| stash list, `stash.rs` | files 0, 1, 2 ... of `.mog/refs/stash` | save, pop, drop | working directory commands | renumbering by renames that replace; crashes |
| refs and commits, `repository.rs`, `branch.rs`, `commit.rs`, `checkout.rs` | `.mog/HEAD`, `.mog/refs/heads`, commits with parents | init, commit, checkout, branch create, delete, force-delete, rename | object database | several writes per command, in an order that matters after a crash; two processes |
| status and diff, `status.rs`, `diff.rs` | none | buckets of staged, modified, deleted, untracked; three comparisons | index, trees, disk | one looks at metadata, the other at contents |
| ignore rules, `ignore.rs`, `util.rs` | patterns | is a path ignored; glob | stage, status, discard, diff | backtracking to the last star only |
| write-tree of a directory, `write_tree.rs` | none | store the working directory as a tree | object database | its entry order |
| log, cat-file, hash-object, command line, tracing | none | print | - | log follows parents until there is none |

What makes each correct:

* object database: what a flush reported as stored is found from then on, by
  every process, whatever crashed or failed in between; every bucket leads to a
  whole entry; a stale mapping shows less, never something else;
* index: a map from paths, whatever was added, removed and however paths hash;
* trees: what was staged is what a commit gives back;
* objects in memory: an id stands for the same object as long as the process
  lives; the cache counts the bytes it holds and stays within its limit;
* working directory commands: a modified file is taken for a clean one only where
  mtimes in seconds cannot tell; that aside, stage captures what it was asked to,
  and a stash loses no tracked work, wherever it dies; nothing on disk names an
  object that a crash can lose;
* stash list: no rename replaces a stash; a lower number is newer;
* refs: everything a branch leads to can be read; HEAD leads to a commit; no
  command but the forced delete takes commits out of the history;
* status and diff: what status does not list has not changed, and diff shows
  nothing that status hides, with the same exception;
* ignore rules: a glob hides what it matches and nothing else, and matching ends.

`PROJECT.json` lists under `hazards` where in the code each of these could go
wrong, and the property that would show it.

## Modules

    ObjectStore  <--refines--  Storage   <- MCStorage, StorageProofs
    PathMap      <--refines--  Index
                               Trees <- Objects
                               Index + Objects = IndexTree <- MCIndexTree, IndexProofs
    Workspace    <--refines--  Commands  <- MCCommands, CommandsProofs
                               Workspace <- Views <- MCWorkspace, WorkspaceProofs
                               StashRefs <- MCStashRefs, StashRefsProofs
                               Refs      <- MCRefs, RefsProofs
                               Ignore    <- MCIgnore, IgnoreProofs
                               Recursion: what IndexProofs knows of recursive functions

**ObjectStore** is what a user of `trait MogStorage` is promised, and what
`storage_mock.rs` implements: a set of objects that grows, one at a time, and a
report of success only when the objects it covers are in it.

**Storage** is the file format. `header`, `cells`, `table` and `count` are the
file; `mapLen`, `fileLen`, `pending`, and the plan and position of a flush
belong to a process ("handle"). A call is a series of steps: gather, `set_len`,
`write_at`, one insertion per entry, the count. Between any two of them the
process may crash, and `set_len`, `write_at` and the insertion may fail. A step
is one system call or one store into the mapped table; the probe of one
insertion is one step. An object stands for its hash and its bytes, and takes
one cell. `Drop` flushes, as in the code. The refinement maps the abstract set
to the objects a new process would find.

**Index** has the arrays as two sequences (`paths`, `data`) and `path_index` as
a function from hashes to sets of positions; the hash function is a constant,
and need not be injective. `Reload` is save followed by load. **PathMap** is the
map the commands take it for.

**Trees** has the pure algorithms as operators: `WriteTree` (sort, then the
one-pass `build_tree` with its stack of open directories; it gives the trees in
the order in which they are written, the root last), `FlattenTree`, `Lookup`
(the binary search) and `DirectoryTree` (`mog write-tree`). Paths are sequences
of bytes, because the byte order around the slash is what the grouping depends
on. A loop of the code is a recursive function of the number of rounds:
`BuildRound` is one turn of `build_tree`, `Halved` one of the search, `Placed` one
insertion of the sort (the paths that are sorted are distinct, so that
every sort gives the same), `Expand` takes the entries of all subtrees of one level out of
them, where the code has a stack. `MaxPath`, the longest path there is, bounds
the rounds.

**Recursion** has what the proofs know of such functions: with a body that uses
the function at smaller arguments only, it satisfies its equation (`Defined`),
and a function of the number of rounds has after `n + 1` what a round makes of
what it had after `n` (`Stepped`). These are lemmas, and say nothing of the
program. The module is instanced with the body of each
function that is proved about. Both take induction over the numbers, stated with
sets, as an assumption: `IndexProofs` proves it once (`Counting`, from `Least`) and
cites it at each use, so that the instances do not bring the library's induction
modules along with them.

**Objects** is what one process holds of the object database. The arenas
(`PushBlob`, `PushTree`, `PushCommit` and their accessors) are the sequences of
`store.rs` with their offsets; an encoding (`EncodeTree`, `DecodeCommit`, ...) is
a record of arrays with offsets, counts and lengths, of a known length in bytes;
`Insert` and `Evict` are `ObjectCache`. `ReadObject`, `ReadPast` and `Wrote` are
`read_object` with and without the cache and `write_object`; `WalkTree` and `Log`
are `walk_tree_path` and `log`, which read through them; a hash that names no
commit is tried by `LogOne` again and again, as in the code, and LogIsHistory
shows that the log of a commit never comes to one. The operators take the
session of a process and return the next one, so that they compose as the calls
do. **IndexTree** puts index and objects together: the index goes through
anything, is committed tree by tree, and processes read back what they like, in
any order, by hash or by path, while they write trees of their own.

**Workspace** has one step per command over `disk` (contents and mtime of each
file), `index`, `head`, `history`, `stashes` and the clock `now`. Between
commands the user edits and deletes files and time passes. The index is the map
that Index implements, and a tree is a function from paths, which is what Trees
justifies. A stash application may cross into the next second anywhere in its
overlay (`late`), because the code reads mtimes in the middle of it. **Views** adds what
`mog status` and the three forms of `mog diff` show of such a state.

No write waits in these models, because none does in the code. An entry records
a file's mtime in seconds, so that a file which is written later in that second, and not
recorded, keeps an mtime that agrees with its entry; with the same length it looks
clean whatever it holds. Three writers do that: the user's editor, `mog discard
<patterns>` (`discard.rs:43`, which writes HEAD's contents and leaves the entry as
it is) and the overlay of a stash (`stash.rs:355`, after the entry of the staged file).
The history variable `blind` has these files, from the write until the file is
recorded, written in another second, or deleted. Nothing in the code finds them again, and the
properties about contents except them; what they say is that *nothing else* goes
wrong, in whatever order and in whatever second commands and edits come. What
becomes of an excepted file is real: with one dirty file of the staged length,
save, pop and save within a second leave HEAD's contents on disk and the dirty ones
nowhere; stage, discard and stage leave the staged contents in the index and
HEAD's on disk. `Missed` are the files of `blind` that look clean, the smaller
exception where it is enough.

**Commands** has the commands of Workspace as they run: stage reads metadata of
all files, then the files one by one, syncs and saves; checkout, stash save, apply and pop
remove, write and record files one by one and save the index at the end, each
with its own write of HEAD or of the stash's ref before or after. `run` is the command in
progress with the index in its memory. Between any two steps the user may edit
any file, the clock may move, and the process may die. `work`, `blind`, `blindIx`,
`before` and `disturbed` are history variables: what the user entrusted to a
stash; the files the fast check is blind to, for the index on disk and for the one in
memory (there also a file edited between a command's own write of it and its metadata call,
which is recorded as the commit's contents); and the state in
which the command began, for the refinement of Workspace: a command that ran alone
and to its end is one step there, which it takes when it ends.

**StashRefs** has the numbered stash files with one rename per step, and crashes.
In Workspace and Commands the same list is a sequence.

**Refs** has the branch files, HEAD and the commit graph. A step is one write of
a file, or the reads before the first of them; `run` holds what a process has
read. `stored` says which commits another process can read, which is what the
order of the ref's write and the flush decides. `disturbed` says that a command
has died half way or `mog init` was run again.

**Ignore** has one rule of `.mogged` and one path: how `load` classifies the rule,
and the loop of `SimpleGlob::is_match` with its two positions and its one place
to go back to. A path is ignored when some rule covers it and rules cannot be
taken back, so that one rule says what a list does.

## Runs

| run | configuration | shows |
|---|---|---|
| storage | one process at a time, three objects of which two share a bucket of two, queue of two, crashes and errors everywhere | TypeOK; TableSound (every bucket leads to a whole entry that lookup finds); AckedStored (what was reported stored is found by every later opening); MappedReadsSafe (what a stale mapping covers is read without indexing past it); MappingStable (a stale mapping loses nothing it showed); StoreSpec (refines ObjectStore) |
| storage_two | the same with two processes, fails | AckedStored: the second flush overwrites what the first reported |
| workspace | two paths, one in a directory, two seconds, contents of equal length and one over the staging limit | TypeOK; and, files the fast check is blind to aside: CleanMeansSame: it never takes a modified file for a clean one; StageCaptures: what stage matches is captured or removed in the index; StashRoundTrip: save then apply gives all tracked work back; StatusShowsAll: a path that status does not list is the same on disk, in the index and in HEAD; DiffsAreListed: diff shows no text that status hides |
| workspace_applied | fails | AppliedShowsModified (`stash.rs:360`): dirty files of an applied stash look clean |
| workspace_checkpoint | fails | CheckpointKeepsWork (`main.rs:49`): a checkpoint with nothing to save applies an older stash |
| workspace_noop | a path in a directory, fails | StashOfCleanIsNoop (`tests/integration.rs:471`): a stash of a clean tree is saved |
| commands | one path, three seconds, edits and death between any two calls | TypeOK; AllDurable: nothing on disk names a blob that was not synced; CleanMeansSame, blind files aside; WorkKept: stashed work is on disk or in a stash wherever save or pop dies; WholeCommands: undisturbed commands are those of Workspace; StagingConverges: a user who in the end only stages gets the index to be what is on disk, blind files aside |
| stash_refs | five saves, crashes | TypeOK; StashesKept: no rename replaces a stash; NewestFirst; NoGaps unless a command died |
| index_tree | five paths, two contents, two path hashes, two commits, a cache that holds about two objects | TypeOK; FindExact; ImplementsMap; CommitHoldsIndex: the tree written from the index flattens and looks up to the index; WalkFindsStaged: following a path name by name, through arenas and cache, finds the staged file; TreesAgree: write-tree of the same directory holds the same files; IdsStay; CacheCounts; LogIsHistory |
| refs | one process, three branches, three commits, a crash between any two writes, `mog init` again | TypeOK; HistoryKept: no command but the forced delete takes a commit out of the branches' history, wherever it dies; as long as none has died, between commands: HeadResolves (once there is a branch HEAD leads to a commit, so that the next commit has a parent) and RefsStored (what refs lead to is stored) |
| refs_flush | crashes, fails | DurablyStored: a commit that dies after writing its ref leaves a branch no one can read |
| ignore | every line of up to four bytes against every path of up to five | TypeOK (both positions stay inside); GlobSound; GlobComplete; PruneAgrees: not entering an ignored directory hides the same files as asking for each; Returns: every call ends |

Every property of a passing run has a mutant in `PROJECT.json`: a change of a
mapped definition, such as a bug there could be, that the run finds.

### Findings

Five runs end in a counterexample, each a statement of the repository that the
code does not keep:

1. `commit.rs` writes the ref before it flushes the object (refs_flush).
2. Two mog processes that are open at once append at the same cached length, and
   one loses objects it was told were durable (storage_two).
3. `apply_stash` records the mtime of a file and then writes the dirty contents
   over it; in the same second and with the same length, the file looks clean
   to stage, status and stash (workspace_applied). A second save in that second loses
   the dirty contents: it writes HEAD over them and takes them into no stash.
4. `Checkpoint` applies stash 0 also when it saved none (workspace_checkpoint).
5. `stash` compares a nested tree with a flat one to decide whether there is
   anything to save (workspace_noop).

Met while modelling and not kept as runs: `discard` and `stash` restore HEAD's
contents where their help texts say the index's (`main.rs:61`, `main.rs:18`);
`checkout -p` of a directory writes the root tree under its name
(`checkout.rs:62`); `diff` takes every unchanged file that is not text for a changed one
(`diff.rs:63`); `mog init` in an existing repository moves HEAD to the first
branch; the return value of `write_at` is not looked at (with `ShortWrites =
TRUE` AckedStored and TableSound fail); an object written twice before a flush
is stored twice, and a process that dies in `create_new` leaves a file that every later
one rejects; `mog diff` skips a tracked file that is gone; an executable bit that changed
is never staged; a file that is written in the second of the recording, by the user or by
`discard`, can look clean whatever it holds (`blind`), and so can one edited between a
command's write of it and its metadata call (`blindIx` in Commands); a glob that
matches a directory but not the paths below it (`*.d`) hides these from stage, status and
discard, and not from diff;
with two processes the safe delete can remove the last branch that holds a
commit.

### Bounds, and why they are enough

TLC visits between 870 (stash_refs) and 290,000 (storage) distinct states in a
passing run of a state machine, each in at most three minutes.

* Storage: two buckets, three objects, so that a probe collides, wraps around and
  meets a full table; `DiskCells = 3` lets `set_len` fail; `MaxPending = 2` with a batch of
  two lets a flush fail after its first entry. One process may be opened, crash
  and be opened again any number of times.
* Workspace: `MaxTime` bounds the clock. mtimes are compared for equality only, of an
  entry with its file and, in `blind`, with the current second: two seconds have a file
  and an entry that agree and differ, and each of them in this second and in an earlier one. What a third
  adds, an entry, a file and a clock that all differ, looks dirty like two that
  differ; Commands has it, and the proofs are for any `MaxTime`. Commands treat paths one by one, apart
  from "nothing to do" tests, so that two paths meet the mixed cases; one tree in
  the history and one stash are then what a command works with besides index and
  directory. `MaxFile = 2` with lengths 1 and 3 has a file over the limit. Two
  contents of one length, on which no action depends by name, are symmetric.
* Commands: one path, because each step is about one path and the interleavings are
  with the user; three seconds, for an entry, a file and a clock that differ; two contents of one length, so that only seconds tell them
  apart; two trees in the history, the one a checkout leaves and the one it goes
  to. The proofs have no bound.
* StashRefs: a gap takes a crash, and a shift over a gap needs files on both
  sides of it: five saves leave room for two gaps. The proofs have no bound.
* IndexTree: `PathAssumption` says of paths what stage makes them: names that are
  not empty with one slash between two, of at most `MaxPath = 5` bytes, which are the
  rounds the loops over directories get. The five paths are chosen around the slash: a file and a directory
  of one name, a name with a smaller byte than the slash after a common
  prefix, one with a larger byte, a directory in a directory. Two path hashes
  make every hash collide. The index is unrestricted; `Starts` are the two
  orders of paths from which commits are made and read back, one with nested
  directories and one with a file under a tracked file. `CacheMax = 160` bytes is one
  tree of three entries or two smaller objects, so that reads evict one object,
  all, and themselves; `MaxReads = 2` operations of a process, each of which may
  read several objects, and any number of processes.
* Refs: three commits make a branch, a merge-less fork and a commit outside both;
  three branches are what a rename over, a delete and a checkout tell apart.
  Commits are symmetric: no action orders them or names one.
* Ignore: four bytes of rule have two stars with a byte between and one after,
  which is where going back to the last star only could go wrong; five of path give both
  stars room to be wrong first. The proofs have no bound.

Every run terminates by its bounds. Deadlock is checked where an idle process can
always start a command; Commands at the end of its clock and Ignore at the end
of its call really stop, and their configurations say so.

### Fairness

mog has no loops that wait: a command ends or the process dies, no command
waits for another, and there is no retry or timeout. So there are two places
where fairness is assumed.

* Ignore has `WF_vars(Next)`: the glob loop is a loop of one thread that waits
  for nothing. `Returns` says that it ends, which is not plain, since both positions
  move back when a star is extended.
* Commands has `WF_vars(Step)`: a command that can take its next step takes it,
  or dies. The user and the start of a command have no fairness. StagingConverges therefore
  has premises of its own, about the user: from some time on only stage runs, nothing is
  edited and no command dies, and `mog stage` of everything is started again whenever
  it could be.

The probe of a full hash table, which could go round for ever, is bounded by the
number of buckets and is the `InsertFull` step.

## Proofs

For every value of the constants, with the assumptions named in the theorem.

**StorageProofs.** TypeCorrect holds for any number of processes. The others
(AcknowledgedIsStored, TableAlwaysSound, MappedIsRead, MappingsStayStable,
StorageImplementsStore) assume `OneProcess`: no two handles, no short writes; both
are needed, as storage_two and the remark on `ShortWrites` under Findings show. TableSound is not inductive: that an
insertion makes a bucket lead to a whole entry depends on what the flush wrote
before, that depends on the length it cached, and that on the mapping. `Inv`
therefore says, beside TableSound and AckedStored, for the handle: its cached
length is the file's (LengthInv), the entries it plans to insert are in the file
(DataInv), what it owes its caller is queued, planned or stored (OwedInv). The
lemmas below it are about the probe: adding an entry to a free bucket keeps
every object found (StoredGrows), and the object added is found (InsertFinds).
MappedIsRead has an invariant of its own (MappedInv): the process finds whatever entry its
mapping covers, and what a flush is about to link lies behind the mapping. An
insertion fills a bucket that was free, and so on no probe that had reached its entry.

**WorkspaceProofs.** Nothing is assumed of when the user or the commands write.
FastCheckSound is the theorem on which StashLosesNothing, StageTakesWhatIsThere,
StatusIsComplete and DiffsShowWhatStatusLists rest. The invariant is StatTruth: an
entry and a file of one path with the same mtime have the same contents, unless the file is
blind. It is stronger than
CleanMeansSame, which also has the lengths, because a later edit may restore a
length. The round trip of a stash (RoundTrip) then is an equation about the
functions Saved and Applied, and status is complete because the one test it makes of
contents on disk is the fast check.

**CommandsProofs.** For any paths and any interleaving of edits, ticks and deaths
with the steps of a command. NamedIsSynced: DurableInv adds to AllDurable what
the command in progress is about to name (the index in its memory once stage is
at its end, the tree it writes, the dirty files once they were flushed).
FastCheckSound: TruthInv has StatTruth for the index on disk and, with `blindIx`, for
the one in memory, and that a file just written has the contents it was given unless it was edited
since; the metadata stage has read needs no clause of its own, because the contents are
read after it: an edit in between is in the contents, whatever its second. StashedWorkIsKept: KeptInv says of each
command which files it may still destroy; SaveInv, that what save is about to
overwrite is in the stash it is making or has made; PopInv, that pop has on disk
what it has already written of stash 0, and removes the stash only when it has
written all.

It also proves CommandsAreWhole, the refinement of Workspace by commands that run
alone and to their end. WholeInv says of a command that was not disturbed which
part of the step of Workspace it has done: stage has recorded what it found but
for the files it has read metadata of and not yet looked at (StageWhole);
checkout, stash save and apply have disk and index as that step leaves them, but
for the files still to be removed (`gone`), to be written (`todo`, `over`) and to be
recorded (`cur`), each written in the second the command began in, or, for the
dirty files of a stash, the one after (SwitchWhole, ApplyWhole). When nothing is
left to do the equations are those of Workspace. It needs that entries recorded by
undisturbed commands have the length of their contents (Sized), because Workspace
has no lengths in its entries.

Of StagingConverges it proves the steps. `Taken` says of a stage in progress that every
file it can stage is still to be read or is in the index in memory as it is on disk.
StagingTakesAll: a stage of everything begins with it, because a file that stage leaves
out looks clean and so is or is blind (TruthInv, whatever edits and deaths came before), every step
of the stage keeps it, and the save turns it into Captured. CapturedStays: from there on
nothing a user who only stages does undoes Captured.

**IndexProofs.** For Index the invariant has two conjuncts: Exact, path_index is
what `build_path_index` would make of the arrays, and Distinct, no path has two
positions. Removal is the hard case: the renumbering is a bijection between the
positions without the removed one and the new ones, under each hash. From it
TypeCorrect, FindIsExact and IndexIsMap, the refinement of PathMap: with
`Entries` for the map each add is a Put, each removal a Delete, a reload a
stutter. No assumption beside the hash being a function.

The theorems about IndexTree (CommittedIsIndex, WalksFindStaged, IdsStand,
CacheIsCounted, LogShowsHistory,
DirectoryTreesAgree) assume of paths what `PathAssumption` says, and of
contents, author and messages that they are byte strings. Nothing bounds the number of
entries, objects, commits or processes, the cache may have any limit, and paths may
hash together. They rest on one invariant, TreeInv: what a process has is sound
(`Sound`: the storage has encodings under their hashes, each object's part of the
arenas is within them, the cache is counted), the storage has what its trees name
(`Closed`), what the process was given ids for is in its arenas (`HeldOk`), commits
are chained to the one before (`HistoryOk`), and after a commit the storage has
the blobs and the tree of the index (`IndexStored`). The arguments are these.

* Arenas: each object has a part of the arrays, and the next one begins where the
  last one ends (`Spans`, `Slice`); arrays only grow, so that no part moves.
  Decoding undoes encoding because each count and length lies behind the array
  before it.
* Cache: `Counted` has the order free of duplicates, its elements the keys of the
  map, and the count the sum of the lengths. Eviction takes the first of the order,
  and so one summand. The loop ends within the limit, at the latest with the cache
  empty.
* The sort and the search: an insertion keeps the entries sorted and the same; a
  round of the search keeps the entry sought between the ends and brings these
  closer, so that as many rounds as entries are enough.
* `build_tree` gives back what it was given: `Covers` assigns to the innermost
  frame and to each one around it a range of the entries, which are, in their order,
  the files of what the frame has so far; the ranges meet, and the last ends at the next
  entry. Closing a frame joins its range to that of the frame around it. `Due`
  counts the rounds still needed: fewer with each, and no more than `Build` gives.
  `flatten_tree` of the root then gives the sorted entries.
* `build_tree` writes each directory once and as it is: `Mapped` has a directory for
  each tree that was written, for which the tree has an entry for everything in it,
  a subtree for each directory in it, and a file before a directory of its name
  (`Complete`). That a directory is not entered again after it was left needs the
  order: what is between two paths of a directory is in it as well (InsideBetween),
  whatever bytes there are around the slash. A walk to a path then is in a tree of a
  directory that holds the path, with the rest of the path to go (`Walks`), until it is
  at the file. The exception in WalkFindsStaged, a file that is tracked under the name of a
  directory above the path, is needed: `find_entry` returns that file.
* write-tree and commit hold the same files: `DirectoryTree` makes a tree of what is below
  a directory, a file or a subtree for each name (`DirItems`, by recursion over levels,
  `ExpandNodes`), and each round of `flatten_tree` replaces a subtree by what is in it, after
  which every file is still held by exactly one item (`DirLevels`). The rounds end
  with the files, sorted, and two strictly sorted sequences with the same elements are one
  (StrictSame), whatever order the names were in before. The premise of TreesAgree, that
  no path is tracked above another, is what a working directory gives: it cannot have
  a file and a directory of one name.

**StashRefsProofs.** For any number of saves and crashes anywhere. `Apart` says that between
the files a shift has renamed and those it has yet to rename there is a free
name, going up and going down: it is why the order of the renames matters, and
gives NothingClobbered and OrderKept. `OneGap` places the one gap there is
without a crash, and gives GapsOnlyAfterCrash.

**RefsProofs.** TypeCorrect holds for any number of processes and any crashes;
its invariant adds what each command in progress has read (`Known`).
The others assume one process: `Current` says that what the command in
progress read is still so, which another process would break. It gives
HistoryIsKept, wherever commands die; Past, the ancestors of a commit, only grows,
because commits get their parents when they are made. HeadAlwaysResolves and
RefsAlwaysStored rest on `Settled`, which places the command in progress
wherever they do not hold: a commit that is not stored is one to be flushed, and
HEAD is on no branch only while a rename is at its last write.

**IgnoreProofs.** For every rule and path. `Consumed`: the pattern up to where the
loop is fits the text up to there, and the pattern up to the last star fits a
part of what came before it; it gives GlobIsSound. `Left`: if there is a match at all, there
is one in which the last star stands for at least what it has been given; it
gives GlobIsComplete. The earlier stars need not be
reconsidered because a match of what follows a star begins no earlier in the text than
the place where the star was met (RestStar), and `Left` asks for nothing else.
EveryStepGoesFurther has the measure that Returns rests on: phase of the call, `star_text`,
`star` and `pi` grow in the order of dictionaries. A backtrack takes `pi` and `ti` back but
adds one to `star_text`; a star that is met begins no earlier in the text than the last one
stands, and later in the rule, for which the invariant is `star < pi`. TypeOK bounds
all four.

Only model-checked: the liveness, Returns and StagingConverges. What they need of the steps
is proved, as said above (that a step goes further; that a full stage captures, and that what is
captured stays). What is left to TLC is the use of weak fairness, that a step which can be
taken is: it is about ENABLED, which is out of the prover's reach.

## Not modelled, and why

* Power loss and a failing `msync`: the file is what the page cache holds. Which
  pages of a mapping reach the disk is up to the kernel, and nothing in the code orders
  them, so that nothing could be claimed.
* Objects of unequal size in Storage: an entry takes one cell. Offsets are abstracted to
  cells or positions; u32 and u64 widths are not reached by any bound.
* In Storage, the probe of an insertion is one step; it matters for two
  processes only, where AckedStored fails already.
* The bytes of an integer or a hash in the wire format, and malformed data: an
  object stands for its hash, and nothing but mog writes the file.
* File modes and symbolic links: no command decides anything by them. Ignored files in
  Workspace: which they are is in Ignore, and a path of Workspace is one that is not.
* `checkout -p` of a directory (with `Index::update_from_tree_recursive`): a path is an
  atom in Workspace; what the code does is said under Findings.
* A path that is a file in one tree and a directory in another, in Workspace;
  IndexTree has them, and WalkFindsStaged leaves a file under a tracked file out.
* In Commands: unstage, discard, drop, checkpoint and `checkout -p`, which are one step in
  Workspace; the Commit arm is one step, what dies within it is in Refs; two commands
  at once, about which the repository promises nothing; and a kill within `fs::write`, which
  truncates and fills: the short file has a new mtime, and looks modified.
* A torn write of a ref or of `.mog/index`: `fs::write` is one step here too.
* In Refs, HEAD is read twice by a commit (for the parent and for the ref) and
  both are taken as one step; with one process nothing lies between them.
* The lines of a printed difference (a library's), headings, colours, argument
  parsing and tracing.

## Plan

Done, in this order: Storage with ObjectStore and its proofs; Workspace; Refs;
StashRefs; Index with PathMap, Trees; Ignore; Commands and the refinement of
Workspace; Views; Objects with IndexTree; the proofs of WholeCommands and of
IndexTree, TreesAgree last.

What would add most from here:

1. The remaining commands in Commands, discard first.
2. `checkout -p` of a directory, with paths as sequences of names.
3. Composition: Refs over ObjectStore (its `stored` as the objects), StashRefs as
   the stash list of Commands.
