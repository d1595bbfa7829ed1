------------------------------ MODULE Objects ------------------------------
(***************************************************************************)
(* The objects a process holds: tree.rs, commit.rs and object.rs encode    *)
(* and decode them, store.rs keeps what was decoded in arenas, cache.rs    *)
(* keeps encodings, and read_object and write_object of repository.rs      *)
(* connect the three with the storage.                                     *)
(*                                                                         *)
(* Arenas only grow: an id stands for offsets into arrays that all objects *)
(* of a kind share.  An object stands for its hash, and an encoding is a   *)
(* record of the arrays it is made of, its integers left unsplit.          *)
(***************************************************************************)
EXTENDS Trees

CONSTANTS
    Bytes,     \* the bytes of each of the contents
    CacheMax   \* CACHE_MAX_BYTES

ASSUME CacheAssumption == CacheMax \in Nat

VARIABLES
    storage,  \* the encoding of each object that was written
    stores,   \* the arenas of the process
    cache,    \* its ObjectCache
    held      \* history: the objects it has read or pushed, with their ids

objvars == <<storage, stores, cache, held>>

BlobOf(d)   == [tag |-> "blob", body |-> d]
TreeOf(t)   == [tag |-> "tree", body |-> t]
CommitOf(c) == [tag |-> "commit", body |-> c]
EntryHash(e) == IF e.dir THEN TreeOf(e.node) ELSE BlobOf(e.node)

\* Of the first n numbers.
Sums(s)  == LET sum[n \in Nat] == IF n = 0 THEN 0 ELSE sum[n - 1] + s[n] IN sum
Lens(s)  == [j \in DOMAIN s |-> Len(s[j])]
Names(entries) == [j \in DOMAIN entries |-> entries[j].name]

\* Where each of the strings begins when they are written one after the other from base.
Offsets(strings, base) == [j \in DOMAIN strings |-> base + Sums(Lens(strings))[j - 1]]
Slice(s, start, len)   == SubSeq(s, start + 1, start + len)

----------------------------------------------------------------------------
\* The arenas.

NoStores ==
    [blob   |-> [start |-> <<>>, len |-> <<>>, data |-> <<>>],
     tree   |-> [start |-> <<>>, len |-> <<>>, modes |-> <<>>, hashes |-> <<>>,
                 name_start |-> <<>>, name_len |-> <<>>, names_blob |-> <<>>],
     commit |-> [tree |-> <<>>, parent_start |-> <<>>, parent_count |-> <<>>, parents |-> <<>>,
                 author_start |-> <<>>, author_len |-> <<>>,
                 message_start |-> <<>>, message_len |-> <<>>, strings |-> <<>>]]

PushBlob(s, bytes) ==
    [start |-> Append(s.start, Len(s.data)), len |-> Append(s.len, Len(bytes)),
     data |-> s.data \o bytes]

BlobAt(s, id) == Slice(s.data, s.start[id], s.len[id])

\* Mutant: names are counted from the start of their tree.
PushTreeOwn(s, entries) ==
    [start |-> Append(s.start, Len(s.modes)), len |-> Append(s.len, Len(entries)),
     modes |-> s.modes \o [j \in DOMAIN entries |-> entries[j].dir],
     hashes |-> s.hashes \o [j \in DOMAIN entries |-> entries[j].node],
     name_start |-> s.name_start \o Offsets(Names(entries), 0),
     name_len |-> s.name_len \o Lens(Names(entries)),
     names_blob |-> s.names_blob \o FlattenSeq(Names(entries))]

PushTree(s, entries) ==
    [start |-> Append(s.start, Len(s.modes)), len |-> Append(s.len, Len(entries)),
     modes |-> s.modes \o [j \in DOMAIN entries |-> entries[j].dir],
     hashes |-> s.hashes \o [j \in DOMAIN entries |-> entries[j].node],
     name_start |-> s.name_start \o Offsets(Names(entries), Len(s.names_blob)),
     name_len |-> s.name_len \o Lens(Names(entries)),
     names_blob |-> s.names_blob \o FlattenSeq(Names(entries))]

\* get_entry for each of entry_count.
TreeAt(s, id) ==
    [j \in 1 .. s.len[id] |->
        LET i == s.start[id] + j
        IN  [name |-> Slice(s.names_blob, s.name_start[i], s.name_len[i]),
             dir |-> s.modes[i], node |-> s.hashes[i]]]

\* Mutant: the message starts where the author does.
PushCommitOver(s, c) ==
    [tree |-> Append(s.tree, c.tree),
     parent_start |-> Append(s.parent_start, Len(s.parents)),
     parent_count |-> Append(s.parent_count, Len(c.parents)),
     parents |-> s.parents \o c.parents,
     author_start |-> Append(s.author_start, Len(s.strings)),
     author_len |-> Append(s.author_len, Len(c.author)),
     message_start |-> Append(s.message_start, Len(s.strings)),
     message_len |-> Append(s.message_len, Len(c.message)),
     strings |-> s.strings \o c.author \o c.message]

\* Author and message share one string.
PushCommit(s, c) ==
    [tree |-> Append(s.tree, c.tree),
     parent_start |-> Append(s.parent_start, Len(s.parents)),
     parent_count |-> Append(s.parent_count, Len(c.parents)),
     parents |-> s.parents \o c.parents,
     author_start |-> Append(s.author_start, Len(s.strings)),
     author_len |-> Append(s.author_len, Len(c.author)),
     message_start |-> Append(s.message_start, Len(s.strings) + Len(c.author)),
     message_len |-> Append(s.message_len, Len(c.message)),
     strings |-> s.strings \o c.author \o c.message]

CommitAt(s, id) ==
    [tree |-> s.tree[id], parents |-> Slice(s.parents, s.parent_start[id], s.parent_count[id]),
     author |-> Slice(s.strings, s.author_start[id], s.author_len[id]),
     message |-> Slice(s.strings, s.message_start[id], s.message_len[id])]

\* The object an id of a kind stands for.
At(w, tag, id) ==
    CASE tag = "blob"   -> BlobAt(w.blob, id)
      [] tag = "tree"   -> TreeAt(w.tree, id)
      [] tag = "commit" -> CommitAt(w.commit, id)

\* The id of the object that was pushed last.
LastId(w, tag) == Len(IF tag = "commit" THEN w.commit.tree ELSE w[tag].start)

----------------------------------------------------------------------------
\* Encodings.

EncodeBlob(bytes) == [tag |-> "blob", bytes |-> bytes]

EncodeTree(entries) ==
    [tag |-> "tree", modes |-> [j \in DOMAIN entries |-> entries[j].dir],
     hashes |-> [j \in DOMAIN entries |-> entries[j].node],
     offsets |-> Offsets(Names(entries), 0), names |-> FlattenSeq(Names(entries))]

\* A name ends where the next begins, the last where the names end.
DecodeTree(enc) ==
    LET n == Len(enc.modes)
        End(j) == IF j < n THEN enc.offsets[j + 1] ELSE Len(enc.names)
    IN  [j \in 1 .. n |-> [name |-> SubSeq(enc.names, enc.offsets[j] + 1, End(j)),
                           dir |-> enc.modes[j], node |-> enc.hashes[j]]]

\* Parents after their number, author and message after their lengths.
EncodeCommit(c) ==
    [tag |-> "commit", fields |-> <<c.tree, Len(c.parents)>> \o c.parents
                                  \o <<Len(c.author)>> \o c.author
                                  \o <<Len(c.message)>> \o c.message]

DecodeCommit(enc) ==
    LET f == enc.fields
        author  == 3 + f[2]
        message == author + 1 + f[author]
    IN  [tree |-> f[1], parents |-> Slice(f, 2, f[2]), author |-> Slice(f, author, f[author]),
         message |-> Slice(f, message, f[message])]

\* Length in bytes: magic and tag, then 4 for a count, 8 for a blob's length or a time, 32
\* for a hash.
Length(enc) ==
    CASE enc.tag = "blob"   -> 5 + 8 + Len(enc.bytes)
      [] enc.tag = "tree"   -> 5 + 4 + 40 * Len(enc.modes) + 4 + Len(enc.names)
      [] enc.tag = "commit" -> LET c == DecodeCommit(enc)
                               IN  5 + 32 + 4 + 32 * Len(c.parents) + 8
                                     + 4 + Len(c.author) + 4 + Len(c.message)

\* decode_and_push_object.
Pushed(w, enc) ==
    CASE enc.tag = "blob"   -> [w EXCEPT !.blob = PushBlob(@, enc.bytes)]
      [] enc.tag = "tree"   -> [w EXCEPT !.tree = PushTree(@, DecodeTree(enc))]
      [] enc.tag = "commit" -> [w EXCEPT !.commit = PushCommit(@, DecodeCommit(enc))]

\* encode_object_into, from the arenas.
Encoded(w, tag, id) ==
    CASE tag = "blob"   -> EncodeBlob(BlobAt(w.blob, id))
      [] tag = "tree"   -> EncodeTree(TreeAt(w.tree, id))
      [] tag = "commit" -> EncodeCommit(CommitAt(w.commit, id))

----------------------------------------------------------------------------
\* ObjectCache.

NoCache == [map |-> [h \in {} |-> 0], order |-> <<>>, total |-> 0]

\* The oldest entry goes when they do not fit.
EvictOne(c) ==
    IF c.total <= CacheMax \/ c.order = <<>> THEN c
    ELSE [map |-> Restrict(c.map, DOMAIN c.map \ {Head(c.order)}), order |-> Tail(c.order),
          total |-> c.total - Length(c.map[Head(c.order)])]

Evict(c) ==
    LET left[n \in Nat] == IF n = 0 THEN c ELSE EvictOne(left[n - 1])
    IN  left[Len(c.order)]

\* The oldest go until the rest fits: all of them, the new one too, when it alone does not.
Insert(c, hash, enc) ==
    IF hash \in DOMAIN c.map THEN c
    ELSE Evict([map |-> [h \in DOMAIN c.map \cup {hash} |-> IF h = hash THEN enc ELSE c.map[h]],
                order |-> Append(c.order, hash), total |-> c.total + Length(enc)])

----------------------------------------------------------------------------
\* The process, with the storage it has open.

Session   == [storage |-> storage, stores |-> stores, cache |-> cache]
Opened(m) == [storage |-> m, stores |-> NoStores, cache |-> NoCache]

\* read_object: from the cache, or from the storage and into the cache.
ReadObject(s, hash) ==
    IF hash \in DOMAIN s.cache.map
    THEN [s EXCEPT !.stores = Pushed(@, s.cache.map[hash])]
    ELSE [s EXCEPT !.stores = Pushed(@, s.storage[hash]),
                   !.cache  = Insert(@, hash, s.storage[hash])]

\* read_object_without_touching_cache.
ReadPast(s, hash) == [s EXCEPT !.stores = Pushed(@, s.storage[hash])]

\* write_object of an object that was just pushed; an object that is there stays.
Wrote(s, hash) ==
    LET enc == Encoded(s.stores, hash.tag, LastId(s.stores, hash.tag))
    IN  [s EXCEPT !.storage = [h \in DOMAIN @ \cup {hash} |-> IF h \in DOMAIN @ THEN @[h] ELSE enc]]

WriteTreeObject(s, entries) ==
    Wrote([s EXCEPT !.stores.tree = PushTree(@, entries)], TreeOf(entries))

WriteCommit(s, c) == Wrote([s EXCEPT !.stores.commit = PushCommit(@, c)], CommitOf(c))

\* write_blob of each of the contents; it goes past the arenas.
WriteBlobs(s, ds) ==
    [s EXCEPT !.storage = [h \in DOMAIN @ \cup {BlobOf(d) : d \in ds} |->
                             IF h \in DOMAIN @ THEN @[h] ELSE EncodeBlob(Bytes[h.body])]]

\* Mutant: the start of the name is enough.
FindEntryPrefix(tree, name) ==
    {EntryHash(tree[j]) : j \in {k \in DOMAIN tree :
        /\ IsPrefix(tree[k].name, name)
        /\ \A i \in 1 .. k - 1 : ~ IsPrefix(tree[i].name, name)}}

\* find_entry: the first entry of the tree with the name.
FindEntry(tree, name) ==
    {EntryHash(tree[j]) : j \in {k \in DOMAIN tree :
        tree[k].name = name /\ \A i \in 1 .. k - 1 : tree[i].name # name}}

\* walk_tree_path: a tree is read for each name but the last, and then what is there.  When
\* it ends, no path is left: result is the object found, {} for an error.
WalkName(w) ==
    LET read == ReadObject(w.process, w.hash)
        name == FirstName(w.path)
        found == IF w.hash.tag # "tree" THEN {}
                 ELSE FindEntry(TreeAt(read.stores.tree, LastId(read.stores, "tree")), name)
        e == CHOOSE e \in found : TRUE
    IN  IF w.path = <<>> THEN w
        ELSE IF found = {} THEN [w EXCEPT !.process = read, !.path = <<>>]
        ELSE IF name = w.path
        THEN [w EXCEPT !.process = ReadObject(read, e), !.path = <<>>, !.result = {e}]
        ELSE [w EXCEPT !.process = read, !.hash = e,
                       !.path = SubSeq(@, Len(name) + 2, Len(@))]

WalkTree(s, hash, path) ==
    LET w[n \in Nat] == IF n = 0 THEN [process |-> s, hash |-> hash, path |-> path, result |-> {}]
                        ELSE WalkName(w[n - 1])
    IN  w[Len(path)]

\* log: a commit is shown and its first parent is next.  A hash that names no commit is tried
\* again, and nothing is shown.
LogOne(l) ==
    LET hash == l.next[1]
        read == ReadObject(l.process, hash)
        c    == CommitAt(read.stores.commit, LastId(read.stores, "commit"))
    IN  IF l.next = <<>> THEN l
        ELSE IF hash.tag # "commit" THEN [l EXCEPT !.process = read]
        ELSE [process |-> read, shown |-> Append(l.shown, c),
              next |-> IF c.parents = <<>> THEN <<>> ELSE <<CommitOf(c.parents[1])>>]

\* The commits shown from a hash on, after limit rounds of the loop.
Log(s, hash, limit) ==
    LET l[n \in Nat] == IF n = 0 THEN [process |-> s, next |-> <<hash>>, shown |-> <<>>]
                        ELSE LogOne(l[n - 1])
    IN  l[limit].shown

Becomes(s) == storage' = s.storage /\ stores' = s.stores /\ cache' = s.cache

Holds(hash) == held' = Append(held, [hash |-> hash, id |-> LastId(stores', hash.tag)])

Read(hash)     == Becomes(ReadObject(Session, hash)) /\ Holds(hash)
ReadOnce(hash) == Becomes(ReadPast(Session, hash)) /\ Holds(hash)

\* A tree or a file is looked up by its path; when there is none the process ends.
WalkPath(hash, path) ==
    LET walk == WalkTree(Session, hash, path)
    IN  \E found \in walk.result : Becomes(walk.process) /\ Holds(found)

\* A tree is pushed and written.
WriteEntries(entries) ==
    Becomes(WriteTreeObject(Session, entries)) /\ Holds(TreeOf(entries))

\* The next command is another process.
Open == Becomes(Opened(storage)) /\ held' = <<>>

ObjectsInit ==
    /\ storage = [h \in {} |-> 0]
    /\ stores = NoStores
    /\ cache = NoCache
    /\ held = <<>>

----------------------------------------------------------------------------
\* Properties.

\* What an object's hash was taken of.
Body(hash) == IF hash.tag = "blob" THEN Bytes[hash.body] ELSE hash.body

\* However many objects a process reads and pushes, from the storage, past the cache or from
\* it, an id goes on standing for the object it was given for.
IdsStay ==
    \A k \in DOMAIN held :
        At(stores, held[k].hash.tag, held[k].id) = Body(held[k].hash)

\* The cache holds what the storage holds, its byte count is that of what it holds, and
\* within its limit: no object is counted twice, or evicted and still counted.
CacheCounts ==
    /\ IsInjective(cache.order)
    /\ {cache.order[k] : k \in DOMAIN cache.order} = DOMAIN cache.map
    /\ \A h \in DOMAIN cache.map : cache.map[h] = storage[h]
    /\ cache.total =
        Sums([k \in DOMAIN cache.order |-> Length(cache.map[cache.order[k]])])[Len(cache.order)]
    /\ cache.total <= CacheMax
============================================================================
