------------------------------- MODULE Trees -------------------------------
(***************************************************************************)
(* Trees from index entries and back: write_tree and build_tree of         *)
(* index.rs, flatten_tree and SortedFlatTree of status.rs, write_tree.rs.  *)
(*                                                                         *)
(* A path is a sequence of bytes, Slash among them: what is in a directory *)
(* is decided by the byte after a prefix, and the sort puts names that     *)
(* differ after a common prefix on both sides of the slash.  A tree is the *)
(* sequence of its entries, and stands for its hash: a subtree is an entry *)
(* that holds a tree.                                                      *)
(***************************************************************************)
EXTENDS Naturals, Sequences, SequencesExt

CONSTANTS
    Slash,   \* the byte that separates names
    MaxPath  \* bound: bytes in a path, as many as the loops over directories need rounds

\* The order of byte strings: where they first differ, a is smaller or at its end.
Before(a, b) ==
    \E i \in 1 .. Len(b) :
        /\ \A j \in 1 .. i - 1 : j <= Len(a) /\ a[j] = b[j]
        /\ i <= Len(a) => a[i] < b[i]

\* An entry goes behind those of a sorted sequence that it is not before.
Placed(sorted, e) ==
    LET k == CHOOSE k \in 0 .. Len(sorted) :
                /\ \A j \in 1 .. k : ~ Before(e.path, sorted[j].path)
                /\ \A j \in k + 1 .. Len(sorted) : Before(e.path, sorted[j].path)
    IN  SubSeq(sorted, 1, k) \o <<e>> \o SubSeq(sorted, k + 1, Len(sorted))

\* The sort of entries by path.
ByPath(entries) ==
    LET sorted[n \in Nat] == IF n = 0 THEN <<>> ELSE Placed(sorted[n - 1], entries[n])
    IN  sorted[Len(entries)]

InOrder(S) ==
    LET names  == SetToSeq(S)
        sorted == ByPath([j \in DOMAIN names |-> [path |-> names[j]]])
    IN  [j \in DOMAIN sorted |-> sorted[j].path]

File(name, d)    == [name |-> name, dir |-> FALSE, node |-> d]
Subtree(name, t) == [name |-> name, dir |-> TRUE, node |-> t]

\* Mutant: src-old/x is taken to be in src.
InsidePrefix(dir, path) == IsStrictPrefix(dir, path)

\* starts_with(dir) and a slash after it; every path is in the root, <<>>.
Inside(dir, path) == dir = <<>> \/ IsPrefix(Append(dir, Slash), path)

\* The name of path in dir, and whether a directory of that name holds it.
Relative(dir, path) ==
    SubSeq(path, IF dir = <<>> THEN 1 ELSE Len(dir) + 2, Len(path))
Slashes(s)   == {i \in DOMAIN s : s[i] = Slash}
FirstName(s) == IF Slashes(s) = {} THEN s ELSE SubSeq(s, 1, Min(Slashes(s)) - 1)

Joined(prefix, name) == IF prefix = <<>> THEN name ELSE prefix \o <<Slash>> \o name

\* The directories that hold p.
Above(p) == {SubSeq(p, 1, i - 1) : i \in Slashes(p)}

----------------------------------------------------------------------------
\* build_tree: the next of the sorted entries, the frames of the directories that are open,
\* outermost first, and the trees that are finished, in the order they are written.
BuildStart ==
    [next |-> 1, frames |-> <<[dir |-> <<>>, name |-> <<>>, entries |-> <<>>]>>, written |-> <<>>]

\* tree_entries_buffer.push
With(frames, entry) == [frames EXCEPT ![Len(frames)].entries = Append(@, entry)]

\* One turn of the loop.  A frame ends at the first path that is not inside it.
BuildRound(entries, b) ==
    LET top  == Last(b.frames)
        path == entries[b.next].path
        rel  == Relative(top.dir, path)
        name == FirstName(rel)
    IN  IF b.frames = <<>> THEN b
        ELSE IF b.next > Len(entries) \/ ~Inside(top.dir, path)
        THEN [b EXCEPT !.frames  = IF Len(@) = 1 THEN <<>>
                                   ELSE With(Front(@), Subtree(top.name, top.entries)),
                       !.written = Append(@, top.entries)]
        ELSE IF name = <<>> THEN [b EXCEPT !.next = @ + 1]
        ELSE IF name = rel
        THEN [b EXCEPT !.next = @ + 1, !.frames = With(@, File(name, entries[b.next].data))]
        ELSE [b EXCEPT !.frames = Append(@, [dir |-> SubSeq(path, 1, Len(path) - Len(rel) + Len(name)),
                                             name |-> name, entries |-> <<>>])]

\* The trees of the entries, the root last.  For each entry no more directories are closed
\* or opened than its path or the one before it has bytes.
Build(entries) ==
    LET b[n \in Nat] == IF n = 0 THEN BuildStart ELSE BuildRound(entries, b[n - 1])
    IN  b[(Len(entries) + 1) * 2 * (MaxPath + 1)].written

\* Mutant: the entries in the order of the index.
WriteTreeUnsorted(entries) == Build(entries)

\* Index::write_tree: entries sorted by path, and the trees that are written of them.
WriteTree(entries) == Build(ByPath(entries))

----------------------------------------------------------------------------
\* flatten_tree: a subtree makes way for its entries, named by their paths.  The stack takes
\* one after the other, here it is one level of them; their order is lost in the sort.
Expand(items) ==
    FlattenSeq([j \in DOMAIN items |->
        IF items[j].dir
        THEN [k \in DOMAIN items[j].node |->
                [items[j].node[k] EXCEPT !.name = Joined(items[j].name, @)]]
        ELSE <<items[j]>>])

\* The files of a tree.
Files(tree) ==
    LET level[n \in Nat] == IF n = 0 THEN tree ELSE Expand(level[n - 1])
    IN  level[MaxPath]

FlattenTree(tree) ==
    LET files == Files(tree)
    IN  ByPath([j \in DOMAIN files |-> [path |-> files[j].name, data |-> files[j].node]])

\* SortedFlatTree::lookup: the entries of lo .. hi - 1 are left, and the one in the middle
\* is looked at.
Mid(r) == r.lo + (r.hi - r.lo) \div 2

Halved(flat, path, r) ==
    IF r.lo >= r.hi \/ flat[Mid(r)].path = path THEN r
    ELSE IF Before(path, flat[Mid(r)].path) THEN [r EXCEPT !.hi = Mid(r)]
    ELSE [r EXCEPT !.lo = Mid(r) + 1]

\* What the entry with the path holds; {} for none.
Lookup(flat, path) ==
    LET r[n \in Nat] == IF n = 0 THEN [lo |-> 1, hi |-> Len(flat) + 1]
                        ELSE Halved(flat, path, r[n - 1])
        end == r[Len(flat)]
    IN  IF end.lo >= end.hi THEN {} ELSE {flat[Mid(end)].data}

----------------------------------------------------------------------------
\* Mutant: the tree of a directory is not added to its parent.
DirectoryTreeTop(files) ==
    LET names == {f.path : f \in {g \in files : Slashes(g.path) = {}}}
        sorted == InOrder(names)
    IN  [j \in DOMAIN sorted |-> File(sorted[j], (CHOOSE f \in files : f.path = sorted[j]).data)]

\* sorted_dir_entries: the names in a directory.
NamesIn(files, dir) ==
    InOrder({FirstName(Relative(dir, f.path)) :
                f \in {g \in files : dir = <<>> \/ dir \in Above(g.path)}})

\* write_tree.rs: a directory with these files, in the order of the names in each directory.
DirectoryTree(files) ==
    LET dirs == {<<>>} \cup UNION {Above(f.path) : f \in files}
        tree[dir \in dirs] ==
            [j \in DOMAIN NamesIn(files, dir) |->
                LET name == NamesIn(files, dir)[j]
                    path == Joined(dir, name)
                IN  IF path \in dirs THEN Subtree(name, tree[path])
                    ELSE File(name, (CHOOSE f \in files : f.path = path).data)]
    IN  tree[<<>>]
============================================================================
