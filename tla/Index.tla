------------------------------- MODULE Index -------------------------------
(***************************************************************************)
(* The index in memory: src/src/index.rs, struct Index.                    *)
(*                                                                         *)
(* Entries are kept in parallel arrays in the order they were added, and   *)
(* path_index maps the hash of a path to the positions of the entries with *)
(* that hash.  remove closes the gap in the arrays, so that it must        *)
(* renumber the positions behind it under every hash.  The order of the    *)
(* positions under one hash decides nothing: they are a set here.          *)
(***************************************************************************)
EXTENDS Naturals, Sequences

CONSTANTS
    Paths,  \* repository-relative paths
    Data,   \* what an entry holds: hash, mode, mtime and size
    Codes,  \* values of path_hash
    Code    \* the path_hash of each path, not always different ones

ASSUME CodeAssumption == Code \in [Paths -> Codes]

VARIABLES
    paths,      \* path_offsets and paths_blob: the path at each position
    data,       \* hashes, modes, mtimes, sizes: the entry at each position
    path_index  \* path_hash -> positions

vars == <<paths, data, path_index>>

TypeOK ==
    /\ paths \in Seq(Paths)
    /\ data \in Seq(Data)
    /\ Len(data) = Len(paths)
    /\ path_index \in [Codes -> SUBSET (1 .. Len(paths))]

----------------------------------------------------------------------------
\* Mutant: two paths with one hash are taken for each other.
FoundByHash(p) == path_index[Code[p]]

\* find, and the lookup of add and remove: the positions it may return.
Found(p) == {i \in path_index[Code[p]] : paths[i] = p}

\* Vec::remove
Without(s, i) == [j \in 1 .. Len(s) - 1 |-> IF j < i THEN s[j] ELSE s[j + 1]]

\* add of a path that is there.
AddExisting(p, d) == \E i \in Found(p) :
    /\ data' = [data EXCEPT ![i] = d]
    /\ UNCHANGED <<paths, path_index>>

\* add of a new path.
AddNew(p, d) ==
    /\ Found(p) = {}
    /\ paths' = Append(paths, p)
    /\ data' = Append(data, d)
    /\ path_index' = [path_index EXCEPT ![Code[p]] = @ \cup {Len(paths) + 1}]

\* Mutant: Vec::swap_remove for what an entry holds, Vec::remove for the paths.
RemoveSwapped(p) == \E i \in Found(p) :
    /\ paths' = Without(paths, i)
    /\ data' = [j \in 1 .. Len(data) - 1 |-> IF j = i THEN data[Len(data)] ELSE data[j]]
    /\ path_index' = [h \in Codes |->
                        {IF j > i THEN j - 1 ELSE j :
                            j \in path_index[h] \ (IF h = Code[p] THEN {i} ELSE {})}]

\* Mutant: the position stays listed.
RemoveListed(p) == \E i \in Found(p) :
    /\ paths' = Without(paths, i)
    /\ data' = Without(data, i)
    /\ path_index' = [h \in Codes |->
                        {IF j > i THEN j - 1 ELSE j : j \in path_index[h]}]

\* remove of a path that is there; of another it changes nothing.
RemovePath(p) == \E i \in Found(p) :
    /\ paths' = Without(paths, i)
    /\ data' = Without(data, i)
    /\ path_index' = [h \in Codes |->
                        {IF j > i THEN j - 1 ELSE j :
                            j \in path_index[h] \ (IF h = Code[p] THEN {i} ELSE {})}]

\* save and load: the arrays are written and read back, and path_index rebuilt.
Reload ==
    /\ path_index' = [h \in Codes |-> {i \in DOMAIN paths : Code[paths[i]] = h}]
    /\ UNCHANGED <<paths, data>>

Clear ==
    /\ paths' = <<>>
    /\ data' = <<>>
    /\ path_index' = [h \in Codes |-> {}]

Init ==
    /\ paths = <<>>
    /\ data = <<>>
    /\ path_index = [h \in Codes |-> {}]

Next ==
    \/ \E p \in Paths, d \in Data : AddExisting(p, d) \/ AddNew(p, d)
    \/ \E p \in Paths : RemovePath(p)
    \/ Reload \/ Clear

Spec == Init /\ [][Next]_vars

----------------------------------------------------------------------------
\* Properties.

\* The entries as a map from paths.
Entries ==
    [p \in {paths[i] : i \in DOMAIN paths} |->
        data[CHOOSE i \in DOMAIN paths : paths[i] = p]]

\* However entries were added, updated and removed, and whatever hashes collide, find
\* returns the position of a tracked path, exactly one, and none for another path.
FindExact ==
    \A p \in Paths : Found(p) = {i \in DOMAIN paths : paths[i] = p}

\* The arrays and path_index implement the map the commands take the index for.
Map == INSTANCE PathMap WITH map <- Entries
ImplementsMap == Map!Spec
============================================================================
