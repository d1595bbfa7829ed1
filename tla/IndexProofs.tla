---------------------------- MODULE IndexProofs ----------------------------
(***************************************************************************)
(* Proofs about Index and IndexTree, for any paths, any data, any hash of  *)
(* the paths, with collisions or without, and any limit of the cache.      *)
(*                                                                         *)
(* Index: path_index always lists exactly the positions of the entries     *)
(* with each hash, no path is listed twice, and the arrays implement a     *)
(* map.  IndexTree: what is committed is the index (the sort, build_tree,  *)
(* flatten_tree and the binary search), the tree that write-tree makes of  *)
(* a directory holds the same files, and whatever a process reads and      *)
(* writes, its arenas, its cache and the storage agree, so that an id, a   *)
(* path and log lead to the objects they stand for.                        *)
(*                                                                         *)
(* TreeInv, at the end, is the invariant of IndexTree; what it says of the *)
(* session of a process (Sound) and of the storage (Closed) is kept by     *)
(* every operator of Objects, and each recursive function is unfolded once *)
(* (LevelIs, BuiltIs, WalkTreeIs, ...), with the theorem of Recursion.     *)
(***************************************************************************)
EXTENDS IndexTree, SequenceTheorems, FiniteSetTheorems, TLAPS

----------------------------
\* Index.

\* path_index is what build_path_index makes of the paths.
Exact == path_index = [h \in Codes |-> {i \in DOMAIN paths : Code[paths[i]] = h}]

\* No path has two positions.
Distinct == \A i, j \in DOMAIN paths : paths[i] = paths[j] => i = j

Inv == TypeOK /\ Exact /\ Distinct

----------------------------
\* What the type invariant says of the sequences.
LEMMA Arrays ==
  ASSUME TypeOK
  PROVE  /\ Len(paths) \in Nat /\ Len(data) = Len(paths)
         /\ DOMAIN paths = 1 .. Len(paths) /\ DOMAIN data = 1 .. Len(paths)
         /\ \A i \in DOMAIN paths : paths[i] \in Paths /\ data[i] \in Data
         /\ \A i \in DOMAIN paths : Code[paths[i]] \in Codes
<1>1. paths \in Seq(Paths) /\ data \in Seq(Data) /\ Len(data) = Len(paths) BY DEF TypeOK
<1>2. /\ Len(paths) \in Nat
      /\ DOMAIN paths = 1 .. Len(paths) /\ DOMAIN data = 1 .. Len(paths)
  BY <1>1, LenProperties
<1>3. \A i \in DOMAIN paths : paths[i] \in Paths /\ data[i] \in Data BY <1>1, <1>2, ElementOfSeq
<1> QED BY <1>1, <1>2, <1>3, CodeAssumption

\* find returns the positions of the path, and there is at most one.
LEMMA FoundIs ==
  ASSUME Inv, NEW p \in Paths PROVE Found(p) = {i \in DOMAIN paths : paths[i] = p}
<1>1. path_index[Code[p]] = {i \in DOMAIN paths : Code[paths[i]] = Code[p]}
  BY CodeAssumption, Zenon DEF Inv, Exact
<1> QED BY <1>1 DEF Found

LEMMA SameBound == ASSUME NEW a \in Nat, NEW b \in Nat, 1 .. a = 1 .. b PROVE a = b
<1>1. CASE a < b
  <2>1. b \in 1 .. b /\ b \notin 1 .. a BY <1>1
  <2> QED BY <2>1
<1>2. CASE b < a
  <2>1. a \in 1 .. a /\ a \notin 1 .. b BY <1>2
  <2> QED BY <2>1
<1> QED BY <1>1, <1>2

\* Vec::remove on a sequence.
LEMMA WithoutIs ==
  ASSUME NEW S, NEW s \in Seq(S), NEW i \in DOMAIN s
  PROVE  /\ Without(s, i) \in Seq(S)
         /\ Len(Without(s, i)) = Len(s) - 1
         /\ DOMAIN Without(s, i) = 1 .. Len(s) - 1
         /\ \A j \in 1 .. Len(s) - 1 :
               Without(s, i)[j] = IF j < i THEN s[j] ELSE s[j + 1]
<1>1. Len(s) \in Nat /\ DOMAIN s = 1 .. Len(s) /\ Len(s) - 1 \in Nat BY LenProperties
<1>2. \A j \in 1 .. Len(s) - 1 : (IF j < i THEN s[j] ELSE s[j + 1]) \in S BY <1>1, ElementOfSeq
<1>3. Without(s, i) \in [1 .. Len(s) - 1 -> S] BY <1>2 DEF Without
<1>4. Without(s, i) \in Seq(S) BY <1>1, <1>3, SeqDef, SMTT(30)
<1>5. Len(Without(s, i)) = Len(s) - 1
  <2> DEFINE w == Without(s, i)
  <2>1. Len(w) \in Nat /\ DOMAIN w = 1 .. Len(w) BY <1>4, LenProperties
  <2>2. DOMAIN w = 1 .. Len(s) - 1 BY <1>3
  <2> HIDE DEF w
  <2>3. Len(w) = Len(s) - 1 BY <1>1, <2>1, <2>2, SameBound, Zenon
  <2> QED BY <2>3 DEF w
<1> QED BY <1>3, <1>4, <1>5 DEF Without

----------------------------
LEMMA InitInv == Init => Inv
<1> SUFFICES ASSUME Init PROVE Inv OBVIOUS
<1>1. paths = <<>> /\ data = <<>> /\ path_index = [h \in Codes |-> {}] BY DEF Init
<1>2. DOMAIN paths = {} /\ Len(paths) = 0 /\ Len(data) = 0 BY <1>1
<1>3. paths \in Seq(Paths) /\ data \in Seq(Data) BY <1>1
<1>4. path_index \in [Codes -> SUBSET (1 .. Len(paths))] BY <1>1
<1>5. Exact BY <1>1, <1>2 DEF Exact
<1>6. Distinct BY <1>2 DEF Distinct
<1> QED BY <1>2, <1>3, <1>4, <1>5, <1>6 DEF Inv, TypeOK

LEMMA AddExistingInv ==
  ASSUME Inv, NEW p \in Paths, NEW d \in Data, AddExisting(p, d) PROVE Inv'
<1>1. PICK i \in Found(p) : data' = [data EXCEPT ![i] = d] BY DEF AddExisting
<1>2. paths' = paths /\ path_index' = path_index BY DEF AddExisting
<1>3. i \in 1 .. Len(data) BY FoundIs, Arrays DEF Inv
<1>4. data' \in Seq(Data) /\ Len(data') = Len(data) BY <1>1, <1>3, ExceptSeq DEF Inv, TypeOK
<1>5. TypeOK' BY <1>2, <1>4 DEF Inv, TypeOK
<1> QED BY <1>2, <1>5 DEF Inv, Exact, Distinct

LEMMA AddNewInv == ASSUME Inv, NEW p \in Paths, NEW d \in Data, AddNew(p, d) PROVE Inv'
<1> DEFINE n == Len(paths)
<1>1. /\ Found(p) = {}
      /\ paths' = Append(paths, p) /\ data' = Append(data, d)
      /\ path_index' = [path_index EXCEPT ![Code[p]] = @ \cup {n + 1}]
  BY DEF AddNew
<1>2. paths \in Seq(Paths) /\ data \in Seq(Data) BY DEF Inv, TypeOK
<1>3. /\ n \in Nat /\ Len(data) = n /\ DOMAIN paths = 1 .. n
      /\ \A i \in DOMAIN paths : Code[paths[i]] \in Codes
  BY Arrays DEF Inv
<1>4. /\ paths' \in Seq(Paths) /\ Len(paths') = n + 1 /\ DOMAIN paths' = 1 .. n + 1
      /\ paths'[n + 1] = p /\ \A i \in 1 .. n : paths'[i] = paths[i]
  BY <1>1, <1>2, <1>3, AppendProperties, LenProperties
<1>5. data' \in Seq(Data) /\ Len(data') = n + 1 BY <1>1, <1>2, <1>3, AppendProperties
<1>6. Code[p] \in Codes BY CodeAssumption
<1>7. ASSUME NEW h \in Codes PROVE path_index'[h] = {i \in DOMAIN paths' : Code[paths'[i]] = h}
  <2>1. path_index[h] = {i \in 1 .. n : Code[paths[i]] = h} BY <1>3 DEF Inv, Exact
  <2>2. path_index'[h] = path_index[h] \cup (IF h = Code[p] THEN {n + 1} ELSE {})
    BY <1>1, <1>6 DEF Inv, TypeOK
  <2>3. {i \in DOMAIN paths' : Code[paths'[i]] = h}
        = {i \in 1 .. n : Code[paths[i]] = h} \cup (IF h = Code[p] THEN {n + 1} ELSE {})
    BY <1>3, <1>4
  <2> QED BY <2>1, <2>2, <2>3
<1>8. DOMAIN path_index' = Codes /\ path_index' = [h \in Codes |-> path_index'[h]]
  BY <1>1 DEF Inv, TypeOK
<1>9. Exact' BY <1>7, <1>8 DEF Exact
<1>10. TypeOK'
  <2>1. \A h \in Codes : path_index'[h] \subseteq 1 .. n + 1 BY <1>4, <1>7
  <2> QED BY <1>4, <1>5, <1>8, <2>1 DEF TypeOK
<1>11. Distinct'
  <2>1. \A i \in 1 .. n : paths[i] # p BY <1>1, <1>3, FoundIs
  <2> QED BY <1>3, <1>4, <2>1 DEF Inv, Distinct
<1> QED BY <1>9, <1>10, <1>11 DEF Inv

LEMMA RemovePathInv == ASSUME Inv, NEW p \in Paths, RemovePath(p) PROVE Inv'
<1> DEFINE n == Len(paths)
           Down(i, j) == IF j > i THEN j - 1 ELSE j
<1>1. PICK i \in Found(p) :
        /\ paths' = Without(paths, i) /\ data' = Without(data, i)
        /\ path_index' = [h \in Codes |->
             {Down(i, j) : j \in path_index[h] \ (IF h = Code[p] THEN {i} ELSE {})}]
  BY DEF RemovePath
<1>2. /\ n \in Nat /\ Len(data) = n
      /\ DOMAIN paths = 1 .. n /\ DOMAIN data = 1 .. n
      /\ paths \in Seq(Paths) /\ data \in Seq(Data)
  BY Arrays DEF Inv, TypeOK
<1>3. i \in 1 .. n /\ paths[i] = p BY <1>2, FoundIs, SMTT(30)
<1>4. /\ paths' \in Seq(Paths) /\ Len(paths') = n - 1 /\ DOMAIN paths' = 1 .. n - 1
      /\ \A j \in 1 .. n - 1 : paths'[j] = IF j < i THEN paths[j] ELSE paths[j + 1]
  BY <1>1, <1>2, <1>3, WithoutIs, ZenonT(60)
<1>5. data' \in Seq(Data) /\ Len(data') = n - 1 BY <1>1, <1>2, <1>3, WithoutIs, Zenon
<1>6. ASSUME NEW h \in Codes PROVE path_index'[h] = {j \in DOMAIN paths' : Code[paths'[j]] = h}
  <2> DEFINE old == {j \in 1 .. n : Code[paths[j]] = h} \ {i}
  <2>1. path_index[h] = {j \in 1 .. n : Code[paths[j]] = h} BY <1>2 DEF Inv, Exact
  <2>2. path_index[h] \ (IF h = Code[p] THEN {i} ELSE {}) = old BY <1>3, <2>1
  <2>3. path_index'[h] = {Down(i, j) : j \in old} BY <1>1, <2>2
  <2>4. ASSUME NEW k \in {Down(i, j) : j \in old} PROVE k \in 1 .. n - 1 /\ Code[paths'[k]] = h
    <3>1. PICK j \in old : k = Down(i, j) BY <2>4
    <3>2. k \in 1 .. n - 1 BY <1>2, <1>3, <3>1
    <3>3. paths'[k] = paths[j] BY <1>2, <1>3, <1>4, <3>1, <3>2
    <3> QED BY <3>1, <3>2, <3>3
  <2>5. ASSUME NEW k \in 1 .. n - 1, Code[paths'[k]] = h PROVE k \in {Down(i, j) : j \in old}
    <3> DEFINE j == IF k < i THEN k ELSE k + 1
    <3>1. j \in 1 .. n /\ j # i /\ k = Down(i, j) BY <1>2, <1>3
    <3>2. Code[paths[j]] = h BY <1>4, <2>5
    <3> QED BY <3>1, <3>2
  <2> QED BY <1>4, <2>3, <2>4, <2>5
<1>7. DOMAIN path_index' = Codes /\ path_index' = [h \in Codes |-> path_index'[h]] BY <1>1
<1>8. Exact' BY <1>6, <1>7 DEF Exact
<1>9. TypeOK'
  <2>1. \A h \in Codes : path_index'[h] \subseteq 1 .. n - 1 BY <1>4, <1>6
  <2> QED BY <1>4, <1>5, <1>7, <2>1 DEF TypeOK
<1>10. Distinct'
  <2> SUFFICES ASSUME NEW j \in 1 .. n - 1, NEW k \in 1 .. n - 1, paths'[j] = paths'[k]
               PROVE  j = k
    BY <1>4 DEF Distinct
  <2> DEFINE Up(l) == IF l < i THEN l ELSE l + 1
  <2>1. paths'[j] = paths[Up(j)] /\ paths'[k] = paths[Up(k)] BY <1>4
  <2>2. Up(j) \in 1 .. n /\ Up(k) \in 1 .. n BY <1>2, <1>3
  <2>3. Up(j) = Up(k) BY <1>2, <2>1, <2>2 DEF Inv, Distinct
  <2> QED BY <1>2, <1>3, <2>3
<1> QED BY <1>8, <1>9, <1>10 DEF Inv

LEMMA ReloadInv == ASSUME Inv, Reload PROVE Inv'
<1>1. paths' = paths /\ data' = data BY DEF Reload
<1>2. path_index' = [h \in Codes |-> {i \in DOMAIN paths : Code[paths[i]] = h}] BY DEF Reload
<1>3. path_index' = path_index BY <1>2 DEF Inv, Exact
<1> QED BY <1>1, <1>3 DEF Inv, TypeOK, Exact, Distinct

LEMMA ClearInv == ASSUME Clear PROVE Inv'
<1>1. paths' = <<>> /\ data' = <<>> /\ path_index' = [h \in Codes |-> {}] BY DEF Clear
<1>2. DOMAIN paths' = {} /\ Len(paths') = 0 /\ Len(data') = 0 BY <1>1
<1>3. paths' \in Seq(Paths) /\ data' \in Seq(Data) BY <1>1
<1>4. path_index' \in [Codes -> SUBSET (1 .. Len(paths'))] BY <1>1
<1>5. Exact' BY <1>1, <1>2 DEF Exact
<1>6. Distinct' BY <1>2 DEF Distinct
<1> QED BY <1>2, <1>3, <1>4, <1>5, <1>6 DEF Inv, TypeOK

LEMMA StepInv == Inv /\ [Next]_vars => Inv'
<1> SUFFICES ASSUME Inv, [Next]_vars PROVE Inv' OBVIOUS
<1>1. ASSUME NEW p \in Paths, NEW d \in Data, AddExisting(p, d) PROVE Inv' BY <1>1, AddExistingInv
<1>2. ASSUME NEW p \in Paths, NEW d \in Data, AddNew(p, d) PROVE Inv' BY <1>2, AddNewInv
<1>3. ASSUME NEW p \in Paths, RemovePath(p) PROVE Inv' BY <1>3, RemovePathInv
<1>4. CASE Reload BY <1>4, ReloadInv
<1>5. CASE Clear BY <1>5, ClearInv
<1>6. CASE UNCHANGED vars BY <1>6 DEF vars, Inv, TypeOK, Exact, Distinct
<1> QED BY <1>1, <1>2, <1>3, <1>4, <1>5, <1>6 DEF Next

LEMMA InvHolds == Spec => []Inv
<1> QED BY InitInv, StepInv, PTL DEF Spec

\* The arrays stay of one length and path_index lists positions of theirs only:
\* get_path and the vectors are never read beyond their end.
THEOREM TypeCorrect == Spec => []TypeOK
<1>1. Inv => TypeOK BY DEF Inv
<1> QED BY InvHolds, <1>1, PTL

\* Whatever was added, updated, removed, saved, loaded and cleared, and whatever
\* hashes collide, find returns the position of a tracked path and only that.
THEOREM FindIsExact == Spec => []FindExact
<1>1. Inv => FindExact BY FoundIs, Zenon DEF FindExact
<1> QED BY InvHolds, <1>1, PTL

----------------------------
\* The map holds for each tracked path what the arrays hold at its position.
OfArrays ==
    /\ DOMAIN Entries = {paths[i] : i \in DOMAIN paths}
    /\ Entries = [q \in DOMAIN Entries |-> Entries[q]]
    /\ \A i \in DOMAIN paths : Entries[paths[i]] = data[i]

LEMMA EntriesAre == Inv => OfArrays
<1> SUFFICES ASSUME Inv PROVE OfArrays OBVIOUS
<1>1. ASSUME NEW i \in DOMAIN paths PROVE Entries[paths[i]] = data[i]
  <2> DEFINE c == CHOOSE j \in DOMAIN paths : paths[j] = paths[i]
  <2>1. c \in DOMAIN paths /\ paths[c] = paths[i] OBVIOUS
  <2>2. c = i BY <2>1 DEF Inv, Distinct
  <2>3. Entries[paths[i]] = data[c] BY DEF Entries
  <2> QED BY <2>2, <2>3
<1>2. /\ DOMAIN Entries = {paths[i] : i \in DOMAIN paths}
      /\ Entries = [q \in DOMAIN Entries |-> Entries[q]]
  BY DEF Entries
<1> QED BY <1>1, <1>2 DEF OfArrays

LEMMA EntriesAreNext == Inv' => OfArrays'
<1> QED BY EntriesAre, PTL

----------------------------
\* Each operation is one of the map's.
LEMMA AddExistingPuts ==
  ASSUME Inv, Inv', NEW p \in Paths, NEW d \in Data, AddExisting(p, d) PROVE Map!Put(p, d)
<1>1. PICK i \in Found(p) : data' = [data EXCEPT ![i] = d] BY DEF AddExisting
<1>2. paths' = paths BY DEF AddExisting
<1>3. i \in DOMAIN paths /\ paths[i] = p BY FoundIs
<1>4. DOMAIN data = DOMAIN paths BY Arrays DEF Inv
<1>5. DOMAIN Entries = {paths[j] : j \in DOMAIN paths} /\ DOMAIN Entries' = DOMAIN Entries
  BY <1>2, EntriesAre, EntriesAreNext DEF OfArrays
<1>6. ASSUME NEW q \in DOMAIN Entries PROVE Entries'[q] = IF q = p THEN d ELSE Entries[q]
  <2>1. PICK j \in DOMAIN paths : q = paths[j] BY <1>5
  <2>2. Entries'[q] = data'[j] /\ Entries[q] = data[j]
    BY <1>2, <2>1, EntriesAre, EntriesAreNext DEF OfArrays
  <2>3. data'[j] = IF j = i THEN d ELSE data[j] BY <1>1, <1>4
  <2>4. j = i <=> q = p BY <1>3, <2>1 DEF Inv, Distinct
  <2> QED BY <2>2, <2>3, <2>4
<1>7. DOMAIN Entries \cup {p} = DOMAIN Entries BY <1>3, <1>5
<1>8. Entries' = [q \in DOMAIN Entries' |-> Entries'[q]] BY EntriesAreNext DEF OfArrays
<1> QED BY <1>5, <1>6, <1>7, <1>8 DEF Map!Put

LEMMA AddNewPuts ==
  ASSUME Inv, Inv', NEW p \in Paths, NEW d \in Data, AddNew(p, d) PROVE Map!Put(p, d)
<1> DEFINE n == Len(paths)
<1>1. /\ Found(p) = {}
      /\ paths' = Append(paths, p) /\ data' = Append(data, d)
  BY DEF AddNew
<1>2. /\ paths \in Seq(Paths) /\ data \in Seq(Data) /\ n \in Nat /\ Len(data) = n
      /\ DOMAIN paths = 1 .. n
  BY Arrays DEF Inv, TypeOK
<1>3. /\ DOMAIN paths' = 1 .. n + 1
      /\ paths'[n + 1] = p /\ \A i \in 1 .. n : paths'[i] = paths[i]
  BY <1>1, <1>2, AppendProperties, LenProperties
<1>4. data'[n + 1] = d /\ \A i \in 1 .. n : data'[i] = data[i] BY <1>1, <1>2, AppendProperties
<1>5. DOMAIN Entries = {paths[j] : j \in 1 .. n} /\ p \notin DOMAIN Entries
  BY <1>1, <1>2, EntriesAre, FoundIs DEF OfArrays
<1>6. DOMAIN Entries' = DOMAIN Entries \cup {p}
  <2>1. DOMAIN Entries' = {paths'[j] : j \in 1 .. n + 1} BY <1>3, EntriesAreNext DEF OfArrays
  <2> QED BY <1>2, <1>3, <1>5, <2>1
<1>7. ASSUME NEW q \in DOMAIN Entries \cup {p} PROVE Entries'[q] = IF q = p THEN d ELSE Entries[q]
  <2>1. CASE q = p BY <1>2, <1>3, <1>4, <2>1, EntriesAreNext DEF OfArrays
  <2>2. CASE q # p
    <3>1. PICK j \in 1 .. n : q = paths[j] BY <1>5, <2>2
    <3>2. Entries[q] = data[j] BY <1>2, <3>1, EntriesAre DEF OfArrays
    <3>3. Entries'[q] = data'[j] BY <1>2, <1>3, <3>1, EntriesAreNext DEF OfArrays
    <3> QED BY <1>4, <2>2, <3>2, <3>3
  <2> QED BY <2>1, <2>2
<1>8. Entries' = [q \in DOMAIN Entries' |-> Entries'[q]] BY EntriesAreNext DEF OfArrays
<1> QED BY <1>6, <1>7, <1>8 DEF Map!Put

LEMMA RemovePathDeletes == ASSUME Inv, Inv', NEW p \in Paths, RemovePath(p) PROVE Map!Delete(p)
<1> DEFINE n == Len(paths)
           Up(i, j) == IF j < i THEN j ELSE j + 1
<1>1. PICK i \in Found(p) : paths' = Without(paths, i) /\ data' = Without(data, i) BY DEF RemovePath
<1>2. /\ paths \in Seq(Paths) /\ data \in Seq(Data) /\ n \in Nat /\ Len(data) = n
      /\ DOMAIN paths = 1 .. n /\ DOMAIN data = 1 .. n
  BY Arrays DEF Inv, TypeOK
<1>3. i \in 1 .. n /\ paths[i] = p BY <1>2, FoundIs
<1>4. /\ DOMAIN paths' = 1 .. n - 1
      /\ \A j \in 1 .. n - 1 : paths'[j] = paths[Up(i, j)]
  BY <1>1, <1>2, <1>3, WithoutIs
<1>5. \A j \in 1 .. n - 1 : data'[j] = data[Up(i, j)] BY <1>1, <1>2, <1>3, WithoutIs, ZenonT(60)
<1>6. \A j \in 1 .. n - 1 : Up(i, j) \in 1 .. n \ {i} BY <1>2, <1>3
<1>7. \A k \in 1 .. n \ {i} : \E j \in 1 .. n - 1 : k = Up(i, j)
  <2> SUFFICES ASSUME NEW k \in 1 .. n \ {i}
               PROVE  \E j \in 1 .. n - 1 : k = Up(i, j)
    OBVIOUS
  <2> DEFINE j == IF k < i THEN k ELSE k - 1
  <2>1. j \in 1 .. n - 1 /\ k = Up(i, j) BY <1>2, <1>3
  <2> QED BY <2>1
<1>8. DOMAIN Entries = {paths[k] : k \in 1 .. n} BY <1>2, EntriesAre DEF OfArrays
<1>9. \A k \in 1 .. n : paths[k] = p => k = i BY <1>2, <1>3 DEF Inv, Distinct
<1>10. DOMAIN Entries' = DOMAIN Entries \ {p}
  <2>1. DOMAIN Entries' = {paths'[j] : j \in 1 .. n - 1} BY <1>4, EntriesAreNext DEF OfArrays
  <2>2. ASSUME NEW q \in DOMAIN Entries' PROVE q \in DOMAIN Entries \ {p}
    <3>1. PICK j \in 1 .. n - 1 : q = paths'[j] BY <2>1
    <3> QED BY <1>4, <1>6, <1>8, <1>9, <3>1
  <2>3. ASSUME NEW q \in DOMAIN Entries \ {p} PROVE q \in DOMAIN Entries'
    <3>1. PICK k \in 1 .. n : q = paths[k] BY <1>8
    <3>2. k # i BY <1>3, <3>1
    <3>3. PICK j \in 1 .. n - 1 : k = Up(i, j) BY <1>7, <3>2
    <3> QED BY <1>4, <2>1, <3>1, <3>3
  <2> QED BY <2>2, <2>3
<1>11. ASSUME NEW q \in DOMAIN Entries \ {p} PROVE Entries'[q] = Entries[q]
  <2>1. PICK k \in 1 .. n : q = paths[k] BY <1>8
  <2>2. k # i BY <1>3, <2>1
  <2>3. PICK j \in 1 .. n - 1 : k = Up(i, j) BY <1>7, <2>2
  <2>4. paths'[j] = q /\ data'[j] = data[k] BY <1>4, <1>5, <2>1, <2>3
  <2>5. Entries'[q] = data'[j] BY <1>4, <2>4, EntriesAreNext DEF OfArrays
  <2>6. Entries[q] = data[k] BY <1>2, <2>1, EntriesAre DEF OfArrays
  <2> QED BY <2>4, <2>5, <2>6
<1>12. Entries' = [q \in DOMAIN Entries' |-> Entries'[q]] BY EntriesAreNext DEF OfArrays
<1> QED BY <1>10, <1>11, <1>12 DEF Map!Delete

\* The arrays and path_index implement the map from paths that the commands take the
\* index for: an add is a put, a remove a delete, and a reload changes nothing.
THEOREM IndexIsMap == Spec => ImplementsMap
<1>1. Init => Map!Init
  <2> SUFFICES ASSUME Init PROVE Map!Init OBVIOUS
  <2>1. DOMAIN paths = {} BY DEF Init
  <2>2. Entries = [q \in {} |-> 0] BY <2>1 DEF Entries
  <2> QED BY <2>2 DEF Map!Init
<1>2. Inv /\ Inv' /\ [Next]_vars => [Map!Next]_Entries
  <2> SUFFICES ASSUME Inv, Inv', [Next]_vars PROVE [Map!Next]_Entries OBVIOUS
  <2>1. ASSUME NEW p \in Paths, NEW d \in Data, AddExisting(p, d) PROVE Map!Next
    BY <2>1, AddExistingPuts DEF Map!Next
  <2>2. ASSUME NEW p \in Paths, NEW d \in Data, AddNew(p, d) PROVE Map!Next
    BY <2>2, AddNewPuts DEF Map!Next
  <2>3. ASSUME NEW p \in Paths, RemovePath(p) PROVE Map!Next BY <2>3, RemovePathDeletes DEF Map!Next
  <2>4. CASE Reload
    <3>1. paths' = paths /\ data' = data BY <2>4 DEF Reload
    <3> QED BY <3>1 DEF Entries
  <2>5. CASE Clear
    <3>1. paths' = <<>> BY <2>5 DEF Clear
    <3>2. DOMAIN paths' = {} BY <3>1
    <3>3. Entries' = [q \in {} |-> 0] BY <3>2 DEF Entries
    <3> QED BY <3>3 DEF Map!Next, Map!Empty
  <2>6. CASE UNCHANGED vars
    <3>1. paths' = paths /\ data' = data BY <2>6 DEF vars
    <3> QED BY <3>1 DEF Entries
  <2> QED BY <2>1, <2>2, <2>3, <2>4, <2>5, <2>6 DEF Next
<1> QED BY InvHolds, <1>1, <1>2, PTL DEF Spec, ImplementsMap, Map!Spec

----------------------------
\* Sequences, whatever they hold.

\* A sequence, of whatever.
IsSeq(s) == \E S : s \in Seq(S)

\* A sequence is a function on 1 .. n.
LEMMA SeqIs ==
  ASSUME NEW s, IsSeq(s)
  PROVE  /\ Len(s) \in Nat /\ DOMAIN s = 1 .. Len(s)
         /\ s = [i \in 1 .. Len(s) |-> s[i]]
         /\ (s = <<>> <=> Len(s) = 0)
<1>1. PICK S : s \in Seq(S) BY DEF IsSeq
<1>2. Len(s) \in Nat /\ s \in [1 .. Len(s) -> S] BY <1>1, LenProperties
<1>3. s = <<>> <=> Len(s) = 0 BY <1>1, EmptySeq
<1> QED BY <1>2, <1>3

\* A function on 1 .. n is a sequence.
LEMMA SeqMade ==
  ASSUME NEW n \in Nat, NEW s, s = [i \in 1 .. n |-> s[i]]
  PROVE  IsSeq(s) /\ Len(s) = n /\ DOMAIN s = 1 .. n
<1>1. s \in [1 .. n -> {s[i] : i \in 1 .. n}] OBVIOUS
<1>2. s \in Seq({s[i] : i \in 1 .. n}) BY <1>1, SeqDef
<1>3. DOMAIN s = 1 .. n BY <1>1
<1>4. Len(s) = n
  <2>1. Len(s) \in Nat /\ DOMAIN s = 1 .. Len(s) BY <1>2, LenProperties
  <2> QED BY <1>3, <2>1
<1>5. IsSeq(s) BY <1>2 DEF IsSeq
<1> QED BY <1>3, <1>4, <1>5

\* Sequences with the same elements are the same.
LEMMA SeqSame ==
  ASSUME NEW s, NEW t, IsSeq(s), IsSeq(t), Len(s) = Len(t),
         \A i \in 1 .. Len(s) : s[i] = t[i]
  PROVE  s = t
<1>1. s = [i \in 1 .. Len(s) |-> s[i]] /\ t = [i \in 1 .. Len(s) |-> t[i]] BY SeqIs
<1> QED BY <1>1

\* Two sequences are sequences over one set.
LEMMA SeqBoth ==
  ASSUME NEW s, NEW t, IsSeq(s), IsSeq(t) PROVE \E S : s \in Seq(S) /\ t \in Seq(S)
<1>1. PICK S : s \in Seq(S) BY DEF IsSeq
<1>2. PICK T : t \in Seq(T) BY DEF IsSeq
<1>3. s \in Seq(S \cup T) /\ t \in Seq(S \cup T) BY <1>1, <1>2, SeqMonotonic
<1> QED BY <1>3

\* The empty one.
LEMMA SeqEmpty == IsSeq(<<>>) /\ Len(<<>>) = 0
<1>1. <<>> \in Seq({}) /\ Len(<<>>) = 0 BY EmptySeq
<1> QED BY <1>1 DEF IsSeq

\* What a concatenation is.
LEMMA SeqCat ==
  ASSUME NEW s, NEW t, IsSeq(s), IsSeq(t)
  PROVE  /\ IsSeq(s \o t)
         /\ Len(s \o t) = Len(s) + Len(t)
         /\ \A i \in 1 .. Len(s) : (s \o t)[i] = s[i]
         /\ \A i \in 1 .. Len(t) : (s \o t)[Len(s) + i] = t[i]
<1>1. PICK S : s \in Seq(S) /\ t \in Seq(S) BY SeqBoth
<1>2. /\ s \o t \in Seq(S)
      /\ Len(s \o t) = Len(s) + Len(t)
      /\ \A i \in 1 .. Len(s) + Len(t) : (s \o t)[i] =
                   IF i <= Len(s) THEN s[i] ELSE t[i - Len(s)]
  BY <1>1, ConcatProperties
<1>3. Len(s) \in Nat /\ Len(t) \in Nat BY SeqIs
<1>4. ASSUME NEW i \in 1 .. Len(s) PROVE (s \o t)[i] = s[i] BY <1>2, <1>3
<1>5. ASSUME NEW i \in 1 .. Len(t) PROVE (s \o t)[Len(s) + i] = t[i]
  <2>1. Len(s) + i \in 1 .. Len(s) + Len(t) /\ ~(Len(s) + i <= Len(s)) /\ Len(s) + i - Len(s) = i
    BY <1>3
  <2> QED BY <1>2, <2>1
<1>6. IsSeq(s \o t) BY <1>2 DEF IsSeq
<1> QED BY <1>2, <1>4, <1>5, <1>6

\* What Append returns.
LEMMA SeqAppend ==
  ASSUME NEW s, NEW e, IsSeq(s)
  PROVE  /\ IsSeq(Append(s, e))
         /\ Len(Append(s, e)) = Len(s) + 1
         /\ \A i \in 1 .. Len(s) : Append(s, e)[i] = s[i]
         /\ Append(s, e)[Len(s) + 1] = e
<1>1. PICK S : s \in Seq(S) BY DEF IsSeq
<1>2. s \in Seq(S \cup {e}) /\ e \in S \cup {e} BY <1>1, SeqMonotonic
<1>3. /\ Append(s, e) \in Seq(S \cup {e})
      /\ Len(Append(s, e)) = Len(s) + 1
      /\ \A i \in 1 .. Len(s) : Append(s, e)[i] = s[i]
      /\ Append(s, e)[Len(s) + 1] = e
  BY <1>2, AppendProperties
<1> QED BY <1>3 DEF IsSeq

\* What SubSeq returns.
LEMMA SeqSub ==
  ASSUME NEW s, NEW m \in Int, NEW n \in Int
  PROVE  /\ IsSeq(SubSeq(s, m, n))
         /\ Len(SubSeq(s, m, n)) = IF m <= n THEN n - m + 1 ELSE 0
         /\ \A i \in 1 .. n - m + 1 : SubSeq(s, m, n)[i] = s[m + i - 1]
<1> DEFINE S == {s[i] : i \in m .. n}
<1>1. \A i \in m .. n : s[i] \in S OBVIOUS
<1> HIDE DEF S
<1>2. /\ SubSeq(s, m, n) \in Seq(S)
      /\ Len(SubSeq(s, m, n)) = IF m <= n THEN n - m + 1 ELSE 0
      /\ \A i \in 1 .. n - m + 1 : SubSeq(s, m, n)[i] = s[m + i - 1]
  BY <1>1, SubSeqProperties
<1> QED BY <1>2 DEF IsSeq

\* What a part of an array is: len elements after the first start.
LEMMA SliceIs ==
  ASSUME NEW s, NEW a \in Nat, NEW n \in Nat
  PROVE  /\ IsSeq(Slice(s, a, n))
         /\ Len(Slice(s, a, n)) = n
         /\ \A i \in 1 .. n : Slice(s, a, n)[i] = s[a + i]
<1>1. /\ IsSeq(Slice(s, a, n))
      /\ Len(Slice(s, a, n)) = IF a + 1 <= a + n THEN (a + n) - (a + 1) + 1 ELSE 0
      /\ \A i \in 1 .. (a + n) - (a + 1) + 1 : Slice(s, a, n)[i] = s[(a + 1) + i - 1]
  <2> a + 1 \in Int /\ a + n \in Int OBVIOUS
  <2> QED BY SeqSub DEF Slice
<1>2. (a + n) - (a + 1) + 1 = n /\ (\A i \in 1 .. n : (a + 1) + i - 1 = a + i) OBVIOUS
<1>3. Len(Slice(s, a, n)) = n BY <1>1
<1> QED BY <1>1, <1>2, <1>3

\* A part of an array with the elements of t is t.
LEMMA SliceSame ==
  ASSUME NEW s, NEW a \in Nat, NEW n \in Nat, NEW t, IsSeq(t), Len(t) = n,
         \A i \in 1 .. n : s[a + i] = t[i]
  PROVE  Slice(s, a, n) = t
<1>1. IsSeq(Slice(s, a, n)) /\ Len(Slice(s, a, n)) = n BY SliceIs
<1>2. \A i \in 1 .. n : Slice(s, a, n)[i] = s[a + i] BY SliceIs
<1>3. \A i \in 1 .. n : Slice(s, a, n)[i] = t[i] BY <1>2
<1> HIDE DEF Slice
<1> QED BY <1>1, <1>3, SeqSame

\* A slice that a longer sequence still has.
LEMMA SliceKept ==
  ASSUME NEW s, NEW t, IsSeq(s), IsSeq(t),
         NEW a \in Nat, NEW n \in Nat, a + n <= Len(s)
  PROVE  Slice(s \o t, a, n) = Slice(s, a, n)
<1>1. Len(s) \in Nat BY SeqIs
<1>2. \A i \in 1 .. n : (s \o t)[a + i] = s[a + i]
  <2> TAKE i \in 1 .. n
  <2>1. a + i \in 1 .. Len(s) BY <1>1
  <2> QED BY <2>1, SeqCat
<1>3. IsSeq(Slice(s, a, n)) /\ Len(Slice(s, a, n)) = n BY SliceIs
<1>4. \A i \in 1 .. n : Slice(s, a, n)[i] = s[a + i] BY SliceIs
<1>5. \A i \in 1 .. n : (s \o t)[a + i] = Slice(s, a, n)[i] BY <1>2, <1>4
<1> QED BY <1>3, <1>5, SliceSame, ZenonT(30)

\* The slice that was added.
LEMMA SliceAdded ==
  ASSUME NEW s, NEW t, NEW u, IsSeq(s), IsSeq(t), IsSeq(u)
  PROVE  Slice(s \o t \o u, Len(s), Len(t)) = t
<1>1. Len(s) \in Nat /\ Len(t) \in Nat BY SeqIs
<1>2. IsSeq(s \o t) /\ Len(s \o t) = Len(s) + Len(t) BY SeqCat
<1>3. \A i \in 1 .. Len(t) : (s \o t \o u)[Len(s) + i] = t[i]
  <2> TAKE i \in 1 .. Len(t)
  <2>1. Len(s) + i \in 1 .. Len(s \o t) BY <1>1, <1>2
  <2>2. (s \o t \o u)[Len(s) + i] = (s \o t)[Len(s) + i] BY <1>2, <2>1, SeqCat
  <2> QED BY <2>2, SeqCat
<1> QED BY <1>1, <1>3, SliceSame, Zenon

\* What was added last is the last part.
LEMMA SliceEnd ==
  ASSUME NEW s, NEW t, IsSeq(s), IsSeq(t) PROVE Slice(s \o t, Len(s), Len(t)) = t
<1>1. Len(s) \in Nat /\ Len(t) \in Nat BY SeqIs
<1>3. \A i \in 1 .. Len(t) : (s \o t)[Len(s) + i] = t[i] BY SeqCat
<1> QED BY <1>1, <1>3, SliceSame, Zenon

\* Concatenation is associative.
LEMMA CatAssoc ==
  ASSUME NEW s, NEW t, NEW u, IsSeq(s), IsSeq(t), IsSeq(u)
  PROVE  (s \o t) \o u = s \o (t \o u)
<1>1. PICK S : s \in Seq(S) /\ t \in Seq(S) BY SeqBoth
<1>2. PICK T : u \in Seq(T) BY DEF IsSeq
<1>3. s \in Seq(S \cup T) /\ t \in Seq(S \cup T) /\ u \in Seq(S \cup T) BY <1>1, <1>2, SeqMonotonic
<1> QED BY <1>3, ConcatAssociative

\* The empty sequence adds nothing.
LEMMA CatEmpty == ASSUME NEW s, IsSeq(s) PROVE s \o <<>> = s /\ <<>> \o s = s
<1>1. PICK S : s \in Seq(S) BY DEF IsSeq
<1> QED BY <1>1, ConcatEmptySeq

----------------------------
\* The recursive functions are defined: sums of lengths, and concatenations.

SumBody(s, f, n) == IF n = 0 THEN 0 ELSE f[n - 1] + s[n]
SumR == INSTANCE Recursion WITH Body <- SumBody

\* A set of numbers has a least.
LEMMA Least == ASSUME NEW S \in SUBSET Nat, S # {} PROVE \E m \in S : \A k \in S : m <= k
<1> DEFINE R == OpToRel(<, Nat)
<1>1. IsWellFoundedOn(R, Nat) BY NatLessThanWellFounded
<1>2. \A x, y \in Nat : x < y => <<x, y>> \in R BY DEF OpToRel
<1> HIDE DEF R
<1>3. PICK m \in S : \A k \in S : ~ (<<k, m>> \in R) BY <1>1, WFMin, Zenon
<1>4. \A k \in S : ~ (k < m) BY <1>2, <1>3
<1> QED BY <1>4

\* Induction over a set of numbers.
LEMMA Counting ==
  ASSUME NEW S, 0 \in S, \A n \in Nat : n \in S => n + 1 \in S PROVE \A n \in Nat : n \in S
<1> SUFFICES ASSUME NEW n \in Nat, n \notin S PROVE FALSE OBVIOUS
<1> DEFINE N == Nat \ S
<1>1. PICK m \in N : \A k \in N : m <= k
  <2> n \in N /\ N \in SUBSET Nat OBVIOUS
  <2> HIDE DEF N
  <2> QED BY Least
<1>2. m # 0 OBVIOUS
<1>3. m - 1 \in Nat /\ m - 1 \in S BY <1>1, <1>2
<1> QED BY <1>1, <1>3

\* Sums is its recursion.
LEMMA SumsIs ==
  ASSUME NEW s
  PROVE  /\ Sums(s)[0] = 0
         /\ \A n \in Nat : Sums(s)[n + 1] = Sums(s)[n] + s[n + 1]
<1>1. Sums(s) = SumR!Rec(s, Nat) BY DEF Sums, SumR!Rec, SumBody
<1> DEFINE size == [n \in Nat |-> n]
<1>2. \A n \in Nat : size[n] \in Nat OBVIOUS
<1>3. \A f, g : \A n \in Nat :
        (\A m \in Nat : size[m] < size[n] => f[m] = g[m]) => SumBody(s, f, n) = SumBody(s, g, n)
  BY DEF SumBody
<1> HIDE DEF size
<1>4. SumR!Rec(s, Nat) = [n \in Nat |-> SumBody(s, SumR!Rec(s, Nat), n)]
  BY <1>2, <1>3, Counting, SumR!Defined
<1>5. Sums(s) = [n \in Nat |-> IF n = 0 THEN 0 ELSE Sums(s)[n - 1] + s[n]] BY <1>1, <1>4 DEF SumBody
<1>6. Sums(s)[0] = 0 BY <1>5
<1>7. ASSUME NEW n \in Nat PROVE Sums(s)[n + 1] = Sums(s)[n] + s[n + 1]
  <2>1. n + 1 \in Nat /\ n + 1 # 0 /\ (n + 1) - 1 = n OBVIOUS
  <2>2. Sums(s)[n + 1] = Sums(s)[(n + 1) - 1] + s[n + 1] BY <1>5, <2>1
  <2> QED BY <2>1, <2>2
<1> QED BY <1>6, <1>7

\* Sums of numbers are numbers, and grow.
LEMMA SumsNat ==
  ASSUME NEW s, NEW n \in Nat, \A i \in 1 .. n : s[i] \in Nat
  PROVE  /\ \A i \in 0 .. n : Sums(s)[i] \in Nat
         /\ \A i \in 0 .. n : Sums(s)[i] <= Sums(s)[n]
<1> DEFINE A == {i \in Nat : i <= n => Sums(s)[i] \in Nat}
<1>1. 0 \in A BY SumsIs
<1>2. ASSUME NEW i \in Nat, i \in A PROVE i + 1 \in A
  <2>1. Sums(s)[i + 1] = Sums(s)[i] + s[i + 1] BY SumsIs
  <2> QED BY <1>2, <2>1
<1>3. \A i \in Nat : i \in A
  <2> HIDE DEF A
  <2> QED BY <1>1, <1>2, Counting
<1>4. \A i \in 0 .. n : Sums(s)[i] \in Nat BY <1>3
<1> DEFINE B == {k \in Nat : k <= n => Sums(s)[n - k] <= Sums(s)[n]}
<1>5. 0 \in B BY <1>4
<1>6. ASSUME NEW k \in Nat, k \in B PROVE k + 1 \in B
  <2> SUFFICES ASSUME k + 1 <= n PROVE Sums(s)[n - (k + 1)] <= Sums(s)[n] OBVIOUS
  <2>1. n - (k + 1) \in Nat /\ n - (k + 1) + 1 = n - k /\ n - k \in 1 .. n OBVIOUS
  <2>2. Sums(s)[n - k] = Sums(s)[n - (k + 1)] + s[n - k] BY <2>1, SumsIs
  <2>3. Sums(s)[n - (k + 1)] \in Nat /\ Sums(s)[n - k] \in Nat /\ Sums(s)[n] \in Nat /\ s[n - k] \in Nat
    BY <1>4, <2>1
  <2>4. Sums(s)[n - k] <= Sums(s)[n] BY <1>6
  <2> QED BY <2>2, <2>3, <2>4
<1>7. \A k \in Nat : k \in B
  <2> HIDE DEF B
  <2> QED BY <1>5, <1>6, Counting
<1>8. ASSUME NEW i \in 0 .. n PROVE Sums(s)[i] <= Sums(s)[n]
  <2>1. n - i \in Nat /\ n - i <= n /\ n - (n - i) = i OBVIOUS
  <2> QED BY <1>7, <2>1
<1> QED BY <1>4, <1>8

\* A sum of n numbers depends on these.
LEMMA SumsSame ==
  ASSUME NEW s, NEW t, NEW n \in Nat, \A i \in 1 .. n : s[i] = t[i]
  PROVE  Sums(s)[n] = Sums(t)[n]
<1> DEFINE A == {i \in Nat : i <= n => Sums(s)[i] = Sums(t)[i]}
<1>1. 0 \in A BY SumsIs
<1>2. ASSUME NEW i \in Nat, i \in A PROVE i + 1 \in A
  <2>1. Sums(s)[i + 1] = Sums(s)[i] + s[i + 1] /\ Sums(t)[i + 1] = Sums(t)[i] + t[i + 1] BY SumsIs
  <2> QED BY <1>2, <2>1
<1>3. \A i \in Nat : i \in A
  <2> HIDE DEF A
  <2> QED BY <1>1, <1>2, Counting
<1> QED BY <1>3

\* The first of the numbers left out.
LEMMA SumsFirst ==
  ASSUME NEW s, NEW t, NEW n \in Nat, \A i \in 1 .. n + 1 : s[i] \in Nat,
         \A i \in 1 .. n : t[i] = s[i + 1]
  PROVE  Sums(s)[n + 1] = s[1] + Sums(t)[n]
<1> DEFINE A == {i \in Nat : i <= n => Sums(s)[i + 1] = s[1] + Sums(t)[i]}
<1>1. 0 \in A
  <2>1. Sums(s)[0 + 1] = Sums(s)[0] + s[0 + 1] BY SumsIs
  <2>2. s[1] \in Nat OBVIOUS
  <2> QED BY <2>1, <2>2, SumsIs
<1>2. ASSUME NEW i \in Nat, i \in A PROVE i + 1 \in A
  <2> SUFFICES ASSUME i + 1 <= n PROVE Sums(s)[(i + 1) + 1] = s[1] + Sums(t)[i + 1] OBVIOUS
  <2>1. Sums(s)[(i + 1) + 1] = Sums(s)[i + 1] + s[(i + 1) + 1] /\ Sums(t)[i + 1] = Sums(t)[i] + t[i + 1]
    BY SumsIs
  <2>2. t[i + 1] = s[(i + 1) + 1] /\ t[i + 1] \in Nat /\ s[1] \in Nat OBVIOUS
  <2>3. Sums(t)[i] \in Nat
    <3>1. \A j \in 1 .. n : t[j] \in Nat OBVIOUS
    <3> QED BY <3>1, SumsNat
  <2> QED BY <1>2, <2>1, <2>2, <2>3
<1>3. \A i \in Nat : i \in A
  <2> HIDE DEF A
  <2> QED BY <1>1, <1>2, Counting
<1> QED BY <1>3

\* The sum of one.
LEMMA SumsOne == ASSUME NEW s, s[1] \in Nat PROVE Sums(s)[1] = s[1]
<1>1. Sums(s)[0 + 1] = Sums(s)[0] + s[0 + 1] /\ Sums(s)[0] = 0 BY SumsIs
<1> QED BY <1>1

\* g has m elements and the rest is t: f, and then t.
Grown(f, t, g, m, n) ==
    /\ IsSeq(g)
    /\ Len(g) = n
    /\ \A k \in 1 .. m : g[k] = f[k]
    /\ \A k \in 1 .. Len(t) : g[m + k] = t[k]

\* Grown holds of a concatenation.
LEMMA CatIs ==
  ASSUME NEW f, NEW t, NEW g, NEW m, NEW n, IsSeq(f), IsSeq(t), Len(f) = m, n = m + Len(t),
         g = f \o t
  PROVE  Grown(f, t, g, m, n)
  BY SeqCat DEF Grown

FlatBody(ss, f, i) == IF i = 1 THEN ss[i] ELSE f[i - 1] \o ss[i]
FlatR == INSTANCE Recursion WITH Body <- FlatBody

\* FlattenSeq puts each of the strings where the lengths before it end.
LEMMA FlattenIs ==
  ASSUME NEW ss, IsSeq(ss), \A j \in 1 .. Len(ss) : IsSeq(ss[j])
  PROVE  /\ IsSeq(FlattenSeq(ss))
         /\ Len(FlattenSeq(ss)) = Sums(Lens(ss))[Len(ss)]
         /\ \A j \in 1 .. Len(ss) : \A k \in 1 .. Len(ss[j]) :
              FlattenSeq(ss)[Sums(Lens(ss))[j - 1] + k] = ss[j][k]
<1> DEFINE n == Len(ss)
           F == FlatR!Rec(ss, 1 .. n)
           sum == Sums(Lens(ss))
<1>0. n \in Nat /\ DOMAIN ss = 1 .. n BY SeqIs
<1>1. FlattenSeq(ss) = IF n = 0 THEN ss ELSE F[n] BY DEF FlattenSeq, FlatR!Rec, FlatBody
<1>2. \A j \in 1 .. n : Lens(ss)[j] = Len(ss[j]) /\ Lens(ss)[j] \in Nat BY <1>0, SeqIs DEF Lens
<1>3. sum[0] = 0 /\ \A i \in Nat : sum[i + 1] = sum[i] + Lens(ss)[i + 1] BY SumsIs
<1>4. F = [i \in 1 .. n |-> FlatBody(ss, F, i)]
  <2> DEFINE size == [i \in 1 .. n |-> i]
  <2>1. \A i \in 1 .. n : size[i] \in Nat BY <1>0
  <2>2. \A f, g : \A i \in 1 .. n :
          (\A m \in 1 .. n : size[m] < size[i] => f[m] = g[m]) => FlatBody(ss, f, i) = FlatBody(ss, g, i)
    BY <1>0 DEF FlatBody
  <2> HIDE DEF size
  <2> QED BY <2>1, <2>2, Counting, FlatR!Defined
<1>5. \A i \in 0 .. n : sum[i] \in Nat BY <1>0, <1>2, SumsNat
<1> DEFINE Good(i) ==
      /\ IsSeq(F[i]) /\ Len(F[i]) = sum[i]
      /\ \A j \in 1 .. i : \A k \in 1 .. Len(ss[j]) : F[i][sum[j - 1] + k] = ss[j][k]
<1> HIDE DEF F, sum, n
<1> DEFINE A == {i \in Nat : i \in 1 .. n => Good(i)}
<1>6. 0 \in A BY <1>0
<1>7. ASSUME NEW i \in Nat, i \in A PROVE i + 1 \in A
  <2> SUFFICES ASSUME i + 1 \in 1 .. n PROVE Good(i + 1) OBVIOUS
  <2>1. CASE i = 0
    <3>1. F[1] = ss[1] /\ IsSeq(ss[1]) /\ 1 \in 1 .. n BY <1>0, <1>4, <2>1 DEF FlatBody, n
    <3>2. sum[0] = 0 /\ sum[1] = Len(ss[1]) /\ Len(ss[1]) \in Nat
      <4>2. Lens(ss)[1] = Len(ss[1]) /\ Len(ss[1]) \in Nat BY <1>2, <3>1
      <4>3. sum[1] = Lens(ss)[1] BY <4>2, SumsOne DEF sum
      <4> QED BY <1>3, <4>2, <4>3
    <3>3. IsSeq(F[1]) /\ Len(F[1]) = sum[1] BY <3>1, <3>2
    <3>4. ASSUME NEW j \in 1 .. 1, NEW k \in 1 .. Len(ss[j]) PROVE F[1][sum[j - 1] + k] = ss[j][k]
      <4>1. j = 1 /\ j - 1 = 0 OBVIOUS
      <4>2. sum[j - 1] + k = k BY <3>2, <4>1
      <4> QED BY <3>1, <4>1, <4>2
    <3> QED BY <2>1, <3>3, <3>4
  <2>2. CASE i # 0
    <3>1. i \in 1 .. n /\ i + 1 # 1 /\ (i + 1) - 1 = i BY <1>0, <2>2
    <3>2. F[i + 1] = F[i] \o ss[i + 1] BY <1>4, <3>1 DEF FlatBody
    <3>3. Good(i) /\ IsSeq(ss[i + 1]) BY <1>7, <3>1 DEF n
    <3>4. sum[i + 1] = sum[i] + Len(ss[i + 1]) /\ sum[i] \in Nat BY <1>2, <1>3, <1>5, <3>1
    <3>5. /\ IsSeq(F[i + 1])
          /\ Len(F[i + 1]) = sum[i + 1]
          /\ \A k \in 1 .. sum[i] : F[i + 1][k] = F[i][k]
          /\ \A k \in 1 .. Len(ss[i + 1]) : F[i + 1][sum[i] + k] = ss[i + 1][k]
      <4>1. IsSeq(F[i]) /\ Len(F[i]) = sum[i] BY <3>3
      <4>2. IsSeq(F[i]) /\ IsSeq(ss[i + 1]) BY <3>3
      <4>3. Grown(F[i], ss[i + 1], F[i + 1], sum[i], sum[i + 1])
        BY <3>2, <3>4, <4>1, <4>2, CatIs, Zenon
      <4> QED BY <4>3, Zenon DEF Grown
    <3>6. ASSUME NEW j \in 1 .. i + 1, NEW k \in 1 .. Len(ss[j])
          PROVE F[i + 1][sum[j - 1] + k] = ss[j][k]
      <4>1. CASE j = i + 1 BY <3>1, <3>5, <4>1
      <4>2. CASE j # i + 1
        <5>1. j \in 1 .. i /\ j \in 1 .. n /\ j - 1 \in Nat /\ (j - 1) + 1 = j /\ j - 1 \in 0 .. n /\ j \in 0 .. i
          BY <1>0, <3>1, <4>2
        <5>2. sum[j] = sum[j - 1] + Len(ss[j]) /\ sum[j - 1] \in Nat /\ Len(ss[j]) \in Nat
          <6>1. sum[(j - 1) + 1] = sum[j - 1] + Lens(ss)[(j - 1) + 1] BY <1>3, <5>1
          <6> QED BY <1>2, <1>5, <5>1, <6>1
        <5>3. sum[j] <= sum[i]
          <6>1. \A l \in 1 .. i : Lens(ss)[l] \in Nat BY <1>2, <3>1, <1>0
          <6> QED BY <5>1, <6>1, SumsNat DEF sum
        <5>4. sum[j - 1] + k \in 1 .. sum[i] BY <5>2, <5>3, <3>4
        <5> QED BY <3>3, <3>5, <5>1, <5>4
      <4> QED BY <4>1, <4>2
    <3> QED BY <3>5, <3>6
  <2> QED BY <2>1, <2>2
<1>8. \A i \in Nat : i \in A
  <2> HIDE DEF A
  <2> QED BY <1>6, <1>7, Counting
<1>9. CASE n = 0
  <2>1. FlattenSeq(ss) = <<>> BY <1>1, <1>9, SeqIs DEF n
  <2>2. sum[n] = 0 BY <1>3, <1>9
  <2> QED BY <1>9, <2>1, <2>2, SeqEmpty DEF n, sum
<1>10. CASE n # 0
  <2>1. n \in 1 .. n /\ n \in A BY <1>0, <1>8, <1>10
  <2>2. Good(n) BY <2>1
  <2> QED BY <1>1, <1>10, <2>2 DEF n, sum
<1> QED BY <1>9, <1>10

----------------------------
\* Arenas: objects of a kind share arrays, each with its part of them.

\* Each start and length is a part of the array.
Spans(start, len, all) ==
    /\ IsSeq(start) /\ IsSeq(len) /\ IsSeq(all)
    /\ Len(len) = Len(start)
    /\ \A i \in 1 .. Len(start) :
          start[i] \in Nat /\ len[i] \in Nat /\ start[i] + len[i] <= Len(all)

\* One more of both, and the array longer by it.
OneMore(start, len, all, new, st, ln, al, n) ==
    /\ Spans(st, ln, al)
    /\ st[n + 1] = Len(all) /\ ln[n + 1] = Len(new)
    /\ n \in Nat /\ Len(st) = n + 1
    /\ \A i \in 1 .. n : st[i] = start[i] /\ ln[i] = len[i]

\* An object pushed behind the others is where its start and length say, and no other
\* moves.
LEMMA SpanAdded ==
  ASSUME NEW start, NEW len, NEW all, Spans(start, len, all), NEW new, IsSeq(new),
         NEW n, n = Len(start)
  PROVE  OneMore(start, len, all, new, Append(start, Len(all)), Append(len, Len(new)),
                 all \o new, n)
<1> DEFINE st == Append(start, Len(all))
           ln == Append(len, Len(new))
           al == all \o new
<1>1. IsSeq(start) /\ IsSeq(len) /\ IsSeq(all) /\ Len(len) = n BY DEF Spans
<1>2. Len(all) \in Nat /\ Len(new) \in Nat /\ n \in Nat BY <1>1, SeqIs
<1>3. IsSeq(st) /\ Len(st) = n + 1 /\ st[n + 1] = Len(all) /\ \A i \in 1 .. n : st[i] = start[i]
  BY <1>1, SeqAppend
<1>4. IsSeq(ln) /\ Len(ln) = n + 1 /\ ln[n + 1] = Len(new) /\ \A i \in 1 .. n : ln[i] = len[i]
  BY <1>1, SeqAppend
<1>5. IsSeq(al) /\ Len(al) = Len(all) + Len(new) BY <1>1, SeqCat
<1> HIDE DEF st, ln, al
<1>6. ASSUME NEW i \in 1 .. n + 1 PROVE st[i] \in Nat /\ ln[i] \in Nat /\ st[i] + ln[i] <= Len(al)
  <2>1. CASE i = n + 1 BY <1>2, <1>3, <1>4, <1>5, <2>1
  <2>2. CASE i # n + 1
    <3>1. i \in 1 .. n BY <1>2, <2>2
    <3>2. start[i] \in Nat /\ len[i] \in Nat /\ start[i] + len[i] <= Len(all) BY <3>1 DEF Spans
    <3>3. st[i] = start[i] /\ ln[i] = len[i] BY <1>3, <1>4, <3>1
    <3> QED BY <1>2, <1>5, <3>2, <3>3
  <2> QED BY <2>1, <2>2
<1>7. Spans(st, ln, al) BY <1>3, <1>4, <1>5, <1>6 DEF Spans
<1>8. OneMore(start, len, all, new, st, ln, al, n) BY <1>2, <1>3, <1>4, <1>7 DEF OneMore
<1> QED BY <1>8 DEF st, ln, al

\* A longer array, and more starts and lengths within it.
More(start, len, start2, len2, st, ln, al, n, m) ==
    /\ Spans(st, ln, al)
    /\ n \in Nat /\ m \in Nat /\ Len(st) = n + m
    /\ \A i \in 1 .. n : st[i] = start[i] /\ ln[i] = len[i]
    /\ \A i \in 1 .. m : st[n + i] = start2[i] /\ ln[n + i] = len2[i]

\* The same of the names of a tree, which are pushed together.
LEMMA SpansCat ==
  ASSUME NEW start, NEW len, NEW all, Spans(start, len, all), NEW new, IsSeq(new),
         NEW start2, NEW len2, Spans(start2, len2, all \o new)
  PROVE  More(start, len, start2, len2, start \o start2, len \o len2, all \o new,
              Len(start), Len(start2))
<1> DEFINE st == start \o start2
           ln == len \o len2
           al == all \o new
           n == Len(start)
           m == Len(start2)
<1>1. /\ IsSeq(start) /\ IsSeq(len) /\ IsSeq(all) /\ Len(len) = n
      /\ IsSeq(start2) /\ IsSeq(len2) /\ Len(len2) = m
  BY DEF Spans
<1>2. Len(all) \in Nat /\ Len(new) \in Nat /\ n \in Nat /\ m \in Nat BY <1>1, SeqIs
<1>3. /\ IsSeq(st) /\ Len(st) = n + m
      /\ \A i \in 1 .. n : st[i] = start[i]
      /\ \A i \in 1 .. m : st[n + i] = start2[i]
  BY <1>1, SeqCat
<1>4. /\ IsSeq(ln) /\ Len(ln) = n + m
      /\ \A i \in 1 .. n : ln[i] = len[i]
      /\ \A i \in 1 .. m : ln[n + i] = len2[i]
  <2>1. /\ IsSeq(ln) /\ Len(ln) = Len(len) + Len(len2)
        /\ \A i \in 1 .. Len(len) : ln[i] = len[i]
        /\ \A i \in 1 .. Len(len2) : ln[Len(len) + i] = len2[i]
    BY <1>1, SeqCat
  <2> HIDE DEF ln
  <2> QED BY <1>1, <2>1
<1>5. IsSeq(al) /\ Len(al) = Len(all) + Len(new) BY <1>1, SeqCat
<1>6. \A i \in 1 .. n : start[i] \in Nat /\ len[i] \in Nat /\ start[i] + len[i] <= Len(all)
  BY DEF Spans
<1>7. \A i \in 1 .. m : start2[i] \in Nat /\ len2[i] \in Nat /\ start2[i] + len2[i] <= Len(al)
  BY DEF Spans
<1> HIDE DEF st, ln, al, n, m
<1>8. ASSUME NEW i \in 1 .. n + m PROVE st[i] \in Nat /\ ln[i] \in Nat /\ st[i] + ln[i] <= Len(al)
  <2>1. CASE i \in 1 .. n
    <3>1. start[i] \in Nat /\ len[i] \in Nat /\ start[i] + len[i] <= Len(all) BY <1>6, <2>1
    <3>2. st[i] = start[i] /\ ln[i] = len[i] BY <1>3, <1>4, <2>1
    <3> QED BY <1>2, <1>5, <3>1, <3>2
  <2>2. CASE i \notin 1 .. n
    <3>1. i - n \in 1 .. m /\ n + (i - n) = i BY <1>2, <2>2
    <3>2. st[n + (i - n)] = start2[i - n] /\ ln[n + (i - n)] = len2[i - n] BY <1>3, <1>4, <3>1
    <3>3. start2[i - n] \in Nat /\ len2[i - n] \in Nat /\ start2[i - n] + len2[i - n] <= Len(al)
      BY <1>7, <3>1
    <3> QED BY <3>1, <3>2, <3>3
  <2> QED BY <2>1, <2>2
<1>9. Spans(st, ln, al) BY <1>3, <1>4, <1>5, <1>8 DEF Spans
<1>10. More(start, len, start2, len2, st, ln, al, n, m) BY <1>2, <1>3, <1>4, <1>9 DEF More
<1> QED BY <1>10 DEF st, ln, al, n, m

----------------------------
BlobsOk(s) == Spans(s.start, s.len, s.data)

\* A blob that is pushed gets the next id, and the others keep theirs.
LEMMA BlobPushed ==
  ASSUME NEW s, BlobsOk(s), NEW bytes, IsSeq(bytes), NEW t, t = PushBlob(s, bytes),
         NEW n, n = Len(s.start)
  PROVE  /\ BlobsOk(t) /\ n \in Nat /\ Len(t.start) = n + 1
         /\ \A id \in 1 .. n : BlobAt(t, id) = BlobAt(s, id)
         /\ BlobAt(t, n + 1) = bytes
<1>1. /\ t.start = Append(s.start, Len(s.data)) /\ t.len = Append(s.len, Len(bytes))
      /\ t.data = s.data \o bytes
  BY DEF PushBlob
<1>2. /\ Spans(t.start, t.len, t.data)
      /\ t.start[n + 1] = Len(s.data) /\ t.len[n + 1] = Len(bytes)
      /\ n \in Nat /\ Len(t.start) = n + 1
      /\ \A i \in 1 .. n : t.start[i] = s.start[i] /\ t.len[i] = s.len[i]
  <2>1. Spans(s.start, s.len, s.data) BY DEF BlobsOk
  <2>2. OneMore(s.start, s.len, s.data, bytes, t.start, t.len, t.data, n)
    BY <1>1, <2>1, SpanAdded, ZenonT(60)
  <2> QED BY <2>2, Zenon DEF OneMore
<1>3. IsSeq(s.data) BY DEF BlobsOk, Spans
<1>4. ASSUME NEW id \in 1 .. n PROVE BlobAt(t, id) = BlobAt(s, id)
  <2>1. s.start[id] \in Nat /\ s.len[id] \in Nat /\ s.start[id] + s.len[id] <= Len(s.data)
    BY DEF BlobsOk, Spans
  <2>2. Slice(s.data \o bytes, s.start[id], s.len[id]) = Slice(s.data, s.start[id], s.len[id])
    BY <1>3, <2>1, SliceKept
  <2>3. t.start[id] = s.start[id] /\ t.len[id] = s.len[id] /\ t.data = s.data \o bytes BY <1>1, <1>2
  <2> QED BY <2>2, <2>3, Zenon DEF BlobAt
<1>5. BlobAt(t, n + 1) = bytes
  <2>1. Slice(s.data \o bytes, Len(s.data), Len(bytes)) = bytes BY <1>3, SliceEnd
  <2>2. t.start[n + 1] = Len(s.data) /\ t.len[n + 1] = Len(bytes) /\ t.data = s.data \o bytes
    BY <1>1, <1>2
  <2> QED BY <2>1, <2>2, Zenon DEF BlobAt
<1> QED BY <1>2, <1>4, <1>5 DEF BlobsOk

\* The strings, one after the other behind what is there.
Laid(ss, blob, off, ln, all) ==
    /\ Spans(off, ln, all) /\ Len(off) = Len(ss) /\ Len(ss) \in Nat
    /\ \A j \in 1 .. Len(ss) : Slice(all, off[j], ln[j]) = ss[j]
    /\ \A j \in 1 .. Len(ss) : off[j] + ln[j] = IF j = Len(ss) THEN Len(all) ELSE off[j + 1]

\* Offsets and lengths are those of the strings when they are written one after the other.
LEMMA StringsLaid ==
  ASSUME NEW ss, IsSeq(ss), \A j \in 1 .. Len(ss) : IsSeq(ss[j]), NEW blob, IsSeq(blob)
  PROVE  Laid(ss, blob, Offsets(ss, Len(blob)), Lens(ss), blob \o FlattenSeq(ss))
<1> DEFINE off == Offsets(ss, Len(blob))
           ln == Lens(ss)
           sum == Sums(ln)
           flat == FlattenSeq(ss)
           all == blob \o flat
           n == Len(ss)
           b == Len(blob)
<1>1. n \in Nat /\ b \in Nat /\ DOMAIN ss = 1 .. n BY SeqIs
<1>2. off = [j \in 1 .. n |-> b + sum[j - 1]] /\ ln = [j \in 1 .. n |-> Len(ss[j])]
  BY <1>1 DEF Offsets, Lens
<1>3. IsSeq(off) /\ Len(off) = n
  <2>1. off = [j \in 1 .. n |-> off[j]] BY <1>2
  <2> HIDE DEF off, n
  <2> QED BY <1>1, <2>1, SeqMade
<1>4. IsSeq(ln) /\ Len(ln) = n
  <2>1. ln = [j \in 1 .. n |-> ln[j]] BY <1>2
  <2> HIDE DEF ln, n
  <2> QED BY <1>1, <2>1, SeqMade
<1>5. \A j \in 1 .. n : ln[j] = Len(ss[j]) /\ ln[j] \in Nat BY <1>2, SeqIs
<1>6. \A j \in 1 .. n : off[j] = b + sum[j - 1] BY <1>2
<1>7. IsSeq(flat) /\ Len(flat) = sum[n] /\ \A j \in 1 .. n : \A k \in 1 .. Len(ss[j]) : flat[sum[j - 1] + k] = ss[j][k]
  BY FlattenIs
<1>8. IsSeq(all) /\ Len(all) = b + Len(flat) /\ \A k \in 1 .. Len(flat) : all[b + k] = flat[k]
  BY <1>7, SeqCat, SMTT(30)
<1>9. \A j \in 0 .. n : sum[j] \in Nat /\ sum[j] <= sum[n] BY <1>1, <1>5, SumsNat
<1>10. \A j \in 1 .. n : sum[j] = sum[j - 1] + ln[j]
  <2> TAKE j \in 1 .. n
  <2>1. j - 1 \in Nat /\ (j - 1) + 1 = j BY <1>1
  <2>2. sum[(j - 1) + 1] = sum[j - 1] + ln[(j - 1) + 1] BY <2>1, SumsIs
  <2> QED BY <2>1, <2>2
<1> HIDE DEF off, ln, sum, flat, all, n, b
<1>11. ASSUME NEW j \in 1 .. n
       PROVE  /\ off[j] \in Nat /\ ln[j] \in Nat /\ off[j] + ln[j] <= Len(all)
              /\ Slice(all, off[j], ln[j]) = ss[j]
              /\ off[j] + ln[j] = IF j = n THEN Len(all) ELSE off[j + 1]
  <2> j \in 0 .. n /\ j - 1 \in 0 .. n BY <1>1
  <2>1. PICK o \in Nat : o = sum[j - 1] BY <1>9
  <2>2. PICK l \in Nat : l = ln[j] BY <1>5
  <2>3. off[j] = b + o /\ ln[j] = l BY <1>6, <2>1, <2>2
  <2>4. sum[j] = o + l /\ o + l <= Len(flat) /\ Len(flat) \in Nat
    <3>1. sum[j] <= sum[n] /\ sum[n] \in Nat BY <1>1, <1>9
    <3>2. sum[j] = o + l BY <1>10, <2>1, <2>2
    <3> QED BY <1>7, <3>1, <3>2
  <2>5. PICK x : x = ss[j] /\ IsSeq(x) /\ Len(x) = l BY <1>5, <2>2 DEF n
  <2>6. \A k \in 1 .. l : all[(b + o) + k] = x[k]
    <3> TAKE k \in 1 .. l
    <3>1. flat[o + k] = x[k] BY <1>7, <2>1, <2>5
    <3>2. o + k \in 1 .. Len(flat) /\ b + (o + k) = (b + o) + k BY <1>1, <2>4
    <3>3. all[b + (o + k)] = flat[o + k] BY <1>8, <3>2
    <3> QED BY <3>1, <3>2, <3>3
  <2>7. Slice(all, b + o, l) = x
    <3>1. PICK a \in Nat : a = b + o BY <1>1
    <3>2. \A k \in 1 .. l : all[a + k] = x[k] BY <2>6, <3>1
    <3>3. \A i \in 1 .. l : all[a + i] = x[i] BY <3>2
    <3>4. IsSeq(x) /\ Len(x) = l BY <2>5
    <3>5. Slice(all, a, l) = x
      <4>1. IsSeq(Slice(all, a, l)) /\ Len(Slice(all, a, l)) = l BY SliceIs
      <4>2. \A i \in 1 .. l : Slice(all, a, l)[i] = all[a + i] BY SliceIs
      <4>3. \A i \in 1 .. l : Slice(all, a, l)[i] = x[i] BY <3>3, <4>2
      <4> QED BY <3>4, <4>1, <4>3, SeqSame
    <3> QED BY <3>1, <3>5
  <2>8. (b + o) + l = IF j = n THEN Len(all) ELSE off[j + 1]
    <3>1. CASE j = n BY <1>1, <1>7, <1>8, <2>4, <3>1
    <3>2. CASE j # n
      <4>1. j + 1 \in 1 .. n /\ (j + 1) - 1 = j BY <1>1, <3>2
      <4>2. off[j + 1] = b + sum[(j + 1) - 1] BY <1>6, <4>1
      <4> QED BY <1>1, <2>4, <3>2, <4>1, <4>2
    <3> QED BY <3>1, <3>2
  <2> QED BY <1>1, <1>8, <2>3, <2>4, <2>5, <2>7, <2>8
<1>12. IsSeq(off) /\ IsSeq(ln) /\ IsSeq(all) /\ Len(ln) = Len(off) /\ Len(off) = n
  BY <1>3, <1>4, <1>8, SMTT(30)
<1>13. Laid(ss, blob, off, ln, all) BY <1>1, <1>11, <1>12, Zenon DEF Laid, Spans, n
<1> QED BY <1>13 DEF off, ln, all, flat

IsEntry(e) == e = [name |-> e.name, dir |-> e.dir, node |-> e.node] /\ IsSeq(e.name)
IsTree(t)  == IsSeq(t) /\ \A j \in 1 .. Len(t) : IsEntry(t[j])

\* The names of a tree.
LEMMA TreeParts ==
  ASSUME NEW t, IsTree(t)
  PROVE  /\ Len(t) \in Nat /\ DOMAIN t = 1 .. Len(t)
         /\ IsSeq(Names(t)) /\ Len(Names(t)) = Len(t)
         /\ \A j \in 1 .. Len(t) : Names(t)[j] = t[j].name /\ IsSeq(Names(t)[j])
<1>1. IsSeq(t) /\ Len(t) \in Nat /\ DOMAIN t = 1 .. Len(t) BY SeqIs DEF IsTree
<1>2. Names(t) = [j \in 1 .. Len(t) |-> t[j].name] BY <1>1, SMTT(30) DEF Names
<1>3. PICK n \in Nat : n = Len(t) BY <1>1, Zenon
<1>4. Names(t) = [j \in 1 .. n |-> Names(t)[j]] BY <1>2, <1>3
<1>5. IsSeq(Names(t)) /\ Len(Names(t)) = n BY <1>4, SeqMade
<1>6. \A j \in 1 .. Len(t) : Names(t)[j] = t[j].name /\ IsSeq(Names(t)[j])
  BY <1>2 DEF IsTree, IsEntry
<1> QED BY <1>1, <1>3, <1>5, <1>6

TreesOk(s) ==
    /\ Spans(s.start, s.len, s.modes)
    /\ Spans(s.name_start, s.name_len, s.names_blob)
    /\ IsSeq(s.hashes) /\ Len(s.hashes) = Len(s.modes)
    /\ Len(s.name_start) = Len(s.modes)

\* One field of the entries of a tree.
LEMMA Column ==
  ASSUME NEW t, IsSeq(t), NEW f, f = [j \in DOMAIN t |-> f[j]]
  PROVE  IsSeq(f) /\ Len(f) = Len(t)
<1>1. PICK n \in Nat : n = Len(t) BY SeqIs
<1>2. f = [j \in 1 .. n |-> f[j]] BY <1>1, SeqIs
<1>3. IsSeq(f) /\ Len(f) = n BY <1>2, SeqMade
<1> QED BY <1>1, <1>3

\* A tree that is pushed gets the next id, and the others keep theirs.
LEMMA TreePushed ==
  ASSUME NEW s, TreesOk(s), NEW t, IsTree(t), NEW u, u = PushTree(s, t),
         NEW n, n = Len(s.start)
  PROVE  /\ TreesOk(u) /\ n \in Nat /\ Len(u.start) = n + 1
         /\ \A id \in 1 .. n : TreeAt(u, id) = TreeAt(s, id)
         /\ TreeAt(u, n + 1) = t
<1> DEFINE modes == [j \in DOMAIN t |-> t[j].dir]
           hashes == [j \in DOMAIN t |-> t[j].node]
           names == Names(t)
           off == Offsets(names, Len(s.names_blob))
           ln == Lens(names)
           flat == FlattenSeq(names)
<1>0. IsSeq(t) /\ Len(t) \in Nat /\ DOMAIN t = 1 .. Len(t) BY SeqIs DEF IsTree
<1>1. /\ u.start = Append(s.start, Len(s.modes)) /\ u.len = Append(s.len, Len(t))
      /\ u.modes = s.modes \o modes /\ u.hashes = s.hashes \o hashes
      /\ u.name_start = s.name_start \o off /\ u.name_len = s.name_len \o ln
      /\ u.names_blob = s.names_blob \o flat
  BY DEF PushTree
<1>2. /\ Spans(s.start, s.len, s.modes)
      /\ Spans(s.name_start, s.name_len, s.names_blob)
      /\ IsSeq(s.hashes) /\ Len(s.hashes) = Len(s.modes)
      /\ Len(s.name_start) = Len(s.modes) /\ IsSeq(s.modes) /\ IsSeq(s.names_blob)
  BY DEF TreesOk, Spans
<1>3. IsSeq(modes) /\ Len(modes) = Len(t) /\ \A j \in 1 .. Len(t) : modes[j] = t[j].dir
  <2>1. modes = [j \in DOMAIN t |-> modes[j]] /\ \A j \in 1 .. Len(t) : modes[j] = t[j].dir BY <1>0
  <2> HIDE DEF modes
  <2> QED BY <1>0, <2>1, Column
<1>4. IsSeq(hashes) /\ Len(hashes) = Len(t) /\ \A j \in 1 .. Len(t) : hashes[j] = t[j].node
  <2>1. hashes = [j \in DOMAIN t |-> hashes[j]] /\ \A j \in 1 .. Len(t) : hashes[j] = t[j].node
    BY <1>0
  <2> HIDE DEF hashes
  <2> QED BY <1>0, <2>1, Column
<1>5. /\ IsSeq(names) /\ Len(names) = Len(t)
      /\ \A j \in 1 .. Len(t) : names[j] = t[j].name /\ IsSeq(names[j])
  BY TreeParts
<1>6. IsSeq(flat) BY <1>5, FlattenIs
<1>7. Laid(names, s.names_blob, off, ln, s.names_blob \o flat) BY <1>2, <1>5, StringsLaid
<1> HIDE DEF modes, hashes, names, off, ln, flat
<1>8. /\ Spans(u.start, u.len, u.modes)
      /\ u.start[n + 1] = Len(s.modes) /\ u.len[n + 1] = Len(t)
      /\ n \in Nat /\ Len(u.start) = n + 1
      /\ \A i \in 1 .. n : u.start[i] = s.start[i] /\ u.len[i] = s.len[i]
  <2>1. u.len = Append(s.len, Len(modes)) BY <1>1, <1>3
  <2>2. OneMore(s.start, s.len, s.modes, modes, u.start, u.len, u.modes, n)
    BY <1>1, <1>2, <1>3, <2>1, SpanAdded, Zenon
  <2>3. u.len[n + 1] = Len(modes) BY <2>2, Zenon DEF OneMore
  <2> QED BY <1>3, <2>2, <2>3, Zenon DEF OneMore
<1>9. /\ Spans(off, ln, u.names_blob) /\ Len(off) = Len(t)
      /\ \A j \in 1 .. Len(t) : Slice(u.names_blob, off[j], ln[j]) = t[j].name
  BY <1>1, <1>5, <1>7 DEF Laid
<1>10. PICK m \in Nat : m = Len(s.modes) BY <1>2, SeqIs
<1>11. More(s.name_start, s.name_len, off, ln, u.name_start, u.name_len, u.names_blob, m, Len(t))
  <2>1. Spans(off, ln, s.names_blob \o flat) BY <1>7 DEF Laid
  <2>2. More(s.name_start, s.name_len, off, ln, s.name_start \o off, s.name_len \o ln,
             s.names_blob \o flat, Len(s.name_start), Len(off))
    BY <1>2, <1>6, <2>1, SpansCat
  <2> QED BY <1>1, <1>2, <1>9, <1>10, <2>2, Zenon
<1>12. /\ Spans(u.name_start, u.name_len, u.names_blob)
       /\ Len(u.name_start) = m + Len(t)
       /\ \A i \in 1 .. m : u.name_start[i] = s.name_start[i] /\ u.name_len[i] = s.name_len[i]
       /\ \A i \in 1 .. Len(t) : u.name_start[m + i] = off[i] /\ u.name_len[m + i] = ln[i]
  BY <1>11, Zenon DEF More
<1>13. Grown(s.modes, modes, u.modes, m, m + Len(t)) /\ Grown(s.hashes, hashes, u.hashes, m, m + Len(t))
  <2>1. Len(s.modes) = m /\ Len(s.hashes) = m /\ m + Len(t) = m + Len(modes) /\ m + Len(t) = m + Len(hashes)
    BY <1>2, <1>3, <1>4, <1>10
  <2>2. Grown(s.modes, modes, u.modes, m, m + Len(t)) BY <1>1, <1>2, <1>3, <2>1, CatIs, Zenon
  <2>3. Grown(s.hashes, hashes, u.hashes, m, m + Len(t)) BY <1>1, <1>2, <1>4, <2>1, CatIs, Zenon
  <2> QED BY <2>2, <2>3
<1>14. /\ IsSeq(u.modes) /\ Len(u.modes) = m + Len(t)
       /\ \A i \in 1 .. m : u.modes[i] = s.modes[i]
       /\ \A i \in 1 .. Len(t) : u.modes[m + i] = t[i].dir
  BY <1>3, <1>13, Zenon DEF Grown
<1>15. /\ IsSeq(u.hashes) /\ Len(u.hashes) = m + Len(t)
       /\ \A i \in 1 .. m : u.hashes[i] = s.hashes[i]
       /\ \A i \in 1 .. Len(t) : u.hashes[m + i] = t[i].node
  BY <1>4, <1>13, Zenon DEF Grown
<1>16. TreesOk(u) BY <1>8, <1>12, <1>14, <1>15 DEF TreesOk
<1>17. ASSUME NEW id \in 1 .. n PROVE TreeAt(u, id) = TreeAt(s, id)
  <2>1. u.start[id] = s.start[id] /\ u.len[id] = s.len[id] BY <1>8
  <2>2. s.start[id] \in Nat /\ s.len[id] \in Nat /\ s.start[id] + s.len[id] <= Len(s.modes)
    BY <1>2 DEF Spans
  <2>3. ASSUME NEW j \in 1 .. s.len[id]
        PROVE  [name |-> Slice(u.names_blob, u.name_start[s.start[id] + j], u.name_len[s.start[id] + j]),
                dir |-> u.modes[s.start[id] + j], node |-> u.hashes[s.start[id] + j]]
               = [name |-> Slice(s.names_blob, s.name_start[s.start[id] + j], s.name_len[s.start[id] + j]),
                dir |-> s.modes[s.start[id] + j], node |-> s.hashes[s.start[id] + j]]
    <3>1. PICK i \in 1 .. m : i = s.start[id] + j BY <1>10, <2>2
    <3>2. /\ u.name_start[i] = s.name_start[i] /\ u.name_len[i] = s.name_len[i]
          /\ u.modes[i] = s.modes[i] /\ u.hashes[i] = s.hashes[i]
      BY <1>12, <1>14, <1>15
    <3>3. /\ s.name_start[i] \in Nat /\ s.name_len[i] \in Nat
          /\ s.name_start[i] + s.name_len[i] <= Len(s.names_blob)
      BY <1>2, <1>10 DEF Spans
    <3>4. PICK a \in Nat, l \in Nat : a = s.name_start[i] /\ l = s.name_len[i] /\ a + l <= Len(s.names_blob)
      BY <3>3
    <3>5. Slice(s.names_blob \o flat, a, l) = Slice(s.names_blob, a, l)
      BY <1>2, <1>6, <3>4, SliceKept
    <3>6. Slice(u.names_blob, u.name_start[i], u.name_len[i]) = Slice(s.names_blob, s.name_start[i], s.name_len[i])
      BY <1>1, <3>2, <3>4, <3>5, Zenon
    <3> QED BY <3>1, <3>2, <3>6
  <2> QED BY <2>1, <2>3 DEF TreeAt
<1>18. TreeAt(u, n + 1) = t
  <2>1. u.start[n + 1] = m /\ u.len[n + 1] = Len(t) BY <1>8, <1>10
  <2>2. ASSUME NEW j \in 1 .. Len(t)
        PROVE  [name |-> Slice(u.names_blob, u.name_start[m + j], u.name_len[m + j]),
                dir |-> u.modes[m + j], node |-> u.hashes[m + j]] = t[j]
    <3>1. u.name_start[m + j] = off[j] /\ u.name_len[m + j] = ln[j] /\ u.modes[m + j] = t[j].dir /\ u.hashes[m + j] = t[j].node
      BY <1>12, <1>14, <1>15
    <3>2. Slice(u.names_blob, off[j], ln[j]) = t[j].name BY <1>9
    <3>3. t[j] = [name |-> t[j].name, dir |-> t[j].dir, node |-> t[j].node] BY DEF IsTree, IsEntry
    <3> QED BY <3>1, <3>2, <3>3, Zenon
  <2>3. TreeAt(u, n + 1) = [j \in 1 .. Len(t) |-> t[j]] BY <2>1, <2>2 DEF TreeAt
  <2>4. t = [j \in 1 .. Len(t) |-> t[j]] BY <1>0, SeqIs
  <2> QED BY <2>3, <2>4, Zenon
<1> QED BY <1>8, <1>16, <1>17, <1>18

\* Parts of an array stay when it grows.
LEMMA SpansLonger ==
  ASSUME NEW start, NEW len, NEW all, Spans(start, len, all), NEW more, IsSeq(more)
  PROVE  Spans(start, len, all \o more)
<1>1. IsSeq(all) /\ Len(all) \in Nat /\ Len(more) \in Nat BY SeqIs DEF Spans
<1>2. IsSeq(all \o more) /\ Len(all \o more) = Len(all) + Len(more) BY <1>1, SeqCat
<1>3. PICK al : al = all \o more OBVIOUS
<1>4. ASSUME NEW i \in 1 .. Len(start)
      PROVE start[i] \in Nat /\ len[i] \in Nat /\ start[i] + len[i] <= Len(al)
  <2>1. start[i] \in Nat /\ len[i] \in Nat /\ start[i] + len[i] <= Len(all) BY DEF Spans
  <2> QED BY <1>1, <1>2, <1>3, <2>1
<1>5. Spans(start, len, al) BY <1>2, <1>3, <1>4 DEF Spans
<1> QED BY <1>3, <1>5

IsCommit(c) ==
    /\ c = [tree |-> c.tree, author |-> c.author, message |-> c.message, parents |-> c.parents]
    /\ IsSeq(c.author) /\ IsSeq(c.message) /\ IsSeq(c.parents)

CommitsOk(s) ==
    /\ IsSeq(s.tree)
    /\ Spans(s.parent_start, s.parent_count, s.parents) /\ Len(s.parent_start) = Len(s.tree)
    /\ Spans(s.author_start, s.author_len, s.strings) /\ Len(s.author_start) = Len(s.tree)
    /\ Spans(s.message_start, s.message_len, s.strings) /\ Len(s.message_start) = Len(s.tree)

\* A slice of the spans of a longer array.
LEMMA SpanKept ==
  ASSUME NEW start, NEW len, NEW all, Spans(start, len, all), NEW more, IsSeq(more),
         NEW id \in 1 .. Len(start)
  PROVE  Slice(all \o more, start[id], len[id]) = Slice(all, start[id], len[id])
<1>1. PICK a \in Nat, n \in Nat : a = start[id] /\ n = len[id] /\ a + n <= Len(all) BY DEF Spans
<1>2. IsSeq(all) BY DEF Spans
<1>3. Slice(all \o more, a, n) = Slice(all, a, n) BY <1>1, <1>2, SliceKept
<1> QED BY <1>1, <1>3

\* A commit that is pushed gets the next id, and the others keep theirs.
LEMMA CommitPushed ==
  ASSUME NEW s, CommitsOk(s), NEW c, IsCommit(c), NEW u, u = PushCommit(s, c),
         NEW n, n = Len(s.tree)
  PROVE  /\ CommitsOk(u) /\ n \in Nat /\ Len(u.tree) = n + 1
         /\ \A id \in 1 .. n : CommitAt(u, id) = CommitAt(s, id)
         /\ CommitAt(u, n + 1) = c
<1>1. /\ u.tree = Append(s.tree, c.tree)
      /\ u.parent_start = Append(s.parent_start, Len(s.parents))
      /\ u.parent_count = Append(s.parent_count, Len(c.parents))
      /\ u.parents = s.parents \o c.parents
      /\ u.author_start = Append(s.author_start, Len(s.strings))
      /\ u.author_len = Append(s.author_len, Len(c.author))
      /\ u.message_start = Append(s.message_start, Len(s.strings) + Len(c.author))
      /\ u.message_len = Append(s.message_len, Len(c.message))
      /\ u.strings = (s.strings \o c.author) \o c.message
  BY DEF PushCommit
<1>2. /\ IsSeq(s.tree)
      /\ Spans(s.parent_start, s.parent_count, s.parents) /\ Len(s.parent_start) = n
      /\ Spans(s.author_start, s.author_len, s.strings) /\ Len(s.author_start) = n
      /\ Spans(s.message_start, s.message_len, s.strings) /\ Len(s.message_start) = n
      /\ IsSeq(s.parents) /\ IsSeq(s.strings)
  BY DEF CommitsOk, Spans
<1>3. IsSeq(c.author) /\ IsSeq(c.message) /\ IsSeq(c.parents) BY DEF IsCommit
<1>4. n \in Nat BY <1>2, SeqIs
<1>5. IsSeq(u.tree) /\ Len(u.tree) = n + 1 /\ u.tree[n + 1] = c.tree /\ \A i \in 1 .. n : u.tree[i] = s.tree[i]
  BY <1>1, <1>2, SeqAppend, SMTT(30)
<1>20. n = Len(s.parent_start) /\ n = Len(s.author_start) /\ n = Len(s.message_start) BY <1>2
<1>6. OneMore(s.parent_start, s.parent_count, s.parents, c.parents,
              u.parent_start, u.parent_count, u.parents, n)
  <2>1. OneMore(s.parent_start, s.parent_count, s.parents, c.parents,
                Append(s.parent_start, Len(s.parents)), Append(s.parent_count, Len(c.parents)),
                s.parents \o c.parents, n)
    BY <1>2, <1>3, <1>20, SpanAdded
  <2> QED BY <1>1, <2>1, Zenon
<1>7. PICK part : part = s.strings \o c.author OBVIOUS
<1>8. IsSeq(part) /\ Len(part) = Len(s.strings) + Len(c.author) BY <1>2, <1>3, <1>7, SeqCat
<1>9. OneMore(s.author_start, s.author_len, s.strings, c.author,
              u.author_start, u.author_len, part, n)
  <2>1. OneMore(s.author_start, s.author_len, s.strings, c.author,
                Append(s.author_start, Len(s.strings)), Append(s.author_len, Len(c.author)),
                s.strings \o c.author, n)
    BY <1>2, <1>3, <1>20, SpanAdded
  <2> QED BY <1>1, <1>7, <2>1, Zenon
<1>10. OneMore(s.message_start, s.message_len, part, c.message,
               u.message_start, u.message_len, u.strings, n)
  <2>1. Spans(s.message_start, s.message_len, part) BY <1>2, <1>3, <1>7, SpansLonger
  <2>2. u.message_start = Append(s.message_start, Len(part)) /\ u.strings = part \o c.message
    BY <1>1, <1>7, <1>8
  <2>3. OneMore(s.message_start, s.message_len, part, c.message,
                Append(s.message_start, Len(part)), Append(s.message_len, Len(c.message)),
                part \o c.message, n)
    BY <1>3, <1>20, <2>1, SpanAdded
  <2> QED BY <1>1, <2>2, <2>3, Zenon
<1>11. u.strings = part \o c.message BY <1>1, <1>7
<1>12. /\ Spans(u.parent_start, u.parent_count, u.parents) /\ Len(u.parent_start) = n + 1
       /\ u.parent_start[n + 1] = Len(s.parents) /\ u.parent_count[n + 1] = Len(c.parents)
       /\ \A i \in 1 .. n : u.parent_start[i] = s.parent_start[i] /\ u.parent_count[i] = s.parent_count[i]
  BY <1>6, Zenon DEF OneMore
<1>13. /\ Spans(u.author_start, u.author_len, part) /\ Len(u.author_start) = n + 1
       /\ u.author_start[n + 1] = Len(s.strings) /\ u.author_len[n + 1] = Len(c.author)
       /\ \A i \in 1 .. n : u.author_start[i] = s.author_start[i] /\ u.author_len[i] = s.author_len[i]
  BY <1>9, Zenon DEF OneMore
<1>14. /\ Spans(u.message_start, u.message_len, u.strings) /\ Len(u.message_start) = n + 1
       /\ u.message_start[n + 1] = Len(part) /\ u.message_len[n + 1] = Len(c.message)
       /\ \A i \in 1 .. n : u.message_start[i] = s.message_start[i] /\ u.message_len[i] = s.message_len[i]
  BY <1>10, Zenon DEF OneMore
<1>15. Spans(u.author_start, u.author_len, u.strings) BY <1>3, <1>11, <1>13, SpansLonger
<1>16. CommitsOk(u) BY <1>5, <1>12, <1>13, <1>14, <1>15, Zenon DEF CommitsOk
<1>17. ASSUME NEW id \in 1 .. n PROVE CommitAt(u, id) = CommitAt(s, id)
  <2>1. Slice(u.parents, u.parent_start[id], u.parent_count[id])
        = Slice(s.parents, s.parent_start[id], s.parent_count[id])
    <3>1. Slice(s.parents \o c.parents, s.parent_start[id], s.parent_count[id])
          = Slice(s.parents, s.parent_start[id], s.parent_count[id])
      BY <1>2, <1>3, SpanKept
    <3> QED BY <1>1, <1>12, <3>1, Zenon
  <2>2. Slice(u.strings, u.author_start[id], u.author_len[id])
        = Slice(s.strings, s.author_start[id], s.author_len[id])
    <3>1. Slice(s.strings \o c.author, s.author_start[id], s.author_len[id])
          = Slice(s.strings, s.author_start[id], s.author_len[id])
      BY <1>2, <1>3, SpanKept
    <3>2. Slice(part \o c.message, u.author_start[id], u.author_len[id])
          = Slice(part, u.author_start[id], u.author_len[id])
      <4> id \in 1 .. Len(u.author_start) BY <1>4, <1>13
      <4> QED BY <1>3, <1>13, SpanKept
    <3>3. u.author_start[id] = s.author_start[id] /\ u.author_len[id] = s.author_len[id] BY <1>13
    <3> QED BY <1>7, <1>11, <3>1, <3>2, <3>3, Zenon
  <2>3. Slice(u.strings, u.message_start[id], u.message_len[id])
        = Slice(s.strings, s.message_start[id], s.message_len[id])
    <3>1. Slice(s.strings \o c.author, s.message_start[id], s.message_len[id])
          = Slice(s.strings, s.message_start[id], s.message_len[id])
      BY <1>2, <1>3, SpanKept
    <3>2. Slice(part \o c.message, s.message_start[id], s.message_len[id])
          = Slice(part, s.message_start[id], s.message_len[id])
      <4> Spans(s.message_start, s.message_len, part) BY <1>2, <1>3, <1>7, SpansLonger
      <4> QED BY <1>2, <1>3, SpanKept
    <3>3. u.message_start[id] = s.message_start[id] /\ u.message_len[id] = s.message_len[id]
      BY <1>14
    <3> QED BY <1>7, <1>11, <3>1, <3>2, <3>3, Zenon
  <2>4. u.tree[id] = s.tree[id] BY <1>5
  <2> QED BY <2>1, <2>2, <2>3, <2>4, Zenon DEF CommitAt
<1>18. CommitAt(u, n + 1) = c
  <2>1. Slice(u.parents, u.parent_start[n + 1], u.parent_count[n + 1]) = c.parents
    <3>1. Slice(s.parents \o c.parents, Len(s.parents), Len(c.parents)) = c.parents
      BY <1>2, <1>3, SliceEnd
    <3> QED BY <1>1, <1>12, <3>1, Zenon
  <2>2. Slice(u.strings, u.author_start[n + 1], u.author_len[n + 1]) = c.author
    <3>1. Slice((s.strings \o c.author) \o c.message, Len(s.strings), Len(c.author)) = c.author
      BY <1>2, <1>3, SliceAdded
    <3> QED BY <1>1, <1>13, <3>1, Zenon
  <2>3. Slice(u.strings, u.message_start[n + 1], u.message_len[n + 1]) = c.message
    <3>1. Slice(part \o c.message, Len(part), Len(c.message)) = c.message BY <1>3, <1>8, SliceEnd
    <3>2. u.message_len[n + 1] = Len(c.message) BY <1>10, Zenon DEF OneMore
    <3> QED BY <1>11, <1>14, <3>1, <3>2, Zenon
  <2>4. CommitAt(u, n + 1) = [tree |-> c.tree, author |-> c.author, message |-> c.message, parents |-> c.parents]
    <3>1. u.tree[n + 1] = c.tree BY <1>5
    <3>2. CommitAt(u, n + 1) = [tree |-> c.tree, parents |-> c.parents, author |-> c.author, message |-> c.message]
      BY <2>1, <2>2, <2>3, <3>1, Zenon DEF CommitAt
    <3> QED BY <3>2
  <2> QED BY <2>4 DEF IsCommit
<1> QED BY <1>4, <1>5, <1>16, <1>17, <1>18

----------------------------
\* What was encoded is decoded.

\* A tree is decoded from its encoding: a name ends where the next begins.
LEMMA TreeDecoded == ASSUME NEW t, IsTree(t) PROVE DecodeTree(EncodeTree(t)) = t
<1> DEFINE enc == EncodeTree(t)
           names == Names(t)
           off == Offsets(names, 0)
           ln == Lens(names)
           flat == FlattenSeq(names)
           n == Len(t)
<1>1. /\ n \in Nat /\ DOMAIN t = 1 .. n /\ IsSeq(t)
      /\ IsSeq(names) /\ Len(names) = n
      /\ \A j \in 1 .. n : names[j] = t[j].name /\ IsSeq(names[j])
  BY TreeParts DEF IsTree
<1>2. IsSeq(flat) BY <1>1, FlattenIs
<1>3. Laid(names, <<>>, off, ln, flat)
  <2>1. Laid(names, <<>>, Offsets(names, Len(<<>>)), ln, <<>> \o flat)
    BY <1>1, SeqEmpty, StringsLaid
  <2> QED BY <1>2, <2>1, SeqEmpty, CatEmpty
<1>4. /\ \A j \in 1 .. n : off[j] \in Nat /\ ln[j] \in Nat
      /\ \A j \in 1 .. n : Slice(flat, off[j], ln[j]) = names[j]
      /\ \A j \in 1 .. n : off[j] + ln[j] = IF j = n THEN Len(flat) ELSE off[j + 1]
  <2> HIDE DEF off, ln, flat, names, n
  <2>1. Spans(off, ln, flat) /\ Len(off) = n /\ Len(names) = n BY <1>1, <1>3 DEF Laid
  <2>2. \A j \in 1 .. n : off[j] \in Nat /\ ln[j] \in Nat BY <2>1 DEF Spans
  <2> QED BY <1>3, <2>1, <2>2 DEF Laid
<1>5. /\ enc.modes = [j \in 1 .. n |-> t[j].dir] /\ enc.hashes = [j \in 1 .. n |-> t[j].node]
      /\ enc.offsets = off /\ enc.names = flat
  BY <1>1 DEF EncodeTree
<1>6. Len(enc.modes) = n
  <2>1. PICK f : f = enc.modes OBVIOUS
  <2>2. f = [j \in DOMAIN t |-> f[j]] BY <1>1, <1>5, <2>1
  <2>3. Len(f) = Len(t) BY <1>1, <2>2, Column
  <2> QED BY <2>1, <2>3
<1>7. ASSUME NEW j \in 1 .. n
      PROVE  [name |-> SubSeq(enc.names, enc.offsets[j] + 1,
                              IF j < n THEN enc.offsets[j + 1] ELSE Len(enc.names)),
              dir |-> enc.modes[j], node |-> enc.hashes[j]] = t[j]
  <2>1. enc.modes[j] = t[j].dir /\ enc.hashes[j] = t[j].node BY <1>5
  <2>2. off[j] + ln[j] = IF j < n THEN off[j + 1] ELSE Len(flat)
    <3> HIDE DEF off, ln, flat, names, n
    <3>1. j < n <=> j # n BY <1>1
    <3> QED BY <1>4, <3>1
  <2>3. SubSeq(flat, off[j] + 1, off[j] + ln[j]) = names[j] BY <1>4 DEF Slice
  <2>4. SubSeq(enc.names, enc.offsets[j] + 1,
               IF j < n THEN enc.offsets[j + 1] ELSE Len(enc.names)) = t[j].name
    <3> HIDE DEF off, ln, flat, names, n, enc
    <3> QED BY <1>1, <1>5, <2>2, <2>3
  <2>5. t[j] = [name |-> t[j].name, dir |-> t[j].dir, node |-> t[j].node] BY DEF IsTree, IsEntry
  <2> HIDE DEF enc, off, flat, n
  <2> QED BY <2>1, <2>4, <2>5, Zenon
<1>8. DecodeTree(enc) = [j \in 1 .. n |-> t[j]]
  <2> HIDE DEF enc, off, flat
  <2> QED BY <1>6, <1>7 DEF DecodeTree
<1>9. t = [j \in 1 .. n |-> t[j]] BY <1>1, SeqIs
<1> QED BY <1>8, <1>9, Zenon

\* What a longer sequence keeps of a shorter one, which ends in t.
Follows(g, s, t, m, n) ==
    /\ IsSeq(g) /\ m \in Nat /\ n \in Nat /\ Len(g) = m + n
    /\ \A i \in 1 .. m : g[i] = s[i]
    /\ Slice(g, m, n) = t
    /\ \A a, l \in Nat : a + l <= m => Slice(g, a, l) = Slice(s, a, l)
    /\ \A i \in 1 .. n : g[m + i] = t[i]

\* Follows holds of a concatenation.
LEMMA FollowsCat ==
  ASSUME NEW s, IsSeq(s), NEW t, IsSeq(t) PROVE Follows(s \o t, s, t, Len(s), Len(t))
<1>1. Len(s) \in Nat /\ Len(t) \in Nat BY SeqIs
<1>2. /\ IsSeq(s \o t) /\ Len(s \o t) = Len(s) + Len(t)
      /\ \A i \in 1 .. Len(s) : (s \o t)[i] = s[i]
      /\ \A i \in 1 .. Len(t) : (s \o t)[Len(s) + i] = t[i]
  BY SeqCat
<1>3. Slice(s \o t, Len(s), Len(t)) = t BY SliceEnd
<1>4. \A a, l \in Nat : a + l <= Len(s) => Slice(s \o t, a, l) = Slice(s, a, l) BY SliceKept
<1> QED BY <1>1, <1>2, <1>3, <1>4 DEF Follows

\* The same, with names for the lengths.
LEMMA FollowsLong ==
  ASSUME NEW s, IsSeq(s), NEW t, IsSeq(t), NEW m, m = Len(s), NEW n, n = Len(t),
         NEW g, g = s \o t
  PROVE  Follows(g, s, t, m, n)
  BY FollowsCat, Zenon

\* A sequence of one.
LEMMA SeqOne == ASSUME NEW x PROVE IsSeq(<<x>>) /\ Len(<<x>>) = 1 /\ <<x>>[1] = x
<1>1. <<x>> \in Seq({x}) OBVIOUS
<1> QED BY <1>1 DEF IsSeq

\* A sequence of two.
LEMMA SeqTwo ==
  ASSUME NEW x, NEW y
  PROVE  IsSeq(<<x, y>>) /\ Len(<<x, y>>) = 2 /\ <<x, y>>[1] = x /\ <<x, y>>[2] = y
<1>1. <<x, y>> \in Seq({x, y}) OBVIOUS
<1> QED BY <1>1 DEF IsSeq

\* A commit is decoded from its encoding: each length is found behind the string before
\* it.
LEMMA CommitDecoded == ASSUME NEW c, IsCommit(c) PROVE DecodeCommit(EncodeCommit(c)) = c
<1>1. IsSeq(c.parents) /\ IsSeq(c.author) /\ IsSeq(c.message) BY DEF IsCommit
<1>2. PICK p \in Nat, a \in Nat, m \in Nat : p = Len(c.parents) /\ a = Len(c.author) /\ m = Len(c.message)
  BY <1>1, SeqIs
<1>3. PICK s0 : s0 = <<c.tree, p>> OBVIOUS
<1>4. PICK s1 : s1 = s0 \o c.parents OBVIOUS
<1>5. PICK s2 : s2 = s1 \o <<a>> OBVIOUS
<1>6. PICK s3 : s3 = s2 \o c.author OBVIOUS
<1>7. PICK s4 : s4 = s3 \o <<m>> OBVIOUS
<1>8. PICK f : f = s4 \o c.message OBVIOUS
<1>9. EncodeCommit(c).fields = f BY <1>2, <1>3, <1>4, <1>5, <1>6, <1>7, <1>8 DEF EncodeCommit
<1>10. IsSeq(s0) /\ Len(s0) = 2 /\ s0[1] = c.tree /\ s0[2] = p BY <1>3, SeqTwo
<1>11. Follows(s1, s0, c.parents, 2, p) BY <1>1, <1>2, <1>4, <1>10, FollowsLong
<1>12. IsSeq(s1) /\ Len(s1) = 2 + p BY <1>11 DEF Follows
<1>13. Follows(s2, s1, <<a>>, 2 + p, 1) BY <1>5, <1>12, SeqOne, FollowsLong
<1>14. IsSeq(s2) /\ Len(s2) = 3 + p BY <1>13 DEF Follows
<1>15. Follows(s3, s2, c.author, 3 + p, a) BY <1>1, <1>2, <1>6, <1>14, FollowsLong
<1>16. IsSeq(s3) /\ Len(s3) = 3 + p + a BY <1>15 DEF Follows
<1>17. Follows(s4, s3, <<m>>, 3 + p + a, 1) BY <1>7, <1>16, SeqOne, FollowsLong
<1>18. IsSeq(s4) /\ Len(s4) = 4 + p + a BY <1>17 DEF Follows
<1>19. Follows(f, s4, c.message, 4 + p + a, m) BY <1>1, <1>2, <1>8, <1>18, FollowsLong
<1> HIDE <1>1
<1>20. f[1] = c.tree /\ f[2] = p
  <2>1. \A i \in 1 .. 2 : s1[i] = s0[i] BY <1>11 DEF Follows
  <2>2. \A i \in 1 .. 2 + p : s2[i] = s1[i] BY <1>13 DEF Follows
  <2>3. \A i \in 1 .. 3 + p : s3[i] = s2[i] BY <1>15 DEF Follows
  <2>4. \A i \in 1 .. 3 + p + a : s4[i] = s3[i] BY <1>17 DEF Follows
  <2>5. \A i \in 1 .. 4 + p + a : f[i] = s4[i] BY <1>19 DEF Follows
  <2> QED BY <1>10, <2>1, <2>2, <2>3, <2>4, <2>5
<1>21. f[3 + p] = a
  <2>1. s2[2 + p + 1] = <<a>>[1] BY <1>13 DEF Follows
  <2>2. s3[3 + p] = s2[3 + p] BY <1>15 DEF Follows
  <2>3. s4[3 + p] = s3[3 + p] BY <1>17 DEF Follows
  <2>4. f[3 + p] = s4[3 + p] BY <1>19 DEF Follows
  <2>5. 2 + p + 1 = 3 + p OBVIOUS
  <2> QED BY <2>1, <2>2, <2>3, <2>4, <2>5
<1>22. f[4 + p + a] = m
  <2>1. s4[3 + p + a + 1] = <<m>>[1] BY <1>17 DEF Follows
  <2>2. f[4 + p + a] = s4[4 + p + a] BY <1>19 DEF Follows
  <2>3. 3 + p + a + 1 = 4 + p + a OBVIOUS
  <2> QED BY <2>1, <2>2, <2>3
<1>23. Slice(f, 2, p) = c.parents
  <2>1. Slice(s1, 2, p) = c.parents BY <1>11 DEF Follows
  <2>2. Slice(s2, 2, p) = Slice(s1, 2, p) BY <1>13 DEF Follows
  <2>3. Slice(s3, 2, p) = Slice(s2, 2, p) BY <1>15 DEF Follows
  <2>4. Slice(s4, 2, p) = Slice(s3, 2, p) BY <1>17 DEF Follows
  <2>5. Slice(f, 2, p) = Slice(s4, 2, p) BY <1>19 DEF Follows
  <2> QED BY <2>1, <2>2, <2>3, <2>4, <2>5
<1>24. Slice(f, 3 + p, a) = c.author
  <2>1. Slice(s3, 3 + p, a) = c.author BY <1>15 DEF Follows
  <2>2. Slice(s4, 3 + p, a) = Slice(s3, 3 + p, a) BY <1>17 DEF Follows
  <2>3. Slice(f, 3 + p, a) = Slice(s4, 3 + p, a) BY <1>19 DEF Follows
  <2> QED BY <2>1, <2>2, <2>3
<1>25. Slice(f, 4 + p + a, m) = c.message BY <1>19 DEF Follows
<1>26. (3 + p) + 1 + a = 4 + p + a OBVIOUS
<1>27. DecodeCommit(EncodeCommit(c)) = [tree |-> c.tree, parents |-> c.parents, author |-> c.author,
                                       message |-> c.message]
  BY <1>9, <1>20, <1>21, <1>22, <1>23, <1>24, <1>25, <1>26 DEF DecodeCommit
<1> QED BY <1>27 DEF IsCommit

----------------------------
\* ObjectCache: the bytes it counts, and what eviction leaves.

IsHash(h) ==
    \/ \E d \in Data : h = BlobOf(d)
    \/ \E t : IsTree(t) /\ h = TreeOf(t)
    \/ \E c : IsCommit(c) /\ h = CommitOf(c)

\* What the storage holds under a hash.
Encoding(h) ==
    CASE h.tag = "blob"   -> EncodeBlob(Bytes[h.body])
      [] h.tag = "tree"   -> EncodeTree(h.body)
      [] h.tag = "commit" -> EncodeCommit(h.body)

StorageOk(m) ==
    /\ m = [h \in DOMAIN m |-> m[h]]
    /\ \A h \in DOMAIN m : IsHash(h) /\ m[h] = Encoding(h)

\* Contents are strings.
LEMMA BytesIs == ASSUME NEW d \in Data PROVE IsSeq(Bytes[d])
  BY TextAssumption DEF IsSeq

\* An encoding has a length.
LEMMA LengthNat == ASSUME NEW h, IsHash(h) PROVE Length(Encoding(h)) \in Nat
<1>1. CASE \E d \in Data : h = BlobOf(d)
  <2>1. PICK d \in Data : h = BlobOf(d) BY <1>1
  <2>2. Encoding(h) = [tag |-> "blob", bytes |-> Bytes[d]] BY <2>1 DEF BlobOf, Encoding, EncodeBlob
  <2>3. Len(Bytes[d]) \in Nat BY BytesIs, SeqIs
  <2> QED BY <2>2, <2>3 DEF Length
<1>2. CASE \E t : IsTree(t) /\ h = TreeOf(t)
  <2>1. PICK t : IsTree(t) /\ h = TreeOf(t) BY <1>2
  <2>2. PICK e : e = EncodeTree(t) /\ Encoding(h) = e BY <2>1 DEF TreeOf, Encoding
  <2>3. Len(e.modes) \in Nat
    <3>1. PICK f : f = e.modes OBVIOUS
    <3>2. f = [j \in DOMAIN t |-> f[j]] /\ IsSeq(t) BY <2>1, <2>2, <3>1 DEF EncodeTree, IsTree
    <3>3. Len(f) \in Nat BY <3>2, Column, SeqIs
    <3> QED BY <3>1, <3>3
  <2>4. Len(e.names) \in Nat
    <3>1. IsSeq(FlattenSeq(Names(t))) BY <2>1, TreeParts, FlattenIs
    <3>2. e.names = FlattenSeq(Names(t)) BY <2>2 DEF EncodeTree
    <3> QED BY <3>1, <3>2, SeqIs
  <2>5. e.tag = "tree" BY <2>2 DEF EncodeTree
  <2>6. Length(e) = 5 + 4 + 40 * Len(e.modes) + 4 + Len(e.names) BY <2>5 DEF Length
  <2>7. PICK i \in Nat, j \in Nat : i = Len(e.modes) /\ j = Len(e.names) BY <2>3, <2>4
  <2>8. Length(e) = 5 + 4 + 40 * i + 4 + j BY <2>6, <2>7, Zenon
  <2> QED BY <2>2, <2>8
<1>3. CASE \E c : IsCommit(c) /\ h = CommitOf(c)
  <2>1. PICK c : IsCommit(c) /\ h = CommitOf(c) BY <1>3
  <2>2. PICK e : e = EncodeCommit(c) /\ Encoding(h) = e BY <2>1 DEF CommitOf, Encoding
  <2>3. DecodeCommit(e) = c BY <2>1, <2>2, CommitDecoded
  <2>4. Len(c.parents) \in Nat /\ Len(c.author) \in Nat /\ Len(c.message) \in Nat
    BY <2>1, SeqIs DEF IsCommit
  <2>5. e.tag = "commit" BY <2>2 DEF EncodeCommit
  <2>6. Length(e) = 5 + 32 + 4 + 32 * Len(c.parents) + 8 + 4 + Len(c.author) + 4 + Len(c.message)
    BY <2>3, <2>5 DEF Length
  <2>7. PICK i \in Nat, j \in Nat, k \in Nat : i = Len(c.parents) /\ j = Len(c.author) /\ k = Len(c.message)
    BY <2>4
  <2>8. Length(e) = 5 + 32 + 4 + 32 * i + 8 + 4 + j + 4 + k BY <2>6, <2>7, Zenon
  <2> QED BY <2>2, <2>8
<1> QED BY <1>1, <1>2, <1>3 DEF IsHash

----------------------------
Sizes(c) == [k \in DOMAIN c.order |-> Length(c.map[c.order[k]])]

\* Every entry of the cache is what the storage holds, is in the order once, and is counted.
Counted(c, m) ==
    /\ c = [map |-> c.map, order |-> c.order, total |-> c.total]
    /\ c.map = [h \in DOMAIN c.map |-> c.map[h]]
    /\ IsSeq(c.order)
    /\ \A i, j \in 1 .. Len(c.order) : c.order[i] = c.order[j] => i = j
    /\ \A k \in 1 .. Len(c.order) : c.order[k] \in DOMAIN c.map
    /\ \A h \in DOMAIN c.map : \E k \in 1 .. Len(c.order) : c.order[k] = h
    /\ \A h \in DOMAIN c.map : h \in DOMAIN m /\ c.map[h] = m[h]
    /\ c.total = Sums(Sizes(c))[Len(c.order)]

\* So do the encodings in the cache.
LEMMA SizesNat ==
  ASSUME NEW m, StorageOk(m), NEW c, Counted(c, m)
  PROVE  /\ DOMAIN c.order = 1 .. Len(c.order) /\ Len(c.order) \in Nat
         /\ \A k \in 1 .. Len(c.order) : Sizes(c)[k] = Length(c.map[c.order[k]]) /\ Sizes(c)[k] \in Nat
         /\ c.total \in Nat
<1>1. DOMAIN c.order = 1 .. Len(c.order) /\ Len(c.order) \in Nat BY SeqIs DEF Counted
<1>2. \A k \in 1 .. Len(c.order) : Sizes(c)[k] = Length(c.map[c.order[k]]) /\ Sizes(c)[k] \in Nat
  <2> TAKE k \in 1 .. Len(c.order)
  <2>1. Sizes(c)[k] = Length(c.map[c.order[k]]) BY <1>1 DEF Sizes
  <2>2. PICK h : h = c.order[k] OBVIOUS
  <2>3. IsHash(h) /\ c.map[h] = Encoding(h) BY <2>2 DEF Counted, StorageOk
  <2> QED BY <2>1, <2>2, <2>3, LengthNat
<1>3. Sums(Sizes(c))[Len(c.order)] \in Nat
  <2>1. \A k \in 1 .. Len(c.order) : Sizes(c)[k] \in Nat BY <1>2
  <2>2. Len(c.order) \in 0 .. Len(c.order) BY <1>1
  <2> QED BY <1>1, <2>1, <2>2, SumsNat
<1>4. c.total \in Nat BY <1>3, Zenon DEF Counted
<1> QED BY <1>1, <1>2, <1>4

\* What Tail returns.
LEMMA SeqTail ==
  ASSUME NEW s, IsSeq(s), s # <<>>
  PROVE  /\ IsSeq(Tail(s)) /\ Len(Tail(s)) = Len(s) - 1 /\ Len(s) \in Nat \ {0}
         /\ \A i \in 1 .. Len(s) - 1 : Tail(s)[i] = s[i + 1]
<1>1. PICK S : s \in Seq(S) BY DEF IsSeq
<1>2. Tail(s) \in Seq(S) /\ Len(Tail(s)) = Len(s) - 1 /\ \A i \in 1 .. Len(s) - 1 : Tail(s)[i] = s[i + 1]
  BY <1>1, HeadTailProperties
<1>3. Len(s) \in Nat \ {0} BY SeqIs
<1> QED BY <1>2, <1>3 DEF IsSeq

\* One eviction takes one entry, until they fit.
LEMMA EvictedOne ==
  ASSUME NEW m, StorageOk(m), NEW c, Counted(c, m), NEW d, d = EvictOne(c)
  PROVE  /\ Counted(d, m)
         /\ c.total <= CacheMax \/ c.order = <<>> => d = c
         /\ ~ (c.total <= CacheMax \/ c.order = <<>>) => Len(d.order) = Len(c.order) - 1
<1>1. CASE c.total <= CacheMax \/ c.order = <<>>
  <2>1. d = c BY <1>1 DEF EvictOne
  <2> QED BY <1>1, <2>1
<1>2. CASE ~ (c.total <= CacheMax \/ c.order = <<>>)
  <2>1. PICK first : first = c.order[1] OBVIOUS
  <2>2. PICK rest : rest = Tail(c.order) OBVIOUS
  <2>3. /\ d = [map |-> d.map, order |-> d.order, total |-> d.total]
        /\ d.map = [h \in DOMAIN c.map \ {first} |-> c.map[h]]
        /\ d.order = rest /\ d.total = c.total - Length(c.map[first])
    BY <1>2, <2>1, <2>2 DEF EvictOne, Restrict
  <2>4. PICK n \in Nat : n + 1 = Len(c.order)
    <3>1. IsSeq(c.order) /\ c.order # <<>> BY <1>2 DEF Counted
    <3>2. Len(c.order) \in Nat \ {0} BY <3>1, SeqTail
    <3>3. Len(c.order) - 1 \in Nat /\ (Len(c.order) - 1) + 1 = Len(c.order) BY <3>2
    <3> QED BY <3>3
  <2>5. IsSeq(rest) /\ Len(rest) = n BY <1>2, <2>2, <2>4, SeqTail DEF Counted
  <2>6. \A i \in 1 .. n : rest[i] = c.order[i + 1] BY <1>2, <2>2, <2>4, SeqTail DEF Counted
  <2>7. /\ \A i, j \in 1 .. n + 1 : c.order[i] = c.order[j] => i = j
        /\ \A k \in 1 .. n + 1 : c.order[k] \in DOMAIN c.map
        /\ \A h \in DOMAIN c.map : \E k \in 1 .. n + 1 : c.order[k] = h
    BY <2>4, Zenon DEF Counted
  <2>8. \A i, j \in 1 .. n : rest[i] = rest[j] => i = j
    <3> SUFFICES ASSUME NEW i \in 1 .. n, NEW j \in 1 .. n, rest[i] = rest[j] PROVE i = j OBVIOUS
    <3>1. i + 1 \in 1 .. n + 1 /\ j + 1 \in 1 .. n + 1 /\ (i + 1 = j + 1 => i = j) OBVIOUS
    <3>2. c.order[i + 1] = c.order[j + 1] BY <2>6
    <3> QED BY <2>7, <3>1, <3>2
  <2>9. DOMAIN d.map = DOMAIN c.map \ {first} BY <2>3
  <2>10. \A k \in 1 .. n : rest[k] \in DOMAIN d.map
    <3> TAKE k \in 1 .. n
    <3>1. k + 1 \in 1 .. n + 1 /\ 1 \in 1 .. n + 1 /\ k + 1 # 1 OBVIOUS
    <3>2. rest[k] = c.order[k + 1] BY <2>6
    <3> QED BY <2>1, <2>7, <2>9, <3>1, <3>2
  <2>11. \A h \in DOMAIN d.map : \E k \in 1 .. n : rest[k] = h
    <3> TAKE h \in DOMAIN d.map
    <3>1. h \in DOMAIN c.map /\ h # first BY <2>9
    <3>2. PICK k \in 1 .. n + 1 : c.order[k] = h BY <2>7, <3>1
    <3>3. k # 1 BY <2>1, <3>1, <3>2
    <3>4. k - 1 \in 1 .. n /\ (k - 1) + 1 = k BY <3>3
    <3>5. rest[k - 1] = h BY <2>6, <3>2, <3>4
    <3> QED BY <3>4, <3>5
  <2>12. \A h \in DOMAIN d.map : h \in DOMAIN m /\ d.map[h] = m[h]
    <3>1. \A h \in DOMAIN c.map : h \in DOMAIN m /\ c.map[h] = m[h] BY DEF Counted
    <3> QED BY <2>3, <2>9, <3>1
  <2>13. d.total = Sums(Sizes(d))[n]
    <3>1. \A k \in 1 .. n + 1 : Sizes(c)[k] = Length(c.map[c.order[k]]) /\ Sizes(c)[k] \in Nat
      BY <2>4, SizesNat
    <3>2. \A k \in 1 .. n : Sizes(d)[k] = Sizes(c)[k + 1]
      <4> TAKE k \in 1 .. n
      <4>1. DOMAIN d.order = 1 .. n /\ k + 1 \in 1 .. n + 1 BY <2>3, <2>5, SeqIs
      <4>2. Sizes(d)[k] = Length(d.map[rest[k]]) BY <2>3, <4>1 DEF Sizes
      <4>3. d.map[rest[k]] = c.map[rest[k]] BY <2>3, <2>9, <2>10
      <4>4. rest[k] = c.order[k + 1] BY <2>6
      <4>5. Sizes(c)[k + 1] = Length(c.map[c.order[k + 1]]) BY <3>1, <4>1
      <4> QED BY <4>2, <4>3, <4>4, <4>5, Zenon
    <3>3. Sums(Sizes(c))[n + 1] = Sizes(c)[1] + Sums(Sizes(d))[n] BY <3>1, <3>2, SumsFirst
    <3>4. c.total = Sums(Sizes(c))[n + 1] BY <2>4, Zenon DEF Counted
    <3>5. Sums(Sizes(d))[n] \in Nat
      <4>1. \A k \in 1 .. n : Sizes(d)[k] \in Nat BY <3>1, <3>2
      <4> QED BY <4>1, SumsNat
    <3>6. Sizes(c)[1] = Length(c.map[first]) /\ Sizes(c)[1] \in Nat BY <2>1, <3>1
    <3> QED BY <2>3, <3>3, <3>4, <3>5, <3>6
  <2>14. d.map = [h \in DOMAIN d.map |-> d.map[h]] BY <2>3
  <2>15. Counted(d, m)
    <3>1. d.order = rest /\ Len(d.order) = n /\ IsSeq(d.order) BY <2>3, <2>5
    <3>2. /\ \A i, j \in 1 .. Len(d.order) : d.order[i] = d.order[j] => i = j
          /\ \A k \in 1 .. Len(d.order) : d.order[k] \in DOMAIN d.map
          /\ \A h \in DOMAIN d.map : \E k \in 1 .. Len(d.order) : d.order[k] = h
      BY <2>8, <2>10, <2>11, <3>1
    <3>3. d = [map |-> d.map, order |-> d.order, total |-> d.total] BY <2>3
    <3>4. d.total = Sums(Sizes(d))[Len(d.order)] BY <2>13, <3>1
    <3> QED BY <2>12, <2>14, <3>1, <3>2, <3>3, <3>4, Zenon DEF Counted
  <2> QED BY <1>2, <2>3, <2>4, <2>5, <2>15
<1> QED BY <1>1, <1>2

EvictBody(c, f, n) == IF n = 0 THEN c ELSE EvictOne(f[n - 1])
EvictR == INSTANCE Recursion WITH Body <- EvictBody

\* The cache is in order, and within its limit.
CacheOk(c, m) == Counted(c, m) /\ c.total <= CacheMax

\* However many go, the count stays that of the rest, and it is within the limit in the
\* end.
LEMMA Evicted == ASSUME NEW m, StorageOk(m), NEW c, Counted(c, m) PROVE CacheOk(Evict(c), m)
<1> DEFINE left == EvictR!Rec(c, Nat)
<1>1. Evict(c) = left[Len(c.order)] BY DEF Evict, EvictR!Rec, EvictBody
<1>2. left[0] = c /\ \A n \in Nat : left[n + 1] = EvictOne(left[n])
  <2>1. \A f, g : EvictBody(c, f, 0) = EvictBody(c, g, 0) BY DEF EvictBody
  <2>2. \A f, g : \A n \in Nat : f[n] = g[n] => EvictBody(c, f, n + 1) = EvictBody(c, g, n + 1)
    BY DEF EvictBody
  <2>3. /\ left[0] = EvictBody(c, left, 0)
        /\ \A n \in Nat : left[n + 1] = EvictBody(c, left, n + 1)
    BY <2>1, <2>2, Counting, EvictR!Stepped
  <2> HIDE DEF left
  <2> QED BY <2>3 DEF EvictBody
<1> HIDE DEF left
<1>3. PICK len \in Nat : len = Len(c.order) BY SizesNat
<1> DEFINE Fit(e) == e.total <= CacheMax \/ e.order = <<>>
           A == {n \in Nat : /\ Counted(left[n], m)
                             /\ Fit(left[n]) \/ Len(left[n].order) = len - n}
<1>4. 0 \in A
  <2>1. len - 0 = len /\ 0 \in Nat OBVIOUS
  <2>2. left[0] = c BY <1>2
  <2> HIDE DEF Fit
  <2> QED BY <1>3, <2>1, <2>2, Zenon
<1>5. ASSUME NEW n \in Nat, n \in A PROVE n + 1 \in A
  <2>1. PICK e : e = left[n] OBVIOUS
  <2>2. PICK d : d = EvictOne(e) OBVIOUS
  <2>3. Counted(e, m) /\ (Fit(e) \/ Len(e.order) = len - n) BY <1>5, <2>1
  <2>4. Counted(d, m) /\ (Fit(e) => d = e) /\ (~ Fit(e) => Len(d.order) = Len(e.order) - 1)
    BY <2>2, <2>3, EvictedOne
  <2>5. left[n + 1] = d BY <1>2, <2>1, <2>2
  <2>6. Fit(d) \/ Len(d.order) = len - (n + 1)
    <3>1. CASE Fit(e) BY <2>4, <3>1
    <3>2. CASE ~ Fit(e)
      <4> HIDE DEF Fit
      <4>1. Len(e.order) = len - n BY <2>3, <3>2
      <4> QED BY <2>4, <3>2, <4>1
    <3> QED BY <3>1, <3>2
  <2> QED BY <2>4, <2>5, <2>6
<1>6. len \in A
  <2> HIDE DEF A
  <2> QED BY <1>4, <1>5, Counting
<1>7. PICK e : e = left[len] OBVIOUS
<1>8. Counted(e, m) /\ (Fit(e) \/ Len(e.order) = 0) BY <1>6, <1>7
<1>9. e.total <= CacheMax
  <2>1. CASE e.total <= CacheMax BY <2>1
  <2>2. CASE ~ (e.total <= CacheMax)
    <3>1. Len(e.order) = 0 BY <1>8, <2>2, SeqEmpty
    <3>2. e.total = Sums(Sizes(e))[0]
      <4>1. e.total = Sums(Sizes(e))[Len(e.order)] BY <1>8, Zenon DEF Counted
      <4> QED BY <3>1, <4>1
    <3> QED BY <3>2, SumsIs, CacheAssumption
  <2> QED BY <2>1, <2>2
<1> QED BY <1>1, <1>3, <1>7, <1>8, <1>9 DEF CacheOk

\* Insert keeps the cache in order.
LEMMA Inserted ==
  ASSUME NEW m, StorageOk(m), NEW c, CacheOk(c, m), NEW h \in DOMAIN m
  PROVE  CacheOk(Insert(c, h, m[h]), m)
<1>1. CASE h \in DOMAIN c.map BY <1>1 DEF Insert
<1>2. CASE h \notin DOMAIN c.map
  <2>1. PICK e : e = [map |-> [g \in DOMAIN c.map \cup {h} |-> IF g = h THEN m[h] ELSE c.map[g]],
                      order |-> Append(c.order, h), total |-> c.total + Length(m[h])]
    OBVIOUS
  <2>2. Insert(c, h, m[h]) = Evict(e) BY <1>2, <2>1 DEF Insert
  <2>3. Counted(c, m) BY DEF CacheOk
  <2>4. /\ e.map = [g \in DOMAIN c.map \cup {h} |-> IF g = h THEN m[h] ELSE c.map[g]]
        /\ e.order = Append(c.order, h) /\ e.total = c.total + Length(m[h])
        /\ e = [map |-> e.map, order |-> e.order, total |-> e.total]
        /\ e.map = [g \in DOMAIN e.map |-> e.map[g]]
    BY <2>1
  <2>5. PICK n \in Nat : n = Len(c.order) BY <2>3, SizesNat
  <2>6. /\ IsSeq(e.order) /\ Len(e.order) = n + 1 /\ e.order[n + 1] = h
        /\ \A k \in 1 .. n : e.order[k] = c.order[k]
    <3>1. IsSeq(c.order) BY <2>3 DEF Counted
    <3> QED BY <2>4, <2>5, <3>1, SeqAppend
  <2>7. /\ \A i, j \in 1 .. n : c.order[i] = c.order[j] => i = j
        /\ \A k \in 1 .. n : c.order[k] \in DOMAIN c.map
        /\ \A g \in DOMAIN c.map : \E k \in 1 .. n : c.order[k] = g
        /\ \A g \in DOMAIN c.map : g \in DOMAIN m /\ c.map[g] = m[g]
    BY <2>3, <2>5 DEF Counted
  <2>8. /\ DOMAIN e.map = DOMAIN c.map \cup {h} /\ e.map[h] = m[h]
        /\ \A g \in DOMAIN c.map : e.map[g] = c.map[g]
    BY <1>2, <2>4
  <2>9. \A i, j \in 1 .. n + 1 : e.order[i] = e.order[j] => i = j
    <3> SUFFICES ASSUME NEW i \in 1 .. n + 1, NEW j \in 1 .. n + 1, e.order[i] = e.order[j] PROVE i = j
      OBVIOUS
    <3>1. CASE i = n + 1 /\ j # n + 1
      <4>1. j \in 1 .. n BY <3>1
      <4> QED BY <1>2, <2>6, <2>7, <3>1, <4>1
    <3>2. CASE i # n + 1 /\ j = n + 1
      <4>1. i \in 1 .. n BY <3>2
      <4> QED BY <1>2, <2>6, <2>7, <3>2, <4>1
    <3>3. CASE i # n + 1 /\ j # n + 1
      <4>1. i \in 1 .. n /\ j \in 1 .. n BY <3>3
      <4> QED BY <2>6, <2>7, <4>1
    <3> QED BY <3>1, <3>2, <3>3
  <2>10. \A k \in 1 .. n + 1 : e.order[k] \in DOMAIN e.map BY <2>6, <2>7, <2>8
  <2>11. \A g \in DOMAIN e.map : \E k \in 1 .. n + 1 : e.order[k] = g
    <3> TAKE g \in DOMAIN e.map
    <3>1. CASE g = h BY <2>6, <3>1
    <3>2. CASE g # h
      <4>1. PICK k \in 1 .. n : c.order[k] = g BY <2>7, <2>8, <3>2
      <4> QED BY <2>6, <4>1
    <3> QED BY <3>1, <3>2
  <2>12. \A g \in DOMAIN e.map : g \in DOMAIN m /\ e.map[g] = m[g] BY <2>7, <2>8
  <2>13. e.total = Sums(Sizes(e))[n + 1]
    <3>1. \A k \in 1 .. n : Sizes(c)[k] = Length(c.map[c.order[k]]) /\ Sizes(c)[k] \in Nat
      BY <2>3, <2>5, SizesNat
    <3>2. DOMAIN e.order = 1 .. n + 1 BY <2>6, SeqIs
    <3>3. \A k \in 1 .. n : Sizes(e)[k] = Sizes(c)[k]
      <4> TAKE k \in 1 .. n
      <4>1. Sizes(e)[k] = Length(e.map[e.order[k]]) BY <3>2 DEF Sizes
      <4>2. e.map[e.order[k]] = c.map[c.order[k]] BY <2>6, <2>7, <2>8
      <4> QED BY <3>1, <4>1, <4>2
    <3>4. Sizes(e)[n + 1] = Length(m[h])
      <4>1. Sizes(e)[n + 1] = Length(e.map[e.order[n + 1]]) BY <3>2 DEF Sizes
      <4> QED BY <2>6, <2>8, <4>1
    <3>5. Sums(Sizes(e))[n + 1] = Sums(Sizes(e))[n] + Sizes(e)[n + 1] BY SumsIs
    <3>6. Sums(Sizes(e))[n] = Sums(Sizes(c))[n] BY <3>3, SumsSame
    <3>7. c.total = Sums(Sizes(c))[n] BY <2>3, <2>5, Zenon DEF Counted
    <3> QED BY <2>4, <3>4, <3>5, <3>6, <3>7
  <2>14. Counted(e, m)
    <3>1. Len(e.order) = n + 1 BY <2>6
    <3> QED BY <2>4, <2>6, <2>9, <2>10, <2>11, <2>12, <2>13, <3>1 DEF Counted
  <2> QED BY <2>2, <2>14, Evicted
<1> QED BY <1>1, <1>2

----------------------------
\* Reading and writing through arenas, cache and storage.

Tags == {"blob", "tree", "commit"}

StoresOk(w) ==
    /\ w = [blob |-> w.blob, tree |-> w.tree, commit |-> w.commit]
    /\ BlobsOk(w.blob) /\ TreesOk(w.tree) /\ CommitsOk(w.commit)

\* Ids of w stand for the same objects in v.
Kept(w, v) ==
    \A tag \in Tags :
        /\ LastId(w, tag) \in Nat /\ LastId(v, tag) \in Nat /\ LastId(w, tag) <= LastId(v, tag)
        /\ \A id \in 1 .. LastId(w, tag) : At(v, tag, id) = At(w, tag, id)

\* The last id stands for the object.
Got(v, h) == LastId(v, h.tag) \in Nat \ {0} /\ At(v, h.tag, LastId(v, h.tag)) = Body(h)

\* The id that was given last, for each kind.
LEMMA IdsNat ==
  ASSUME NEW w, StoresOk(w)
  PROVE  /\ Len(w.blob.start) \in Nat /\ LastId(w, "blob") = Len(w.blob.start)
         /\ Len(w.tree.start) \in Nat /\ LastId(w, "tree") = Len(w.tree.start)
         /\ Len(w.commit.tree) \in Nat /\ LastId(w, "commit") = Len(w.commit.tree)
<1>1. IsSeq(w.blob.start) /\ IsSeq(w.tree.start) /\ IsSeq(w.commit.tree)
  BY DEF StoresOk, BlobsOk, TreesOk, CommitsOk, Spans
<1>2. w["blob"] = w.blob /\ w["tree"] = w.tree OBVIOUS
<1>3. Len(w.blob.start) \in Nat /\ Len(w.tree.start) \in Nat /\ Len(w.commit.tree) \in Nat
  BY <1>1, SeqIs
<1>4. LastId(w, "blob") = Len(w.blob.start) /\ LastId(w, "tree") = Len(w.tree.start) /\ LastId(w, "commit") = Len(w.commit.tree)
  BY <1>2 DEF LastId
<1> QED BY <1>3, <1>4

\* The object of an id, for each kind.
LEMMA AtIs ==
  ASSUME NEW w, NEW id
  PROVE  /\ At(w, "blob", id) = BlobAt(w.blob, id)
         /\ At(w, "tree", id) = TreeAt(w.tree, id)
         /\ At(w, "commit", id) = CommitAt(w.commit, id)
  BY DEF At

\* An arena that nothing is pushed to.
LEMMA OthersKept ==
  ASSUME NEW w, StoresOk(w), NEW v, StoresOk(v),
         LastId(w, "blob") <= LastId(v, "blob"),
         LastId(w, "tree") <= LastId(v, "tree"),
         LastId(w, "commit") <= LastId(v, "commit"),
         \A id \in 1 .. LastId(w, "blob") : BlobAt(v.blob, id) = BlobAt(w.blob, id),
         \A id \in 1 .. LastId(w, "tree") : TreeAt(v.tree, id) = TreeAt(w.tree, id),
         \A id \in 1 .. LastId(w, "commit") : CommitAt(v.commit, id) = CommitAt(w.commit, id)
  PROVE  Kept(w, v)
<1>1. \A tag \in Tags : LastId(w, tag) \in Nat /\ LastId(v, tag) \in Nat BY IdsNat DEF Tags
<1>2. \A tag \in Tags : LastId(w, tag) <= LastId(v, tag) BY DEF Tags
<1>3. ASSUME NEW tag \in Tags, NEW id \in 1 .. LastId(w, tag) PROVE At(v, tag, id) = At(w, tag, id)
  <2>1. CASE tag = "blob" BY <2>1, AtIs
  <2>2. CASE tag = "tree" BY <2>2, AtIs
  <2>3. CASE tag = "commit" BY <2>3, AtIs
  <2> QED BY <2>1, <2>2, <2>3 DEF Tags
<1> QED BY <1>1, <1>2, <1>3 DEF Kept

\* A blob that is pushed is found, and moves no other object.
LEMMA BlobStored ==
  ASSUME NEW w, StoresOk(w), NEW d \in Data,
         NEW v, v = [w EXCEPT !.blob = PushBlob(@, Bytes[d])]
  PROVE  StoresOk(v) /\ Kept(w, v) /\ Got(v, BlobOf(d))
<1>1. /\ v = [blob |-> v.blob, tree |-> v.tree, commit |-> v.commit]
      /\ v.blob = PushBlob(w.blob, Bytes[d]) /\ v.tree = w.tree /\ v.commit = w.commit
  BY DEF StoresOk
<1>2. BlobsOk(w.blob) /\ TreesOk(w.tree) /\ CommitsOk(w.commit) BY DEF StoresOk
<1>3. PICK n : n = Len(w.blob.start) OBVIOUS
<1>4. /\ BlobsOk(v.blob) /\ n \in Nat /\ Len(v.blob.start) = n + 1
      /\ \A id \in 1 .. n : BlobAt(v.blob, id) = BlobAt(w.blob, id)
      /\ BlobAt(v.blob, n + 1) = Bytes[d]
  BY <1>1, <1>2, <1>3, BytesIs, BlobPushed
<1>5. StoresOk(v) BY <1>1, <1>2, <1>4 DEF StoresOk
<1>6. /\ LastId(w, "blob") = n /\ LastId(v, "blob") = n + 1
      /\ LastId(v, "tree") = LastId(w, "tree") /\ LastId(v, "commit") = LastId(w, "commit")
      /\ LastId(w, "tree") \in Nat /\ LastId(w, "commit") \in Nat
  BY <1>1, <1>3, <1>4, <1>5, IdsNat
<1>7. Kept(w, v)
  <2>1. /\ LastId(w, "blob") <= LastId(v, "blob") /\ LastId(w, "tree") <= LastId(v, "tree")
        /\ LastId(w, "commit") <= LastId(v, "commit")
    BY <1>4, <1>6
  <2>2. \A id \in 1 .. LastId(w, "blob") : BlobAt(v.blob, id) = BlobAt(w.blob, id) BY <1>4, <1>6
  <2>3. \A id \in 1 .. LastId(w, "tree") : TreeAt(v.tree, id) = TreeAt(w.tree, id) BY <1>1
  <2>4. \A id \in 1 .. LastId(w, "commit") : CommitAt(v.commit, id) = CommitAt(w.commit, id) BY <1>1
  <2> QED BY <1>5, <2>1, <2>2, <2>3, <2>4, OthersKept, Zenon
<1>8. Got(v, BlobOf(d))
  <2>1. BlobOf(d).tag = "blob" /\ Body(BlobOf(d)) = Bytes[d] BY DEF BlobOf, Body
  <2>2. At(v, "blob", n + 1) = BlobAt(v.blob, n + 1) BY AtIs
  <2>3. n + 1 \in Nat \ {0} BY <1>4
  <2> QED BY <1>4, <1>6, <2>1, <2>2, <2>3, Zenon DEF Got
<1> QED BY <1>5, <1>7, <1>8

\* The same of a tree.
LEMMA TreeStored ==
  ASSUME NEW w, StoresOk(w), NEW t, IsTree(t),
         NEW v, v = [w EXCEPT !.tree = PushTree(@, t)]
  PROVE  StoresOk(v) /\ Kept(w, v) /\ Got(v, TreeOf(t))
<1>1. /\ v = [blob |-> v.blob, tree |-> v.tree, commit |-> v.commit]
      /\ v.tree = PushTree(w.tree, t) /\ v.blob = w.blob /\ v.commit = w.commit
  BY DEF StoresOk
<1>2. BlobsOk(w.blob) /\ TreesOk(w.tree) /\ CommitsOk(w.commit) BY DEF StoresOk
<1>3. PICK n : n = Len(w.tree.start) OBVIOUS
<1>4. /\ TreesOk(v.tree) /\ n \in Nat /\ Len(v.tree.start) = n + 1
      /\ \A id \in 1 .. n : TreeAt(v.tree, id) = TreeAt(w.tree, id)
      /\ TreeAt(v.tree, n + 1) = t
  BY <1>1, <1>2, <1>3, TreePushed
<1>5. StoresOk(v) BY <1>1, <1>2, <1>4 DEF StoresOk
<1>6. /\ LastId(w, "tree") = n /\ LastId(v, "tree") = n + 1
      /\ LastId(v, "blob") = LastId(w, "blob") /\ LastId(v, "commit") = LastId(w, "commit")
      /\ LastId(w, "blob") \in Nat /\ LastId(w, "commit") \in Nat
  BY <1>1, <1>3, <1>4, <1>5, IdsNat
<1>7. Kept(w, v)
  <2>1. /\ LastId(w, "blob") <= LastId(v, "blob") /\ LastId(w, "tree") <= LastId(v, "tree")
        /\ LastId(w, "commit") <= LastId(v, "commit")
    BY <1>4, <1>6
  <2>2. \A id \in 1 .. LastId(w, "tree") : TreeAt(v.tree, id) = TreeAt(w.tree, id) BY <1>4, <1>6
  <2>3. \A id \in 1 .. LastId(w, "blob") : BlobAt(v.blob, id) = BlobAt(w.blob, id) BY <1>1
  <2>4. \A id \in 1 .. LastId(w, "commit") : CommitAt(v.commit, id) = CommitAt(w.commit, id) BY <1>1
  <2> QED BY <1>5, <2>1, <2>2, <2>3, <2>4, OthersKept, Zenon
<1>8. Got(v, TreeOf(t))
  <2>1. TreeOf(t).tag = "tree" /\ Body(TreeOf(t)) = t BY DEF TreeOf, Body
  <2>2. At(v, "tree", n + 1) = TreeAt(v.tree, n + 1) BY AtIs
  <2>3. n + 1 \in Nat \ {0} BY <1>4
  <2> QED BY <1>4, <1>6, <2>1, <2>2, <2>3, Zenon DEF Got
<1> QED BY <1>5, <1>7, <1>8

\* The same of a commit.
LEMMA CommitStored ==
  ASSUME NEW w, StoresOk(w), NEW c, IsCommit(c),
         NEW v, v = [w EXCEPT !.commit = PushCommit(@, c)]
  PROVE  StoresOk(v) /\ Kept(w, v) /\ Got(v, CommitOf(c))
<1>1. /\ v = [blob |-> v.blob, tree |-> v.tree, commit |-> v.commit]
      /\ v.commit = PushCommit(w.commit, c) /\ v.blob = w.blob /\ v.tree = w.tree
  BY DEF StoresOk
<1>2. BlobsOk(w.blob) /\ TreesOk(w.tree) /\ CommitsOk(w.commit) BY DEF StoresOk
<1>3. PICK n : n = Len(w.commit.tree) OBVIOUS
<1>4. /\ CommitsOk(v.commit) /\ n \in Nat /\ Len(v.commit.tree) = n + 1
      /\ \A id \in 1 .. n : CommitAt(v.commit, id) = CommitAt(w.commit, id)
      /\ CommitAt(v.commit, n + 1) = c
  BY <1>1, <1>2, <1>3, CommitPushed
<1>5. StoresOk(v) BY <1>1, <1>2, <1>4 DEF StoresOk
<1>6. /\ LastId(w, "commit") = n /\ LastId(v, "commit") = n + 1
      /\ LastId(v, "blob") = LastId(w, "blob") /\ LastId(v, "tree") = LastId(w, "tree")
      /\ LastId(w, "blob") \in Nat /\ LastId(w, "tree") \in Nat
  BY <1>1, <1>3, <1>4, <1>5, IdsNat, ZenonT(60)
<1>7. Kept(w, v)
  <2>1. /\ LastId(w, "blob") <= LastId(v, "blob") /\ LastId(w, "tree") <= LastId(v, "tree")
        /\ LastId(w, "commit") <= LastId(v, "commit")
    BY <1>4, <1>6
  <2>2. \A id \in 1 .. LastId(w, "commit") : CommitAt(v.commit, id) = CommitAt(w.commit, id)
    BY <1>4, <1>6
  <2>3. \A id \in 1 .. LastId(w, "blob") : BlobAt(v.blob, id) = BlobAt(w.blob, id) BY <1>1
  <2>4. \A id \in 1 .. LastId(w, "tree") : TreeAt(v.tree, id) = TreeAt(w.tree, id) BY <1>1
  <2> QED BY <1>5, <2>1, <2>2, <2>3, <2>4, OthersKept, Zenon
<1>8. Got(v, CommitOf(c))
  <2>1. CommitOf(c).tag = "commit" /\ Body(CommitOf(c)) = c BY DEF CommitOf, Body
  <2>2. At(v, "commit", n + 1) = CommitAt(v.commit, n + 1) BY AtIs
  <2>3. n + 1 \in Nat \ {0} BY <1>4
  <2> QED BY <1>4, <1>6, <2>1, <2>2, <2>3, Zenon DEF Got
<1> QED BY <1>5, <1>7, <1>8

\* Ids that are kept by two steps.
LEMMA KeptTwice == ASSUME NEW u, NEW v, NEW w, Kept(u, v), Kept(v, w) PROVE Kept(u, w)
<1>1. ASSUME NEW tag \in Tags
      PROVE  /\ LastId(u, tag) \in Nat /\ LastId(w, tag) \in Nat /\ LastId(u, tag) <= LastId(w, tag)
             /\ \A id \in 1 .. LastId(u, tag) : At(w, tag, id) = At(u, tag, id)
  <2>1. PICK i \in Nat, j \in Nat, k \in Nat :
           i = LastId(u, tag) /\ j = LastId(v, tag) /\ k = LastId(w, tag) /\ i <= j /\ j <= k
    BY DEF Kept
  <2>2. \A id \in 1 .. i : At(v, tag, id) = At(u, tag, id) BY <2>1, Zenon DEF Kept
  <2>3. \A id \in 1 .. j : At(w, tag, id) = At(v, tag, id) BY <2>1, Zenon DEF Kept
  <2>4. \A id \in 1 .. i : At(w, tag, id) = At(u, tag, id)
    <3> TAKE id \in 1 .. i
    <3>1. id \in 1 .. j BY <2>1
    <3> QED BY <2>2, <2>3, <3>1
  <2> QED BY <2>1, <2>4
<1> QED BY <1>1 DEF Kept

\* Ids that are kept by none.
LEMMA KeptSelf == ASSUME NEW w, StoresOk(w) PROVE Kept(w, w)
<1>1. \A tag \in Tags : LastId(w, tag) \in Nat BY IdsNat DEF Tags
<1> QED BY <1>1 DEF Kept

\* The kinds of objects.
LEMMA TagIs ==
  ASSUME NEW h, IsHash(h) PROVE h.tag \in Tags /\ h = [tag |-> h.tag, body |-> h.body]
  BY DEF IsHash, Tags, BlobOf, TreeOf, CommitOf

\* What is pushed from an encoding is the object it was made of.
LEMMA ObjectPushed ==
  ASSUME NEW w, StoresOk(w), NEW h, IsHash(h), NEW v, v = Pushed(w, Encoding(h))
  PROVE  StoresOk(v) /\ Kept(w, v) /\ Got(v, h)
<1>1. CASE \E d \in Data : h = BlobOf(d)
  <2>1. PICK d \in Data : h = BlobOf(d) BY <1>1
  <2>2. Encoding(h) = [tag |-> "blob", bytes |-> Bytes[d]] BY <2>1 DEF BlobOf, Encoding, EncodeBlob
  <2>3. v = [w EXCEPT !.blob = PushBlob(@, Bytes[d])] BY <2>2 DEF Pushed
  <2> QED BY <2>1, <2>3, BlobStored
<1>2. CASE \E t : IsTree(t) /\ h = TreeOf(t)
  <2>1. PICK t : IsTree(t) /\ h = TreeOf(t) BY <1>2
  <2>2. PICK e : e = EncodeTree(t) /\ Encoding(h) = e BY <2>1 DEF TreeOf, Encoding
  <2>3. e.tag = "tree" /\ DecodeTree(e) = t BY <2>1, <2>2, TreeDecoded DEF EncodeTree
  <2>4. v = [w EXCEPT !.tree = PushTree(@, t)] BY <2>2, <2>3 DEF Pushed
  <2> QED BY <2>1, <2>4, TreeStored
<1>3. CASE \E c : IsCommit(c) /\ h = CommitOf(c)
  <2>1. PICK c : IsCommit(c) /\ h = CommitOf(c) BY <1>3
  <2>2. PICK e : e = EncodeCommit(c) /\ Encoding(h) = e BY <2>1 DEF CommitOf, Encoding
  <2>3. e.tag = "commit" /\ DecodeCommit(e) = c
    <3>1. e.tag = "commit" BY <2>2 DEF EncodeCommit
    <3>2. DecodeCommit(e) = c BY <2>1, <2>2, CommitDecoded
    <3> QED BY <3>1, <3>2
  <2>4. v = [w EXCEPT !.commit = PushCommit(@, c)] BY <2>2, <2>3 DEF Pushed
  <2> QED BY <2>1, <2>4, CommitStored
<1> QED BY <1>1, <1>2, <1>3 DEF IsHash

\* Whatever a process read and wrote: its storage, arenas and cache agree.
Sound(s) ==
    /\ s = [storage |-> s.storage, stores |-> s.stores, cache |-> s.cache]
    /\ StorageOk(s.storage) /\ StoresOk(s.stores) /\ CacheOk(s.cache, s.storage)

\* read_object: the object is in the arenas, whether it was in the cache or not.
LEMMA ObjectRead ==
  ASSUME NEW s, Sound(s), NEW h \in DOMAIN s.storage, NEW r, r = ReadObject(s, h)
  PROVE  /\ Sound(r) /\ r.storage = s.storage
         /\ Kept(s.stores, r.stores) /\ Got(r.stores, h)
<1>1. /\ StorageOk(s.storage) /\ StoresOk(s.stores) /\ CacheOk(s.cache, s.storage)
      /\ s = [storage |-> s.storage, stores |-> s.stores, cache |-> s.cache]
  BY DEF Sound
<1>2. IsHash(h) /\ s.storage[h] = Encoding(h) BY <1>1 DEF StorageOk
<1>3. CASE h \in DOMAIN s.cache.map
  <2>1. s.cache.map[h] = Encoding(h) BY <1>1, <1>2, <1>3 DEF CacheOk, Counted
  <2>2. /\ r = [storage |-> r.storage, stores |-> r.stores, cache |-> r.cache]
        /\ r.storage = s.storage /\ r.cache = s.cache
        /\ r.stores = Pushed(s.stores, Encoding(h))
    BY <1>1, <1>3, <2>1 DEF ReadObject
  <2>3. StoresOk(r.stores) /\ Kept(s.stores, r.stores) /\ Got(r.stores, h)
    BY <1>1, <1>2, <2>2, ObjectPushed
  <2> QED BY <1>1, <2>2, <2>3 DEF Sound
<1>4. CASE h \notin DOMAIN s.cache.map
  <2>2. /\ r = [storage |-> r.storage, stores |-> r.stores, cache |-> r.cache]
        /\ r.storage = s.storage /\ r.cache = Insert(s.cache, h, s.storage[h])
        /\ r.stores = Pushed(s.stores, Encoding(h))
    BY <1>1, <1>2, <1>4 DEF ReadObject
  <2>3. StoresOk(r.stores) /\ Kept(s.stores, r.stores) /\ Got(r.stores, h)
    BY <1>1, <1>2, <2>2, ObjectPushed
  <2>4. CacheOk(r.cache, s.storage) BY <1>1, <2>2, Inserted
  <2> QED BY <1>1, <2>2, <2>3, <2>4 DEF Sound
<1> QED BY <1>3, <1>4

\* The same of read_object_without_touching_cache.
LEMMA ObjectReadPast ==
  ASSUME NEW s, Sound(s), NEW h \in DOMAIN s.storage, NEW r, r = ReadPast(s, h)
  PROVE  /\ Sound(r) /\ r.storage = s.storage
         /\ Kept(s.stores, r.stores) /\ Got(r.stores, h)
<1>1. /\ StorageOk(s.storage) /\ StoresOk(s.stores) /\ CacheOk(s.cache, s.storage)
      /\ s = [storage |-> s.storage, stores |-> s.stores, cache |-> s.cache]
  BY DEF Sound
<1>2. IsHash(h) /\ s.storage[h] = Encoding(h) BY <1>1 DEF StorageOk
<1>3. /\ r = [storage |-> r.storage, stores |-> r.stores, cache |-> r.cache]
      /\ r.storage = s.storage /\ r.cache = s.cache
      /\ r.stores = Pushed(s.stores, Encoding(h))
  BY <1>1, <1>2 DEF ReadPast
<1>4. StoresOk(r.stores) /\ Kept(s.stores, r.stores) /\ Got(r.stores, h)
  BY <1>1, <1>2, <1>3, ObjectPushed
<1> QED BY <1>1, <1>3, <1>4 DEF Sound

\* Objects that are added take nothing from the cache.
LEMMA CacheLonger ==
  ASSUME NEW c, NEW m, NEW k, CacheOk(c, m), DOMAIN m \subseteq DOMAIN k,
         \A h \in DOMAIN m : k[h] = m[h]
  PROVE  CacheOk(c, k)
  BY Zenon DEF CacheOk, Counted

\* The object of the last id is encoded as its hash says.
LEMMA EncodedIs ==
  ASSUME NEW w, NEW h, IsHash(h), Got(w, h)
  PROVE  Encoded(w, h.tag, LastId(w, h.tag)) = Encoding(h)
<1>1. PICK id : id = LastId(w, h.tag) OBVIOUS
<1>2. At(w, h.tag, id) = Body(h) BY <1>1 DEF Got
<1>3. CASE \E d \in Data : h = BlobOf(d)
  <2>1. h.tag = "blob" /\ Body(h) = Bytes[h.body] BY <1>3 DEF BlobOf, Body
  <2>2. BlobAt(w.blob, id) = Bytes[h.body] BY <1>2, <2>1, AtIs
  <2>3. Encoded(w, h.tag, id) = EncodeBlob(BlobAt(w.blob, id)) /\ Encoding(h) = EncodeBlob(Bytes[h.body])
    BY <2>1 DEF Encoded, Encoding
  <2> QED BY <1>1, <2>2, <2>3
<1>4. CASE \E t : IsTree(t) /\ h = TreeOf(t)
  <2>1. h.tag = "tree" /\ Body(h) = h.body BY <1>4 DEF TreeOf, Body
  <2>2. TreeAt(w.tree, id) = h.body BY <1>2, <2>1, AtIs
  <2>3. Encoded(w, h.tag, id) = EncodeTree(TreeAt(w.tree, id)) /\ Encoding(h) = EncodeTree(h.body)
    BY <2>1 DEF Encoded, Encoding
  <2> QED BY <1>1, <2>2, <2>3
<1>5. CASE \E c : IsCommit(c) /\ h = CommitOf(c)
  <2>1. h.tag = "commit" /\ Body(h) = h.body BY <1>5 DEF CommitOf, Body
  <2>2. CommitAt(w.commit, id) = h.body BY <1>2, <2>1, AtIs
  <2>3. Encoded(w, h.tag, id) = EncodeCommit(CommitAt(w.commit, id)) /\ Encoding(h) = EncodeCommit(h.body)
    BY <2>1 DEF Encoded, Encoding
  <2> QED BY <1>1, <2>2, <2>3
<1> QED BY <1>3, <1>4, <1>5 DEF IsHash

\* Storage with more of the objects.
Added(m, hashes, k) ==
    /\ StorageOk(k) /\ DOMAIN k = DOMAIN m \cup hashes
    /\ \A h \in DOMAIN m : k[h] = m[h]

\* write_object: the storage has the encoding under the hash.
LEMMA ObjectWritten ==
  ASSUME NEW s, Sound(s), NEW h, IsHash(h), Got(s.stores, h), NEW r, r = Wrote(s, h)
  PROVE  /\ Sound(r) /\ r.stores = s.stores /\ r.cache = s.cache
         /\ Added(s.storage, {h}, r.storage)
<1>1. /\ StorageOk(s.storage) /\ StoresOk(s.stores) /\ CacheOk(s.cache, s.storage)
      /\ s = [storage |-> s.storage, stores |-> s.stores, cache |-> s.cache]
  BY DEF Sound
<1>2. PICK e : e = Encoded(s.stores, h.tag, LastId(s.stores, h.tag)) /\ e = Encoding(h) BY EncodedIs
<1>3. PICK m : m = s.storage OBVIOUS
<1>4. /\ r = [storage |-> r.storage, stores |-> r.stores, cache |-> r.cache]
      /\ r.storage = [g \in DOMAIN m \cup {h} |-> IF g \in DOMAIN m THEN m[g] ELSE e]
      /\ r.stores = s.stores /\ r.cache = s.cache
  BY <1>1, <1>2, <1>3 DEF Wrote
<1>5. /\ DOMAIN r.storage = DOMAIN m \cup {h}
      /\ \A g \in DOMAIN m : r.storage[g] = m[g]
      /\ r.storage = [g \in DOMAIN r.storage |-> r.storage[g]]
  BY <1>4
<1>6. \A g \in DOMAIN r.storage : IsHash(g) /\ r.storage[g] = Encoding(g)
  <2> TAKE g \in DOMAIN r.storage
  <2>1. CASE g \in DOMAIN m BY <1>1, <1>3, <1>5, <2>1 DEF StorageOk
  <2>2. CASE g \notin DOMAIN m BY <1>2, <1>4, <1>5, <2>2
  <2> QED BY <2>1, <2>2
<1>7. Added(s.storage, {h}, r.storage) BY <1>3, <1>5, <1>6 DEF Added, StorageOk
<1>8. CacheOk(r.cache, r.storage) BY <1>1, <1>3, <1>4, <1>5, CacheLonger
<1> QED BY <1>1, <1>4, <1>7, <1>8 DEF Sound, Added

\* A tree is pushed and written.
LEMMA TreeWritten ==
  ASSUME NEW s, Sound(s), NEW t, IsTree(t), NEW r, r = WriteTreeObject(s, t)
  PROVE  /\ Sound(r) /\ Added(s.storage, {TreeOf(t)}, r.storage) /\ r.cache = s.cache
         /\ Kept(s.stores, r.stores) /\ Got(r.stores, TreeOf(t))
<1>1. /\ StorageOk(s.storage) /\ StoresOk(s.stores) /\ CacheOk(s.cache, s.storage)
      /\ s = [storage |-> s.storage, stores |-> s.stores, cache |-> s.cache]
  BY DEF Sound
<1>2. PICK q : q = [s EXCEPT !.stores.tree = PushTree(@, t)] OBVIOUS
<1>3. /\ q = [storage |-> q.storage, stores |-> q.stores, cache |-> q.cache]
      /\ q.storage = s.storage /\ q.cache = s.cache
      /\ q.stores = [s.stores EXCEPT !.tree = PushTree(@, t)]
  BY <1>1, <1>2
<1>4. StoresOk(q.stores) /\ Kept(s.stores, q.stores) /\ Got(q.stores, TreeOf(t))
  BY <1>1, <1>3, TreeStored
<1>5. Sound(q) BY <1>1, <1>3, <1>4 DEF Sound
<1>6. r = Wrote(q, TreeOf(t)) BY <1>2 DEF WriteTreeObject
<1>7. IsHash(TreeOf(t)) BY DEF IsHash
<1>8. /\ Sound(r) /\ r.stores = q.stores /\ r.cache = q.cache
      /\ Added(q.storage, {TreeOf(t)}, r.storage)
  BY <1>4, <1>5, <1>6, <1>7, ObjectWritten
<1> QED BY <1>3, <1>4, <1>8

\* A commit is pushed and written.
LEMMA CommitWritten ==
  ASSUME NEW s, Sound(s), NEW c, IsCommit(c), NEW r, r = WriteCommit(s, c)
  PROVE  Sound(r) /\ Added(s.storage, {CommitOf(c)}, r.storage)
<1>1. /\ StorageOk(s.storage) /\ StoresOk(s.stores) /\ CacheOk(s.cache, s.storage)
      /\ s = [storage |-> s.storage, stores |-> s.stores, cache |-> s.cache]
  BY DEF Sound
<1>2. PICK q : q = [s EXCEPT !.stores.commit = PushCommit(@, c)] OBVIOUS
<1>3. /\ q = [storage |-> q.storage, stores |-> q.stores, cache |-> q.cache]
      /\ q.storage = s.storage /\ q.cache = s.cache
      /\ q.stores = [s.stores EXCEPT !.commit = PushCommit(@, c)]
  BY <1>1, <1>2
<1>4. StoresOk(q.stores) /\ Got(q.stores, CommitOf(c)) BY <1>1, <1>3, CommitStored
<1>5. Sound(q) BY <1>1, <1>3, <1>4 DEF Sound
<1>6. r = Wrote(q, CommitOf(c)) BY <1>2 DEF WriteCommit
<1>7. IsHash(CommitOf(c)) BY DEF IsHash
<1>8. Sound(r) /\ Added(q.storage, {CommitOf(c)}, r.storage)
  BY <1>4, <1>5, <1>6, <1>7, ObjectWritten
<1> QED BY <1>3, <1>8

\* Blobs are written past the arenas.
LEMMA BlobsWritten ==
  ASSUME NEW s, Sound(s), NEW ds \in SUBSET Data, NEW r, r = WriteBlobs(s, ds)
  PROVE  Sound(r) /\ Added(s.storage, {BlobOf(d) : d \in ds}, r.storage)
<1>1. /\ StorageOk(s.storage) /\ StoresOk(s.stores) /\ CacheOk(s.cache, s.storage)
      /\ s = [storage |-> s.storage, stores |-> s.stores, cache |-> s.cache]
  BY DEF Sound
<1>2. PICK m : m = s.storage OBVIOUS
<1>3. PICK B : B = {BlobOf(d) : d \in ds} OBVIOUS
<1>4. /\ r = [storage |-> r.storage, stores |-> r.stores, cache |-> r.cache]
      /\ r.storage = [g \in DOMAIN m \cup B |-> IF g \in DOMAIN m THEN m[g] ELSE EncodeBlob(Bytes[g.body])]
      /\ r.stores = s.stores /\ r.cache = s.cache
  BY <1>1, <1>2, <1>3 DEF WriteBlobs
<1>5. /\ DOMAIN r.storage = DOMAIN m \cup B
      /\ \A g \in DOMAIN m : r.storage[g] = m[g]
      /\ r.storage = [g \in DOMAIN r.storage |-> r.storage[g]]
  BY <1>4
<1>6. \A g \in DOMAIN r.storage : IsHash(g) /\ r.storage[g] = Encoding(g)
  <2> TAKE g \in DOMAIN r.storage
  <2>1. CASE g \in DOMAIN m BY <1>1, <1>2, <1>5, <2>1 DEF StorageOk
  <2>2. CASE g \notin DOMAIN m
    <3>1. PICK d \in ds : g = BlobOf(d) BY <1>3, <1>5, <2>2
    <3>2. g.tag = "blob" /\ g.body = d BY <3>1 DEF BlobOf
    <3>3. r.storage[g] = EncodeBlob(Bytes[g.body]) BY <1>4, <1>5, <2>2
    <3>4. Encoding(g) = EncodeBlob(Bytes[g.body]) BY <3>2 DEF Encoding
    <3> QED BY <3>1, <3>3, <3>4 DEF IsHash
  <2> QED BY <2>1, <2>2
<1>7. Added(s.storage, {BlobOf(d) : d \in ds}, r.storage)
  BY <1>2, <1>3, <1>5, <1>6, Zenon DEF Added, StorageOk
<1>8. CacheOk(r.cache, r.storage) BY <1>1, <1>2, <1>4, <1>5, CacheLonger
<1> QED BY <1>1, <1>4, <1>7, <1>8, Zenon DEF Sound, Added

\* A process that has just started.
LEMMA OpenedSound ==
  ASSUME NEW m, StorageOk(m), NEW s, s = Opened(m) PROVE Sound(s) /\ s.storage = m
<1>1. /\ s = [storage |-> s.storage, stores |-> s.stores, cache |-> s.cache]
      /\ s.storage = m /\ s.stores = NoStores /\ s.cache = NoCache
  BY DEF Opened
<1>2. Spans(<<>>, <<>>, <<>>) BY SeqEmpty DEF Spans
<1>3. StoresOk(NoStores) BY <1>2, SeqEmpty DEF NoStores, StoresOk, BlobsOk, TreesOk, CommitsOk
<1>4. PICK c : c = NoCache OBVIOUS
<1>5. /\ c = [map |-> c.map, order |-> c.order, total |-> c.total]
      /\ c.map = [h \in DOMAIN c.map |-> c.map[h]] /\ DOMAIN c.map = {}
      /\ c.order = <<>> /\ c.total = 0
  BY <1>4 DEF NoCache
<1>6. Counted(c, m) BY <1>5, SeqEmpty, SumsIs DEF Counted
<1>7. CacheOk(c, m) BY <1>5, <1>6, CacheAssumption DEF CacheOk
<1> QED BY <1>1, <1>3, <1>4, <1>7 DEF Sound

----------------------------
\* The order of paths, the sort and the binary search.

\* The order of paths is strict ...
LEMMA BeforeNotSame == ASSUME NEW a \in Seq(Nat) PROVE ~ Before(a, a)
<1>1. Len(a) \in Nat /\ \A i \in 1 .. Len(a) : a[i] \in Nat BY LenProperties, ElementOfSeq
<1> QED BY <1>1 DEF Before

\* ... total ...
LEMMA BeforeTotal ==
  ASSUME NEW a \in Seq(Nat), NEW b \in Seq(Nat), a # b PROVE Before(a, b) \/ Before(b, a)
<1>1. PICK m \in Nat, n \in Nat : m = Len(a) /\ n = Len(b) BY LenProperties
<1>2. /\ \A i \in 1 .. m : a[i] \in Nat
      /\ \A i \in 1 .. n : b[i] \in Nat
  BY <1>1, ElementOfSeq
<1> DEFINE D == {i \in Nat \ {0} : i > m \/ i > n \/ a[i] # b[i]}
<1>3. PICK i \in D : \A k \in D : i <= k
  <2>1. m + 1 \in D OBVIOUS
  <2>2. D \in SUBSET Nat OBVIOUS
  <2> HIDE DEF D
  <2> QED BY <2>1, <2>2, Least
<1>4. \A j \in 1 .. i - 1 : j <= m /\ j <= n /\ a[j] = b[j]
  <2> TAKE j \in 1 .. i - 1
  <2>1. j \notin D BY <1>3
  <2> QED BY <2>1
<1>5. i \in Nat /\ i >= 1 OBVIOUS
<1>6. CASE i <= m /\ i <= n
  <2>1. a[i] \in Nat /\ b[i] \in Nat /\ a[i] # b[i] BY <1>2, <1>5, <1>6
  <2>2. CASE a[i] < b[i]
    <3>1. i \in 1 .. n /\ \A j \in 1 .. i - 1 : j <= m /\ a[j] = b[j] BY <1>4, <1>5, <1>6
    <3> QED BY <1>1, <3>1, <2>2 DEF Before
  <2>3. CASE b[i] < a[i]
    <3>1. i \in 1 .. m /\ \A j \in 1 .. i - 1 : j <= n /\ b[j] = a[j] BY <1>4, <1>5, <1>6
    <3> QED BY <1>1, <3>1, <2>3 DEF Before
  <2> QED BY <2>1, <2>2, <2>3
<1>7. CASE i > m /\ i <= n BY <1>1, <1>4, <1>5, <1>7 DEF Before
<1>8. CASE i <= m /\ i > n BY <1>1, <1>4, <1>5, <1>8 DEF Before
<1>9. CASE i > m /\ i > n
  <2>1. m = i - 1 /\ n = i - 1
    <3>1. CASE i = 1
      <4>1. m = 0 \/ 1 \in 1 .. m OBVIOUS
      <4> QED BY <1>5, <1>9, <3>1
    <3>2. CASE i # 1
      <4>1. i - 1 \in 1 .. i - 1 BY <1>5, <3>2
      <4>2. i - 1 <= m /\ i - 1 <= n BY <1>4, <4>1
      <4> QED BY <1>5, <1>9, <4>2
    <3> QED BY <3>1, <3>2
  <2>2. \A j \in 1 .. m : a[j] = b[j] BY <1>4, <2>1
  <2>3. IsSeq(a) /\ IsSeq(b) BY DEF IsSeq
  <2>4. a = b
    <3>1. Len(a) = Len(b) /\ \A j \in 1 .. Len(a) : a[j] = b[j] BY <1>1, <2>1, <2>2
    <3> QED BY <2>3, <3>1, SeqSame, Zenon
  <2> QED BY <2>4
<1> QED BY <1>1, <1>5, <1>6, <1>7, <1>8, <1>9

\* ... and transitive.
LEMMA BeforeBefore ==
  ASSUME NEW a \in Seq(Nat), NEW b \in Seq(Nat), NEW c \in Seq(Nat), Before(a, b), Before(b, c)
  PROVE  Before(a, c)
<1>1. PICK k \in Nat, m \in Nat, n \in Nat : k = Len(a) /\ m = Len(b) /\ n = Len(c) BY LenProperties
<1>2. /\ \A i \in 1 .. k : a[i] \in Nat
      /\ \A i \in 1 .. m : b[i] \in Nat
      /\ \A i \in 1 .. n : c[i] \in Nat
  BY <1>1, ElementOfSeq
<1>3. PICK i \in 1 .. m : (\A j \in 1 .. i - 1 : j <= k /\ a[j] = b[j]) /\ (i <= k => a[i] < b[i])
  BY <1>1 DEF Before
<1>4. PICK l \in 1 .. n : (\A j \in 1 .. l - 1 : j <= m /\ b[j] = c[j]) /\ (l <= m => b[l] < c[l])
  BY <1>1 DEF Before
<1>5. CASE i < l
  <2>1. \A j \in 1 .. i - 1 : j <= k /\ a[j] = c[j]
    <3> TAKE j \in 1 .. i - 1
    <3>1. j \in 1 .. l - 1 BY <1>5
    <3> QED BY <1>3, <1>4, <3>1
  <2>2. b[i] = c[i] /\ i \in 1 .. n BY <1>4, <1>5
  <2>3. i <= k => a[i] < c[i] BY <1>3, <2>2
  <2> QED BY <1>1, <2>1, <2>2, <2>3 DEF Before
<1>6. CASE i = l
  <2>1. \A j \in 1 .. i - 1 : j <= k /\ a[j] = c[j] BY <1>3, <1>4, <1>6
  <2>2. i <= k => a[i] < c[i]
    <3> SUFFICES ASSUME i <= k PROVE a[i] < c[i] OBVIOUS
    <3>1. a[i] < b[i] /\ b[i] < c[i] BY <1>3, <1>4, <1>6
    <3>2. a[i] \in Nat /\ b[i] \in Nat /\ c[i] \in Nat BY <1>2, <1>6
    <3> QED BY <3>1, <3>2
  <2> QED BY <1>1, <1>6, <2>1, <2>2 DEF Before
<1>7. CASE l < i
  <2>1. \A j \in 1 .. l - 1 : j <= k /\ a[j] = c[j]
    <3> TAKE j \in 1 .. l - 1
    <3>1. j \in 1 .. i - 1 BY <1>7
    <3> QED BY <1>3, <1>4, <3>1
  <2>2. l <= k /\ a[l] = b[l] /\ l <= m BY <1>3, <1>7
  <2>3. a[l] < c[l] BY <1>4, <2>2
  <2> QED BY <1>1, <2>1, <2>3 DEF Before
<1> QED BY <1>5, <1>6, <1>7

\* So no two are before each other.
LEMMA BeforeNot ==
  ASSUME NEW a \in Seq(Nat), NEW b \in Seq(Nat), Before(a, b) PROVE ~ Before(b, a) /\ a # b
<1>1. ~ Before(b, a) BY BeforeBefore, BeforeNotSame
<1>2. a # b BY BeforeNotSame
<1> QED BY <1>1, <1>2

\* Entries in the order of their paths, no path twice.
Strict(s) ==
    /\ IsSeq(s)
    /\ \A i \in 1 .. Len(s) : s[i].path \in Seq(Nat)
    /\ \A i, j \in 1 .. Len(s) : i < j => Before(s[i].path, s[j].path)

Within(s, x) == \E i \in 1 .. Len(s) : s[i] = x

\* e is put behind the first k of s.
Parted(r, s, e, k) ==
    /\ IsSeq(r) /\ k \in 0 .. Len(s) /\ Len(r) = Len(s) + 1 /\ r[k + 1] = e
    /\ \A i \in 1 .. k : r[i] = s[i]
    /\ \A i \in k + 1 .. Len(s) : r[i + 1] = s[i]

\* What is put at a place of a sequence.
LEMMA PartedIs ==
  ASSUME NEW s, IsSeq(s), NEW e, NEW k \in 0 .. Len(s)
  PROVE  Parted(SubSeq(s, 1, k) \o <<e>> \o SubSeq(s, k + 1, Len(s)), s, e, k)
<1>1. PICK n \in Nat : n = Len(s) BY SeqIs
<1>2. PICK l : l = SubSeq(s, 1, k) OBVIOUS
<1>3. PICK r : r = SubSeq(s, k + 1, n) OBVIOUS
<1>4. k \in Nat /\ k \in 0 .. n BY <1>1
<1>5. IsSeq(l) /\ Len(l) = k /\ \A i \in 1 .. k : l[i] = s[i]
  <2>1. /\ IsSeq(l) /\ Len(l) = IF 1 <= k THEN k - 1 + 1 ELSE 0
        /\ \A i \in 1 .. k - 1 + 1 : l[i] = s[1 + i - 1]
    BY <1>2, <1>4, SeqSub
  <2>2. k - 1 + 1 = k /\ \A i \in 1 .. k : 1 + i - 1 = i BY <1>4
  <2> QED BY <1>4, <2>1, <2>2
<1>6. IsSeq(r) /\ Len(r) = n - k /\ \A i \in 1 .. n - k : r[i] = s[k + i]
  <2>1. /\ IsSeq(r) /\ Len(r) = IF k + 1 <= n THEN n - (k + 1) + 1 ELSE 0
        /\ \A i \in 1 .. n - (k + 1) + 1 : r[i] = s[(k + 1) + i - 1]
    BY <1>1, <1>3, <1>4, SeqSub
  <2>2. n - (k + 1) + 1 = n - k /\ \A i \in 1 .. n - k : (k + 1) + i - 1 = k + i BY <1>1, <1>4
  <2> QED BY <1>4, <2>1, <2>2
<1>7. PICK m : m = l \o <<e>> OBVIOUS
<1>8. IsSeq(m) /\ Len(m) = k + 1 /\ (\A i \in 1 .. k : m[i] = l[i]) /\ m[k + 1] = e
  <2>1. Follows(m, l, <<e>>, k, 1) BY <1>5, <1>7, SeqOne, FollowsLong
  <2>2. m[k + 1] = <<e>>[1] BY <2>1 DEF Follows
  <2> QED BY <2>1, <2>2 DEF Follows
<1>9. PICK t : t = m \o r OBVIOUS
<1>10. Follows(t, m, r, k + 1, n - k) BY <1>6, <1>8, <1>9, FollowsLong
<1>11. IsSeq(t) /\ Len(t) = n + 1 BY <1>4, <1>10 DEF Follows
<1>12. (\A i \in 1 .. k : t[i] = s[i]) /\ t[k + 1] = e
  <2>1. \A i \in 1 .. k + 1 : t[i] = m[i] BY <1>10 DEF Follows
  <2> QED BY <1>4, <1>5, <1>8, <2>1
<1>13. \A i \in k + 1 .. n : t[i + 1] = s[i]
  <2> TAKE i \in k + 1 .. n
  <2>1. i - k \in 1 .. n - k /\ (k + 1) + (i - k) = i + 1 /\ k + (i - k) = i BY <1>4
  <2>2. t[(k + 1) + (i - k)] = r[i - k] BY <1>10, <2>1 DEF Follows
  <2>3. r[i - k] = s[k + (i - k)] BY <1>6, <2>1
  <2> QED BY <2>1, <2>2, <2>3
<1>14. Parted(t, s, e, k) BY <1>1, <1>4, <1>11, <1>12, <1>13 DEF Parted
<1> QED BY <1>1, <1>2, <1>3, <1>7, <1>9, <1>14

\* An entry is put where it belongs among sorted ones.
LEMMA PlacedIs ==
  ASSUME NEW s, Strict(s), NEW e, e.path \in Seq(Nat),
         \A j \in 1 .. Len(s) : s[j].path # e.path, NEW r, r = Placed(s, e)
  PROVE  /\ Strict(r) /\ Len(r) = Len(s) + 1
         /\ \A x : Within(r, x) <=> x = e \/ Within(s, x)
<1>1. PICK n \in Nat : n = Len(s) BY SeqIs DEF Strict
<1>2. /\ \A i \in 1 .. n : s[i].path \in Seq(Nat)
      /\ \A i, j \in 1 .. n : i < j => Before(s[i].path, s[j].path)
      /\ \A j \in 1 .. n : s[j].path # e.path
      /\ IsSeq(s)
  BY <1>1 DEF Strict
<1> DEFINE Split(k) == /\ \A j \in 1 .. k : ~ Before(e.path, s[j].path)
                       /\ \A j \in k + 1 .. n : Before(e.path, s[j].path)
<1>3. \E k \in 0 .. n : Split(k)
  <2> DEFINE D == {j \in 1 .. n + 1 : j = n + 1 \/ Before(e.path, s[j].path)}
  <2>1. PICK j \in D : \A i \in D : j <= i
    <3>1. D \in SUBSET Nat /\ n + 1 \in D OBVIOUS
    <3> HIDE DEF D
    <3> QED BY <3>1, Least
  <2>2. j \in 1 .. n + 1 /\ j - 1 \in 0 .. n /\ (j - 1) + 1 = j OBVIOUS
  <2>3. \A i \in 1 .. j - 1 : ~ Before(e.path, s[i].path)
    <3> TAKE i \in 1 .. j - 1
    <3>1. i \notin D /\ i \in 1 .. n + 1 /\ i # n + 1 BY <2>1, <2>2
    <3> QED BY <3>1
  <2>4. \A i \in j .. n : Before(e.path, s[i].path)
    <3> TAKE i \in j .. n
    <3>1. Before(e.path, s[j].path) /\ j \in 1 .. n /\ i \in 1 .. n BY <2>2
    <3>2. CASE i = j BY <3>1, <3>2
    <3>3. CASE i # j
      <4>1. Before(s[j].path, s[i].path) BY <1>2, <3>1, <3>3
      <4> QED BY <1>2, <3>1, <4>1, BeforeBefore
    <3> QED BY <3>2, <3>3
  <2>5. Split(j - 1) BY <2>2, <2>3, <2>4
  <2> HIDE DEF D, Split
  <2> QED BY <2>2, <2>5
<1> DEFINE k == CHOOSE k \in 0 .. n : Split(k)
<1>4. k \in 0 .. n /\ Split(k)
  <2> HIDE DEF Split
  <2> QED BY <1>3, SMTT(30)
<1>5. r = SubSeq(s, 1, k) \o <<e>> \o SubSeq(s, k + 1, n) BY <1>1 DEF Placed
<1> HIDE DEF k
<1>6. Parted(r, s, e, k) BY <1>1, <1>2, <1>4, <1>5, PartedIs
<1>7. /\ IsSeq(r) /\ k \in 0 .. n /\ Len(r) = n + 1 /\ r[k + 1] = e
      /\ \A i \in 1 .. k : r[i] = s[i]
      /\ \A i \in k + 1 .. n : r[i + 1] = s[i]
  BY <1>1, <1>6 DEF Parted
<1>8. \A i \in 1 .. n + 1 : \/ i \in 1 .. k /\ r[i] = s[i]
                            \/ i = k + 1 /\ r[i] = e
                            \/ i - 1 \in k + 1 .. n /\ r[i] = s[i - 1]
  <2> TAKE i \in 1 .. n + 1
  <2>1. i \in 1 .. k \/ i = k + 1 \/ (i - 1 \in k + 1 .. n /\ (i - 1) + 1 = i) BY <1>7
  <2> QED BY <1>7, <2>1
<1>9. \A j \in 1 .. k : Before(s[j].path, e.path)
  <2> TAKE j \in 1 .. k
  <2>1. j \in 1 .. n /\ ~ Before(e.path, s[j].path) BY <1>4
  <2> QED BY <1>2, <2>1, BeforeTotal
<1>10. \A j \in k + 1 .. n : Before(e.path, s[j].path) BY <1>4
<1> HIDE DEF Split
<1>11. \A i \in 1 .. n + 1 : r[i].path \in Seq(Nat)
  <2> TAKE i \in 1 .. n + 1
  <2>1. CASE i \in 1 .. k /\ r[i] = s[i] BY <1>2, <1>7, <2>1
  <2>2. CASE i = k + 1 /\ r[i] = e BY <2>2
  <2>3. CASE i - 1 \in k + 1 .. n /\ r[i] = s[i - 1] BY <1>2, <1>7, <2>3
  <2> QED BY <1>8, <2>1, <2>2, <2>3
<1>12. ASSUME NEW i \in 1 .. n + 1, NEW j \in 1 .. n + 1, i < j PROVE Before(r[i].path, r[j].path)
  <2>1. CASE i \in 1 .. k /\ r[i] = s[i]
    <3>1. CASE j \in 1 .. k /\ r[j] = s[j] BY <1>2, <1>7, <1>12, <2>1, <3>1
    <3>2. CASE j = k + 1 /\ r[j] = e BY <1>9, <2>1, <3>2
    <3>3. CASE j - 1 \in k + 1 .. n /\ r[j] = s[j - 1]
      <4>1. i < j - 1 /\ i \in 1 .. n /\ j - 1 \in 1 .. n BY <1>7, <2>1, <3>3
      <4>2. Before(s[i].path, s[j - 1].path) BY <1>2, <4>1
      <4> QED BY <2>1, <3>3, <4>2
    <3> QED BY <1>8, <3>1, <3>2, <3>3
  <2>2. CASE i = k + 1 /\ r[i] = e
    <3>1. ~ (j \in 1 .. k) /\ j # k + 1 BY <1>7, <1>12, <2>2
    <3>2. j - 1 \in k + 1 .. n /\ r[j] = s[j - 1] BY <1>8, <3>1
    <3> QED BY <1>10, <2>2, <3>2
  <2>3. CASE i - 1 \in k + 1 .. n /\ r[i] = s[i - 1]
    <3>1. ~ (j \in 1 .. k) /\ j # k + 1 BY <1>7, <1>12, <2>3
    <3>2. j - 1 \in k + 1 .. n /\ r[j] = s[j - 1] BY <1>8, <3>1
    <3>3. i - 1 < j - 1 /\ i - 1 \in 1 .. n /\ j - 1 \in 1 .. n BY <1>7, <1>12, <2>3, <3>2
    <3>4. Before(s[i - 1].path, s[j - 1].path) BY <1>2, <3>3
    <3> QED BY <2>3, <3>2, <3>4
  <2> QED BY <1>8, <2>1, <2>2, <2>3
<1>13. Strict(r) BY <1>7, <1>11, <1>12 DEF Strict
<1>14. ASSUME NEW x PROVE Within(r, x) <=> x = e \/ Within(s, x)
  <2>1. ASSUME Within(r, x) PROVE x = e \/ Within(s, x)
    <3>1. PICK i \in 1 .. n + 1 : r[i] = x BY <1>7, <2>1 DEF Within
    <3>2. CASE i \in 1 .. k /\ r[i] = s[i] BY <1>1, <1>7, <3>1, <3>2 DEF Within
    <3>3. CASE i = k + 1 /\ r[i] = e BY <3>1, <3>3
    <3>4. CASE i - 1 \in k + 1 .. n /\ r[i] = s[i - 1]
      <4>1. i - 1 \in 1 .. n BY <1>7, <3>4
      <4> QED BY <1>1, <3>1, <3>4, <4>1 DEF Within
    <3> QED BY <1>8, <3>1, <3>2, <3>3, <3>4
  <2>2. ASSUME x = e PROVE Within(r, x)
    <3>1. k + 1 \in 1 .. n + 1 BY <1>7
    <3> QED BY <1>7, <2>2, <3>1 DEF Within
  <2>3. ASSUME Within(s, x) PROVE Within(r, x)
    <3>1. PICK i \in 1 .. n : s[i] = x BY <1>1, <2>3 DEF Within
    <3>2. CASE i \in 1 .. k
      <4>1. i \in 1 .. n + 1 /\ r[i] = x BY <1>7, <3>1, <3>2
      <4> QED BY <1>7, <4>1 DEF Within
    <3>3. CASE i \notin 1 .. k
      <4>1. i \in k + 1 .. n /\ i + 1 \in 1 .. n + 1 BY <1>7, <3>3
      <4>2. r[i + 1] = x BY <1>7, <3>1, <4>1
      <4> QED BY <1>7, <4>1, <4>2 DEF Within
    <3> QED BY <3>2, <3>3
  <2> QED BY <2>1, <2>2, <2>3
<1> QED BY <1>1, <1>7, <1>13, <1>14

SortBody(s, f, n) == IF n = 0 THEN <<>> ELSE Placed(f[n - 1], s[n])
SortR == INSTANCE Recursion WITH Body <- SortBody

\* Sorting entries keeps them all.
LEMMA SortedIs ==
  ASSUME NEW s, IsSeq(s), \A i \in 1 .. Len(s) : s[i].path \in Seq(Nat),
         \A i, j \in 1 .. Len(s) : i # j => s[i].path # s[j].path
  PROVE  /\ Strict(ByPath(s)) /\ Len(ByPath(s)) = Len(s)
         /\ \A x : Within(ByPath(s), x) <=> Within(s, x)
<1> DEFINE f == SortR!Rec(s, Nat)
<1>1. ByPath(s) = f[Len(s)] BY DEF ByPath, SortR!Rec, SortBody
<1>2. f[0] = <<>> /\ \A n \in Nat : f[n + 1] = Placed(f[n], s[n + 1])
  <2>1. \A g, h : SortBody(s, g, 0) = SortBody(s, h, 0) BY DEF SortBody
  <2>2. \A g, h : \A n \in Nat : g[n] = h[n] => SortBody(s, g, n + 1) = SortBody(s, h, n + 1)
    BY DEF SortBody
  <2>3. f[0] = SortBody(s, f, 0) /\ \A n \in Nat : f[n + 1] = SortBody(s, f, n + 1)
    BY <2>1, <2>2, Counting, SortR!Stepped
  <2> HIDE DEF f
  <2> QED BY <2>3 DEF SortBody
<1> HIDE DEF f
<1>3. PICK len \in Nat : len = Len(s) BY SeqIs
<1> DEFINE A == {n \in Nat : n <= len =>
                   /\ Strict(f[n]) /\ Len(f[n]) = n
                   /\ \A x : Within(f[n], x) <=> \E i \in 1 .. n : s[i] = x}
<1>4. 0 \in A BY <1>2, SeqEmpty, SMTT(30) DEF Strict, Within
<1>5. ASSUME NEW n \in Nat, n \in A PROVE n + 1 \in A
  <2> SUFFICES ASSUME n + 1 <= len
               PROVE  /\ Strict(f[n + 1]) /\ Len(f[n + 1]) = n + 1
                      /\ \A x : Within(f[n + 1], x) <=> \E i \in 1 .. n + 1 : s[i] = x
    OBVIOUS
  <2>1. PICK t : t = f[n] OBVIOUS
  <2>2. Strict(t) /\ Len(t) = n /\ \A x : Within(t, x) <=> \E i \in 1 .. n : s[i] = x BY <1>5, <2>1
  <2>3. PICK e : e = s[n + 1] OBVIOUS
  <2>4. e.path \in Seq(Nat)
    <3>1. n + 1 \in 1 .. len OBVIOUS
    <3> QED BY <1>3, <2>3, <3>1
  <2>5. \A j \in 1 .. Len(t) : t[j].path # e.path
    <3> TAKE j \in 1 .. Len(t)
    <3>1. Within(t, t[j]) BY DEF Within
    <3>2. PICK i \in 1 .. n : s[i] = t[j] BY <2>2, <3>1
    <3>3. i \in 1 .. len /\ n + 1 \in 1 .. len /\ i # n + 1 OBVIOUS
    <3> QED BY <1>3, <2>3, <3>2, <3>3
  <2>6. PICK r : r = Placed(t, e) OBVIOUS
  <2>7. f[n + 1] = r BY <1>2, <2>1, <2>3, <2>6
  <2>8. Strict(r) /\ Len(r) = Len(t) + 1 /\ \A x : Within(r, x) <=> x = e \/ Within(t, x)
    BY <2>2, <2>4, <2>5, <2>6, PlacedIs
  <2>9. \A x : Within(r, x) <=> \E i \in 1 .. n + 1 : s[i] = x
    <3> TAKE x
    <3>1. (\E i \in 1 .. n + 1 : s[i] = x) <=> (s[n + 1] = x \/ \E i \in 1 .. n : s[i] = x)
      <4>1. \A i : i \in 1 .. n + 1 <=> i = n + 1 \/ i \in 1 .. n OBVIOUS
      <4> QED BY <4>1
    <3> QED BY <2>2, <2>3, <2>8, <3>1
  <2> QED BY <2>2, <2>7, <2>8, <2>9
<1>6. len \in A
  <2> HIDE DEF A
  <2> QED BY <1>4, <1>5, Counting
<1>7. /\ Strict(f[len]) /\ Len(f[len]) = len
      /\ \A x : Within(f[len], x) <=> \E i \in 1 .. len : s[i] = x
  BY <1>6
<1> QED BY <1>1, <1>3, <1>7 DEF Within

\* The middle is between the ends.
LEMMA MidIs ==
  ASSUME NEW r, r.lo \in Nat, r.hi \in Nat, r.lo < r.hi
  PROVE  Mid(r) \in Nat /\ r.lo <= Mid(r) /\ Mid(r) < r.hi
<1>1. PICK l \in Nat, h \in Nat : l = r.lo /\ h = r.hi OBVIOUS
<1>2. (h - l) \div 2 \in Nat /\ (h - l) \div 2 < h - l BY <1>1
<1>3. Mid(r) = l + (h - l) \div 2 BY <1>1 DEF Mid
<1> QED BY <1>1, <1>2, <1>3

\* What is left holds the path, if any does.
Narrowed(flat, path, r) ==
    /\ r.lo \in Nat \ {0} /\ r.hi \in Nat /\ r.lo <= r.hi /\ r.hi <= Len(flat) + 1
    /\ r = [lo |-> r.lo, hi |-> r.hi]
    /\ \A j \in 1 .. Len(flat) : j < r.lo => Before(flat[j].path, path)
    /\ \A j \in 1 .. Len(flat) : j >= r.hi => Before(path, flat[j].path)

Ended(flat, path, r) == r.lo >= r.hi \/ flat[Mid(r)].path = path

\* A round of the binary search keeps the entry between the ends, and moves one of them.
LEMMA HalvedIs ==
  ASSUME NEW flat, Strict(flat), NEW path \in Seq(Nat), NEW r, Narrowed(flat, path, r),
         NEW q, q = Halved(flat, path, r)
  PROVE  /\ Narrowed(flat, path, q)
         /\ Ended(flat, path, r) => q = r
         /\ ~ Ended(flat, path, r) => q.hi - q.lo < r.hi - r.lo
<1>1. PICK len \in Nat : len = Len(flat) BY SeqIs DEF Strict
<1>2. CASE Ended(flat, path, r) BY <1>2 DEF Ended, Halved
<1>3. CASE ~ Ended(flat, path, r)
  <2>1. /\ r.lo \in Nat \ {0} /\ r.hi \in Nat /\ r.hi <= len + 1
        /\ r = [lo |-> r.lo, hi |-> r.hi] /\ r.lo < r.hi
    BY <1>1, <1>3 DEF Narrowed, Ended
  <2>2. PICK m \in 1 .. len : m = Mid(r) /\ r.lo <= m /\ m < r.hi
    <3>1. Mid(r) \in Nat /\ r.lo <= Mid(r) /\ Mid(r) < r.hi BY <2>1, MidIs
    <3> QED BY <2>1, <3>1
  <2>3. flat[m].path # path /\ flat[m].path \in Seq(Nat) BY <1>1, <1>3, <2>2 DEF Ended, Strict
  <2>4. \A j \in 1 .. len : j < r.lo => Before(flat[j].path, path) BY <1>1 DEF Narrowed
  <2>5. \A j \in 1 .. len : j >= r.hi => Before(path, flat[j].path) BY <1>1 DEF Narrowed
  <2>6. \A i, j \in 1 .. len : i < j => Before(flat[i].path, flat[j].path) BY <1>1 DEF Strict
  <2>7. \A j \in 1 .. len : flat[j].path \in Seq(Nat) BY <1>1 DEF Strict
  <2>8. CASE Before(path, flat[m].path)
    <3>1. q = [lo |-> r.lo, hi |-> m] BY <1>3, <2>1, <2>2, <2>8 DEF Ended, Halved
    <3>2. \A j \in 1 .. len : j >= m => Before(path, flat[j].path)
      <4> TAKE j \in 1 .. len
      <4>1. CASE j = m BY <2>8, <4>1
      <4>2. CASE j > m BY <2>6, <2>7, <2>8, <4>2, BeforeBefore
      <4> QED BY <4>1, <4>2
    <3>3. q.lo = r.lo /\ q.hi = m BY <3>1
    <3>4. Narrowed(flat, path, q) BY <1>1, <2>1, <2>2, <2>4, <3>1, <3>2, <3>3 DEF Narrowed
    <3> QED BY <1>3, <2>1, <2>2, <3>3, <3>4
  <2>9. CASE ~ Before(path, flat[m].path)
    <3>1. q = [lo |-> m + 1, hi |-> r.hi] BY <1>3, <2>1, <2>2, <2>9 DEF Ended, Halved
    <3>2. Before(flat[m].path, path) BY <2>3, <2>9, BeforeTotal
    <3>3. \A j \in 1 .. len : j < m + 1 => Before(flat[j].path, path)
      <4> TAKE j \in 1 .. len
      <4>1. CASE j = m BY <3>2, <4>1
      <4>2. CASE j < m BY <2>6, <2>7, <3>2, <4>2, BeforeBefore
      <4> QED BY <4>1, <4>2
    <3>4. q.lo = m + 1 /\ q.hi = r.hi BY <3>1
    <3>5. Narrowed(flat, path, q) BY <1>1, <2>1, <2>2, <2>5, <3>1, <3>3, <3>4 DEF Narrowed
    <3> QED BY <1>3, <2>1, <2>2, <3>4, <3>5
  <2> QED BY <2>8, <2>9
<1> QED BY <1>2, <1>3

LookupBody(p, f, n) ==
    IF n = 0 THEN [lo |-> 1, hi |-> Len(p.flat) + 1] ELSE Halved(p.flat, p.path, f[n - 1])
LookupR == INSTANCE Recursion WITH Body <- LookupBody

\* The binary search finds the entry with the path.
LEMMA LookupIs ==
  ASSUME NEW flat, Strict(flat), NEW path \in Seq(Nat)
  PROVE  Lookup(flat, path) = {flat[i].data : i \in {j \in 1 .. Len(flat) : flat[j].path = path}}
<1> DEFINE p == [flat |-> flat, path |-> path]
           r == LookupR!Rec(p, Nat)
<1>1. Lookup(flat, path) = IF r[Len(flat)].lo >= r[Len(flat)].hi THEN {}
                           ELSE {flat[Mid(r[Len(flat)])].data}
  BY DEF Lookup, LookupR!Rec, LookupBody
<1>2. r[0] = [lo |-> 1, hi |-> Len(flat) + 1] /\ \A n \in Nat : r[n + 1] = Halved(flat, path, r[n])
  <2>1. \A g, h : LookupBody(p, g, 0) = LookupBody(p, h, 0) BY DEF LookupBody
  <2>2. \A g, h : \A n \in Nat : g[n] = h[n] => LookupBody(p, g, n + 1) = LookupBody(p, h, n + 1)
    BY DEF LookupBody
  <2> HIDE DEF p
  <2>3. r[0] = LookupBody(p, r, 0) /\ \A n \in Nat : r[n + 1] = LookupBody(p, r, n + 1)
    BY <2>1, <2>2, Counting, LookupR!Stepped
  <2>4. p.flat = flat /\ p.path = path BY DEF p
  <2> HIDE DEF r
  <2> QED BY <2>3, <2>4 DEF LookupBody
<1> HIDE DEF r
<1>3. PICK len \in Nat : len = Len(flat) BY SeqIs DEF Strict
<1> DEFINE A == {n \in Nat : /\ Narrowed(flat, path, r[n])
                             /\ Ended(flat, path, r[n]) \/ r[n].hi - r[n].lo <= len - n}
<1>4. 0 \in A
  <2>1. PICK q : q = r[0] OBVIOUS
  <2>2. q = [lo |-> 1, hi |-> len + 1] /\ q.lo = 1 /\ q.hi = len + 1 BY <1>2, <1>3, <2>1
  <2>3. Narrowed(flat, path, q) BY <1>3, <2>2 DEF Narrowed
  <2>4. q.hi - q.lo <= len - 0 BY <2>2
  <2> QED BY <2>1, <2>3, <2>4
<1>5. ASSUME NEW n \in Nat, n \in A PROVE n + 1 \in A
  <2>1. PICK q : q = r[n] OBVIOUS
  <2>2. Narrowed(flat, path, q) /\ (Ended(flat, path, q) \/ q.hi - q.lo <= len - n) BY <1>5, <2>1
  <2>3. PICK t : t = Halved(flat, path, q) OBVIOUS
  <2>4. r[n + 1] = t BY <1>2, <2>1, <2>3
  <2>5. /\ Narrowed(flat, path, t) /\ (Ended(flat, path, q) => t = q)
        /\ (~ Ended(flat, path, q) => t.hi - t.lo < q.hi - q.lo)
    BY <2>2, <2>3, HalvedIs
  <2>6. Ended(flat, path, t) \/ t.hi - t.lo <= len - (n + 1)
    <3>1. CASE Ended(flat, path, q) BY <2>5, <3>1
    <3>2. CASE ~ Ended(flat, path, q)
      <4>1. t.hi \in Nat /\ t.lo \in Nat /\ q.hi \in Nat /\ q.lo \in Nat BY <2>2, <2>5 DEF Narrowed
      <4> QED BY <2>2, <2>5, <3>2, <4>1
    <3> QED BY <3>1, <3>2
  <2> QED BY <2>4, <2>5, <2>6
<1>6. len \in A
  <2> HIDE DEF A
  <2> QED BY <1>4, <1>5, Counting
<1>7. PICK q : q = r[len] OBVIOUS
<1>8. Narrowed(flat, path, q) /\ Ended(flat, path, q)
  <2>1. Narrowed(flat, path, q) /\ (Ended(flat, path, q) \/ q.hi - q.lo <= len - len) BY <1>6, <1>7
  <2>2. q.hi - q.lo <= len - len => q.lo >= q.hi BY <2>1 DEF Narrowed
  <2> QED BY <2>1, <2>2 DEF Ended
<1>9. \A i \in 1 .. len : flat[i].path \in Seq(Nat) BY <1>3 DEF Strict
<1>10. CASE q.lo >= q.hi
  <2>1. \A j \in 1 .. len : flat[j].path # path
    <3> TAKE j \in 1 .. len
    <3>1. j < q.lo \/ j >= q.hi BY <1>8, <1>10 DEF Narrowed
    <3>2. Before(flat[j].path, path) \/ Before(path, flat[j].path) BY <1>3, <1>8, <3>1 DEF Narrowed
    <3> QED BY <1>9, <3>2, BeforeNot
  <2> QED BY <1>1, <1>3, <1>7, <1>10, <2>1
<1>11. CASE ~ (q.lo >= q.hi)
  <2>1. /\ q.lo \in Nat \ {0} /\ q.hi \in Nat /\ q.lo < q.hi /\ q.hi <= len + 1
    BY <1>3, <1>8, <1>11 DEF Narrowed
  <2>2. PICK m \in 1 .. len : m = Mid(q)
    <3>1. Mid(q) \in Nat /\ q.lo <= Mid(q) /\ Mid(q) < q.hi BY <2>1, MidIs
    <3> QED BY <2>1, <3>1
  <2>3. flat[m].path = path BY <1>8, <1>11, <2>2 DEF Ended
  <2>4. \A j \in 1 .. len : flat[j].path = path => j = m
    <3> TAKE j \in 1 .. len
    <3>1. CASE j < m
      <4>1. Before(flat[j].path, flat[m].path) BY <1>3, <3>1 DEF Strict
      <4> QED BY <1>9, <4>1, <2>3, BeforeNot
    <3>2. CASE m < j
      <4>1. Before(flat[m].path, flat[j].path) BY <1>3, <3>2 DEF Strict
      <4> QED BY <1>9, <4>1, <2>3, BeforeNot
    <3> QED BY <3>1, <3>2
  <2>5. Lookup(flat, path) = {flat[m].data} BY <1>1, <1>3, <1>7, <1>11, <2>2
  <2>6. {flat[i].data : i \in {j \in 1 .. len : flat[j].path = path}} = {flat[m].data} BY <2>3, <2>4
  <2> QED BY <1>3, <2>5, <2>6
<1> QED BY <1>10, <1>11

----------------------------
\* flatten_tree: rounds that replace subtrees by their entries.

\* The first n of the sequences, one after the other.
ChainBody(ss, f, n) == IF n = 0 THEN <<>> ELSE f[n - 1] \o ss[n]
ChainR == INSTANCE Recursion WITH Body <- ChainBody
Chain(ss) == ChainR!Rec(ss, Nat)

\* Chain is its recursion.
LEMMA ChainIs ==
  ASSUME NEW ss
  PROVE  Chain(ss)[0] = <<>> /\ \A n \in Nat : Chain(ss)[n + 1] = Chain(ss)[n] \o ss[n + 1]
<1> DEFINE f == ChainR!Rec(ss, Nat)
<1>1. \A g, h : ChainBody(ss, g, 0) = ChainBody(ss, h, 0) BY DEF ChainBody
<1>2. \A g, h : \A n \in Nat : g[n] = h[n] => ChainBody(ss, g, n + 1) = ChainBody(ss, h, n + 1)
  BY DEF ChainBody
<1>3. f[0] = ChainBody(ss, f, 0) /\ \A n \in Nat : f[n + 1] = ChainBody(ss, f, n + 1)
  BY <1>1, <1>2, Counting, ChainR!Stepped
<1>4. Chain(ss) = f BY DEF Chain
<1> HIDE DEF f
<1>5. ChainBody(ss, f, 0) = <<>> BY DEF ChainBody
<1>6. ASSUME NEW n \in Nat PROVE ChainBody(ss, f, n + 1) = f[n] \o ss[n + 1]
  <2>1. n + 1 # 0 /\ (n + 1) - 1 = n OBVIOUS
  <2> QED BY <2>1, Zenon DEF ChainBody
<1>7. f[0] = <<>> BY <1>3, <1>5, Zenon
<1>8. \A n \in Nat : f[n + 1] = f[n] \o ss[n + 1] BY <1>3, <1>6, Zenon
<1> QED BY <1>4, <1>7, <1>8, Zenon

\* FlattenSeq is the concatenation of all.
LEMMA FlattenChain ==
  ASSUME NEW ss, IsSeq(ss), \A j \in 1 .. Len(ss) : IsSeq(ss[j])
  PROVE  /\ FlattenSeq(ss) = Chain(ss)[Len(ss)]
         /\ \A i \in 0 .. Len(ss) : IsSeq(Chain(ss)[i])
<1>1. PICK n \in Nat : n = Len(ss) BY SeqIs
<1>2. PICK c : c = Chain(ss) OBVIOUS
<1>3. c[0] = <<>> /\ \A i \in Nat : c[i + 1] = c[i] \o ss[i + 1] BY <1>2, ChainIs
<1> DEFINE F == FlatR!Rec(ss, 1 .. n)
<1>4. FlattenSeq(ss) = IF n = 0 THEN ss ELSE F[n] BY <1>1 DEF FlattenSeq, FlatR!Rec, FlatBody
<1>5. F = [i \in 1 .. n |-> FlatBody(ss, F, i)]
  <2> DEFINE size == [i \in 1 .. n |-> i]
  <2>1. \A i \in 1 .. n : size[i] \in Nat OBVIOUS
  <2>2. \A f, g : \A i \in 1 .. n :
          (\A m \in 1 .. n : size[m] < size[i] => f[m] = g[m]) => FlatBody(ss, f, i) = FlatBody(ss, g, i)
    BY DEF FlatBody
  <2> HIDE DEF size
  <2> QED BY <2>1, <2>2, Counting, FlatR!Defined
<1> HIDE DEF F
<1> DEFINE A == {i \in Nat : i <= n => IsSeq(c[i]) /\ (i # 0 => F[i] = c[i])}
<1>6. 0 \in A BY <1>3, SeqEmpty
<1>7. ASSUME NEW i \in Nat, i \in A PROVE i + 1 \in A
  <2> SUFFICES ASSUME i + 1 <= n PROVE IsSeq(c[i + 1]) /\ F[i + 1] = c[i + 1] OBVIOUS
  <2>1. IsSeq(c[i]) /\ (i # 0 => F[i] = c[i]) /\ i + 1 \in 1 .. n BY <1>7
  <2>2. c[i + 1] = c[i] \o ss[i + 1] /\ IsSeq(ss[i + 1]) BY <1>1, <1>3, <2>1
  <2>3. IsSeq(c[i + 1]) BY <2>1, <2>2, SeqCat
  <2>4. CASE i = 0
    <3>1. F[1] = ss[1] BY <1>5, <2>1, <2>4 DEF FlatBody
    <3>2. i + 1 = 1 /\ c[i] = <<>> BY <1>3, <2>4
    <3>3. c[1] = <<>> \o ss[1] /\ IsSeq(ss[1]) BY <2>2, <3>2, Zenon
    <3>4. c[1] = ss[1] BY <3>3, CatEmpty, Zenon
    <3>5. F[i + 1] = c[i + 1] BY <3>1, <3>2, <3>4, Zenon
    <3> QED BY <2>3, <3>5
  <2>5. CASE i # 0
    <3>1. i + 1 # 1 /\ (i + 1) - 1 = i BY <2>5
    <3>2. F[i + 1] = F[i] \o ss[i + 1] BY <1>5, <2>1, <3>1 DEF FlatBody
    <3> QED BY <2>1, <2>2, <2>3, <2>5, <3>2
  <2> QED BY <2>4, <2>5
<1>8. \A i \in Nat : i \in A
  <2> HIDE DEF A
  <2> QED BY <1>6, <1>7, Counting
<1>9. \A i \in 0 .. n : IsSeq(c[i]) BY <1>8
<1>10. FlattenSeq(ss) = c[n]
  <2>1. CASE n = 0 BY <1>1, <1>3, <1>4, <2>1, SeqIs
  <2>2. CASE n # 0 BY <1>4, <1>8, <2>2
  <2> QED BY <2>1, <2>2
<1> QED BY <1>1, <1>2, <1>9, <1>10

\* FlattenSeq of two sequences of sequences.
LEMMA FlattenCat ==
  ASSUME NEW ss, IsSeq(ss), \A j \in 1 .. Len(ss) : IsSeq(ss[j]),
         NEW tt, IsSeq(tt), \A j \in 1 .. Len(tt) : IsSeq(tt[j])
  PROVE  FlattenSeq(ss \o tt) = FlattenSeq(ss) \o FlattenSeq(tt)
<1>1. PICK m \in Nat, n \in Nat : m = Len(ss) /\ n = Len(tt) BY SeqIs
<1>2. PICK u : u = ss \o tt OBVIOUS
<1>3. Grown(ss, tt, u, m, m + n) BY <1>1, <1>2, CatIs
<1>4. /\ IsSeq(u) /\ Len(u) = m + n
      /\ \A k \in 1 .. m : u[k] = ss[k]
      /\ \A k \in 1 .. n : u[m + k] = tt[k]
  BY <1>1, <1>3, Zenon DEF Grown
<1>5. \A j \in 1 .. m + n : IsSeq(u[j])
  <2> TAKE j \in 1 .. m + n
  <2>1. CASE j \in 1 .. m BY <1>1, <1>4, <2>1
  <2>2. CASE j \notin 1 .. m
    <3>1. j - m \in 1 .. n /\ m + (j - m) = j BY <2>2
    <3>2. u[m + (j - m)] = tt[j - m] BY <1>4, <3>1
    <3> QED BY <1>1, <3>1, <3>2
  <2> QED BY <2>1, <2>2
<1>6. PICK a, b, c : a = Chain(ss) /\ b = Chain(tt) /\ c = Chain(u) OBVIOUS
<1>7. /\ a[0] = <<>> /\ (\A i \in Nat : a[i + 1] = a[i] \o ss[i + 1])
      /\ b[0] = <<>> /\ (\A i \in Nat : b[i + 1] = b[i] \o tt[i + 1])
      /\ c[0] = <<>> /\ (\A i \in Nat : c[i + 1] = c[i] \o u[i + 1])
  BY <1>6, ChainIs
<1>8. FlattenSeq(ss) = a[m] /\ (\A i \in 0 .. m : IsSeq(a[i])) /\ FlattenSeq(tt) = b[n] /\ \A i \in 0 .. n : IsSeq(b[i])
  BY <1>1, <1>6, FlattenChain
<1>9. FlattenSeq(u) = c[m + n] BY <1>4, <1>5, <1>6, FlattenChain
<1> DEFINE A == {i \in Nat : i <= m => c[i] = a[i]}
<1>10. \A i \in Nat : i \in A
  <2>1. 0 \in A BY <1>7
  <2>2. ASSUME NEW i \in Nat, i \in A PROVE i + 1 \in A
    <3> SUFFICES ASSUME i + 1 <= m PROVE c[i + 1] = a[i + 1] OBVIOUS
    <3>1. c[i] = a[i] /\ i + 1 \in 1 .. m BY <2>2
    <3>2. u[i + 1] = ss[i + 1] BY <1>4, <3>1
    <3> QED BY <1>7, <3>1, <3>2
  <2> HIDE DEF A
  <2> QED BY <2>1, <2>2, Counting
<1>11. c[m] = a[m] BY <1>10
<1>12. \A j \in 1 .. n : IsSeq(tt[j]) BY <1>1, Zenon
<1>13. IsSeq(a[m]) /\ \A i \in 0 .. n : IsSeq(b[i]) BY <1>8
<1>14. PICK d : d = [i \in Nat |-> a[m] \o b[i]] OBVIOUS
<1>15. \A i \in Nat : d[i] = a[m] \o b[i] BY <1>14, Zenon
<1>16. c[m] = d[0] BY <1>7, <1>11, <1>13, <1>15, CatEmpty, ZenonT(60)
<1>17. ASSUME NEW i \in Nat, NEW j \in Nat, j = i + 1, j <= n PROVE d[j] = d[i] \o tt[j]
  <2>1. i \in 0 .. n /\ j \in 1 .. n BY <1>17
  <2>2. PICK x, y, z : x = a[m] /\ y = b[i] /\ z = tt[j] OBVIOUS
  <2>3. IsSeq(x) /\ IsSeq(y) /\ IsSeq(z) BY <1>12, <1>13, <2>1, <2>2, Zenon
  <2>4. (x \o y) \o z = x \o (y \o z) BY <2>3, CatAssoc, SMTT(30)
  <2>5. b[j] = y \o z BY <1>7, <1>17, <2>2, Zenon
  <2>6. d[j] = x \o b[j] /\ d[i] = x \o y BY <1>15, <2>2, Zenon
  <2> QED BY <2>2, <2>4, <2>5, <2>6, Zenon
<1>18. ASSUME NEW i \in Nat, NEW j \in Nat, j = i + 1, j <= n, NEW k \in Nat, k = m + i
       PROVE m + j = k + 1 /\ c[k + 1] = c[k] \o tt[j]
  <2>1. m + j = k + 1 /\ j \in 1 .. n BY <1>18
  <2>2. u[k + 1] = tt[j] BY <1>4, <2>1, Zenon
  <2> QED BY <1>7, <2>1, <2>2, Zenon
<1> DEFINE B == {i \in Nat : i <= n => c[m + i] = d[i]}
<1>19. \A i \in Nat : i \in B
  <2>1. 0 \in B BY <1>16
  <2>2. ASSUME NEW i \in Nat, i \in B PROVE i + 1 \in B
    <3>1. PICK j \in Nat, k \in Nat : j = i + 1 /\ k = m + i OBVIOUS
    <3>2. CASE j <= n
      <4>1. c[k] = d[i] BY <2>2, <3>1, <3>2
      <4>2. d[j] = d[i] \o tt[j] BY <1>17, <3>1, <3>2
      <4>3. m + j = k + 1 /\ c[k + 1] = c[k] \o tt[j] BY <1>18, <3>1, <3>2
      <4>4. c[m + j] = d[j] BY <4>1, <4>2, <4>3, Zenon
      <4> QED BY <3>1, <4>4
    <3> QED BY <3>1, <3>2
  <2> HIDE DEF B
  <2> QED BY <2>1, <2>2, Counting
<1>20. c[m + n] = d[n] BY <1>19, n \in B
<1> QED BY <1>2, <1>8, <1>9, <1>15, <1>20, Zenon

\* Of one.
LEMMA FlattenOne == ASSUME NEW x, IsSeq(x) PROVE FlattenSeq(<<x>>) = x
<1>1. IsSeq(<<x>>) /\ Len(<<x>>) = 1 /\ <<x>>[1] = x BY SeqOne
<1>2. PICK s : s = <<x>> OBVIOUS
<1>3. PICK c : c = Chain(s) OBVIOUS
<1>4. IsSeq(s) /\ Len(s) = 1 /\ s[1] = x BY <1>1, <1>2, Zenon
<1>7. \A j \in 1 .. Len(s) : IsSeq(s[j]) BY <1>4
<1>8. FlattenSeq(s) = c[1] BY <1>3, <1>4, <1>7, FlattenChain, Zenon
<1>5. c[0] = <<>> /\ c[0 + 1] = c[0] \o s[0 + 1] BY <1>3, ChainIs
<1>6. 0 + 1 = 1 OBVIOUS
<1>9. c[1] = <<>> \o x BY <1>4, <1>5, <1>6, Zenon
<1> QED BY <1>2, <1>8, <1>9, CatEmpty, Zenon

\* The entries of a tree with their paths, when p is the path of the tree.
Under(p, t) == [k \in DOMAIN t |-> [t[k] EXCEPT !.name = Joined(p, @)]]

\* What makes way for an entry, and for each of them.
Piece(e)      == IF e.dir THEN Under(e.name, e.node) ELSE <<e>>
Pieces(items) == [j \in DOMAIN items |-> Piece(items[j])]

IsItems(s) == IsSeq(s) /\ \A j \in 1 .. Len(s) : s[j].dir => IsSeq(s[j].node)
IsFiles(f) == IsSeq(f) /\ \A j \in 1 .. Len(f) : ~ f[j].dir

\* What Under returns.
LEMMA UnderIs ==
  ASSUME NEW p, NEW t, IsSeq(t)
  PROVE  /\ IsSeq(Under(p, t)) /\ Len(Under(p, t)) = Len(t)
         /\ \A k \in 1 .. Len(t) : Under(p, t)[k] = [t[k] EXCEPT !.name = Joined(p, @)]
<1>1. PICK n \in Nat : n = Len(t) BY SeqIs
<1>2. Under(p, t) = [k \in 1 .. n |-> [t[k] EXCEPT !.name = Joined(p, @)]] BY <1>1, SeqIs DEF Under
<1>3. PICK u : u = Under(p, t) OBVIOUS
<1>4. u = [k \in 1 .. n |-> u[k]] /\ \A k \in 1 .. n : u[k] = [t[k] EXCEPT !.name = Joined(p, @)]
  BY <1>2, <1>3
<1>5. IsSeq(u) /\ Len(u) = n BY <1>4, SeqMade
<1> QED BY <1>1, <1>3, <1>4, <1>5, Zenon

\* A level is flattened piece by piece.
LEMMA PiecesIs ==
  ASSUME NEW s, IsItems(s)
  PROVE  /\ Expand(s) = FlattenSeq(Pieces(s))
         /\ IsSeq(Pieces(s)) /\ Len(Pieces(s)) = Len(s)
         /\ \A j \in 1 .. Len(s) : Pieces(s)[j] = Piece(s[j]) /\ IsSeq(Pieces(s)[j])
         /\ IsSeq(Expand(s))
<1>1. PICK n \in Nat : n = Len(s) BY SeqIs DEF IsItems
<1>2. DOMAIN s = 1 .. n /\ \A j \in 1 .. n : s[j].dir => IsSeq(s[j].node) BY <1>1, SeqIs DEF IsItems
<1>3. Expand(s) = FlattenSeq(Pieces(s)) BY DEF Expand, Pieces, Piece, Under
<1>4. PICK u : u = Pieces(s) OBVIOUS
<1>5. u = [j \in 1 .. n |-> Piece(s[j])] BY <1>2, <1>4 DEF Pieces
<1>6. u = [j \in 1 .. n |-> u[j]] /\ \A j \in 1 .. n : u[j] = Piece(s[j]) BY <1>5
<1>7. IsSeq(u) /\ Len(u) = n BY <1>6, SeqMade
<1>8. \A j \in 1 .. n : IsSeq(u[j])
  <2> TAKE j \in 1 .. n
  <2>1. CASE s[j].dir BY <1>2, <1>6, <2>1, UnderIs DEF Piece
  <2>2. CASE ~ s[j].dir BY <1>6, <2>2, SeqOne DEF Piece
  <2> QED BY <2>1, <2>2
<1>9. IsSeq(FlattenSeq(u))
  <2>1. \A j \in 1 .. Len(u) : IsSeq(u[j]) BY <1>7, <1>8
  <2>2. FlattenSeq(u) = Chain(u)[Len(u)] /\ \A i \in 0 .. Len(u) : IsSeq(Chain(u)[i])
    BY <1>7, <2>1, FlattenChain
  <2>3. Len(u) \in 0 .. Len(u) BY <1>7
  <2> QED BY <2>2, <2>3
<1> QED BY <1>1, <1>3, <1>4, <1>6, <1>7, <1>8, <1>9, Zenon

\* Items of two sequences.
LEMMA ItemsCat == ASSUME NEW s, IsItems(s), NEW t, IsItems(t) PROVE IsItems(s \o t)
<1>1. PICK m \in Nat, n \in Nat : m = Len(s) /\ n = Len(t) BY SeqIs DEF IsItems
<1>2. PICK u : u = s \o t OBVIOUS
<1>3. Grown(s, t, u, m, m + n) BY <1>1, <1>2, CatIs DEF IsItems
<1>4. /\ IsSeq(u) /\ Len(u) = m + n
      /\ \A k \in 1 .. m : u[k] = s[k]
      /\ \A k \in 1 .. n : u[m + k] = t[k]
  BY <1>1, <1>3, Zenon DEF Grown
<1>5. ASSUME NEW j \in 1 .. m + n, u[j].dir PROVE IsSeq(u[j].node)
  <2>1. CASE j \in 1 .. m BY <1>1, <1>4, <1>5, <2>1 DEF IsItems
  <2>2. CASE j \notin 1 .. m
    <3>1. PICK k \in 1 .. n : j = m + k
      <4>1. j - m \in 1 .. n /\ j = m + (j - m) BY <2>2
      <4> QED BY <4>1
    <3>2. u[j] = t[k] BY <1>4, <3>1
    <3> QED BY <1>1, <1>5, <3>2 DEF IsItems
  <2> QED BY <2>1, <2>2
<1> QED BY <1>2, <1>4, <1>5 DEF IsItems

\* A round does its work on each part of the items.
LEMMA ExpandCat ==
  ASSUME NEW s, IsItems(s), NEW t, IsItems(t) PROVE Expand(s \o t) = Expand(s) \o Expand(t)
<1>1. PICK m \in Nat, n \in Nat : m = Len(s) /\ n = Len(t) BY SeqIs DEF IsItems
<1>2. PICK u : u = s \o t OBVIOUS
<1>3. Grown(s, t, u, m, m + n) BY <1>1, <1>2, CatIs DEF IsItems
<1>4. /\ IsSeq(u) /\ Len(u) = m + n
      /\ \A k \in 1 .. m : u[k] = s[k]
      /\ \A k \in 1 .. n : u[m + k] = t[k]
  BY <1>1, <1>3, Zenon DEF Grown
<1>5. IsItems(u) BY <1>2, ItemsCat
<1>6. PICK ps, pt, pu : ps = Pieces(s) /\ pt = Pieces(t) /\ pu = Pieces(u) OBVIOUS
<1>7. /\ Expand(s) = FlattenSeq(ps) /\ IsSeq(ps) /\ Len(ps) = m
      /\ \A j \in 1 .. m : ps[j] = Piece(s[j]) /\ IsSeq(ps[j])
  BY <1>1, <1>6, PiecesIs
<1>8. /\ Expand(t) = FlattenSeq(pt) /\ IsSeq(pt) /\ Len(pt) = n
      /\ \A j \in 1 .. n : pt[j] = Piece(t[j]) /\ IsSeq(pt[j])
  BY <1>1, <1>6, PiecesIs
<1>9. /\ Expand(u) = FlattenSeq(pu) /\ IsSeq(pu) /\ Len(pu) = m + n
      /\ \A j \in 1 .. m + n : pu[j] = Piece(u[j])
  BY <1>4, <1>5, <1>6, PiecesIs
<1>10. PICK pst : pst = ps \o pt OBVIOUS
<1>11. Grown(ps, pt, pst, m, m + n) BY <1>7, <1>8, <1>10, CatIs
<1>12. /\ IsSeq(pst) /\ Len(pst) = m + n
       /\ \A k \in 1 .. m : pst[k] = ps[k]
       /\ \A k \in 1 .. n : pst[m + k] = pt[k]
  BY <1>7, <1>8, <1>11, Zenon DEF Grown
<1>13. \A j \in 1 .. m + n : pu[j] = pst[j]
  <2> TAKE j \in 1 .. m + n
  <2>1. CASE j \in 1 .. m BY <1>4, <1>7, <1>9, <1>12, <2>1
  <2>2. CASE j \notin 1 .. m
    <3>1. PICK k \in 1 .. n : j = m + k
      <4>1. j - m \in 1 .. n /\ j = m + (j - m) BY <2>2
      <4> QED BY <4>1
    <3>2. u[j] = t[k] /\ pst[j] = pt[k] BY <1>4, <1>12, <3>1
    <3> QED BY <1>8, <1>9, <3>2
  <2> QED BY <2>1, <2>2
<1>14. pu = pst BY <1>9, <1>12, <1>13, SeqSame
<1>15. FlattenSeq(ps \o pt) = FlattenSeq(ps) \o FlattenSeq(pt)
  <2>1. \A j \in 1 .. Len(ps) : IsSeq(ps[j]) BY <1>7
  <2>2. \A j \in 1 .. Len(pt) : IsSeq(pt[j]) BY <1>8
  <2> QED BY <1>7, <1>8, <2>1, <2>2, FlattenCat
<1> QED BY <1>2, <1>7, <1>8, <1>9, <1>10, <1>14, <1>15, Zenon

\* A round on one item.
LEMMA ExpandOne ==
  ASSUME NEW e, e.dir => IsSeq(e.node) PROVE IsItems(<<e>>) /\ Expand(<<e>>) = Piece(e)
<1>1. PICK s : s = <<e>> OBVIOUS
<1>2. IsSeq(s) /\ Len(s) = 1 /\ s[1] = e BY <1>1, SeqOne
<1>3. IsItems(s) BY <1>2 DEF IsItems
<1>4. PICK u : u = Pieces(s) OBVIOUS
<1>5. Expand(s) = FlattenSeq(u) /\ IsSeq(u) /\ Len(u) = 1 /\ u[1] = Piece(e) /\ IsSeq(Piece(e))
  BY <1>2, <1>3, <1>4, PiecesIs
<1>6. IsSeq(<<Piece(e)>>) /\ Len(<<Piece(e)>>) = 1 /\ <<Piece(e)>>[1] = Piece(e) BY SeqOne
<1>7. u = <<Piece(e)>>
  <2>1. PICK v : v = <<Piece(e)>> OBVIOUS
  <2>2. \A i \in 1 .. 1 : u[i] = v[i] BY <1>5, <1>6, <2>1
  <2> QED BY <1>5, <1>6, <2>1, <2>2, SeqSame
<1>8. FlattenSeq(<<Piece(e)>>) = Piece(e) BY <1>5, FlattenOne
<1> QED BY <1>1, <1>3, <1>5, <1>7, <1>8, Zenon

\* A round leaves files alone.
LEMMA ExpandFiles == ASSUME NEW f, IsFiles(f) PROVE IsItems(f) /\ Expand(f) = f
<1>1. PICK n \in Nat : n = Len(f) BY SeqIs DEF IsFiles
<1>2. IsSeq(f) /\ \A j \in 1 .. n : ~ f[j].dir BY <1>1 DEF IsFiles
<1>3. IsItems(f) BY <1>1, <1>2 DEF IsItems
<1>4. PICK u : u = Pieces(f) OBVIOUS
<1>5. /\ Expand(f) = FlattenSeq(u) /\ IsSeq(u) /\ Len(u) = n
      /\ \A j \in 1 .. n : u[j] = Piece(f[j]) /\ IsSeq(u[j])
  BY <1>1, <1>3, <1>4, PiecesIs
<1>6. \A j \in 1 .. n : u[j] = <<f[j]>> BY <1>2, <1>5 DEF Piece
<1>7. PICK c : c = Chain(u) OBVIOUS
<1>8. c[0] = <<>> /\ \A i \in Nat : c[i + 1] = c[i] \o u[i + 1] BY <1>7, ChainIs
<1>9. FlattenSeq(u) = c[n] BY <1>5, <1>7, FlattenChain
<1> DEFINE A == {i \in Nat : i <= n => IsSeq(c[i]) /\ Len(c[i]) = i /\ \A j \in 1 .. i : c[i][j] = f[j]}
<1>10. 0 \in A BY <1>8, SeqEmpty
<1>11. ASSUME NEW i \in Nat, i \in A PROVE i + 1 \in A
  <2>1. PICK k \in Nat : k = i + 1 OBVIOUS
  <2>2. CASE k <= n
    <3>1. IsSeq(c[i]) /\ Len(c[i]) = i /\ \A j \in 1 .. i : c[i][j] = f[j] BY <1>11, <2>1, <2>2
    <3>2. k \in 1 .. n BY <2>1, <2>2
    <3>3. c[k] = c[i] \o <<f[k]>> BY <1>6, <1>8, <2>1, <3>2, Zenon
    <3>4. PICK s, e, t : s = c[i] /\ e = f[k] /\ t = c[k] OBVIOUS
    <3>5. IsSeq(<<e>>) /\ Len(<<e>>) = 1 /\ <<e>>[1] = e BY SeqOne
    <3>6. Grown(s, <<e>>, t, i, i + 1) BY <3>1, <3>3, <3>4, <3>5, CatIs
    <3>7. /\ IsSeq(t) /\ Len(t) = k /\ (\A j \in 1 .. i : t[j] = s[j])
          /\ \A j \in 1 .. Len(<<e>>) : t[i + j] = <<e>>[j]
      BY <2>1, <3>1, <3>4, <3>5, <3>6, Zenon DEF Grown
    <3>8. t[k] = e BY <2>1, <3>5, <3>7
    <3>9. \A j \in 1 .. k : t[j] = f[j] BY <2>1, <3>1, <3>4, <3>7, <3>8
    <3> QED BY <2>1, <3>4, <3>7, <3>9
  <2> QED BY <2>1, <2>2
<1>12. n \in A
  <2> HIDE DEF A
  <2> QED BY <1>10, <1>11, Counting
<1>13. IsSeq(c[n]) /\ Len(c[n]) = n /\ \A j \in 1 .. n : c[n][j] = f[j] BY <1>12
<1>14. c[n] = f BY <1>1, <1>2, <1>13, SeqSame
<1> QED BY <1>3, <1>5, <1>9, <1>14, Zenon

\* A tree after n of the rounds of flatten_tree.
LevelBody(t, f, n) == IF n = 0 THEN t ELSE Expand(f[n - 1])
LevelR == INSTANCE Recursion WITH Body <- LevelBody
Level(t, n) == LevelR!Rec(t, Nat)[n]

\* Level is its recursion, and Files the last of the levels.
LEMMA LevelIs ==
  ASSUME NEW t
  PROVE  /\ Level(t, 0) = t
         /\ \A n \in Nat : Level(t, n + 1) = Expand(Level(t, n))
         /\ Files(t) = Level(t, MaxPath)
<1> DEFINE f == LevelR!Rec(t, Nat)
<1>1. Files(t) = f[MaxPath] BY DEF Files, LevelR!Rec, LevelBody
<1>2. \A n : Level(t, n) = f[n] BY DEF Level
<1>3. \A g, h : LevelBody(t, g, 0) = LevelBody(t, h, 0) BY DEF LevelBody
<1>4. \A g, h : \A n \in Nat : g[n] = h[n] => LevelBody(t, g, n + 1) = LevelBody(t, h, n + 1)
  BY DEF LevelBody
<1>5. f[0] = LevelBody(t, f, 0) /\ \A n \in Nat : f[n + 1] = LevelBody(t, f, n + 1)
  BY <1>3, <1>4, Counting, LevelR!Stepped
<1> HIDE DEF f
<1>6. f[0] = t BY <1>5 DEF LevelBody
<1>7. ASSUME NEW n \in Nat PROVE f[n + 1] = Expand(f[n])
  <2>1. n + 1 # 0 /\ (n + 1) - 1 = n OBVIOUS
  <2> QED BY <1>5, <2>1, Zenon DEF LevelBody
<1> QED BY <1>1, <1>2, <1>6, <1>7, Zenon

\* A round more at the end is one more at the start.
LEMMA LevelNext == ASSUME NEW t, NEW n \in Nat PROVE Level(t, n + 1) = Level(Expand(t), n)
<1> DEFINE A == {k \in Nat : Level(t, k + 1) = Level(Expand(t), k)}
<1>1. 0 \in A
  <2>1. Level(t, 0 + 1) = Expand(t) BY LevelIs, 0 \in Nat, Zenon
  <2>2. Level(Expand(t), 0) = Expand(t) BY LevelIs
  <2> QED BY <2>1, <2>2
<1>2. ASSUME NEW k \in Nat, k \in A PROVE k + 1 \in A
  <2>1. k + 1 \in Nat /\ Level(t, k + 1) = Level(Expand(t), k) BY <1>2
  <2>2. Level(t, (k + 1) + 1) = Expand(Level(t, k + 1)) BY <2>1, LevelIs, Zenon
  <2>3. Level(Expand(t), k + 1) = Expand(Level(Expand(t), k)) BY LevelIs, Zenon
  <2>4. Level(t, (k + 1) + 1) = Level(Expand(t), k + 1) BY <2>1, <2>2, <2>3, Zenon
  <2> QED BY <2>1, <2>4
<1>3. \A k \in Nat : k \in A
  <2> HIDE DEF A
  <2> QED BY <1>1, <1>2, Counting
<1> QED BY <1>3

\* In every round the subtrees hold trees.
Expands(s) == \A n \in Nat : IsItems(Level(s, n))

\* Items that are expanded were items before.
LEMMA ExpandsNext == ASSUME NEW s, IsItems(s), Expands(Expand(s)) PROVE Expands(s)
<1> SUFFICES ASSUME NEW n \in Nat PROVE IsItems(Level(s, n)) BY DEF Expands
<1>1. CASE n = 0 BY <1>1, LevelIs
<1>2. CASE n # 0
  <2>1. PICK k \in Nat : n = k + 1
    <3>1. n - 1 \in Nat /\ n = (n - 1) + 1 BY <1>2
    <3> QED BY <3>1
  <2>2. Level(s, n) = Level(Expand(s), k) BY <2>1, LevelNext, Zenon
  <2> QED BY <2>2 DEF Expands
<1> QED BY <1>1, <1>2

\* All rounds do their work on each part.
LEMMA LevelCat ==
  ASSUME NEW s, Expands(s), NEW t, Expands(t)
  PROVE  Expands(s \o t) /\ \A n \in Nat : Level(s \o t, n) = Level(s, n) \o Level(t, n)
<1>1. PICK u : u = s \o t OBVIOUS
<1> DEFINE A == {n \in Nat : Level(u, n) = Level(s, n) \o Level(t, n)}
<1>2. 0 \in A BY <1>1, LevelIs, ZenonT(60)
<1>3. ASSUME NEW n \in Nat, n \in A PROVE n + 1 \in A
  <2>1. Level(u, n) = Level(s, n) \o Level(t, n) BY <1>3
  <2>2. IsItems(Level(s, n)) /\ IsItems(Level(t, n)) BY DEF Expands
  <2>3. Expand(Level(s, n) \o Level(t, n)) = Expand(Level(s, n)) \o Expand(Level(t, n))
    BY <2>2, ExpandCat
  <2>4. /\ Level(u, n + 1) = Expand(Level(u, n)) /\ Level(s, n + 1) = Expand(Level(s, n))
        /\ Level(t, n + 1) = Expand(Level(t, n))
    BY LevelIs, Zenon
  <2>5. Level(u, n + 1) = Level(s, n + 1) \o Level(t, n + 1) BY <2>1, <2>3, <2>4, Zenon
  <2> QED BY <2>5
<1>4. \A n \in Nat : n \in A
  <2> HIDE DEF A
  <2> QED BY <1>2, <1>3, Counting
<1>5. ASSUME NEW n \in Nat PROVE Level(u, n) = Level(s, n) \o Level(t, n) BY <1>4
<1>6. ASSUME NEW n \in Nat PROVE IsItems(Level(u, n))
  <2>1. IsItems(Level(s, n)) /\ IsItems(Level(t, n)) BY DEF Expands
  <2>2. IsItems(Level(s, n) \o Level(t, n)) BY <2>1, ItemsCat
  <2> QED BY <1>5, <2>2, Zenon
<1> QED BY <1>1, <1>5, <1>6, Zenon DEF Expands

\* All rounds leave files alone.
LEMMA LevelFiles == ASSUME NEW f, IsFiles(f) PROVE Expands(f) /\ \A n \in Nat : Level(f, n) = f
<1> DEFINE A == {n \in Nat : Level(f, n) = f}
<1>1. 0 \in A BY LevelIs
<1>2. ASSUME NEW n \in Nat, n \in A PROVE n + 1 \in A
  <2>1. Level(f, n + 1) = Expand(Level(f, n)) BY LevelIs, Zenon
  <2>2. Expand(f) = f BY ExpandFiles
  <2>3. Level(f, n + 1) = f BY <1>2, <2>1, <2>2
  <2> QED BY <2>3
<1>3. \A n \in Nat : n \in A
  <2> HIDE DEF A
  <2> QED BY <1>1, <1>2, Counting
<1>4. \A n \in Nat : Level(f, n) = f BY <1>3
<1>5. IsItems(f) BY ExpandFiles
<1> QED BY <1>4, <1>5 DEF Expands

\* When only files are left, they stay.
LEMMA LevelLater ==
  ASSUME NEW s, NEW n \in Nat, IsFiles(Level(s, n)), NEW m \in Nat, n <= m
  PROVE  Level(s, m) = Level(s, n)
<1>1. PICK f : f = Level(s, n) OBVIOUS
<1> DEFINE A == {k \in Nat : Level(s, n + k) = f}
<1>2. 0 \in A
  <2>1. n + 0 = n OBVIOUS
  <2> QED BY <1>1, <2>1
<1>3. ASSUME NEW k \in Nat, k \in A PROVE k + 1 \in A
  <2>1. PICK i \in Nat : i = n + k OBVIOUS
  <2>2. i + 1 = n + (k + 1) BY <2>1
  <2>3. Level(s, i) = f BY <1>3, <2>1
  <2>4. Level(s, i + 1) = Expand(Level(s, i)) BY LevelIs, Zenon
  <2>5. Expand(f) = f BY <1>1, ExpandFiles
  <2>6. Level(s, n + (k + 1)) = f BY <2>2, <2>3, <2>4, <2>5, Zenon
  <2> QED BY <2>6
<1>4. \A k \in Nat : k \in A
  <2> HIDE DEF A
  <2> QED BY <1>2, <1>3, Counting
<1>5. m - n \in Nat /\ n + (m - n) = m OBVIOUS
<1>6. Level(s, n + (m - n)) = f BY <1>4, <1>5
<1> QED BY <1>1, <1>5, <1>6

\* A subtree is one round behind what it holds.
LEMMA LevelSubtree ==
  ASSUME NEW p, NEW t, IsSeq(t), Expands(Under(p, t))
  PROVE  /\ Expands(<<Subtree(p, t)>>)
         /\ \A n \in Nat : Level(<<Subtree(p, t)>>, n + 1) = Level(Under(p, t), n)
<1>1. PICK e : e = Subtree(p, t) OBVIOUS
<1>2. e.dir /\ e.node = t /\ e.name = p BY <1>1 DEF Subtree
<1>3. IsItems(<<e>>) /\ Expand(<<e>>) = Under(p, t) BY <1>2, ExpandOne DEF Piece
<1>4. Expands(<<e>>) BY <1>3, ExpandsNext
<1>5. \A n \in Nat : Level(<<e>>, n + 1) = Level(Under(p, t), n) BY <1>3, LevelNext
<1> QED BY <1>1, <1>4, <1>5

----------------------------
\* Paths and the directories they are in.

\* A path in the index.
IsPath(p) == IsSeq(p) /\ Normal(p) /\ Len(p) <= MaxPath

\* What starts_with compares.
LEMMA PrefixIs ==
  ASSUME NEW s, IsSeq(s), NEW t, IsSeq(t)
  PROVE  IsPrefix(s, t) <=> Len(s) <= Len(t) /\ \A i \in 1 .. Len(s) : s[i] = t[i]
<1>1. PICK m \in Nat, n \in Nat : m = Len(s) /\ n = Len(t) BY SeqIs
<1>2. PICK a, b : a = SubSeq(s, 1, m) /\ b = SubSeq(t, 1, m) OBVIOUS
<1>3. IsPrefix(s, t) <=> m <= n /\ a = b BY <1>1, <1>2 DEF IsPrefix
<1>4. IsSeq(a) /\ Len(a) = m /\ \A i \in 1 .. m : a[i] = s[i]
  <2>1. /\ IsSeq(SubSeq(s, 1, m)) /\ Len(SubSeq(s, 1, m)) = (IF 1 <= m THEN m - 1 + 1 ELSE 0)
        /\ \A i \in 1 .. m - 1 + 1 : SubSeq(s, 1, m)[i] = s[1 + i - 1]
    BY SeqSub
  <2> QED BY <1>2, <2>1
<1>5. IsSeq(b) /\ Len(b) = m /\ \A i \in 1 .. m : b[i] = t[i]
  <2>1. /\ IsSeq(SubSeq(t, 1, m)) /\ Len(SubSeq(t, 1, m)) = (IF 1 <= m THEN m - 1 + 1 ELSE 0)
        /\ \A i \in 1 .. m - 1 + 1 : SubSeq(t, 1, m)[i] = t[1 + i - 1]
    BY SeqSub
  <2> QED BY <1>2, <2>1
<1>6. a = b <=> \A i \in 1 .. m : s[i] = t[i]
  <2>1. ASSUME \A i \in 1 .. m : s[i] = t[i] PROVE a = b BY <1>4, <1>5, <2>1, SeqSame
  <2>2. ASSUME a = b PROVE \A i \in 1 .. m : s[i] = t[i] BY <1>4, <1>5, <2>2
  <2> QED BY <2>1, <2>2
<1> QED BY <1>1, <1>3, <1>6

\* The least of a set of numbers.
LEMMA MinIs ==
  ASSUME NEW S \in SUBSET Nat, S # {} PROVE Min(S) \in S /\ \A k \in S : Min(S) <= k
<1>1. \E m \in S : \A k \in S : m <= k BY Least
<1> QED BY <1>1 DEF Min

\* What comes before the first slash, if there is one.
LEMMA FirstNameIs ==
  ASSUME NEW s, IsSeq(s)
  PROVE  \/ FirstName(s) = s /\ \A j \in 1 .. Len(s) : s[j] # Slash
         \/ \E i \in 1 .. Len(s) : /\ s[i] = Slash /\ FirstName(s) = SubSeq(s, 1, i - 1)
                                   /\ \A j \in 1 .. i - 1 : s[j] # Slash
<1>1. PICK n \in Nat : n = Len(s) BY SeqIs
<1>2. Slashes(s) = {i \in 1 .. n : s[i] = Slash} BY <1>1, SeqIs DEF Slashes
<1>3. CASE Slashes(s) = {} BY <1>1, <1>2, <1>3 DEF FirstName
<1>4. CASE Slashes(s) # {}
  <2>1. PICK S : S = Slashes(s) OBVIOUS
  <2>2. S \in SUBSET Nat BY <1>2, <2>1
  <2>3. PICK i : i = Min(S) OBVIOUS
  <2>4. i \in S /\ \A k \in S : i <= k BY <1>4, <2>1, <2>2, <2>3, MinIs
  <2>5. FirstName(s) = SubSeq(s, 1, i - 1) BY <1>4, <2>1, <2>3 DEF FirstName
  <2>6. i \in 1 .. n /\ s[i] = Slash BY <1>2, <2>1, <2>4
  <2>7. \A j \in 1 .. i - 1 : s[j] # Slash
    <3> TAKE j \in 1 .. i - 1
    <3>1. j \in 1 .. n /\ ~ (i <= j) BY <2>6
    <3> QED BY <1>2, <2>1, <2>4, <3>1
  <2> QED BY <1>1, <2>5, <2>6, <2>7
<1> QED BY <1>3, <1>4

\* The path goes on behind its first o bytes, those of dir and a slash.
Below(dir, path, o) ==
    /\ o \in 0 .. Len(path) - 1
    /\ o = IF dir = <<>> THEN 0 ELSE Len(dir) + 1
    /\ \A i \in 1 .. Len(dir) : dir[i] = path[i]
    /\ dir # <<>> => path[o] = Slash
    /\ path[o + 1] # Slash
    /\ Relative(dir, path) = SubSeq(path, o + 1, Len(path))

\* A path in a directory goes on behind the slash after it.
LEMMA InsideIs ==
  ASSUME NEW path, IsPath(path), NEW dir, IsSeq(dir), Inside(dir, path)
  PROVE  \E o : Below(dir, path, o)
<1>1. PICK m \in Nat, n \in Nat : m = Len(dir) /\ n = Len(path) BY SeqIs DEF IsPath
<1>2. IsSeq(path) /\ n # 0 /\ path[1] # Slash /\ path[n] # Slash
      /\ \A i \in 1 .. n - 1 : path[i] # Slash \/ path[i + 1] # Slash
  BY <1>1, SeqIs DEF IsPath, Normal
<1>3. CASE dir = <<>>
  <2>1. m = 0 BY <1>1, <1>3, SeqEmpty
  <2>2. Relative(dir, path) = SubSeq(path, 0 + 1, Len(path)) BY <1>3 DEF Relative
  <2>3. Below(dir, path, 0) BY <1>1, <1>2, <1>3, <2>1, <2>2 DEF Below
  <2> QED BY <2>3
<1>4. CASE dir # <<>>
  <2>1. PICK a : a = Append(dir, Slash) OBVIOUS
  <2>2. IsSeq(a) /\ Len(a) = m + 1 /\ (\A i \in 1 .. m : a[i] = dir[i]) /\ a[m + 1] = Slash
    BY <1>1, <2>1, SeqAppend
  <2>3. IsPrefix(a, path) BY <1>4, <2>1 DEF Inside
  <2>4. m + 1 <= n /\ \A i \in 1 .. m + 1 : a[i] = path[i] BY <1>1, <1>2, <2>2, <2>3, PrefixIs
  <2>5. path[m + 1] = Slash /\ \A i \in 1 .. m : dir[i] = path[i] BY <2>2, <2>4
  <2>6. m + 1 # n BY <1>2, <2>5
  <2>7. path[(m + 1) + 1] # Slash
    <3>1. m + 1 \in 1 .. n - 1 BY <2>4, <2>6
    <3> QED BY <1>2, <2>5, <3>1
  <2>8. Relative(dir, path) = SubSeq(path, (m + 1) + 1, Len(path))
    <3>1. Len(dir) + 2 = (m + 1) + 1 BY <1>1
    <3> QED BY <1>4, <3>1 DEF Relative
  <2>9. m + 1 \in 0 .. n - 1 BY <2>4, <2>6
  <2>10. Below(dir, path, m + 1) BY <1>1, <1>4, <2>5, <2>7, <2>8, <2>9 DEF Below
  <2> QED BY <2>10
<1> QED BY <1>3, <1>4

\* A part of the path behind a directory, with the directory before it.
LEMMA JoinedIs ==
  ASSUME NEW path, IsPath(path), NEW dir, IsSeq(dir), NEW o, Below(dir, path, o),
         NEW k \in Nat, o + k <= Len(path), NEW name, IsSeq(name), Len(name) = k,
         \A j \in 1 .. k : name[j] = path[o + j]
  PROVE  Joined(dir, name) = SubSeq(path, 1, o + k)
<1>1. PICK m \in Nat, n \in Nat : m = Len(dir) /\ n = Len(path) BY SeqIs DEF IsPath
<1>2. /\ o \in 0 .. n - 1 /\ (dir = <<>> => o = 0) /\ (dir # <<>> => o = m + 1)
      /\ (\A i \in 1 .. m : dir[i] = path[i]) /\ (dir # <<>> => path[o] = Slash)
  BY <1>1 DEF Below
<1>3. PICK s : s = SubSeq(path, 1, o + k) OBVIOUS
<1>4. IsSeq(s) /\ Len(s) = o + k /\ \A i \in 1 .. o + k : s[i] = path[i]
  <2>1. /\ IsSeq(SubSeq(path, 1, o + k)) /\ Len(SubSeq(path, 1, o + k)) = (IF 1 <= o + k THEN (o + k) - 1 + 1 ELSE 0)
        /\ \A i \in 1 .. (o + k) - 1 + 1 : SubSeq(path, 1, o + k)[i] = path[1 + i - 1]
    BY <1>2, SeqSub
  <2> QED BY <1>2, <1>3, <2>1
<1>5. CASE dir = <<>>
  <2>1. \A i \in 1 .. k : name[i] = s[i] BY <1>2, <1>4, <1>5
  <2>2. name = s BY <1>2, <1>4, <1>5, <2>1, SeqSame
  <2> QED BY <1>3, <1>5, <2>2 DEF Joined
<1>6. CASE dir # <<>>
  <2>1. PICK a, b, c : a = <<Slash>> /\ b = dir \o a /\ c = b \o name OBVIOUS
  <2>2. IsSeq(a) /\ Len(a) = 1 /\ a[1] = Slash BY <2>1, SeqOne
  <2>3. Grown(dir, a, b, m, m + 1) BY <1>1, <2>1, <2>2, CatIs
  <2>4. /\ IsSeq(b) /\ Len(b) = m + 1 /\ (\A i \in 1 .. m : b[i] = dir[i])
        /\ \A i \in 1 .. Len(a) : b[m + i] = a[i]
    BY <2>3, Zenon DEF Grown
  <2>5. b[m + 1] = Slash BY <2>2, <2>4
  <2>6. Grown(b, name, c, m + 1, (m + 1) + k) BY <2>1, <2>4, CatIs
  <2>7. /\ IsSeq(c) /\ Len(c) = (m + 1) + k /\ (\A i \in 1 .. m + 1 : c[i] = b[i])
        /\ \A i \in 1 .. Len(name) : c[(m + 1) + i] = name[i]
    BY <2>6, Zenon DEF Grown
  <2>8. o = m + 1 BY <1>2, <1>6
  <2>9. \A i \in 1 .. o + k : c[i] = s[i]
    <3> TAKE i \in 1 .. o + k
    <3>1. CASE i \in 1 .. m BY <1>2, <1>4, <2>4, <2>7, <2>8, <3>1
    <3>2. CASE i = m + 1
      <4>1. i = o /\ i \in 1 .. m + 1 BY <2>8, <3>2
      <4>2. c[i] = b[i] /\ b[i] = Slash BY <2>5, <2>7, <3>2, <4>1
      <4>3. path[i] = Slash BY <1>2, <1>6, <4>1
      <4>4. s[i] = path[i] BY <1>4
      <4> QED BY <4>2, <4>3, <4>4
    <3>3. CASE i > m + 1
      <4>1. PICK j \in 1 .. k : i = (m + 1) + j
        <5>1. i - (m + 1) \in 1 .. k /\ i = (m + 1) + (i - (m + 1)) BY <2>8, <3>3
        <5> QED BY <5>1
      <4>2. c[i] = name[j] BY <2>7, <4>1
      <4>3. s[i] = path[o + j] BY <1>4, <2>8, <4>1
      <4> QED BY <4>2, <4>3
    <3>4. i \in 1 .. m \/ i = m + 1 \/ i > m + 1 BY <1>2
    <3> QED BY <3>1, <3>2, <3>3, <3>4
  <2>10. c = s BY <1>4, <2>7, <2>8, <2>9, SeqSame
  <2> QED BY <1>3, <1>6, <2>1, <2>10, Zenon DEF Joined
<1> QED BY <1>5, <1>6

\* A name in a directory: its path is the one that is looked for, or of a directory that
\* holds it.
Named(dir, path, rel, name) ==
    /\ IsSeq(rel) /\ IsSeq(name) /\ name # <<>> /\ Len(name) <= Len(rel)
    /\ \A j \in 1 .. Len(name) : name[j] # Slash
    /\ name = rel => Joined(dir, name) = path
    /\ name # rel =>
        LET in == SubSeq(path, 1, Len(path) - Len(rel) + Len(name))
        IN  /\ IsSeq(in) /\ in # <<>> /\ Joined(dir, name) = in
            /\ Len(dir) < Len(in) /\ Len(in) < Len(path) /\ Inside(in, path)

\* The name of a path in a directory it is in, and the directory of that name.
LEMMA NameIs ==
  ASSUME NEW path, IsPath(path), NEW dir, IsSeq(dir), Inside(dir, path),
         NEW rel, rel = Relative(dir, path), NEW name, name = FirstName(rel)
  PROVE  Named(dir, path, rel, name)
<1>1. PICK m \in Nat, n \in Nat : m = Len(dir) /\ n = Len(path) BY SeqIs DEF IsPath
<1>2. PICK o : Below(dir, path, o) BY InsideIs
<1>3. /\ o \in 0 .. n - 1 /\ (dir = <<>> => o = 0) /\ (dir # <<>> => o = m + 1)
      /\ path[o + 1] # Slash /\ rel = SubSeq(path, o + 1, Len(path))
  BY <1>1, <1>2 DEF Below
<1>4. IsSeq(rel) /\ Len(rel) = n - o /\ \A j \in 1 .. n - o : rel[j] = path[o + j]
  <2>1. /\ IsSeq(SubSeq(path, o + 1, n)) /\ Len(SubSeq(path, o + 1, n)) = (IF o + 1 <= n THEN n - (o + 1) + 1 ELSE 0)
        /\ \A j \in 1 .. n - (o + 1) + 1 : SubSeq(path, o + 1, n)[j] = path[(o + 1) + j - 1]
    BY <1>3, SeqSub
  <2> QED BY <1>1, <1>3, <2>1
<1>5. PICK r \in Nat : r = n - o /\ r # 0 /\ r = Len(rel)
  <2>1. n - o \in Nat /\ n - o # 0 BY <1>3
  <2> QED BY <1>4, <2>1
<1>6. m <= o
  <2>1. dir = <<>> => m = 0 BY <1>1, SeqEmpty
  <2> QED BY <1>3, <2>1
<1>7. CASE name = rel /\ \A j \in 1 .. Len(rel) : rel[j] # Slash
  <2>1. Joined(dir, rel) = SubSeq(path, 1, o + r)
    <3>1. o + r <= Len(path) BY <1>1, <1>3, <1>5
    <3>2. \A j \in 1 .. r : rel[j] = path[o + j] BY <1>4, <1>5
    <3> QED BY <1>2, <1>4, <1>5, <3>1, <3>2, JoinedIs
  <2>2. SubSeq(path, 1, o + r) = path
    <3>1. o + r = n BY <1>3, <1>5
    <3>2. /\ IsSeq(SubSeq(path, 1, n)) /\ Len(SubSeq(path, 1, n)) = (IF 1 <= n THEN n - 1 + 1 ELSE 0)
          /\ \A j \in 1 .. n - 1 + 1 : SubSeq(path, 1, n)[j] = path[1 + j - 1]
      BY SeqSub
    <3>3. PICK s : s = SubSeq(path, 1, n) OBVIOUS
    <3>4. IsSeq(s) /\ Len(s) = n /\ \A j \in 1 .. n : s[j] = path[j] BY <3>2, <3>3
    <3>5. s = path BY <1>1, <3>4, SeqSame DEF IsPath
    <3> QED BY <3>1, <3>3, <3>5, Zenon
  <2>3. rel # <<>> BY <1>4, <1>5, SeqIs
  <2> QED BY <1>4, <1>5, <1>7, <2>1, <2>2, <2>3 DEF Named
<1>8. ASSUME NEW i \in 1 .. Len(rel), rel[i] = Slash, name = SubSeq(rel, 1, i - 1),
             \A j \in 1 .. i - 1 : rel[j] # Slash
      PROVE  Named(dir, path, rel, name)
  <2>1. i \in 2 .. r
    <3>1. i \in 1 .. r BY <1>5, <1>8
    <3>2. i # 1 BY <1>3, <1>4, <1>5, <1>8
    <3> QED BY <3>1, <3>2
  <2>2. PICK k \in Nat : k = i - 1 /\ k \in 1 .. r - 1
    <3>1. i - 1 \in Nat /\ i - 1 \in 1 .. r - 1 BY <2>1
    <3> QED BY <3>1
  <2>3. IsSeq(name) /\ Len(name) = k /\ \A j \in 1 .. k : name[j] = rel[j]
    <3>1. /\ IsSeq(SubSeq(rel, 1, k)) /\ Len(SubSeq(rel, 1, k)) = (IF 1 <= k THEN k - 1 + 1 ELSE 0)
          /\ \A j \in 1 .. k - 1 + 1 : SubSeq(rel, 1, k)[j] = rel[1 + j - 1]
      BY SeqSub
    <3> QED BY <1>8, <2>2, <3>1
  <2>4. name # <<>> /\ \A j \in 1 .. k : name[j] # Slash BY <1>8, <2>2, <2>3, SeqIs
  <2>5. name # rel BY <1>5, <2>2, <2>3
  <2>6. PICK in : in = SubSeq(path, 1, o + k) OBVIOUS
  <2>7. o + k = Len(path) - Len(rel) + Len(name)
    <3>1. o + k = n - r + k BY <1>3, <1>5
    <3> QED BY <1>1, <1>5, <2>3, <3>1, Zenon
  <2>8. Joined(dir, name) = in
    <3>1. o + k <= Len(path) BY <1>1, <1>5, <2>2, <1>3
    <3>2. \A j \in 1 .. k : name[j] = path[o + j] BY <1>4, <1>5, <2>2, <2>3
    <3> QED BY <1>2, <2>3, <2>6, <3>1, <3>2, JoinedIs
  <2>9. IsSeq(in) /\ Len(in) = o + k /\ \A j \in 1 .. o + k : in[j] = path[j]
    <3>1. /\ IsSeq(SubSeq(path, 1, o + k)) /\ Len(SubSeq(path, 1, o + k)) = (IF 1 <= o + k THEN (o + k) - 1 + 1 ELSE 0)
          /\ \A j \in 1 .. (o + k) - 1 + 1 : SubSeq(path, 1, o + k)[j] = path[1 + j - 1]
      BY <1>3, <2>2, SeqSub
    <3> QED BY <1>3, <2>2, <2>6, <3>1
  <2>10. in # <<>> /\ Len(dir) < Len(in) /\ Len(in) < Len(path)
    <3>1. o + k # 0 /\ m < o + k /\ o + k < n BY <1>3, <1>5, <1>6, <2>2
    <3> QED BY <1>1, <2>9, <3>1, SeqIs
  <2>11. Inside(in, path)
    <3>1. PICK a : a = Append(in, Slash) OBVIOUS
    <3>2. PICK q \in Nat : q = o + k BY <1>3
    <3>3. IsSeq(a) /\ Len(a) = q + 1 /\ (\A j \in 1 .. q : a[j] = in[j]) /\ a[q + 1] = Slash
      BY <2>9, <3>1, <3>2, SeqAppend
    <3>4. path[q + 1] = Slash
      <4>1. rel[i] = path[o + i] BY <1>4, <1>5, <2>1
      <4>2. o + i = q + 1 BY <1>3, <2>1, <2>2, <3>2
      <4> QED BY <1>8, <4>1, <4>2
    <3>5. \A j \in 1 .. q + 1 : a[j] = path[j] BY <2>9, <3>2, <3>3, <3>4
    <3>6. q + 1 <= n BY <1>3, <1>5, <2>2, <3>2
    <3>7. IsPrefix(a, path) BY <1>1, <3>3, <3>5, <3>6, PrefixIs DEF IsPath
    <3> QED BY <3>1, <3>7 DEF Inside
  <2>12. Len(name) <= Len(rel) BY <1>5, <2>2, <2>3
  <2> QED BY <1>4, <2>3, <2>4, <2>5, <2>6, <2>7, <2>8, <2>9, <2>10, <2>11, <2>12 DEF Named
<1> QED BY <1>4, <1>7, <1>8, FirstNameIs

----------------------------
\* build_tree: what a round does, and what stays so in all of them.

\* What is left of the frames after those that change: the first n are as they were.
SameFirst(fs, gs, n) == IsSeq(gs) /\ \A k \in 1 .. n : gs[k] = fs[k]

Extended(f, e) == [f EXCEPT !.entries = Append(@, e)]

\* A round closes the innermost frame, adds an entry to it, or opens another.
Closes(b, r) ==
    LET n == Len(b.frames)
    IN  /\ r.next = b.next /\ r.written = Append(b.written, b.frames[n].entries)
        /\ SameFirst(b.frames, r.frames, n - 2) /\ Len(r.frames) = n - 1
        /\ n # 1 => r.frames[n - 1] =
                        Extended(b.frames[n - 1], Subtree(b.frames[n].name, b.frames[n].entries))
Adds(b, r, e) ==
    LET n == Len(b.frames)
    IN  /\ r.next = b.next + 1 /\ r.written = b.written
        /\ SameFirst(b.frames, r.frames, n - 1) /\ Len(r.frames) = n
        /\ r.frames[n] = Extended(b.frames[n], e)
Opens(b, r, dir, name) ==
    LET n == Len(b.frames)
    IN  /\ r.next = b.next /\ r.written = b.written
        /\ SameFirst(b.frames, r.frames, n) /\ Len(r.frames) = n + 1
        /\ r.frames[n + 1] = [dir |-> dir, name |-> name, entries |-> <<>>]

IsBuild(b) ==
    b = [next |-> b.next, frames |-> b.frames, written |-> b.written] /\ IsSeq(b.frames)

\* With changes the entries of the last frame.
LEMMA WithIs ==
  ASSUME NEW fs, IsSeq(fs), NEW n \in Nat \ {0}, n = Len(fs), NEW e, NEW w, w = With(fs, e)
  PROVE  SameFirst(fs, w, n - 1) /\ Len(w) = n /\ w[n] = Extended(fs[n], e)
<1>1. DOMAIN fs = 1 .. n /\ fs = [k \in 1 .. n |-> fs[k]] BY SeqIs
<1>2. w = [k \in 1 .. n |-> IF k = n THEN Extended(fs[n], e) ELSE fs[k]] BY <1>1 DEF With, Extended
<1>3. w = [k \in 1 .. n |-> w[k]] /\ w[n] = Extended(fs[n], e) /\ \A k \in 1 .. n - 1 : w[k] = fs[k]
  BY <1>2
<1>4. IsSeq(w) /\ Len(w) = n BY <1>3, SeqMade
<1> QED BY <1>3, <1>4 DEF SameFirst

Rounded(es, b, r, top, path, rel, name) ==
    /\ IsBuild(r)
    /\ (b.next > Len(es) \/ ~ Inside(top.dir, path)) => Closes(b, r)
    /\ (b.next <= Len(es) /\ Inside(top.dir, path) /\ name # <<>> /\ name = rel) =>
            Adds(b, r, File(name, es[b.next].data))
    /\ (b.next <= Len(es) /\ Inside(top.dir, path) /\ name # <<>> /\ name # rel) =>
            Opens(b, r, SubSeq(path, 1, Len(path) - Len(rel) + Len(name)), name)

\* The outcomes of a round, by the conditions of the loop.
LEMMA RoundIs ==
  ASSUME NEW es, NEW b, IsBuild(b), b.frames # <<>>, b.next \in Nat,
         IsSeq(es), NEW n, n = Len(b.frames),
         NEW r, r = BuildRound(es, b),
         NEW top, top = b.frames[n], NEW path, path = es[b.next].path,
         NEW rel, rel = Relative(top.dir, path), NEW name, name = FirstName(rel)
  PROVE  Rounded(es, b, r, top, path, rel, name)
<1>1. PICK fs : fs = b.frames OBVIOUS
<1>2. IsSeq(fs) /\ fs # <<>> /\ n \in Nat \ {0} /\ n = Len(fs) /\ top = fs[n] /\ top = Last(fs)
  BY <1>1, SeqIs DEF IsBuild, Last
<1>3. b = [next |-> b.next, frames |-> fs, written |-> b.written] BY <1>1 DEF IsBuild
<1>8. ~ (b.next > Len(es) \/ ~ Inside(top.dir, path)) <=> (b.next <= Len(es) /\ Inside(top.dir, path))
  <2>1. PICK m \in Nat : m = Len(es) BY SeqIs
  <2>2. ~ (b.next > m) <=> b.next <= m OBVIOUS
  <2> QED BY <2>1, <2>2, Zenon
<1>4. CASE b.next > Len(es) \/ ~ Inside(top.dir, path)
  <2>1. r = [b EXCEPT !.frames  = IF Len(@) = 1 THEN <<>> ELSE With(Front(@), Subtree(top.name, top.entries)),
                      !.written = Append(@, top.entries)]
    BY <1>1, <1>2, <1>4 DEF BuildRound
  <2>9. PICK e : e = Subtree(top.name, top.entries) OBVIOUS
  <2>2. PICK gs : gs = IF n = 1 THEN <<>> ELSE With(Front(fs), e) OBVIOUS
  <2>3. /\ r = [next |-> r.next, frames |-> r.frames, written |-> r.written]
        /\ r.next = b.next /\ r.written = Append(b.written, top.entries) /\ r.frames = gs
    <3>1. gs = IF Len(b.frames) = 1 THEN <<>> ELSE With(Front(b.frames), Subtree(top.name, top.entries))
      BY <1>1, <1>2, <2>2, <2>9, Zenon
    <3> QED BY <1>3, <2>1, <3>1
  <2>4. /\ SameFirst(fs, gs, n - 2) /\ Len(gs) = n - 1
        /\ n # 1 => gs[n - 1] = Extended(fs[n - 1], e)
    <3>1. CASE n = 1 BY <2>2, <3>1, SeqEmpty DEF SameFirst
    <3>2. CASE n # 1
      <4>1. PICK m \in Nat \ {0} : m = n - 1
        <5>1. n - 1 \in Nat \ {0} BY <1>2, <3>2
        <5> QED BY <5>1
      <4>2. PICK f : f = Front(fs) OBVIOUS
      <4>3. IsSeq(f) /\ Len(f) = m /\ \A k \in 1 .. m : f[k] = fs[k]
        <5>1. f = SubSeq(fs, 1, m) BY <1>2, <4>1, <4>2 DEF Front
        <5>2. /\ IsSeq(SubSeq(fs, 1, m)) /\ Len(SubSeq(fs, 1, m)) = (IF 1 <= m THEN m - 1 + 1 ELSE 0)
              /\ \A k \in 1 .. m - 1 + 1 : SubSeq(fs, 1, m)[k] = fs[1 + k - 1]
          BY SeqSub
        <5> QED BY <5>1, <5>2
      <4>4. gs = With(f, e) BY <2>2, <3>2, <4>2
      <4>5. SameFirst(f, gs, m - 1) /\ Len(gs) = m /\ gs[m] = Extended(f[m], e)
        BY <4>3, <4>4, WithIs
      <4>6. m - 1 = n - 2 BY <1>2, <4>1
      <4>7. \A k \in 1 .. m - 1 : gs[k] = fs[k] BY <4>3, <4>5 DEF SameFirst
      <4>8. IsSeq(gs) /\ f[m] = fs[m] BY <4>3, <4>5 DEF SameFirst
      <4> QED BY <4>1, <4>5, <4>6, <4>7, <4>8, Zenon DEF SameFirst
    <3> QED BY <3>1, <3>2
  <2>5. Closes(b, r) BY <1>1, <1>2, <2>3, <2>4, <2>9, Zenon DEF Closes
  <2>6. IsBuild(r) BY <2>3, <2>4 DEF IsBuild, SameFirst
  <2> QED BY <1>4, <1>8, <2>5, <2>6, Zenon DEF Rounded
<1>5. CASE ~ (b.next > Len(es) \/ ~ Inside(top.dir, path)) /\ name = <<>>
  <2>1. r = [b EXCEPT !.next = @ + 1] BY <1>1, <1>2, <1>5 DEF BuildRound
  <2>2. IsBuild(r) BY <1>2, <1>3, <2>1 DEF IsBuild
  <2> QED BY <1>5, <1>8, <2>2, Zenon DEF Rounded
<1>6. CASE ~ (b.next > Len(es) \/ ~ Inside(top.dir, path)) /\ name # <<>> /\ name = rel
  <2>1. r = [b EXCEPT !.next = @ + 1, !.frames = With(@, File(name, es[b.next].data))]
    BY <1>1, <1>2, <1>6 DEF BuildRound
  <2>9. PICK e : e = File(name, es[b.next].data) OBVIOUS
  <2>2. PICK gs : gs = With(fs, e) OBVIOUS
  <2>3. /\ r = [next |-> r.next, frames |-> r.frames, written |-> r.written]
        /\ r.next = b.next + 1 /\ r.written = b.written /\ r.frames = gs
    <3>1. gs = With(b.frames, File(name, es[b.next].data)) BY <1>1, <2>2, <2>9, Zenon
    <3> QED BY <1>3, <2>1, <3>1
  <2>4. SameFirst(fs, gs, n - 1) /\ Len(gs) = n /\ gs[n] = Extended(fs[n], e)
    <3>1. PICK m \in Nat \ {0} : m = n BY <1>2
    <3>2. IsSeq(fs) /\ Len(fs) = m BY <1>2, <3>1
    <3>3. SameFirst(fs, gs, m - 1) /\ Len(gs) = m /\ gs[m] = Extended(fs[m], e)
      BY <2>2, <3>2, WithIs
    <3> QED BY <3>1, <3>3
  <2>5. Adds(b, r, File(name, es[b.next].data)) BY <1>1, <1>2, <2>3, <2>4, <2>9, Zenon DEF Adds
  <2>6. IsBuild(r) BY <2>3, <2>4 DEF IsBuild, SameFirst
  <2> QED BY <1>6, <1>8, <2>5, <2>6, Zenon DEF Rounded
<1>7. CASE ~ (b.next > Len(es) \/ ~ Inside(top.dir, path)) /\ name # <<>> /\ name # rel
  <2>1. PICK dir : dir = SubSeq(path, 1, Len(path) - Len(rel) + Len(name)) OBVIOUS
  <2>2. r = [b EXCEPT !.frames = Append(@, [dir |-> dir, name |-> name, entries |-> <<>>])]
    BY <1>1, <1>2, <1>7, <2>1 DEF BuildRound
  <2>9. PICK e : e = [dir |-> dir, name |-> name, entries |-> <<>>] OBVIOUS
  <2>3. PICK gs : gs = Append(fs, e) OBVIOUS
  <2>4. /\ r = [next |-> r.next, frames |-> r.frames, written |-> r.written]
        /\ r.next = b.next /\ r.written = b.written /\ r.frames = gs
    <3>1. gs = Append(b.frames, [dir |-> dir, name |-> name, entries |-> <<>>])
      BY <1>1, <2>3, <2>9, Zenon
    <3> QED BY <1>3, <2>2, <3>1
  <2>5. /\ IsSeq(gs) /\ Len(gs) = n + 1 /\ (\A k \in 1 .. n : gs[k] = fs[k])
        /\ gs[n + 1] = e
    BY <1>2, <2>3, SeqAppend
  <2>6. Opens(b, r, dir, name) BY <1>1, <1>2, <2>4, <2>5, <2>9, Zenon DEF Opens, SameFirst
  <2>7. IsBuild(r) BY <2>4, <2>5 DEF IsBuild
  <2> QED BY <1>7, <1>8, <2>1, <2>6, <2>7, Zenon DEF Rounded
<1> QED BY <1>4, <1>5, <1>6, <1>7, Zenon

\* An entry of a tree: a file with data of ds, or one of the first n of the trees ts.
Child(e, ds, ts, n) ==
    /\ IsEntry(e)
    /\ \/ e.dir = FALSE /\ e.node \in ds
       \/ e.dir = TRUE /\ \E k \in 1 .. n : e.node = ts[k]
TreeIn(t, ds, ts, n) == IsSeq(t) /\ \A j \in 1 .. Len(t) : Child(t[j], ds, ts, n)

\* Trees, each written after its subtrees.
TreesIn(ts, ds) == IsSeq(ts) /\ \A k \in 1 .. Len(ts) : TreeIn(ts[k], ds, ts, k - 1)

IsFrame(f) ==
    f = [dir |-> f.dir, name |-> f.name, entries |-> f.entries] /\ IsSeq(f.dir) /\ IsSeq(f.name)

FramesOk(b, ds) ==
    \A k \in 1 .. Len(b.frames) :
        IsFrame(b.frames[k]) /\ TreeIn(b.frames[k].entries, ds, b.written, Len(b.written))

\* The frames are of a directory, one in it, and so on.
Nested(fs) ==
    /\ fs # <<>> => fs[1].dir = <<>>
    /\ \A k \in 1 .. Len(fs) : Len(fs[k].dir) \in k - 1 .. MaxPath
    /\ \A k \in 2 .. Len(fs) :
            /\ fs[k].dir # <<>> /\ fs[k].dir = Joined(fs[k - 1].dir, fs[k].name)
            /\ Len(fs[k - 1].dir) < Len(fs[k].dir)

BuildOk(b, es, ds) ==
    /\ IsBuild(b) /\ b.next \in 1 .. Len(es) + 1
    /\ TreesIn(b.written, ds) /\ FramesOk(b, ds) /\ Nested(b.frames)

\* The entries a tree is built of.
Listed(es, ds) == IsSeq(es) /\ \A i \in 1 .. Len(es) : IsPath(es[i].path) /\ es[i].data \in ds

\* What With does to a frame.
LEMMA ExtendedIs ==
  ASSUME NEW f, IsFrame(f), NEW e, NEW x, x = Extended(f, e)
  PROVE  IsFrame(x) /\ x.dir = f.dir /\ x.name = f.name /\ x.entries = Append(f.entries, e)
<1>1. f = [dir |-> f.dir, name |-> f.name, entries |-> f.entries] /\ IsSeq(f.dir) /\ IsSeq(f.name)
  BY DEF IsFrame
<1>2. x = [dir |-> f.dir, name |-> f.name, entries |-> Append(f.entries, e)] BY <1>1 DEF Extended
<1> QED BY <1>1, <1>2 DEF IsFrame

\* One more entry of a tree.
LEMMA TreeInAdded ==
  ASSUME NEW t, NEW ds, NEW ts, NEW n, TreeIn(t, ds, ts, n), NEW e, Child(e, ds, ts, n)
  PROVE  TreeIn(Append(t, e), ds, ts, n)
<1>1. PICK m \in Nat : m = Len(t) BY SeqIs DEF TreeIn
<1>2. PICK u : u = Append(t, e) OBVIOUS
<1>3. IsSeq(u) /\ Len(u) = m + 1 /\ (\A j \in 1 .. m : u[j] = t[j]) /\ u[m + 1] = e
  BY <1>1, <1>2, SeqAppend DEF TreeIn
<1>4. \A j \in 1 .. m : Child(t[j], ds, ts, n) BY <1>1 DEF TreeIn
<1>5. ASSUME NEW j \in 1 .. m + 1 PROVE Child(u[j], ds, ts, n)
  <2>1. j \in 1 .. m \/ j = m + 1 OBVIOUS
  <2> QED BY <1>3, <1>4, <2>1
<1> QED BY <1>2, <1>3, <1>5 DEF TreeIn

\* Trees that are written later change nothing for those before.
LEMMA TreeInLater ==
  ASSUME NEW t, NEW ds, NEW ts, NEW n \in Nat, TreeIn(t, ds, ts, n), NEW us, NEW m \in Nat, n <= m,
         \A k \in 1 .. n : us[k] = ts[k]
  PROVE  TreeIn(t, ds, us, m)
<1>1. ASSUME NEW e, Child(e, ds, ts, n) PROVE Child(e, ds, us, m)
  <2>1. ASSUME NEW k \in 1 .. n, e.node = ts[k] PROVE \E i \in 1 .. m : e.node = us[i]
    <3>1. k \in 1 .. m /\ us[k] = ts[k] OBVIOUS
    <3> QED BY <2>1, <3>1
  <2> QED BY <1>1, <2>1 DEF Child
<1> QED BY <1>1 DEF TreeIn

\* When the innermost frame is closed.
LEMMA CloseKeeps ==
  ASSUME NEW es, NEW ds, NEW b, BuildOk(b, es, ds), b.frames # <<>>, NEW r, IsBuild(r), Closes(b, r)
  PROVE  BuildOk(r, es, ds)
<1>1. PICK fs, gs, ws, vs : fs = b.frames /\ gs = r.frames /\ ws = b.written /\ vs = r.written
  OBVIOUS
<1>2. PICK n \in Nat \ {0} : n = Len(fs) BY <1>1, SeqIs DEF BuildOk, IsBuild
<1>3. PICK w \in Nat : w = Len(ws) BY <1>1, SeqIs DEF BuildOk, TreesIn
<1>4. IsSeq(fs) /\ IsSeq(ws) /\ IsSeq(gs) /\ Len(gs) = n - 1 /\ \A k \in 1 .. n - 2 : gs[k] = fs[k]
  BY <1>1, <1>2 DEF BuildOk, IsBuild, TreesIn, Closes, SameFirst
<1>5. PICK top : top = fs[n] OBVIOUS
<1>6. vs = Append(ws, top.entries) /\ r.next = b.next BY <1>1, <1>2, <1>5, Zenon DEF Closes
<1>7. IsSeq(vs) /\ Len(vs) = w + 1 /\ (\A k \in 1 .. w : vs[k] = ws[k]) /\ vs[w + 1] = top.entries
  BY <1>3, <1>4, <1>6, SeqAppend
<1>8. \A k \in 1 .. n : IsFrame(fs[k]) /\ TreeIn(fs[k].entries, ds, ws, w)
  BY <1>1, <1>2, <1>3 DEF BuildOk, FramesOk
<1>9. \A k \in 1 .. w : TreeIn(ws[k], ds, ws, k - 1) BY <1>1, <1>3 DEF BuildOk, TreesIn
<1>10. \A t : TreeIn(t, ds, ws, w) => TreeIn(t, ds, vs, w) /\ TreeIn(t, ds, vs, w + 1)
  <2>1. w <= w + 1 /\ w + 1 \in Nat OBVIOUS
  <2> QED BY <1>7, <2>1, TreeInLater
<1>11. \A k \in 1 .. w + 1 : TreeIn(vs[k], ds, vs, k - 1)
  <2> TAKE k \in 1 .. w + 1
  <2>1. CASE k = w + 1
    <3>1. (w + 1) - 1 = w /\ n \in 1 .. n OBVIOUS
    <3> QED BY <1>5, <1>7, <1>8, <1>10, <2>1, <3>1
  <2>2. CASE k # w + 1
    <3>1. k \in 1 .. w /\ k - 1 \in Nat BY <2>2
    <3>2. TreeIn(ws[k], ds, ws, k - 1) /\ \A i \in 1 .. k - 1 : vs[i] = ws[i] BY <1>7, <1>9, <3>1
    <3>3. TreeIn(ws[k], ds, vs, k - 1)
      <4>1. k - 1 <= k - 1 BY <3>1
      <4> QED BY <3>1, <3>2, <4>1, TreeInLater
    <3> QED BY <1>7, <3>1, <3>3
  <2> QED BY <2>1, <2>2
<1>12. TreesIn(vs, ds) BY <1>7, <1>11 DEF TreesIn
<1> DEFINE e == Subtree(top.name, top.entries)
<1>13. n # 1 => gs[n - 1] = Extended(fs[n - 1], e) BY <1>1, <1>2, <1>5, Zenon DEF Closes
<1>14. Child(e, ds, vs, w + 1)
  <2>1. e = [name |-> top.name, dir |-> TRUE, node |-> top.entries] BY DEF Subtree
  <2>2. IsSeq(top.name)
    <3>1. n \in 1 .. n OBVIOUS
    <3> QED BY <1>5, <1>8, <3>1 DEF IsFrame
  <2> HIDE DEF e
  <2>3. IsEntry(e) /\ e.dir = TRUE /\ e.node = top.entries BY <2>1, <2>2 DEF IsEntry
  <2>4. w + 1 \in 1 .. w + 1 OBVIOUS
  <2> QED BY <1>7, <2>3, <2>4 DEF Child
<1> HIDE DEF e
<1>15. \A k \in 1 .. n - 1 : /\ IsFrame(gs[k]) /\ TreeIn(gs[k].entries, ds, vs, w + 1)
                             /\ gs[k].dir = fs[k].dir /\ gs[k].name = fs[k].name
  <2> TAKE k \in 1 .. n - 1
  <2>1. k \in 1 .. n OBVIOUS
  <2>2. IsFrame(fs[k]) /\ TreeIn(fs[k].entries, ds, vs, w + 1) BY <1>8, <1>10, <2>1
  <2>3. CASE k = n - 1
    <3>1. n # 1 BY <2>3
    <3>2. gs[k] = Extended(fs[k], e) BY <1>13, <2>3, <3>1
    <3>3. PICK f, x : f = fs[k] /\ x = gs[k] OBVIOUS
    <3>4. IsFrame(x) /\ x.dir = f.dir /\ x.name = f.name /\ x.entries = Append(f.entries, e)
      BY <2>2, <3>2, <3>3, ExtendedIs
    <3>5. TreeIn(Append(f.entries, e), ds, vs, w + 1) BY <1>14, <2>2, <3>3, TreeInAdded
    <3> QED BY <3>3, <3>4, <3>5
  <2>4. CASE k # n - 1
    <3>1. gs[k] = fs[k] BY <1>4, <2>4
    <3> QED BY <2>2, <3>1
  <2> QED BY <2>3, <2>4
<1>16. FramesOk(r, ds) BY <1>1, <1>4, <1>7, <1>15 DEF FramesOk
<1>17. /\ fs[1].dir = <<>>
       /\ \A k \in 1 .. n : Len(fs[k].dir) \in k - 1 .. MaxPath
       /\ \A k \in 2 .. n :
              /\ fs[k].dir # <<>> /\ fs[k].dir = Joined(fs[k - 1].dir, fs[k].name)
              /\ Len(fs[k - 1].dir) < Len(fs[k].dir)
  BY <1>1, <1>2 DEF BuildOk, Nested
<1>18. Nested(gs)
  <2>1. gs # <<>> => gs[1].dir = <<>>
    <3>1. CASE n = 1 BY <1>4, <3>1, SeqIs
    <3>2. CASE n # 1
      <4>1. 1 \in 1 .. n - 1 BY <3>2
      <4> QED BY <1>15, <1>17, <4>1
    <3> QED BY <3>1, <3>2
  <2>2. \A k \in 1 .. n - 1 : Len(gs[k].dir) \in k - 1 .. MaxPath
    <3> TAKE k \in 1 .. n - 1
    <3>1. k \in 1 .. n OBVIOUS
    <3>2. gs[k].dir = fs[k].dir BY <1>15
    <3> QED BY <1>17, <3>1, <3>2, Zenon
  <2>3. ASSUME NEW k \in 2 .. n - 1
        PROVE  /\ gs[k].dir # <<>> /\ gs[k].dir = Joined(gs[k - 1].dir, gs[k].name)
               /\ Len(gs[k - 1].dir) < Len(gs[k].dir)
    <3>1. k \in 2 .. n /\ k \in 1 .. n - 1 /\ k - 1 \in 1 .. n - 1 OBVIOUS
    <3>2. gs[k].dir = fs[k].dir /\ gs[k].name = fs[k].name /\ gs[k - 1].dir = fs[k - 1].dir
      BY <1>15, <3>1
    <3> QED BY <1>17, <3>1, <3>2
  <2> QED BY <1>4, <2>1, <2>2, <2>3 DEF Nested
<1>19. r.next \in 1 .. Len(es) + 1 BY <1>6 DEF BuildOk
<1> QED BY <1>1, <1>12, <1>16, <1>18, <1>19, Zenon DEF BuildOk

\* When a file goes into the innermost frame.
LEMMA AddKeeps ==
  ASSUME NEW es, NEW ds, NEW b, BuildOk(b, es, ds), b.frames # <<>>, b.next <= Len(es), IsSeq(es),
         NEW r, IsBuild(r), NEW name, IsSeq(name), NEW d \in ds, Adds(b, r, File(name, d))
  PROVE  BuildOk(r, es, ds)
<1>1. PICK fs, gs, ws, e : fs = b.frames /\ gs = r.frames /\ ws = b.written /\ e = File(name, d)
  OBVIOUS
<1>2. PICK n \in Nat \ {0} : n = Len(fs) BY <1>1, SeqIs DEF BuildOk, IsBuild
<1>3. /\ IsSeq(gs) /\ Len(gs) = n /\ (\A k \in 1 .. n - 1 : gs[k] = fs[k])
      /\ gs[n] = Extended(fs[n], e) /\ r.next = b.next + 1 /\ r.written = ws
  BY <1>1, <1>2, Zenon DEF Adds, SameFirst
<1>4. \A k \in 1 .. n : IsFrame(fs[k]) /\ TreeIn(fs[k].entries, ds, ws, Len(ws))
  BY <1>1, <1>2 DEF BuildOk, FramesOk
<1>5. Child(e, ds, ws, Len(ws))
  <2>1. e = [name |-> name, dir |-> FALSE, node |-> d] BY <1>1 DEF File
  <2>2. IsEntry(e) /\ e.dir = FALSE /\ e.node = d BY <2>1 DEF IsEntry
  <2> QED BY <2>2, d \in ds, Zenon DEF Child
<1>6. \A k \in 1 .. n : /\ IsFrame(gs[k]) /\ TreeIn(gs[k].entries, ds, ws, Len(ws))
                        /\ gs[k].dir = fs[k].dir /\ gs[k].name = fs[k].name
  <2> TAKE k \in 1 .. n
  <2>1. CASE k = n
    <3>3. PICK f, x : f = fs[k] /\ x = gs[k] OBVIOUS
    <3>4. IsFrame(x) /\ x.dir = f.dir /\ x.name = f.name /\ x.entries = Append(f.entries, e)
      BY <1>3, <1>4, <2>1, <3>3, ExtendedIs
    <3>5. TreeIn(Append(f.entries, e), ds, ws, Len(ws)) BY <1>4, <1>5, <3>3, TreeInAdded
    <3> QED BY <3>3, <3>4, <3>5
  <2>2. CASE k # n
    <3>1. gs[k] = fs[k] BY <1>3, <2>2
    <3> QED BY <1>4, <3>1
  <2> QED BY <2>1, <2>2
<1>7. FramesOk(r, ds) BY <1>1, <1>3, <1>6 DEF FramesOk
<1>8. /\ fs[1].dir = <<>>
      /\ \A k \in 1 .. n : Len(fs[k].dir) \in k - 1 .. MaxPath
      /\ \A k \in 2 .. n :
             /\ fs[k].dir # <<>> /\ fs[k].dir = Joined(fs[k - 1].dir, fs[k].name)
             /\ Len(fs[k - 1].dir) < Len(fs[k].dir)
  BY <1>1, <1>2 DEF BuildOk, Nested
<1>9. Nested(gs)
  <2>1. gs[1].dir = <<>>
    <3>1. 1 \in 1 .. n OBVIOUS
    <3> QED BY <1>6, <1>8, <3>1
  <2>2. \A k \in 1 .. n : Len(gs[k].dir) \in k - 1 .. MaxPath BY <1>6, <1>8
  <2>3. ASSUME NEW k \in 2 .. n
        PROVE  /\ gs[k].dir # <<>> /\ gs[k].dir = Joined(gs[k - 1].dir, gs[k].name)
               /\ Len(gs[k - 1].dir) < Len(gs[k].dir)
    <3>1. k \in 1 .. n /\ k - 1 \in 1 .. n OBVIOUS
    <3>2. gs[k].dir = fs[k].dir /\ gs[k].name = fs[k].name /\ gs[k - 1].dir = fs[k - 1].dir
      BY <1>6, <3>1
    <3> QED BY <1>8, <3>2
  <2> QED BY <1>3, <2>1, <2>2, <2>3 DEF Nested
<1>10. r.next \in 1 .. Len(es) + 1
  <2>1. PICK m \in Nat : m = Len(es) BY SeqIs
  <2>2. b.next \in 1 .. m + 1 /\ b.next <= m BY <2>1 DEF BuildOk
  <2>3. b.next + 1 \in 1 .. m + 1 BY <2>2
  <2> QED BY <1>3, <2>1, <2>3, Zenon
<1>11. TreesIn(r.written, ds) BY <1>1, <1>3 DEF BuildOk
<1> QED BY <1>1, <1>7, <1>9, <1>10, <1>11, Zenon DEF BuildOk

\* When a frame is opened.
LEMMA OpenKeeps ==
  ASSUME NEW es, NEW ds, NEW b, BuildOk(b, es, ds), b.frames # <<>>, NEW r, IsBuild(r),
         NEW dir, IsSeq(dir), NEW name, IsSeq(name), Opens(b, r, dir, name),
         dir # <<>>, Len(dir) <= MaxPath,
         NEW top, top = b.frames[Len(b.frames)], dir = Joined(top.dir, name), Len(top.dir) < Len(dir)
  PROVE  BuildOk(r, es, ds)
<1>1. PICK fs, gs, ws : fs = b.frames /\ gs = r.frames /\ ws = b.written OBVIOUS
<1>2. PICK n \in Nat \ {0} : n = Len(fs) BY <1>1, SeqIs DEF BuildOk, IsBuild
<1>3. /\ IsSeq(gs) /\ Len(gs) = n + 1 /\ (\A k \in 1 .. n : gs[k] = fs[k])
      /\ gs[n + 1] = [dir |-> dir, name |-> name, entries |-> <<>>] /\ r.next = b.next /\ r.written = ws
  BY <1>1, <1>2, Zenon DEF Opens, SameFirst
<1>4. \A k \in 1 .. n : IsFrame(fs[k]) /\ TreeIn(fs[k].entries, ds, ws, Len(ws))
  BY <1>1, <1>2 DEF BuildOk, FramesOk
<1>5. PICK x : x = gs[n + 1] OBVIOUS
<1>6. IsFrame(x) /\ x.dir = dir /\ x.name = name /\ x.entries = <<>> BY <1>3, <1>5 DEF IsFrame
<1>7. TreeIn(<<>>, ds, ws, Len(ws)) BY SeqEmpty DEF TreeIn
<1>8. ASSUME NEW k \in 1 .. n + 1 PROVE IsFrame(gs[k]) /\ TreeIn(gs[k].entries, ds, ws, Len(ws))
  <2>1. k \in 1 .. n \/ k = n + 1 OBVIOUS
  <2> QED BY <1>3, <1>4, <1>5, <1>6, <1>7, <2>1
<1>9. FramesOk(r, ds) BY <1>1, <1>3, <1>8 DEF FramesOk
<1>10. /\ fs[1].dir = <<>>
       /\ \A k \in 1 .. n : Len(fs[k].dir) \in k - 1 .. MaxPath
       /\ \A k \in 2 .. n :
             /\ fs[k].dir # <<>> /\ fs[k].dir = Joined(fs[k - 1].dir, fs[k].name)
             /\ Len(fs[k - 1].dir) < Len(fs[k].dir)
  BY <1>1, <1>2 DEF BuildOk, Nested
<1>11. top = fs[n] BY <1>1, <1>2
<1>12. PICK len \in Nat : len = Len(dir) BY SeqIs
<1>13. Len(fs[n].dir) \in n - 1 .. MaxPath /\ Len(fs[n].dir) < len
  <2>1. n \in 1 .. n OBVIOUS
  <2> QED BY <1>10, <1>11, <1>12, <2>1
<1>14. Nested(gs)
  <2>1. gs[1].dir = <<>>
    <3>1. 1 \in 1 .. n OBVIOUS
    <3> QED BY <1>3, <1>10, <3>1
  <2>2. \A k \in 1 .. n + 1 : Len(gs[k].dir) \in k - 1 .. MaxPath
    <3> TAKE k \in 1 .. n + 1
    <3>1. CASE k = n + 1
      <4>1. len \in (n + 1) - 1 .. MaxPath BY <1>12, <1>13
      <4> QED BY <1>5, <1>6, <1>12, <3>1, <4>1, Zenon
    <3>2. CASE k # n + 1
      <4>1. k \in 1 .. n BY <3>2
      <4> QED BY <1>3, <1>10, <4>1
    <3> QED BY <3>1, <3>2
  <2>3. ASSUME NEW k \in 2 .. n + 1
        PROVE  /\ gs[k].dir # <<>> /\ gs[k].dir = Joined(gs[k - 1].dir, gs[k].name)
               /\ Len(gs[k - 1].dir) < Len(gs[k].dir)
    <3>1. CASE k = n + 1
      <4>1. k - 1 = n /\ n \in 1 .. n BY <3>1
      <4>2. gs[k - 1] = top /\ gs[k] = x BY <1>3, <1>5, <1>11, <3>1, <4>1
      <4> QED BY <1>6, <4>2
    <3>2. CASE k # n + 1
      <4>1. k \in 2 .. n /\ k \in 1 .. n /\ k - 1 \in 1 .. n BY <3>2
      <4>2. gs[k] = fs[k] /\ gs[k - 1] = fs[k - 1] BY <1>3, <4>1
      <4> QED BY <1>10, <4>1, <4>2
    <3> QED BY <3>1, <3>2
  <2> QED BY <1>3, <2>1, <2>2, <2>3 DEF Nested
<1>15. r.next \in 1 .. Len(es) + 1 /\ TreesIn(r.written, ds) BY <1>1, <1>3 DEF BuildOk
<1> QED BY <1>1, <1>9, <1>14, <1>15, Zenon DEF BuildOk

\* A name in a directory.
Plain(name) == IsSeq(name) /\ name # <<>> /\ \A j \in 1 .. Len(name) : name[j] # Slash

\* What a round does that starts with a frame.
Turn(es, b, r, top) ==
    \/ /\ b.next = Len(es) + 1 \/ ~ Inside(top.dir, es[b.next].path)
       /\ Closes(b, r)
    \/ \E name : /\ b.next \in 1 .. Len(es) /\ Inside(top.dir, es[b.next].path)
                 /\ Plain(name) /\ name = FirstName(Relative(top.dir, es[b.next].path))
                 /\ IsSeq(name) /\ Joined(top.dir, name) = es[b.next].path
                 /\ Adds(b, r, File(name, es[b.next].data))
    \/ \E dir, name : /\ b.next \in 1 .. Len(es) /\ Inside(top.dir, es[b.next].path)
                      /\ Inside(dir, es[b.next].path) /\ Plain(name)
                      /\ IsSeq(name) /\ IsSeq(dir) /\ Joined(top.dir, name) = dir /\ dir # <<>>
                      /\ Len(top.dir) < Len(dir) /\ Len(dir) <= MaxPath
                      /\ Opens(b, r, dir, name)

\* A round closes a frame, adds a file to the innermost, or opens one; it never meets an
\* empty name.
LEMMA RoundTurns ==
  ASSUME NEW es, NEW ds, Listed(es, ds), NEW b, BuildOk(b, es, ds), b.frames # <<>>,
         NEW r, r = BuildRound(es, b), NEW top, top = b.frames[Len(b.frames)]
  PROVE  IsBuild(r) /\ Turn(es, b, r, top)
<1>1. IsBuild(b) /\ b.next \in 1 .. Len(es) + 1 BY DEF BuildOk
<1>2. PICK n \in Nat \ {0} : n = Len(b.frames) BY <1>1, SeqIs DEF IsBuild
<1>3. PICK m \in Nat : m = Len(es) BY SeqIs DEF Listed
<1>4. PICK path, rel, name :
          path = es[b.next].path /\ rel = Relative(top.dir, path) /\ name = FirstName(rel)
  OBVIOUS
<1>5. top = b.frames[n] BY <1>2
<1>6. Rounded(es, b, r, top, path, rel, name)
  <2>1. b.next \in Nat /\ IsSeq(es) BY <1>1, <1>3 DEF Listed
  <2> QED BY <1>1, <1>2, <1>4, <1>5, <2>1, RoundIs
<1>10. IsBuild(r) BY <1>6, Zenon DEF Rounded
<1>7. CASE b.next > Len(es) \/ ~ Inside(top.dir, path)
  <2>1. Closes(b, r) BY <1>6, <1>7, Zenon DEF Rounded
  <2>2. b.next = Len(es) + 1 \/ ~ Inside(top.dir, path) BY <1>1, <1>3, <1>7
  <2> QED BY <1>4, <1>10, <2>1, <2>2, Zenon DEF Turn
<1>8. CASE ~ (b.next > Len(es) \/ ~ Inside(top.dir, path))
  <2>1. b.next \in 1 .. Len(es) /\ Inside(top.dir, path) BY <1>1, <1>3, <1>8
  <2>7. b.next <= Len(es) BY <1>3, <2>1
  <2>2. IsPath(path) BY <1>4, <2>1 DEF Listed
  <2>3. IsSeq(top.dir)
    <3>1. n \in 1 .. n OBVIOUS
    <3> QED BY <1>2, <1>5, <3>1 DEF BuildOk, FramesOk, IsFrame
  <2>4. Named(top.dir, path, rel, name) BY <1>4, <2>1, <2>2, <2>3, NameIs
  <2>8. Plain(name) BY <2>4 DEF Named, Plain
  <2>5. CASE name = rel
    <3>1. Adds(b, r, File(name, es[b.next].data))
      BY <1>6, <2>1, <2>4, <2>5, <2>7, Zenon DEF Named, Rounded
    <3>2. IsSeq(name) /\ Joined(top.dir, name) = path BY <2>4, <2>5 DEF Named
    <3> QED BY <1>4, <1>10, <2>1, <2>8, <3>1, <3>2, Zenon DEF Turn
  <2>6. CASE name # rel
    <3>1. PICK dir : dir = SubSeq(path, 1, Len(path) - Len(rel) + Len(name)) OBVIOUS
    <3>2. Opens(b, r, dir, name) BY <1>6, <2>1, <2>4, <2>6, <2>7, <3>1, Zenon DEF Named, Rounded
    <3>3. /\ IsSeq(name) /\ IsSeq(dir) /\ dir # <<>> /\ Joined(top.dir, name) = dir
          /\ Len(top.dir) < Len(dir) /\ Len(dir) < Len(path) /\ Inside(dir, path)
      BY <2>4, <2>6, <3>1, Zenon DEF Named
    <3>4. Len(dir) <= MaxPath
      <4>1. PICK i \in Nat, j \in Nat : i = Len(dir) /\ j = Len(path)
        BY <2>2, <3>3, SeqIs DEF IsPath
      <4>2. i < j /\ j <= MaxPath BY <2>2, <3>3, <4>1 DEF IsPath
      <4>3. i <= MaxPath BY <4>2, PathAssumption
      <4> QED BY <4>1, <4>3
    <3> QED BY <1>4, <1>10, <2>1, <2>8, <3>2, <3>3, <3>4, Zenon DEF Turn
  <2> QED BY <2>5, <2>6
<1> QED BY <1>7, <1>8

\* What stays so in all rounds.
LEMMA RoundKeeps ==
  ASSUME NEW es, NEW ds, Listed(es, ds), NEW b, BuildOk(b, es, ds),
         NEW r, r = BuildRound(es, b)
  PROVE  BuildOk(r, es, ds)
<1>1. CASE b.frames = <<>> BY <1>1 DEF BuildRound
<1>2. CASE b.frames # <<>>
  <2>1. PICK top : top = b.frames[Len(b.frames)] OBVIOUS
  <2>2. IsBuild(r) /\ Turn(es, b, r, top) BY <1>2, <2>1, RoundTurns
  <2>3. CASE Closes(b, r) BY <1>2, <2>2, <2>3, CloseKeeps
  <2>4. ASSUME NEW name, b.next \in 1 .. Len(es), IsSeq(name), Adds(b, r, File(name, es[b.next].data))
        PROVE BuildOk(r, es, ds)
    <3>1. IsSeq(es) /\ es[b.next].data \in ds BY <2>4 DEF Listed
    <3>2. PICK d \in ds : d = es[b.next].data BY <3>1
    <3>3. b.next <= Len(es)
      <4>1. PICK m \in Nat : m = Len(es) BY <3>1, SeqIs
      <4> QED BY <2>4, <4>1
    <3>4. Adds(b, r, File(name, d)) BY <2>4, <3>2
    <3> QED BY <1>2, <2>2, <2>4, <3>1, <3>3, <3>4, AddKeeps
  <2>5. ASSUME NEW dir, NEW name, IsSeq(name), IsSeq(dir), Joined(top.dir, name) = dir, dir # <<>>,
               Len(top.dir) < Len(dir), Len(dir) <= MaxPath, Opens(b, r, dir, name)
        PROVE  BuildOk(r, es, ds)
    BY <1>2, <2>1, <2>2, <2>5, OpenKeeps
  <2> QED BY <2>2, <2>3, <2>4, <2>5, Zenon DEF Turn
<1> QED BY <1>1, <1>2

----------------------------
\* build_tree: there are rounds enough.

\* The next entry is in the directory of the innermost frame.
Goes(es, b) == b.next \in 1 .. Len(es) /\ Inside(b.frames[Len(b.frames)].dir, es[b.next].path)

\* The rounds that are left at most.
Due(es, b) ==
    (Len(es) + 1 - b.next) * (2 * (MaxPath + 1))
        + IF Goes(es, b) THEN MaxPath + 1 - Len(b.frames[Len(b.frames)].dir)
          ELSE MaxPath + 1 + Len(b.frames)

\* The numbers in it.
Dues(es, b, n, len, max, rest) ==
    /\ n \in Nat \ {0} /\ n = Len(b.frames)
    /\ len \in n - 1 .. max /\ len = Len(b.frames[n].dir)
    /\ max \in Nat /\ max = MaxPath
    /\ rest \in Nat /\ rest = (Len(es) + 1 - b.next) * (2 * (MaxPath + 1))
    /\ Goes(es, b) => Due(es, b) = rest + (max + 1 - len)
    /\ ~ Goes(es, b) => Due(es, b) = rest + (max + 1 + n)

\* The numbers Due is made of.
LEMMA DuesAre ==
  ASSUME NEW es, NEW ds, IsSeq(es), NEW b, BuildOk(b, es, ds), b.frames # <<>>
  PROVE  \E n, len, max, rest : Dues(es, b, n, len, max, rest)
<1>1. PICK n \in Nat \ {0} : n = Len(b.frames) BY SeqIs DEF BuildOk, IsBuild
<1>2. PICK max \in Nat : max = MaxPath BY PathAssumption
<1>3. Len(b.frames[n].dir) \in n - 1 .. max
  <2>1. n \in 1 .. n OBVIOUS
  <2> QED BY <1>1, <1>2, <2>1 DEF BuildOk, Nested
<1>4. PICK len \in n - 1 .. max : len = Len(b.frames[n].dir) BY <1>3
<1>5. PICK r \in Nat : r = Len(es) + 1 - b.next
  <2>1. PICK m \in Nat : m = Len(es) BY SeqIs
  <2>2. b.next \in 1 .. m + 1 BY <2>1 DEF BuildOk
  <2>3. m + 1 - b.next \in Nat BY <2>2
  <2> QED BY <2>1, <2>3
<1>6. PICK rest \in Nat : rest = r * (2 * (max + 1)) OBVIOUS
<1>7. rest = (Len(es) + 1 - b.next) * (2 * (MaxPath + 1)) BY <1>2, <1>5, <1>6, Zenon
<1>8. Goes(es, b) => Due(es, b) = rest + (max + 1 - len) BY <1>1, <1>2, <1>4, <1>7, Zenon DEF Due
<1>9. ~ Goes(es, b) => Due(es, b) = rest + (max + 1 + n) BY <1>1, <1>2, <1>7, Zenon DEF Due
<1>10. Dues(es, b, n, len, max, rest) BY <1>1, <1>2, <1>4, <1>7, <1>8, <1>9, Zenon DEF Dues
<1> QED BY <1>10

\* Every round takes one of them.
LEMMA DueLess ==
  ASSUME NEW es, NEW ds, Listed(es, ds), NEW b, BuildOk(b, es, ds), b.frames # <<>>,
         NEW r, r = BuildRound(es, b), r.frames # <<>>
  PROVE  /\ Due(es, b) \in Nat /\ Due(es, r) \in Nat
         /\ Due(es, r) < Due(es, b)
<1>1. BuildOk(r, es, ds) /\ IsSeq(es) BY RoundKeeps DEF Listed
<1>2. PICK n, len, max, rest : Dues(es, b, n, len, max, rest) BY <1>1, DuesAre
<1>3. PICK n2, len2, max2, rest2 : Dues(es, r, n2, len2, max2, rest2) BY <1>1, DuesAre
<1>4. /\ n \in Nat \ {0} /\ n = Len(b.frames)
      /\ len \in n - 1 .. max /\ len = Len(b.frames[n].dir)
      /\ max \in Nat /\ max = MaxPath /\ rest \in Nat
      /\ Goes(es, b) => Due(es, b) = rest + (max + 1 - len)
      /\ ~ Goes(es, b) => Due(es, b) = rest + (max + 1 + n)
  BY <1>2, Zenon DEF Dues
<1>5. /\ n2 \in Nat \ {0} /\ n2 = Len(r.frames)
      /\ len2 \in n2 - 1 .. max /\ len2 = Len(r.frames[n2].dir)
      /\ rest2 \in Nat
      /\ Goes(es, r) => Due(es, r) = rest2 + (max + 1 - len2)
      /\ ~ Goes(es, r) => Due(es, r) = rest2 + (max + 1 + n2)
  BY <1>3, <1>4, Zenon DEF Dues
<1>6. rest = (Len(es) + 1 - b.next) * (2 * (max + 1)) /\ rest2 = (Len(es) + 1 - r.next) * (2 * (max + 1))
  BY <1>2, <1>3, <1>4, Zenon DEF Dues
<1>11. n \in Nat \ {0} /\ len \in n - 1 .. max /\ max \in Nat /\ rest \in Nat BY <1>4, Zenon
<1>12. n2 \in Nat \ {0} /\ len2 \in n2 - 1 .. max /\ rest2 \in Nat BY <1>5, Zenon
<1>13. PICK x, y : x = Due(es, b) /\ y = Due(es, r) OBVIOUS
<1>14. /\ Goes(es, b) => x = rest + (max + 1 - len)
       /\ ~ Goes(es, b) => x = rest + (max + 1 + n)
       /\ Goes(es, r) => y = rest2 + (max + 1 - len2)
       /\ ~ Goes(es, r) => y = rest2 + (max + 1 + n2)
  BY <1>4, <1>5, <1>13, Zenon
<1>7. PICK top : top = b.frames[Len(b.frames)] OBVIOUS
<1>8. Turn(es, b, r, top) BY <1>7, RoundTurns
<1>9. CASE b.next = Len(es) + 1 \/ ~ Inside(top.dir, es[b.next].path)
  <2>1. ~ Goes(es, b)
    <3>1. PICK m \in Nat : m = Len(es) BY <1>1, SeqIs
    <3>2. ~ (m + 1 \in 1 .. m) OBVIOUS
    <3> QED BY <1>7, <1>9, <3>1, <3>2, Zenon DEF Goes
  <2>2. Closes(b, r)
    <3>1. ~ (b.next \in 1 .. Len(es) /\ Inside(top.dir, es[b.next].path))
      BY <1>7, <2>1, Zenon DEF Goes
    <3> QED BY <1>8, <3>1, Zenon DEF Turn
  <2>3. rest2 = rest BY <1>6, <2>2, Zenon DEF Closes
  <2>4. n2 = n - 1 BY <1>4, <1>5, <2>2, Zenon DEF Closes
  <2>5. x \in Nat /\ y \in Nat /\ y < x
    <3>1. CASE Goes(es, r) BY <1>11, <1>12, <1>14, <2>1, <2>3, <2>4, <3>1
    <3>2. CASE ~ Goes(es, r) BY <1>11, <1>12, <1>14, <2>1, <2>3, <2>4, <3>2
    <3> QED BY <3>1, <3>2
  <2> QED BY <1>13, <2>5, Zenon
<1>10. CASE ~ (b.next = Len(es) + 1 \/ ~ Inside(top.dir, es[b.next].path))
  <2>1. Goes(es, b)
    <3>1. PICK m \in Nat : m = Len(es) BY <1>1, SeqIs
    <3>2. b.next \in 1 .. m + 1 /\ b.next # m + 1 BY <1>10, <3>1 DEF BuildOk
    <3>3. b.next \in 1 .. m BY <3>2
    <3> QED BY <1>7, <1>10, <3>1, <3>3, Zenon DEF Goes
  <2>2. ASSUME NEW e, Adds(b, r, e) PROVE Due(es, b) \in Nat /\ Due(es, r) \in Nat /\ Due(es, r) < Due(es, b)
    <3>1. r.next = b.next + 1 /\ n2 = n BY <1>4, <1>5, <2>2, Zenon DEF Adds
    <3>2. rest2 + (2 * (max + 1)) = rest
      <4>1. PICK m \in Nat : m = Len(es) BY <1>1, SeqIs
      <4>2. PICK i \in Nat : i = b.next /\ i \in 1 .. m + 1 BY <4>1 DEF BuildOk
      <4>3. PICK k \in Nat : k = 2 * (max + 1) BY <1>4
      <4>4. rest = (m + 1 - i) * k /\ rest2 = (m + 1 - (i + 1)) * k
        BY <1>6, <3>1, <4>1, <4>2, <4>3, Zenon
      <4>5. (m + 1 - i) * k = (m + 1 - (i + 1)) * k + k OBVIOUS
      <4> QED BY <4>3, <4>4, <4>5
    <3>4. n2 = n /\ rest = rest2 + max + max + 2 BY <1>11, <1>12, <3>1, <3>2
    <3>5. x = rest + (max + 1 - len) BY <1>14, <2>1, Zenon
    <3>3. x \in Nat /\ y \in Nat /\ y < x
      <4>1. CASE Goes(es, r)
        <5>1. y = rest2 + (max + 1 - len2) BY <1>14, <4>1, Zenon
        <5>2. len2 \in 0 .. max /\ len \in 0 .. max BY <1>11, <1>12
        <5> QED BY <1>11, <1>12, <3>4, <3>5, <5>1, <5>2
      <4>2. CASE ~ Goes(es, r)
        <5>1. y = rest2 + (max + 1 + n2) BY <1>14, <4>2, Zenon
        <5> QED BY <1>11, <1>12, <3>4, <3>5, <5>1
      <4> QED BY <4>1, <4>2
    <3> QED BY <1>13, <3>3, Zenon
  <2>3. ASSUME NEW dir, NEW name, b.next \in 1 .. Len(es), Inside(dir, es[b.next].path), IsSeq(dir),
               Len(top.dir) < Len(dir), Opens(b, r, dir, name)
        PROVE  Due(es, b) \in Nat /\ Due(es, r) \in Nat /\ Due(es, r) < Due(es, b)
    <3>1. r.next = b.next /\ n2 = n + 1 /\ r.frames[n + 1] = [dir |-> dir, name |-> name, entries |-> <<>>]
      BY <1>4, <1>5, <2>3, Zenon DEF Opens
    <3>2. r.frames[n2].dir = dir BY <3>1
    <3>3. Goes(es, r) BY <1>5, <2>3, <3>1, <3>2, Zenon DEF Goes
    <3>4. rest2 = rest BY <1>6, <3>1, Zenon
    <3>5. len < len2 BY <1>4, <1>5, <1>7, <2>3, <3>2, Zenon
    <3>6. x \in Nat /\ y \in Nat /\ y < x BY <1>11, <1>12, <1>14, <2>1, <3>3, <3>4, <3>5
    <3> QED BY <1>13, <3>6, Zenon
  <2>4. b.next \in 1 .. Len(es) /\ Inside(top.dir, es[b.next].path) BY <1>7, <2>1, Zenon DEF Goes
  <2>5. \/ \E e : Adds(b, r, e)
        \/ \E dir, name : /\ Inside(dir, es[b.next].path) /\ IsSeq(dir)
                          /\ Len(top.dir) < Len(dir) /\ Opens(b, r, dir, name)
    BY <1>8, <1>10, Zenon DEF Turn
  <2> QED BY <2>2, <2>3, <2>4, <2>5
<1> QED BY <1>9, <1>10

\* build_tree after n rounds.
BuildBody(es, f, n) == IF n = 0 THEN BuildStart ELSE BuildRound(es, f[n - 1])
BuildR == INSTANCE Recursion WITH Body <- BuildBody
Built(es, n) == BuildR!Rec(es, Nat)[n]
Rounds(es) == (Len(es) + 1) * 2 * (MaxPath + 1)

\* Built is its recursion, and Build what it has written in the end.
LEMMA BuiltIs ==
  ASSUME NEW es
  PROVE  /\ Built(es, 0) = BuildStart
         /\ \A n \in Nat : Built(es, n + 1) = BuildRound(es, Built(es, n))
         /\ Build(es) = Built(es, Rounds(es)).written
<1> DEFINE f == BuildR!Rec(es, Nat)
<1>1. Build(es) = f[Rounds(es)].written BY DEF Build, BuildR!Rec, BuildBody, Rounds
<1>2. \A n : Built(es, n) = f[n] BY DEF Built
<1>3. \A g, h : BuildBody(es, g, 0) = BuildBody(es, h, 0) BY DEF BuildBody
<1>4. \A g, h : \A n \in Nat : g[n] = h[n] => BuildBody(es, g, n + 1) = BuildBody(es, h, n + 1)
  BY DEF BuildBody
<1>5. f[0] = BuildBody(es, f, 0) /\ \A n \in Nat : f[n + 1] = BuildBody(es, f, n + 1)
  BY <1>3, <1>4, Counting, BuildR!Stepped
<1> HIDE DEF f
<1>6. f[0] = BuildStart BY <1>5 DEF BuildBody
<1>7. ASSUME NEW n \in Nat PROVE f[n + 1] = BuildRound(es, f[n])
  <2>1. n + 1 # 0 /\ (n + 1) - 1 = n OBVIOUS
  <2> QED BY <1>5, <2>1, Zenon DEF BuildBody
<1> QED BY <1>1, <1>2, <1>6, <1>7, Zenon

\* Where build_tree starts.
LEMMA StartIs ==
  ASSUME NEW es, NEW ds, Listed(es, ds), NEW b, b = BuildStart
  PROVE  /\ BuildOk(b, es, ds) /\ b.frames # <<>> /\ Len(b.frames) = 1 /\ b.next = 1
         /\ b.written = <<>> /\ b.frames[1] = [dir |-> <<>>, name |-> <<>>, entries |-> <<>>]
<1>1. PICK x, fs : x = [dir |-> <<>>, name |-> <<>>, entries |-> <<>>] /\ fs = <<x>> OBVIOUS
<1>2. b = [next |-> 1, frames |-> fs, written |-> <<>>] BY <1>1 DEF BuildStart
<1>3. IsSeq(fs) /\ Len(fs) = 1 /\ fs[1] = x BY <1>1, SeqOne
<1>4. b.next = 1 /\ b.frames = fs /\ b.written = <<>> BY <1>2
<1>5. x.dir = <<>> /\ x.name = <<>> /\ x.entries = <<>> BY <1>1
<1>6. IsBuild(b) BY <1>2, <1>3 DEF IsBuild
<1>7. IsFrame(x) BY <1>1, SeqEmpty DEF IsFrame
<1>8. TreesIn(b.written, ds) BY <1>4, SeqEmpty DEF TreesIn
<1>9. TreeIn(x.entries, ds, b.written, Len(b.written)) BY <1>5, SeqEmpty DEF TreeIn
<1>10. FramesOk(b, ds)
  <2>1. \A k \in 1 .. Len(fs) : k = 1 BY <1>3
  <2> QED BY <1>3, <1>4, <1>7, <1>9, <2>1, Zenon DEF FramesOk
<1>11. Nested(fs)
  <2>1. \A k \in 1 .. Len(fs) : k = 1 BY <1>3
  <2>2. \A k \in 2 .. Len(fs) : FALSE BY <1>3
  <2>3. Len(x.dir) \in 1 - 1 .. MaxPath
    <3>1. 0 \in 1 - 1 .. MaxPath BY PathAssumption
    <3> QED BY <1>5, <3>1, SeqEmpty
  <2>4. \A k \in 1 .. Len(fs) : Len(fs[k].dir) \in k - 1 .. MaxPath BY <1>3, <2>1, <2>3, Zenon
  <2> QED BY <1>3, <1>5, <2>2, <2>4, Zenon DEF Nested
<1>12. b.next \in 1 .. Len(es) + 1
  <2>1. PICK m \in Nat : m = Len(es) BY SeqIs DEF Listed
  <2>2. 1 \in 1 .. m + 1 OBVIOUS
  <2> QED BY <1>4, <2>1, <2>2, Zenon
<1>13. fs # <<>> BY <1>3, SeqIs
<1>14. BuildOk(b, es, ds) BY <1>4, <1>6, <1>8, <1>10, <1>11, <1>12, Zenon DEF BuildOk
<1> QED BY <1>1, <1>3, <1>4, <1>13, <1>14, Zenon

\* What stays so in all rounds holds in each.
LEMMA BuiltOk ==
  ASSUME NEW es, NEW ds, Listed(es, ds) PROVE \A n \in Nat : BuildOk(Built(es, n), es, ds)
<1> DEFINE A == {n \in Nat : BuildOk(Built(es, n), es, ds)}
<1>1. 0 \in A BY BuiltIs, StartIs
<1>2. ASSUME NEW n \in Nat, n \in A PROVE n + 1 \in A
  <2>1. BuildOk(Built(es, n), es, ds) /\ Built(es, n + 1) = BuildRound(es, Built(es, n))
    BY <1>2, BuiltIs
  <2>2. BuildOk(Built(es, n + 1), es, ds) BY <2>1, RoundKeeps
  <2> QED BY <2>2
<1> HIDE DEF A
<1>3. \A n \in Nat : n \in A BY <1>1, <1>2, Counting
<1> QED BY <1>3 DEF A

\* There are rounds enough.
LEMMA BuildEnds ==
  ASSUME NEW es, NEW ds, Listed(es, ds)
  PROVE  Built(es, Rounds(es)).frames = <<>> /\ Rounds(es) \in Nat
<1>1. PICK m \in Nat, max \in Nat : m = Len(es) /\ max = MaxPath BY PathAssumption, SeqIs DEF Listed
<1>2. IsSeq(es) BY DEF Listed
<1>3. PICK t \in Nat : t = (m + 1) * 2 * (max + 1) OBVIOUS
<1>4. Rounds(es) = t BY <1>1, <1>3, Zenon DEF Rounds
<1>5. \A n \in Nat : BuildOk(Built(es, n), es, ds) BY BuiltOk
<1> DEFINE A == {n \in Nat : \/ Built(es, n).frames = <<>>
                             \/ Due(es, Built(es, n)) \in Nat /\ Due(es, Built(es, n)) + n <= t}
<1>6. 0 \in A
  <2>1. PICK b : b = Built(es, 0) OBVIOUS
  <2>2. BuildOk(b, es, ds) /\ b.frames # <<>> /\ Len(b.frames) = 1 /\ b.next = 1
    BY <2>1, BuiltIs, StartIs
  <2>3. PICK n, len, max2, rest : Dues(es, b, n, len, max2, rest) BY <1>2, <2>2, DuesAre
  <2>4. n = 1 /\ len \in 0 .. max /\ rest \in Nat
    <3>1. n = Len(b.frames) /\ len \in n - 1 .. max2 /\ max2 = MaxPath /\ rest \in Nat
      BY <2>3, Zenon DEF Dues
    <3>2. n = 1 /\ max2 = max BY <1>1, <2>2, <3>1, Zenon
    <3>3. len \in 1 - 1 .. max BY <3>1, <3>2, Zenon
    <3> QED BY <3>1, <3>2, <3>3
  <2>5. rest = (m + 1 - 1) * (2 * (max + 1)) BY <1>1, <2>2, <2>3, Zenon DEF Dues
  <2>6. rest + (2 * (max + 1)) = t BY <1>3, <2>5
  <2>7. Due(es, b) = rest + (max + 1 - len) \/ Due(es, b) = rest + (max + 1 + n)
    BY <1>1, <2>3, Zenon DEF Dues
  <2>8. PICK x : x = Due(es, b) OBVIOUS
  <2>9. x \in Nat /\ x + 0 <= t BY <2>4, <2>6, <2>7, <2>8
  <2> QED BY <2>1, <2>8, <2>9
<1>7. ASSUME NEW n \in Nat, n \in A PROVE n + 1 \in A
  <2>1. PICK b, r : b = Built(es, n) /\ r = Built(es, n + 1) OBVIOUS
  <2>2. r = BuildRound(es, b) /\ BuildOk(b, es, ds) BY <1>5, <2>1, BuiltIs, Zenon
  <2>3. CASE b.frames = <<>> BY <2>1, <2>2, <2>3 DEF BuildRound
  <2>4. CASE b.frames # <<>> /\ r.frames # <<>>
    <3>1. Due(es, b) \in Nat /\ Due(es, r) \in Nat /\ Due(es, r) < Due(es, b) BY <2>2, <2>4, DueLess
    <3>2. Due(es, b) + n <= t BY <1>7, <2>1, <2>4
    <3>3. PICK x \in Nat, y \in Nat : x = Due(es, b) /\ y = Due(es, r) BY <3>1
    <3>4. y + (n + 1) <= t BY <3>1, <3>2, <3>3
    <3> QED BY <2>1, <3>3, <3>4
  <2> QED BY <2>1, <2>3, <2>4
<1>8. t \in A
  <2> HIDE DEF A
  <2> QED BY <1>6, <1>7, Counting
<1>9. PICK b : b = Built(es, t) OBVIOUS
<1>10. b.frames = <<>>
  <2> SUFFICES ASSUME b.frames # <<>> PROVE FALSE OBVIOUS
  <2>1. Due(es, b) \in Nat /\ Due(es, b) + t <= t BY <1>8, <1>9
  <2>2. BuildOk(b, es, ds) BY <1>5, <1>9
  <2>3. PICK n, len, max2, rest : Dues(es, b, n, len, max2, rest) BY <1>2, <2>2, DuesAre
  <2>4. n \in Nat /\ max2 \in Nat /\ rest \in Nat /\ len \in n - 1 .. max2 BY <2>3 DEF Dues
  <2>5. Due(es, b) = rest + (max2 + 1 - len) \/ Due(es, b) = rest + (max2 + 1 + n)
    BY <2>3, Zenon DEF Dues
  <2>6. PICK x : x = Due(es, b) OBVIOUS
  <2> QED BY <2>1, <2>4, <2>5, <2>6
<1> QED BY <1>4, <1>9, <1>10

----------------------------
\* build_tree: the frames hold the entries in their order, and so does the last tree.

\* The entries from lo to before hi, as files.
FilesFrom(es, lo, hi) == [i \in 1 .. hi - lo |-> File(es[lo + i - 1].path, es[lo + i - 1].data)]

Copied(es, lo, n, f) ==
    /\ IsSeq(f) /\ Len(f) = n
    /\ \A i \in 1 .. n : f[i] = File(es[lo + i - 1].path, es[lo + i - 1].data)

\* The files are those of the entries.
LEMMA FilesFromIs ==
  ASSUME NEW es, NEW lo \in Nat, NEW hi \in Nat, NEW n \in Nat, hi - lo = n
  PROVE  Copied(es, lo, n, FilesFrom(es, lo, hi)) /\ IsFiles(FilesFrom(es, lo, hi))
<1>1. PICK f : f = FilesFrom(es, lo, hi) OBVIOUS
<1>2. f = [i \in 1 .. n |-> File(es[lo + i - 1].path, es[lo + i - 1].data)] BY <1>1 DEF FilesFrom
<1>3. f = [i \in 1 .. n |-> f[i]] /\ \A i \in 1 .. n : f[i] = File(es[lo + i - 1].path, es[lo + i - 1].data)
  BY <1>2
<1>4. IsSeq(f) /\ Len(f) = n BY <1>3, SeqMade
<1>5. ASSUME NEW i \in 1 .. n PROVE ~ f[i].dir
  <2>1. f[i] = File(es[lo + i - 1].path, es[lo + i - 1].data) BY <1>3
  <2>2. \A x, y : ~ File(x, y).dir BY DEF File
  <2> QED BY <2>1, <2>2, Zenon
<1>6. Copied(es, lo, n, f) BY <1>3, <1>4, Zenon DEF Copied
<1>7. IsFiles(f) BY <1>4, <1>5 DEF IsFiles
<1> QED BY <1>1, <1>6, <1>7

\* Entries of two ranges that meet.
LEMMA FilesFromCat ==
  ASSUME NEW es, NEW lo \in Nat, NEW mid \in Nat, NEW hi \in Nat, lo <= mid, mid <= hi
  PROVE  FilesFrom(es, lo, mid) \o FilesFrom(es, mid, hi) = FilesFrom(es, lo, hi)
<1>1. PICK f, g, h, u : f = FilesFrom(es, lo, mid) /\ g = FilesFrom(es, mid, hi)
                        /\ h = FilesFrom(es, lo, hi) /\ u = f \o g
  OBVIOUS
<1>2. PICK m \in Nat, n \in Nat : m = mid - lo /\ n = hi - mid
  <2>1. mid - lo \in Nat /\ hi - mid \in Nat OBVIOUS
  <2> QED BY <2>1
<1>3. hi - lo = m + n /\ lo <= hi BY <1>2
<1>4. /\ IsSeq(f) /\ Len(f) = m
      /\ \A i \in 1 .. m : f[i] = File(es[lo + i - 1].path, es[lo + i - 1].data)
  <2>1. Copied(es, lo, m, FilesFrom(es, lo, mid)) BY <1>2, FilesFromIs
  <2> QED BY <1>1, <2>1, Zenon DEF Copied
<1>5. /\ IsSeq(g) /\ Len(g) = n
      /\ \A i \in 1 .. n : g[i] = File(es[mid + i - 1].path, es[mid + i - 1].data)
  <2>1. Copied(es, mid, n, FilesFrom(es, mid, hi)) BY <1>2, FilesFromIs
  <2> QED BY <1>1, <2>1, Zenon DEF Copied
<1>6. /\ IsSeq(h) /\ Len(h) = m + n
      /\ \A i \in 1 .. m + n : h[i] = File(es[lo + i - 1].path, es[lo + i - 1].data)
  <2>1. m + n \in Nat OBVIOUS
  <2>2. Copied(es, lo, m + n, FilesFrom(es, lo, hi)) BY <1>3, <2>1, FilesFromIs
  <2> QED BY <1>1, <2>2, Zenon DEF Copied
<1>7. Grown(f, g, u, m, m + n) BY <1>1, <1>4, <1>5, CatIs
<1>8. /\ IsSeq(u) /\ Len(u) = m + n /\ (\A i \in 1 .. m : u[i] = f[i])
      /\ \A i \in 1 .. n : u[m + i] = g[i]
  BY <1>5, <1>7, Zenon DEF Grown
<1>9. \A i \in 1 .. m + n : u[i] = h[i]
  <2> TAKE i \in 1 .. m + n
  <2>1. CASE i \in 1 .. m BY <1>4, <1>6, <1>8, <2>1
  <2>2. CASE i \notin 1 .. m
    <3>1. PICK k \in 1 .. n : i = m + k
      <4>1. i - m \in 1 .. n /\ i = m + (i - m) BY <2>2
      <4> QED BY <4>1
    <3>2. PICK j : j = lo + i - 1 /\ j = mid + k - 1
      <4>1. lo + i - 1 = mid + k - 1 BY <1>2, <3>1
      <4> QED BY <4>1
    <3>3. u[i] = g[k] /\ g[k] = File(es[j].path, es[j].data) BY <1>5, <1>8, <3>1, <3>2, Zenon
    <3>4. h[i] = File(es[j].path, es[j].data) BY <1>6, <3>2, Zenon
    <3> QED BY <3>3, <3>4
  <2> QED BY <2>1, <2>2
<1>10. u = h BY <1>6, <1>8, <1>9, SeqSame
<1> QED BY <1>1, <1>10

\* None, and one entry.
LEMMA FilesFromOne ==
  ASSUME NEW es, NEW lo \in Nat
  PROVE  /\ FilesFrom(es, lo, lo) = <<>>
         /\ FilesFrom(es, lo, lo + 1) = <<File(es[lo].path, es[lo].data)>>
<1>1. PICK f : f = FilesFrom(es, lo, lo) OBVIOUS
<1>2. IsSeq(f) /\ Len(f) = 0
  <2>1. lo - lo = 0 /\ 0 \in Nat OBVIOUS
  <2>2. Copied(es, lo, 0, FilesFrom(es, lo, lo)) BY <2>1, FilesFromIs
  <2> QED BY <1>1, <2>2, Zenon DEF Copied
<1>3. f = <<>> BY <1>2, SeqIs
<1>4. PICK g, x, s : g = FilesFrom(es, lo, lo + 1) /\ x = File(es[lo].path, es[lo].data) /\ s = <<x>>
  OBVIOUS
<1>5. (lo + 1) - lo = 1 /\ lo + 1 - 1 = lo /\ 1 \in 1 .. 1 /\ 1 \in Nat /\ lo + 1 \in Nat OBVIOUS
<1>6. Copied(es, lo, 1, FilesFrom(es, lo, lo + 1)) BY <1>5, FilesFromIs
<1>7. IsSeq(g) /\ Len(g) = 1 /\ g[1] = x BY <1>4, <1>5, <1>6, Zenon DEF Copied
<1>8. IsSeq(s) /\ Len(s) = 1 /\ s[1] = x BY <1>4, SeqOne
<1>9. \A i \in 1 .. 1 : g[i] = s[i] BY <1>7, <1>8
<1>10. g = s BY <1>7, <1>8, <1>9, SeqSame
<1> QED BY <1>1, <1>3, <1>4, <1>10

\* Under of a tree with one entry more.
LEMMA UnderAppend ==
  ASSUME NEW dir, NEW t, IsSeq(t), NEW e
  PROVE  Under(dir, Append(t, e)) = Under(dir, t) \o <<[e EXCEPT !.name = Joined(dir, @)]>>
<1>1. PICK n \in Nat : n = Len(t) BY SeqIs
<1>2. PICK x : x = [e EXCEPT !.name = Joined(dir, @)] OBVIOUS
<1>3. PICK a, u, v, s, w : a = Append(t, e) /\ u = Under(dir, t) /\ v = Under(dir, a) /\ s = <<x>> /\ w = u \o s
  OBVIOUS
<1>4. IsSeq(a) /\ Len(a) = n + 1 /\ (\A k \in 1 .. n : a[k] = t[k]) /\ a[n + 1] = e
  BY <1>1, <1>3, SeqAppend
<1>5. IsSeq(u) /\ Len(u) = n /\ \A k \in 1 .. n : u[k] = [t[k] EXCEPT !.name = Joined(dir, @)]
  BY <1>1, <1>3, UnderIs
<1>6. IsSeq(v) /\ Len(v) = n + 1 /\ \A k \in 1 .. n + 1 : v[k] = [a[k] EXCEPT !.name = Joined(dir, @)]
  <2>1. PICK m : m = n + 1 OBVIOUS
  <2>2. IsSeq(a) /\ Len(a) = m BY <1>4, <2>1
  <2>3. IsSeq(v) /\ Len(v) = m /\ \A k \in 1 .. m : v[k] = [a[k] EXCEPT !.name = Joined(dir, @)]
    <3>1. v = Under(dir, a) BY <1>3
    <3> QED BY <2>2, <3>1, UnderIs
  <2> QED BY <2>1, <2>3, Zenon
<1>7. IsSeq(s) /\ Len(s) = 1 /\ s[1] = x BY <1>3, SeqOne
<1>8. Grown(u, s, w, n, n + 1) BY <1>3, <1>5, <1>7, CatIs
<1>9. /\ IsSeq(w) /\ Len(w) = n + 1 /\ (\A k \in 1 .. n : w[k] = u[k])
      /\ \A k \in 1 .. 1 : w[n + k] = s[k]
  BY <1>7, <1>8, Zenon DEF Grown
<1>10. \A k \in 1 .. n + 1 : v[k] = w[k]
  <2> TAKE k \in 1 .. n + 1
  <2>1. CASE k = n + 1
    <3>1. w[n + 1] = x BY <1>7, <1>9
    <3>2. v[n + 1] = [a[n + 1] EXCEPT !.name = Joined(dir, @)] BY <1>6, <2>1
    <3> QED BY <1>2, <1>4, <2>1, <3>1, <3>2
  <2>2. CASE k # n + 1
    <3>1. k \in 1 .. n BY <2>2
    <3> QED BY <1>4, <1>5, <1>6, <1>9, <3>1
  <2> QED BY <2>1, <2>2
<1>11. v = w BY <1>6, <1>9, <1>10, SeqSame
<1> QED BY <1>2, <1>3, <1>11

\* In the root, a name is a path.
LEMMA UnderRoot == ASSUME NEW t, IsTree(t) PROVE Under(<<>>, t) = t
<1>1. PICK n \in Nat : n = Len(t) BY SeqIs DEF IsTree
<1>2. PICK u : u = Under(<<>>, t) OBVIOUS
<1>3. IsSeq(u) /\ Len(u) = n /\ \A k \in 1 .. n : u[k] = [t[k] EXCEPT !.name = Joined(<<>>, @)]
  BY <1>1, <1>2, UnderIs DEF IsTree
<1>4. \A k \in 1 .. n : u[k] = t[k]
  <2> TAKE k \in 1 .. n
  <2>1. t[k] = [name |-> t[k].name, dir |-> t[k].dir, node |-> t[k].node]
    BY <1>1 DEF IsTree, IsEntry
  <2>2. [t[k] EXCEPT !.name = Joined(<<>>, @)] = t[k] BY <2>1 DEF Joined
  <2> QED BY <1>3, <2>2
<1> QED BY <1>1, <1>2, <1>3, <1>4, SeqSame DEF IsTree

\* Under of no entry.
LEMMA UnderNone == ASSUME NEW dir PROVE Under(dir, <<>>) = <<>>
<1>1. IsSeq(Under(dir, <<>>)) /\ Len(Under(dir, <<>>)) = 0 BY SeqEmpty, UnderIs
<1> QED BY <1>1, SeqIs

\* A frame holds the entries from lo to before hi: they are what flatten_tree makes of it.
Covers(f, es, lo, hi) ==
    /\ Expands(Under(f.dir, f.entries))
    /\ Level(Under(f.dir, f.entries), MaxPath - Len(f.dir)) = FilesFrom(es, lo, hi)

\* A frame that was just opened holds none of the entries.
LEMMA CoverOpened ==
  ASSUME NEW es, NEW lo \in Nat, NEW f, f.entries = <<>>, MaxPath - Len(f.dir) \in Nat
  PROVE  Covers(f, es, lo, lo)
<1>1. Under(f.dir, f.entries) = <<>> BY UnderNone
<1>2. IsFiles(<<>>) BY SeqEmpty DEF IsFiles
<1>3. Expands(<<>>) /\ \A n \in Nat : Level(<<>>, n) = <<>> BY <1>2, LevelFiles
<1>4. FilesFrom(es, lo, lo) = <<>> BY FilesFromOne
<1> QED BY <1>1, <1>3, <1>4 DEF Covers

\* What is added is what the new entry makes.
LEMMA CoverAdded ==
  ASSUME NEW es, NEW lo \in Nat, NEW mid \in Nat, NEW hi \in Nat, lo <= mid, mid <= hi,
         NEW f, IsFrame(f), IsSeq(f.entries), NEW n \in Nat, n = MaxPath - Len(f.dir),
         Covers(f, es, lo, mid), NEW e, NEW s, s = <<[e EXCEPT !.name = Joined(f.dir, @)]>>,
         Expands(s), Level(s, n) = FilesFrom(es, mid, hi),
         NEW x, x = Extended(f, e)
  PROVE  Covers(x, es, lo, hi)
<1>1. x.dir = f.dir /\ x.entries = Append(f.entries, e) BY ExtendedIs
<1>2. PICK u : u = Under(f.dir, f.entries) OBVIOUS
<1>3. Under(x.dir, x.entries) = u \o s
  <2>1. Under(f.dir, Append(f.entries, e)) = Under(f.dir, f.entries) \o <<[e EXCEPT !.name = Joined(f.dir, @)]>>
    BY UnderAppend
  <2> QED BY <1>1, <1>2, <2>1, Zenon
<1>4. Expands(u) /\ Level(u, n) = FilesFrom(es, lo, mid) BY <1>2 DEF Covers
<1>5. Expands(u \o s) /\ Level(u \o s, n) = Level(u, n) \o Level(s, n) BY <1>4, LevelCat
<1>6. FilesFrom(es, lo, mid) \o FilesFrom(es, mid, hi) = FilesFrom(es, lo, hi)
  BY FilesFromCat, ZenonT(60)
<1> QED BY <1>1, <1>3, <1>4, <1>5, <1>6, Zenon DEF Covers

\* A frame that gets a file.
LEMMA CoverFile ==
  ASSUME NEW es, NEW lo \in Nat, NEW i \in Nat, lo <= i, NEW f, IsFrame(f), IsSeq(f.entries),
         NEW n \in Nat, n = MaxPath - Len(f.dir), Covers(f, es, lo, i),
         NEW name, Joined(f.dir, name) = es[i].path,
         NEW x, x = Extended(f, File(name, es[i].data))
  PROVE  Covers(x, es, lo, i + 1)
<1>1. PICK e, d : d = es[i].data /\ e = File(name, d) OBVIOUS
<1>2. [e EXCEPT !.name = Joined(f.dir, @)] = File(es[i].path, d)
  <2>1. PICK dir : dir = FALSE OBVIOUS
  <2>2. e = [name |-> name, dir |-> dir, node |-> d] BY <1>1, <2>1, Zenon DEF File
  <2>3. [e EXCEPT !.name = Joined(f.dir, @)] = [name |-> Joined(f.dir, name), dir |-> dir, node |-> d]
    BY <2>2
  <2> QED BY <2>1, <2>3, Zenon DEF File
<1>3. PICK s : s = <<[e EXCEPT !.name = Joined(f.dir, @)]>> OBVIOUS
<1>4. s = FilesFrom(es, i, i + 1) BY <1>1, <1>2, <1>3, FilesFromOne
<1>5. IsFiles(s)
  <2>1. i + 1 \in Nat /\ (i + 1) - i = 1 /\ 1 \in Nat OBVIOUS
  <2> QED BY <1>4, <2>1, FilesFromIs
<1>6. Expands(s) /\ Level(s, n) = FilesFrom(es, i, i + 1) BY <1>4, <1>5, LevelFiles
<1>7. i <= i + 1 /\ i + 1 \in Nat OBVIOUS
<1>8. x = Extended(f, e) BY <1>1
<1> QED BY <1>3, <1>6, <1>7, <1>8, CoverAdded

\* A frame that is closed gives what it holds to the one before.
LEMMA CoverClosed ==
  ASSUME NEW es, NEW lo \in Nat, NEW mid \in Nat, NEW hi \in Nat, lo <= mid, mid <= hi,
         NEW f, IsFrame(f), IsSeq(f.entries), NEW n \in Nat, n = MaxPath - Len(f.dir),
         Covers(f, es, lo, mid),
         NEW c, IsSeq(c.entries), NEW m \in Nat, m = MaxPath - Len(c.dir), m < n,
         c.dir = Joined(f.dir, c.name), Covers(c, es, mid, hi),
         NEW x, x = Extended(f, Subtree(c.name, c.entries))
  PROVE  Covers(x, es, lo, hi)
<1>1. PICK e, t, g : t = c.entries /\ e = Subtree(c.name, t) /\ g = FilesFrom(es, mid, hi) OBVIOUS
<1>2. [e EXCEPT !.name = Joined(f.dir, @)] = Subtree(c.dir, t)
  <2>1. PICK dir : dir = TRUE OBVIOUS
  <2>2. e = [name |-> c.name, dir |-> dir, node |-> t] BY <1>1, <2>1, Zenon DEF Subtree
  <2>3. [e EXCEPT !.name = Joined(f.dir, @)] = [name |-> Joined(f.dir, c.name), dir |-> dir, node |-> t]
    BY <2>2
  <2> QED BY <2>1, <2>3, Zenon DEF Subtree
<1>3. PICK s : s = <<[e EXCEPT !.name = Joined(f.dir, @)]>> OBVIOUS
<1>4. Expands(Under(c.dir, t)) /\ Level(Under(c.dir, t), m) = g BY <1>1 DEF Covers
<1>5. Expands(s) /\ Level(s, m + 1) = g BY <1>1, <1>2, <1>3, <1>4, LevelSubtree
<1>6. IsFiles(g)
  <2>1. hi - mid \in Nat OBVIOUS
  <2> QED BY <1>1, <2>1, FilesFromIs
<1>7. m + 1 \in Nat /\ m + 1 <= n OBVIOUS
<1>8. Level(s, n) = g BY <1>5, <1>6, <1>7, LevelLater
<1>9. x = Extended(f, e) BY <1>1
<1>10. Level(s, n) = FilesFrom(es, mid, hi) BY <1>1, <1>8
<1> QED BY <1>3, <1>5, <1>9, <1>10, CoverAdded

\* The frames hold the entries up to the next, the outermost the first of them: frame k has
\* those from g[k] to before g[k + 1].  When no frame is left, the last tree holds all.
CoveredBy(b, es, g) ==
    LET n == Len(b.frames)
    IN  /\ g[1] = 1 /\ g[n + 1] = b.next
        /\ \A k \in 1 .. n : /\ g[k] \in Nat \ {0} /\ g[k + 1] \in Nat /\ g[k] <= g[k + 1]
                             /\ Covers(b.frames[k], es, g[k], g[k + 1])
Covered(b, es) ==
    /\ b.frames # <<>> => \E g : CoveredBy(b, es, g)
    /\ b.frames = <<>> => /\ b.written # <<>>
                          /\ Level(Last(b.written), MaxPath) = FilesFrom(es, 1, Len(es) + 1)

\* The numbers of bytes that are left for names in the frames.
LEMMA DirsAre ==
  ASSUME NEW es, NEW ds, NEW b, BuildOk(b, es, ds), NEW n \in Nat, n = Len(b.frames)
  PROVE  /\ \A k \in 1 .. n : MaxPath - Len(b.frames[k].dir) \in Nat
         /\ \A k \in 2 .. n : MaxPath - Len(b.frames[k].dir) < MaxPath - Len(b.frames[k - 1].dir)
<1>1. PICK max \in Nat : max = MaxPath BY PathAssumption
<1>2. PICK fs : fs = b.frames OBVIOUS
<1>3. /\ \A k \in 1 .. n : Len(fs[k].dir) \in k - 1 .. max
      /\ \A k \in 2 .. n : Len(fs[k - 1].dir) < Len(fs[k].dir)
  BY <1>1, <1>2 DEF BuildOk, Nested
<1>4. ASSUME NEW k \in 1 .. n PROVE max - Len(fs[k].dir) \in Nat
  <2>1. PICK i : i = Len(fs[k].dir) OBVIOUS
  <2>2. i \in k - 1 .. max BY <1>3, <2>1
  <2>3. max - i \in Nat BY <2>2
  <2> QED BY <2>1, <2>3
<1>5. ASSUME NEW k \in 2 .. n PROVE max - Len(fs[k].dir) < max - Len(fs[k - 1].dir)
  <2>1. PICK i, j : i = Len(fs[k].dir) /\ j = Len(fs[k - 1].dir) OBVIOUS
  <2>2. k \in 1 .. n /\ k - 1 \in 1 .. n OBVIOUS
  <2>3. i \in k - 1 .. max /\ j \in (k - 1) - 1 .. max /\ j < i BY <1>3, <2>1, <2>2
  <2>4. max - i < max - j BY <2>3
  <2> QED BY <2>1, <2>4
<1> QED BY <1>1, <1>2, <1>4, <1>5, Zenon

\* When the innermost frame is closed, the one before has what it held.
LEMMA CloseCovers ==
  ASSUME NEW es, NEW ds, Listed(es, ds), NEW b, BuildOk(b, es, ds), b.frames # <<>>, Covered(b, es),
         NEW r, IsBuild(r), Closes(b, r),
         Len(b.frames) = 1 => b.next = Len(es) + 1
  PROVE  Covered(r, es)
<1>1. PICK fs, gs : fs = b.frames /\ gs = r.frames OBVIOUS
<1>2. PICK n \in Nat \ {0} : n = Len(fs) BY <1>1, SeqIs DEF BuildOk, IsBuild
<1>3. /\ IsSeq(gs) /\ Len(gs) = n - 1 /\ (\A k \in 1 .. n - 2 : gs[k] = fs[k]) /\ r.next = b.next
      /\ r.written = Append(b.written, fs[n].entries)
      /\ n # 1 => gs[n - 1] = Extended(fs[n - 1], Subtree(fs[n].name, fs[n].entries))
  BY <1>1, <1>2, Zenon DEF Closes, SameFirst
<1>4. PICK g : CoveredBy(b, es, g) BY DEF Covered
<1>5. /\ g[1] = 1 /\ g[n + 1] = b.next
      /\ \A k \in 1 .. n : /\ g[k] \in Nat \ {0} /\ g[k + 1] \in Nat /\ g[k] <= g[k + 1]
                           /\ Covers(fs[k], es, g[k], g[k + 1])
  BY <1>1, <1>2, <1>4, Zenon DEF CoveredBy
<1>6. \A k \in 1 .. n : IsFrame(fs[k]) /\ IsSeq(fs[k].entries) /\ IsTree(fs[k].entries)
  BY <1>1, <1>2 DEF BuildOk, FramesOk, TreeIn, Child, IsTree
<1>7. CASE n = 1
  <2>1. gs = <<>> BY <1>3, <1>7, SeqIs
  <2>2. PICK t, w : t = fs[1].entries /\ w = r.written OBVIOUS
  <2>3. fs[1].dir = <<>> BY <1>1, <1>2, SeqIs DEF BuildOk, Nested
  <2>4. 1 \in 1 .. n /\ n + 1 = 1 + 1 BY <1>7
  <2>5. IsTree(t) /\ Covers(fs[1], es, 1, g[1 + 1]) /\ g[1 + 1] = b.next
    BY <1>5, <1>6, <2>2, <2>4, Zenon
  <2>6. Under(<<>>, t) = t BY <2>5, UnderRoot
  <2>7. MaxPath - Len(fs[1].dir) = MaxPath BY <2>3, SeqEmpty, PathAssumption
  <2>8. Level(t, MaxPath) = FilesFrom(es, 1, b.next)
    BY <2>2, <2>3, <2>5, <2>6, <2>7, Zenon DEF Covers
  <2>9. b.next = Len(es) + 1 BY <1>1, <1>2, <1>7
  <2>10. w # <<>> /\ Last(w) = t
    <3>1. w = Append(b.written, t) /\ IsSeq(b.written) BY <1>3, <1>7, <2>2 DEF BuildOk, TreesIn
    <3>2. PICK m \in Nat : m = Len(b.written) BY <3>1, SeqIs
    <3>3. IsSeq(w) /\ Len(w) = m + 1 /\ w[m + 1] = t BY <3>1, <3>2, SeqAppend
    <3>4. m + 1 # 0 OBVIOUS
    <3> QED BY <3>3, <3>4, SeqIs DEF Last
  <2> QED BY <1>1, <2>1, <2>2, <2>8, <2>9, <2>10, Zenon DEF Covered
<1>8. CASE n # 1
  <2>1. PICK p \in Nat \ {0} : p = n - 1 /\ n = p + 1 /\ p + 1 \in Nat
    <3>1. n - 1 \in Nat \ {0} /\ n = (n - 1) + 1 BY <1>8
    <3> QED BY <3>1
  <2>2. p \in 1 .. n /\ n \in 1 .. n /\ n \in 2 .. n /\ n - 1 = p BY <2>1
  <2>3. PICK f, c, x : f = fs[p] /\ c = fs[n] /\ x = gs[p] OBVIOUS
  <2>4. PICK lo, mid, hi : lo = g[p] /\ mid = g[n] /\ hi = g[n + 1] OBVIOUS
  <2>5. lo \in Nat /\ mid \in Nat /\ hi \in Nat /\ lo <= mid /\ mid <= hi /\ Covers(f, es, lo, mid)
    BY <1>5, <2>1, <2>2, <2>3, <2>4, Zenon
  <2>6. Covers(c, es, mid, hi) BY <1>5, <2>2, <2>3, <2>4, Zenon
  <2>7. IsFrame(f) /\ IsSeq(f.entries) /\ IsSeq(c.entries) BY <1>6, <2>2, <2>3
  <2>8. /\ MaxPath - Len(f.dir) \in Nat /\ MaxPath - Len(c.dir) \in Nat
        /\ MaxPath - Len(c.dir) < MaxPath - Len(f.dir)
    BY <1>1, <1>2, <2>2, <2>3, DirsAre
  <2>9. PICK i \in Nat, j \in Nat : i = MaxPath - Len(f.dir) /\ j = MaxPath - Len(c.dir) /\ j < i
    BY <2>8
  <2>10. c.dir = Joined(f.dir, c.name) BY <1>1, <1>2, <2>2, <2>3 DEF BuildOk, Nested
  <2>11. x = Extended(f, Subtree(c.name, c.entries)) BY <1>3, <1>8, <2>1, <2>3
  <2>12. Covers(x, es, lo, hi) BY <2>5, <2>6, <2>7, <2>9, <2>10, <2>11, CoverClosed
  <2>13. PICK h : h = [k \in 1 .. n |-> IF k = n THEN g[n + 1] ELSE g[k]] OBVIOUS
  <2>14. h[n] = hi /\ \A k \in 1 .. p : h[k] = g[k] BY <2>1, <2>4, <2>13
  <2>15. ASSUME NEW k \in 1 .. p
         PROVE  /\ h[k] \in Nat \ {0} /\ h[k + 1] \in Nat /\ h[k] <= h[k + 1]
                /\ Covers(gs[k], es, h[k], h[k + 1])
    <3>1. CASE k = p
      <4>1. h[k] = lo /\ h[k + 1] = hi BY <2>1, <2>4, <2>14, <3>1
      <4>2. lo <= hi /\ lo # 0 BY <1>5, <2>2, <2>4, <2>5
      <4> QED BY <2>3, <2>5, <2>12, <3>1, <4>1, <4>2
    <3>2. CASE k # p
      <4>1. k \in 1 .. n /\ k + 1 \in 1 .. p /\ k \in 1 .. n - 2 BY <2>1, <3>2
      <4>2. h[k] = g[k] /\ h[k + 1] = g[k + 1] /\ gs[k] = fs[k] BY <1>3, <2>14, <4>1
      <4> QED BY <1>5, <4>1, <4>2
    <3> QED BY <3>1, <3>2
  <2>16. h[1] = 1 /\ h[p + 1] = r.next
    <3>1. 1 \in 1 .. p OBVIOUS
    <3> QED BY <1>3, <1>5, <2>1, <2>4, <2>14, <3>1
  <2>17. Len(gs) = p BY <1>3, <2>1
  <2>18. CoveredBy(r, es, h) BY <1>1, <2>15, <2>16, <2>17, Zenon DEF CoveredBy
  <2>19. gs # <<>> BY <1>3, <2>17, SeqIs
  <2> QED BY <1>1, <2>18, <2>19, Zenon DEF Covered
<1> QED BY <1>7, <1>8

\* When a file is added, the innermost frame has one entry more.
LEMMA AddCovers ==
  ASSUME NEW es, NEW ds, NEW b, BuildOk(b, es, ds), b.frames # <<>>, Covered(b, es),
         NEW r, IsBuild(r), NEW top, top = b.frames[Len(b.frames)],
         NEW name, Joined(top.dir, name) = es[b.next].path, Adds(b, r, File(name, es[b.next].data))
  PROVE  Covered(r, es)
<1>1. PICK fs, gs : fs = b.frames /\ gs = r.frames OBVIOUS
<1>2. PICK n \in Nat \ {0} : n = Len(fs) BY <1>1, SeqIs DEF BuildOk, IsBuild
<1>3. /\ IsSeq(gs) /\ Len(gs) = n /\ (\A k \in 1 .. n - 1 : gs[k] = fs[k]) /\ r.next = b.next + 1
      /\ gs[n] = Extended(fs[n], File(name, es[b.next].data))
  BY <1>1, <1>2, Zenon DEF Adds, SameFirst
<1>4. PICK g : CoveredBy(b, es, g) BY DEF Covered
<1>5. /\ g[1] = 1 /\ g[n + 1] = b.next
      /\ \A k \in 1 .. n : /\ g[k] \in Nat \ {0} /\ g[k + 1] \in Nat /\ g[k] <= g[k + 1]
                           /\ Covers(fs[k], es, g[k], g[k + 1])
  BY <1>1, <1>2, <1>4, Zenon DEF CoveredBy
<1>6. n \in 1 .. n OBVIOUS
<1>7. IsFrame(fs[n]) /\ IsSeq(fs[n].entries) /\ MaxPath - Len(fs[n].dir) \in Nat
  BY <1>1, <1>2, <1>6, DirsAre DEF BuildOk, FramesOk, TreeIn
<1>8. PICK f, x, i, lo : f = fs[n] /\ x = gs[n] /\ i = b.next /\ lo = g[n] OBVIOUS
<1>9. lo \in Nat \ {0} /\ i \in Nat /\ lo <= i /\ Covers(f, es, lo, i) BY <1>5, <1>6, <1>8, Zenon
<1>10. PICK m \in Nat : m = MaxPath - Len(f.dir) BY <1>7, <1>8
<1>11. Joined(f.dir, name) = es[i].path /\ x = Extended(f, File(name, es[i].data))
  BY <1>1, <1>2, <1>3, <1>8
<1>12. Covers(x, es, lo, i + 1) BY <1>7, <1>8, <1>9, <1>10, <1>11, CoverFile
<1>13. PICK h : h = [k \in 1 .. n + 1 |-> IF k = n + 1 THEN i + 1 ELSE g[k]] OBVIOUS
<1>14. h[n + 1] = i + 1 /\ \A k \in 1 .. n : h[k] = g[k] BY <1>13
<1>15. ASSUME NEW k \in 1 .. n
       PROVE  /\ h[k] \in Nat \ {0} /\ h[k + 1] \in Nat /\ h[k] <= h[k + 1]
              /\ Covers(gs[k], es, h[k], h[k + 1])
  <2>1. CASE k = n
    <3>1. h[k] = lo /\ h[k + 1] = i + 1 BY <1>8, <1>14, <2>1
    <3>2. i + 1 \in Nat /\ lo <= i + 1 BY <1>9
    <3> QED BY <1>8, <1>9, <1>12, <2>1, <3>1, <3>2
  <2>2. CASE k # n
    <3>1. k + 1 \in 1 .. n /\ k \in 1 .. n - 1 BY <2>2
    <3>2. h[k] = g[k] /\ h[k + 1] = g[k + 1] /\ gs[k] = fs[k] BY <1>3, <1>14, <3>1
    <3> QED BY <1>5, <3>2
  <2> QED BY <2>1, <2>2
<1>16. h[1] = 1 /\ h[n + 1] = r.next
  <2>1. 1 \in 1 .. n OBVIOUS
  <2> QED BY <1>3, <1>5, <1>8, <1>14, <2>1
<1>17. CoveredBy(r, es, h) BY <1>1, <1>3, <1>15, <1>16, Zenon DEF CoveredBy
<1>18. gs # <<>> BY <1>3, SeqIs
<1> QED BY <1>1, <1>17, <1>18, Zenon DEF Covered

\* When a frame is opened, it has none.
LEMMA OpenCovers ==
  ASSUME NEW es, NEW ds, NEW b, BuildOk(b, es, ds), b.frames # <<>>, Covered(b, es),
         NEW r, BuildOk(r, es, ds), NEW dir, NEW name, Opens(b, r, dir, name)
  PROVE  Covered(r, es)
<1>1. PICK fs, gs : fs = b.frames /\ gs = r.frames OBVIOUS
<1>2. PICK n \in Nat \ {0} : n = Len(fs) BY <1>1, SeqIs DEF BuildOk, IsBuild
<1>3. /\ IsSeq(gs) /\ Len(gs) = n + 1 /\ (\A k \in 1 .. n : gs[k] = fs[k]) /\ r.next = b.next
      /\ gs[n + 1] = [dir |-> dir, name |-> name, entries |-> <<>>]
  BY <1>1, <1>2, Zenon DEF Opens, SameFirst
<1>4. PICK g : CoveredBy(b, es, g) BY DEF Covered
<1>5. /\ g[1] = 1 /\ g[n + 1] = b.next
      /\ \A k \in 1 .. n : /\ g[k] \in Nat \ {0} /\ g[k + 1] \in Nat /\ g[k] <= g[k + 1]
                           /\ Covers(fs[k], es, g[k], g[k + 1])
  BY <1>1, <1>2, <1>4, Zenon DEF CoveredBy
<1>20. PICK m, i, x : m = n + 1 /\ i = b.next /\ x = gs[m] OBVIOUS
<1>6. m \in Nat /\ m = n + 1 /\ i = b.next /\ x = gs[m] BY <1>20
<1>7. n \in 1 .. n /\ m \in 1 .. m BY <1>6
<1>8. i \in Nat \ {0}
  <2>1. g[n] \in Nat \ {0} /\ g[n + 1] \in Nat /\ g[n] <= g[n + 1] BY <1>5, <1>7
  <2> QED BY <1>5, <1>6, <2>1
<1>9. x.entries = <<>> /\ MaxPath - Len(x.dir) \in Nat
  <2>1. x.entries = <<>> BY <1>3, <1>6
  <2>2. MaxPath - Len(gs[m].dir) \in Nat BY <1>1, <1>3, <1>6, <1>7, DirsAre
  <2> QED BY <1>6, <2>1, <2>2
<1>10. Covers(x, es, i, i) BY <1>8, <1>9, CoverOpened
<1>11. PICK h : h = [k \in 1 .. m + 1 |-> IF k = m + 1 THEN i ELSE g[k]] OBVIOUS
<1>12. h[m + 1] = i /\ h[m] = i /\ \A k \in 1 .. m : h[k] = g[k] BY <1>5, <1>6, <1>7, <1>11
<1>13. ASSUME NEW k \in 1 .. m
       PROVE  /\ h[k] \in Nat \ {0} /\ h[k + 1] \in Nat /\ h[k] <= h[k + 1]
              /\ Covers(gs[k], es, h[k], h[k + 1])
  <2>1. CASE k = m BY <1>6, <1>8, <1>10, <1>12, <2>1
  <2>2. CASE k # m
    <3>1. k \in 1 .. n /\ k + 1 \in 1 .. m BY <1>6, <2>2
    <3>2. h[k] = g[k] /\ h[k + 1] = g[k + 1] /\ gs[k] = fs[k] BY <1>3, <1>12, <3>1
    <3> QED BY <1>5, <3>1, <3>2
  <2> QED BY <2>1, <2>2
<1>14. h[1] = 1 /\ h[m + 1] = r.next
  <2>1. 1 \in 1 .. m BY <1>6
  <2> QED BY <1>3, <1>5, <1>6, <1>12, <2>1
<1>15. CoveredBy(r, es, h) BY <1>1, <1>3, <1>6, <1>13, <1>14, Zenon DEF CoveredBy
<1>16. gs # <<>> BY <1>3, SeqIs
<1> QED BY <1>1, <1>15, <1>16, Zenon DEF Covered

\* Each round keeps the entries in the frames, in their order.
LEMMA RoundCovers ==
  ASSUME NEW es, NEW ds, Listed(es, ds), NEW b, BuildOk(b, es, ds), Covered(b, es),
         NEW r, r = BuildRound(es, b)
  PROVE  Covered(r, es)
<1>1. CASE b.frames = <<>> BY <1>1 DEF BuildRound
<1>2. CASE b.frames # <<>>
  <2>1. PICK top : top = b.frames[Len(b.frames)] OBVIOUS
  <2>2. IsBuild(r) /\ Turn(es, b, r, top) /\ BuildOk(r, es, ds)
    BY <1>2, <2>1, RoundTurns, RoundKeeps
  <2>3. ASSUME Closes(b, r), b.next = Len(es) + 1 \/ ~ Inside(top.dir, es[b.next].path)
        PROVE Covered(r, es)
    <3>1. ASSUME Len(b.frames) = 1 PROVE b.next = Len(es) + 1
      <4>1. top.dir = <<>> BY <1>2, <2>1, <3>1 DEF BuildOk, Nested
      <4> QED BY <2>3, <4>1 DEF Inside
    <3> QED BY <1>2, <2>2, <2>3, <3>1, CloseCovers
  <2>4. ASSUME NEW name, Joined(top.dir, name) = es[b.next].path, Adds(b, r, File(name, es[b.next].data))
        PROVE Covered(r, es)
    BY <1>2, <2>1, <2>2, <2>4, AddCovers
  <2>5. ASSUME NEW dir, NEW name, Opens(b, r, dir, name) PROVE Covered(r, es)
    BY <1>2, <2>2, <2>5, OpenCovers
  <2> QED BY <2>2, <2>3, <2>4, <2>5, Zenon DEF Turn
<1> QED BY <1>1, <1>2

\* In the beginning there is none.
LEMMA StartCovers ==
  ASSUME NEW es, NEW ds, Listed(es, ds), NEW b, b = BuildStart PROVE Covered(b, es)
<1>1. /\ BuildOk(b, es, ds) /\ b.frames # <<>> /\ Len(b.frames) = 1 /\ b.next = 1
      /\ b.frames[1] = [dir |-> <<>>, name |-> <<>>, entries |-> <<>>]
  BY StartIs
<1>2. PICK x : x = b.frames[1] OBVIOUS
<1>3. x.dir = <<>> /\ x.entries = <<>> BY <1>1, <1>2
<1>4. MaxPath - Len(x.dir) \in Nat
  <2>1. MaxPath - 0 \in Nat BY PathAssumption
  <2> QED BY <1>3, <2>1, SeqEmpty
<1>5. Covers(x, es, 1, 1) BY <1>3, <1>4, CoverOpened
<1>6. PICK g : g = [k \in 1 .. 2 |-> 1] OBVIOUS
<1>7. g[1] = 1 /\ g[2] = 1 /\ 1 + 1 = 2 BY <1>6
<1>8. \A k \in 1 .. 1 : k = 1 OBVIOUS
<1>9. 1 \in Nat \ {0} /\ 1 \in Nat /\ 1 <= 1 OBVIOUS
<1>10. CoveredBy(b, es, g) BY <1>1, <1>2, <1>5, <1>7, <1>8, <1>9, Zenon DEF CoveredBy
<1> QED BY <1>1, <1>10, Zenon DEF Covered

\* So it is after each round.
LEMMA BuiltCovers ==
  ASSUME NEW es, NEW ds, Listed(es, ds) PROVE \A n \in Nat : Covered(Built(es, n), es)
<1> DEFINE A == {n \in Nat : Covered(Built(es, n), es)}
<1>1. 0 \in A BY BuiltIs, StartCovers
<1>2. ASSUME NEW n \in Nat, n \in A PROVE n + 1 \in A
  <2>1. /\ Covered(Built(es, n), es) /\ Built(es, n + 1) = BuildRound(es, Built(es, n))
        /\ BuildOk(Built(es, n), es, ds)
    BY <1>2, BuiltIs, BuiltOk
  <2>2. Covered(Built(es, n + 1), es) BY <2>1, RoundCovers
  <2> QED BY <2>2
<1> HIDE DEF A
<1>3. \A n \in Nat : n \in A BY <1>1, <1>2, Counting
<1> QED BY <1>3 DEF A

\* build_tree of sorted or unsorted entries: each tree after its subtrees, and the files of
\* the last are the entries.
LEMMA BuildIs ==
  ASSUME NEW es, NEW ds, Listed(es, ds), NEW ts, ts = Build(es)
  PROVE  TreesIn(ts, ds) /\ ts # <<>> /\ Files(Last(ts)) = FilesFrom(es, 1, Len(es) + 1)
<1>1. PICK n, b : n = Rounds(es) /\ b = Built(es, n) OBVIOUS
<1>2. n \in Nat /\ b.frames = <<>> BY <1>1, BuildEnds
<1>3. ts = b.written BY <1>1, BuiltIs
<1>4. BuildOk(b, es, ds) /\ Covered(b, es) BY <1>1, <1>2, BuiltOk, BuiltCovers
<1>5. TreesIn(ts, ds) BY <1>3, <1>4, Zenon DEF BuildOk
<1>6. ts # <<>> /\ Level(Last(ts), MaxPath) = FilesFrom(es, 1, Len(es) + 1)
  BY <1>2, <1>3, <1>4, Zenon DEF Covered
<1> QED BY <1>5, <1>6, LevelIs

----------------------------
\* The trees of an index.

Sorted == ByPath(EntriesInOrder)

\* What is known of the entries of an index.
Entered(es) ==
    /\ IsSeq(es) /\ Len(es) = Len(paths)
    /\ \A i \in 1 .. Len(paths) : es[i] = [path |-> paths[i], data |-> data[i]]

\* The entries of the index, as a sequence.
LEMMA EntriesIs == ASSUME Inv PROVE Entered(EntriesInOrder)
<1>1. PICK es : es = EntriesInOrder BY Zenon
<1>2. PICK n \in Nat : n = Len(paths) /\ DOMAIN paths = 1 .. n BY Arrays, Zenon DEF Inv
<1>3. es = [i \in 1 .. n |-> [path |-> paths[i], data |-> data[i]]] BY <1>1, <1>2 DEF EntriesInOrder
<1>4. es = [i \in 1 .. n |-> es[i]] /\ \A i \in 1 .. n : es[i] = [path |-> paths[i], data |-> data[i]]
  BY <1>3
<1>5. IsSeq(es) /\ Len(es) = n BY <1>4, SeqMade
<1> QED BY <1>1, <1>2, <1>4, <1>5, Zenon DEF Entered

\* Paths of the index are such as stage makes, and different.
LEMMA PathsAre ==
  ASSUME Inv
  PROVE  /\ \A i \in 1 .. Len(paths) : IsPath(paths[i]) /\ paths[i] \in Seq(Nat)
         /\ \A i, j \in 1 .. Len(paths) : i # j => paths[i] # paths[j]
<1>1. /\ DOMAIN paths = 1 .. Len(paths)
      /\ \A i \in DOMAIN paths : paths[i] \in Paths
  BY Arrays DEF Inv
<1>2. \A p \in Paths : IsPath(p) /\ p \in Seq(Nat) BY PathAssumption, Zenon DEF IsPath, IsSeq
<1> QED BY <1>1, <1>2 DEF Inv, Distinct

\* The sorted entries of the index.
LEMMA SortedEntries ==
  ASSUME Inv, NEW s, s = Sorted
  PROVE  /\ Strict(s) /\ Len(s) = Len(paths)
         /\ \A x : Within(s, x) <=> \E i \in 1 .. Len(paths) : x = [path |-> paths[i], data |-> data[i]]
<1>1. PICK es : es = EntriesInOrder OBVIOUS
<1>2. /\ IsSeq(es) /\ Len(es) = Len(paths)
      /\ \A i \in 1 .. Len(paths) : es[i] = [path |-> paths[i], data |-> data[i]]
  BY <1>1, EntriesIs, Zenon DEF Entered
<1>3. ASSUME NEW i \in 1 .. Len(paths) PROVE es[i].path = paths[i]
  <2>1. es[i] = [path |-> paths[i], data |-> data[i]] BY <1>2
  <2> QED BY <2>1
<1>4. /\ \A i \in 1 .. Len(es) : es[i].path \in Seq(Nat)
      /\ \A i, j \in 1 .. Len(es) : i # j => es[i].path # es[j].path
  BY <1>2, <1>3, PathsAre
<1>5. /\ Strict(ByPath(es)) /\ Len(ByPath(es)) = Len(es)
      /\ \A x : Within(ByPath(es), x) <=> Within(es, x)
  BY <1>2, <1>4, SortedIs
<1>6. s = ByPath(es) BY <1>1 DEF Sorted
<1>7. \A x : Within(es, x) <=> \E i \in 1 .. Len(paths) : x = [path |-> paths[i], data |-> data[i]]
  BY <1>2 DEF Within
<1> QED BY <1>2, <1>5, <1>6, <1>7, Zenon

\* Each sorted entry is one of the index.
LEMMA SortedEntry ==
  ASSUME Inv, NEW s, s = Sorted, NEW j \in 1 .. Len(s)
  PROVE  \E i \in 1 .. Len(paths) : s[j] = [path |-> paths[i], data |-> data[i]]
<1>1. Within(s, s[j]) BY DEF Within
<1> QED BY <1>1, SortedEntries

\* The sorted entries are such as build_tree can group.
LEMMA SortedListed ==
  ASSUME Inv, NEW ds, ds = {data[i] : i \in DOMAIN data}, NEW s, s = Sorted
  PROVE  Listed(s, ds)
<1>1. DOMAIN data = 1 .. Len(paths) BY Arrays DEF Inv
<1>2. IsSeq(s) BY SortedEntries DEF Strict
<1>3. ASSUME NEW j \in 1 .. Len(s) PROVE IsPath(s[j].path) /\ s[j].data \in ds
  <2>1. PICK i \in 1 .. Len(paths) : s[j] = [path |-> paths[i], data |-> data[i]] BY SortedEntry
  <2>2. s[j].path = paths[i] /\ s[j].data = data[i] BY <2>1
  <2> QED BY <1>1, <2>2, PathsAre
<1> QED BY <1>2, <1>3 DEF Listed

\* The trees of an index.
LEMMA IndexTreesAre ==
  ASSUME Inv, NEW ds, ds = {data[i] : i \in DOMAIN data}, NEW ts, ts = IndexTrees, NEW s, s = Sorted
  PROVE  /\ TreesIn(ts, ds) /\ ts # <<>> /\ Committed = Last(ts)
         /\ Files(Last(ts)) = FilesFrom(s, 1, Len(s) + 1)
<1>1. ts = Build(s) BY DEF IndexTrees, WriteTree, Sorted
<1>2. Listed(s, ds) BY SortedListed
<1>3. Committed = Last(ts) BY DEF Committed
<1>4. TreesIn(ts, ds) /\ ts # <<>> /\ Files(Last(ts)) = FilesFrom(s, 1, Len(s) + 1)
  BY <1>1, <1>2, BuildIs
<1> QED BY <1>3, <1>4

\* flatten_tree of the committed tree gives the sorted entries, which it sorts again.
LEMMA FlatIs == ASSUME Inv, NEW s, s = Sorted PROVE FlattenTree(Committed) = ByPath(s)
<1>1. PICK n \in Nat, m \in Nat : n = Len(s) /\ m = n + 1 /\ n = Len(paths)
  <2>1. Len(s) \in Nat /\ Len(s) = Len(paths) BY SortedEntries, SeqIs DEF Strict
  <2> QED BY <2>1
<1>2. PICK f, u : f = Files(Committed)
                  /\ u = [j \in DOMAIN f |-> [path |-> f[j].name, data |-> f[j].node]]
  OBVIOUS
<1>3. f = FilesFrom(s, 1, m) BY <1>1, <1>2, IndexTreesAre
<1>4. m - 1 = n BY <1>1
<1>5. Copied(s, 1, n, f) BY <1>1, <1>3, <1>4, FilesFromIs
<1>6. IsSeq(f) /\ Len(f) = n /\ \A i \in 1 .. n : f[i] = File(s[1 + i - 1].path, s[1 + i - 1].data)
  BY <1>5 DEF Copied
<1>7. u = [j \in 1 .. n |-> [path |-> f[j].name, data |-> f[j].node]] BY <1>2, <1>6, SeqIs
<1>8. u = [j \in 1 .. n |-> u[j]] /\ \A j \in 1 .. n : u[j] = [path |-> f[j].name, data |-> f[j].node]
  BY <1>7
<1>9. IsSeq(u) /\ Len(u) = n BY <1>8, SeqMade
<1>10. ASSUME NEW j \in 1 .. n PROVE u[j] = s[j]
  <2>6. Within(s, s[j]) BY <1>1 DEF Within
  <2>1. PICK i \in 1 .. Len(paths) : s[j] = [path |-> paths[i], data |-> data[i]]
    BY <2>6, SortedEntries
  <2>2. 1 + j - 1 = j OBVIOUS
  <2>3. f[j] = File(s[j].path, s[j].data) BY <1>6, <2>2
  <2>4. f[j].name = s[j].path /\ f[j].node = s[j].data BY <2>3 DEF File
  <2>5. u[j] = [path |-> s[j].path, data |-> s[j].data] BY <1>8, <2>4
  <2> QED BY <2>1, <2>5
<1>11. IsSeq(s) BY SortedEntries DEF Strict
<1>12. u = s BY <1>1, <1>9, <1>10, <1>11, SeqSame
<1> QED BY <1>2, <1>12 DEF FlattenTree

\* What was committed flattens and looks up to the index.
LEMMA CommitHolds == ASSUME Inv PROVE CommitHoldsIndex
<1>1. PICK s, flat : s = Sorted /\ flat = FlattenTree(Committed) OBVIOUS
<1>2. flat = ByPath(s) BY <1>1, FlatIs
<1>3. /\ IsSeq(s) /\ Len(s) = Len(paths) /\ Strict(s)
      /\ \A x : Within(s, x) <=> \E i \in 1 .. Len(paths) : x = [path |-> paths[i], data |-> data[i]]
  BY <1>1, SortedEntries DEF Strict
<1>4. PICK n \in Nat : n = Len(paths) BY <1>3, SeqIs
<1>5. \A i \in 1 .. n : s[i].path \in Seq(Nat) BY <1>3, <1>4 DEF Strict
<1>6. ASSUME NEW i \in 1 .. n, NEW j \in 1 .. n, i # j PROVE s[i].path # s[j].path
  <2>1. \A k, l \in 1 .. n : k < l => Before(s[k].path, s[l].path) BY <1>3, <1>4 DEF Strict
  <2>2. CASE i < j BY <1>5, <2>1, <2>2, BeforeNot
  <2>3. CASE j < i BY <1>5, <2>1, <2>3, BeforeNot
  <2> QED BY <1>6, <2>2, <2>3
<1>7. /\ Strict(flat) /\ Len(flat) = Len(s)
      /\ \A x : Within(flat, x) <=> Within(s, x)
  BY <1>2, <1>3, <1>4, <1>5, <1>6, SortedIs
<1>8. \A x : Within(flat, x) <=> \E i \in 1 .. n : x = [path |-> paths[i], data |-> data[i]]
  BY <1>3, <1>4, <1>7
<1>9. ASSUME NEW p \in Paths PROVE Lookup(flat, p) = {data[i] : i \in Found(p)}
  <2>1. p \in Seq(Nat) BY PathAssumption
  <2>2. Lookup(flat, p) = {flat[i].data : i \in {j \in 1 .. Len(flat) : flat[j].path = p}}
    BY <1>7, <2>1, LookupIs
  <2>3. Found(p) = {i \in 1 .. n : paths[i] = p} BY <1>4, FoundIs, Arrays DEF Inv
  <2>4. ASSUME NEW j \in 1 .. Len(flat), flat[j].path = p
        PROVE \E i \in 1 .. n : paths[i] = p /\ data[i] = flat[j].data
    <3>1. Within(flat, flat[j]) BY DEF Within
    <3>2. PICK i \in 1 .. n : flat[j] = [path |-> paths[i], data |-> data[i]] BY <1>8, <3>1
    <3> QED BY <2>4, <3>2
  <2>5. ASSUME NEW i \in 1 .. n, paths[i] = p
        PROVE \E j \in 1 .. Len(flat) : flat[j].path = p /\ flat[j].data = data[i]
    <3>1. PICK x : x = [path |-> paths[i], data |-> data[i]] OBVIOUS
    <3>2. PICK j \in 1 .. Len(flat) : flat[j] = x BY <1>8, <3>1 DEF Within
    <3> QED BY <2>5, <3>1, <3>2
  <2> QED BY <2>2, <2>3, <2>4, <2>5
<1> QED BY <1>1, <1>9, Zenon DEF CommitHoldsIndex

----------------------------
\* A path, the directories it is in, and the paths between two of one directory.

\* A path in a directory is after the path of that directory.
LEMMA InsideBefore ==
  ASSUME NEW p, IsSeq(p), p # <<>>, NEW x, IsSeq(x), Inside(p, x) PROVE Before(p, x)
<1>1. PICK m \in Nat, n \in Nat : m = Len(p) /\ n = Len(x) BY SeqIs
<1>2. PICK a : a = Append(p, Slash) OBVIOUS
<1>3. IsSeq(a) /\ Len(a) = m + 1 /\ (\A i \in 1 .. m : a[i] = p[i]) BY <1>1, <1>2, SeqAppend
<1>4. IsPrefix(a, x) BY <1>2 DEF Inside
<1>5. m + 1 <= n /\ \A i \in 1 .. m + 1 : a[i] = x[i] BY <1>1, <1>3, <1>4, PrefixIs
<1>6. PICK i \in Nat : i = m + 1 /\ i - 1 = m OBVIOUS
<1>7. i \in 1 .. n /\ ~ (i <= m) /\ \A j \in 1 .. i - 1 : j <= m /\ p[j] = x[j] BY <1>3, <1>5, <1>6
<1> QED BY <1>1, <1>7 DEF Before

\* What is between two paths of a directory, in the order of bytes, is in it as well:
\* sorted entries of a directory are together.
LEMMA InsideBetween ==
  ASSUME NEW d, IsSeq(d), NEW a \in Seq(Nat), NEW b \in Seq(Nat), NEW c \in Seq(Nat),
         Inside(d, a), Inside(d, c), Before(a, b), Before(b, c)
  PROVE  Inside(d, b)
<1>1. CASE d = <<>> BY <1>1 DEF Inside
<1>2. CASE d # <<>>
  <2>1. PICK la \in Nat, lb \in Nat, lc \in Nat : la = Len(a) /\ lb = Len(b) /\ lc = Len(c)
    BY LenProperties
  <2>11. PICK f : f = Append(d, Slash) OBVIOUS
  <2>12. IsSeq(f) BY <2>11, SeqAppend
  <2>2. PICK n \in Nat : f = Append(d, Slash) /\ n = Len(f) /\ IsSeq(f) BY <2>11, <2>12, SeqIs
  <2>3. IsSeq(a) /\ IsSeq(b) /\ IsSeq(c) BY DEF IsSeq
  <2>4. IsPrefix(f, a) /\ IsPrefix(f, c) BY <1>2, <2>2 DEF Inside
  <2>13. n <= la /\ \A i \in 1 .. n : f[i] = a[i] BY <2>1, <2>2, <2>3, <2>4, PrefixIs, ZenonT(60)
  <2>14. n <= lc /\ \A i \in 1 .. n : f[i] = c[i] BY <2>1, <2>2, <2>3, <2>4, PrefixIs, ZenonT(60)
  <2>5. n <= la /\ n <= lc /\ \A i \in 1 .. n : f[i] = a[i] /\ f[i] = c[i] BY <2>13, <2>14
  <2>6. PICK u \in 1 .. lb : /\ \A j \in 1 .. u - 1 : j <= la /\ a[j] = b[j]
                             /\ u <= la => a[u] < b[u]
    BY <2>1 DEF Before
  <2>7. PICK v \in 1 .. lc : /\ \A j \in 1 .. v - 1 : j <= lb /\ b[j] = c[j]
                             /\ v <= lb => b[v] < c[v]
    BY <2>1 DEF Before
  <2>8. /\ \A i \in 1 .. la : a[i] \in Nat
        /\ \A i \in 1 .. lb : b[i] \in Nat
        /\ \A i \in 1 .. lc : c[i] \in Nat
    BY <2>1, ElementOfSeq
  <2>9. n <= lb /\ \A i \in 1 .. n : f[i] = b[i]
    <3>1. CASE u > n
      <4>1. \A i \in 1 .. n : i \in 1 .. u - 1 BY <3>1
      <4> QED BY <2>5, <2>6, <3>1, <4>1
    <3>2. CASE v > n /\ u <= n
      <4>1. \A i \in 1 .. n : i \in 1 .. v - 1 BY <3>2
      <4>2. \A i \in 1 .. n : i <= lb /\ f[i] = b[i] BY <2>5, <2>7, <4>1
      <4>3. n <= lb
        <5>1. n \in 1 .. n BY <3>2
        <5> QED BY <4>2, <5>1
      <4> QED BY <4>2, <4>3
    <3>3. CASE u <= n /\ v <= n
      <4>1. a[u] = c[u] /\ a[v] = c[v] /\ u <= la /\ v <= la BY <2>5, <3>3
      <4>2. a[u] < b[u] BY <2>6, <4>1
      <4>3. CASE v < u
        <5>1. v \in 1 .. u - 1 /\ v <= lb BY <4>3
        <5>2. b[v] = c[v] BY <2>6, <4>1, <5>1
        <5>3. b[v] < c[v] /\ b[v] \in Nat BY <2>7, <2>8, <5>1
        <5> QED BY <5>2, <5>3
      <4>4. CASE v = u
        <5>1. b[u] < c[u] /\ b[u] \in Nat /\ c[u] \in Nat BY <2>5, <2>7, <2>8, <3>3, <4>4
        <5> QED BY <4>1, <4>2, <5>1
      <4>5. CASE v > u
        <5>1. b[u] = c[u] /\ b[u] \in Nat BY <2>7, <2>8, <4>5
        <5> QED BY <4>1, <4>2, <5>1
      <4>6. v < u \/ v = u \/ v > u OBVIOUS
      <4> QED BY <4>3, <4>4, <4>5, <4>6, Zenon
    <3>4. u > n \/ (v > n /\ u <= n) \/ (u <= n /\ v <= n) OBVIOUS
    <3> QED BY <3>1, <3>2, <3>3, <3>4, Zenon
  <2>10. IsPrefix(f, b) BY <2>1, <2>2, <2>3, <2>9, PrefixIs
  <2> QED BY <2>2, <2>10 DEF Inside
<1> QED BY <1>1, <1>2

\* The first bytes of a sequence.
LEMMA HeadIs ==
  ASSUME NEW x, IsSeq(x), NEW d, IsSeq(d), NEW m \in Nat, m = Len(d), m <= Len(x),
         \A i \in 1 .. m : d[i] = x[i]
  PROVE  d = SubSeq(x, 1, m)
<1>1. PICK s : s = SubSeq(x, 1, m) OBVIOUS
<1>2. /\ IsSeq(SubSeq(x, 1, m)) /\ Len(SubSeq(x, 1, m)) = (IF 1 <= m THEN m - 1 + 1 ELSE 0)
      /\ \A i \in 1 .. m - 1 + 1 : SubSeq(x, 1, m)[i] = x[1 + i - 1]
  <2>1. PICK n \in Nat : n = Len(x) BY SeqIs
  <2>2. m <= n BY <2>1
  <2> QED BY <2>1, <2>2, SeqSub
<1>3. IsSeq(s) /\ Len(s) = m /\ \A i \in 1 .. m : s[i] = x[i] BY <1>1, <1>2
<1>4. s = d BY <1>3, SeqSame
<1> QED BY <1>1, <1>4

\* A directory that a path is in is above it.
LEMMA InsideAbove ==
  ASSUME NEW d, IsSeq(d), d # <<>>, NEW p, IsPath(p), Inside(d, p) PROVE d \in Above(p)
<1>1. PICK m \in Nat, n \in Nat : m = Len(d) /\ n = Len(p) BY SeqIs DEF IsPath
<1>2. PICK o : Below(d, p, o) BY InsideIs
<1>3. /\ o \in 0 .. n - 1 /\ o = m + 1 /\ p[o] = Slash /\ \A i \in 1 .. m : d[i] = p[i]
  BY <1>1, <1>2 DEF Below
<1>4. o \in 1 .. n /\ o - 1 = m /\ m <= n BY <1>3
<1>5. IsSeq(p) /\ DOMAIN p = 1 .. n BY <1>1, SeqIs DEF IsPath
<1>6. o \in Slashes(p) BY <1>3, <1>4, <1>5 DEF Slashes
<1>7. d = SubSeq(p, 1, o - 1) BY <1>1, <1>3, <1>4, <1>5, HeadIs
<1> QED BY <1>6, <1>7 DEF Above

\* What follows the first o bytes.
Rest(s, path, o) == IsSeq(s) /\ Len(s) = Len(path) - o /\ \A j \in 1 .. Len(path) - o : s[j] = path[o + j]

\* It is what SubSeq returns.
LEMMA RestIs ==
  ASSUME NEW path, IsSeq(path), NEW o \in Nat, o <= Len(path), NEW s, s = SubSeq(path, o + 1, Len(path))
  PROVE  Rest(s, path, o)
<1>1. PICK n \in Nat : n = Len(path) BY SeqIs
<1>2. /\ IsSeq(SubSeq(path, o + 1, n)) /\ Len(SubSeq(path, o + 1, n)) = (IF o + 1 <= n THEN n - (o + 1) + 1 ELSE 0)
      /\ \A j \in 1 .. n - (o + 1) + 1 : SubSeq(path, o + 1, n)[j] = path[(o + 1) + j - 1]
  BY <1>1, SeqSub
<1>3. IsSeq(s) /\ Len(s) = n - o BY <1>1, <1>2
<1>4. ASSUME NEW j \in 1 .. n - o PROVE s[j] = path[o + j]
  <2>1. j \in 1 .. n - (o + 1) + 1 /\ (o + 1) + j - 1 = o + j BY <1>1
  <2> QED BY <1>1, <1>2, <2>1
<1> QED BY <1>1, <1>3, <1>4 DEF Rest

\* The parts of the path of a directory of the name: those of d, a slash, and the name.
Split(D, d, name, m, k, o) ==
    /\ o = IF d = <<>> THEN 0 ELSE m + 1
    /\ IsSeq(D) /\ D # <<>> /\ Len(D) = o + k
    /\ \A i \in 1 .. m : D[i] = d[i]
    /\ d # <<>> => D[o] = Slash
    /\ \A j \in 1 .. k : D[o + j] = name[j]

\* Each path that Joined makes has these parts.
LEMMA SplitIs ==
  ASSUME NEW d, IsSeq(d), NEW name, Plain(name), NEW D, D = Joined(d, name),
         NEW m \in Nat, m = Len(d), NEW k \in Nat, k = Len(name)
  PROVE  \E o \in Nat : Split(D, d, name, m, k, o)
<1>1. IsSeq(name) /\ k # 0 BY SeqIs DEF Plain
<1>2. CASE d = <<>>
  <2>1. m = 0 /\ D = name BY <1>2, SeqEmpty DEF Joined
  <2>2. Split(D, d, name, m, k, 0) BY <1>1, <1>2, <2>1 DEF Split, Plain
  <2> QED BY <2>2
<1>3. CASE d # <<>>
  <2>1. PICK a, l : a = d \o l /\ l = <<Slash>> OBVIOUS
  <2>2. IsSeq(l) /\ Len(l) = 1 /\ l[1] = Slash BY <2>1, SeqOne
  <2>3. D = a \o name BY <1>3, <2>1 DEF Joined
  <2>4. Grown(d, l, a, m, m + 1) BY <2>1, <2>2, CatIs
  <2>5. IsSeq(a) /\ Len(a) = m + 1 /\ (\A i \in 1 .. m : a[i] = d[i]) /\ a[m + 1] = l[1]
    BY <2>2, <2>4 DEF Grown
  <2>6. PICK o \in Nat : o = m + 1 OBVIOUS
  <2>7. Grown(a, name, D, o, o + k) BY <1>1, <2>3, <2>5, <2>6, CatIs
  <2>8. IsSeq(D) /\ Len(D) = o + k /\ (\A i \in 1 .. o : D[i] = a[i]) /\ \A j \in 1 .. k : D[o + j] = name[j]
    BY <2>7 DEF Grown
  <2>9. \A i \in 1 .. m : D[i] = d[i] BY <2>5, <2>6, <2>8
  <2>10. D[o] = Slash BY <2>2, <2>5, <2>6, <2>8
  <2>11. D # <<>>
    <3>1. Len(D) # 0 BY <1>1, <2>6, <2>8
    <3> QED BY <2>8, <3>1, SeqIs, Zenon
  <2> QED BY <1>3, <2>6, <2>8, <2>9, <2>10, <2>11 DEF Split
<1> QED BY <1>2, <1>3

\* A path in a directory of a name is in the directory of that, and the name is its name there.
NamedIn(d, name, D, path) ==
    /\ Inside(d, path) /\ FirstName(Relative(d, path)) = name /\ Relative(d, path) # name
    /\ D # path /\ D # <<>>
    /\ Relative(D, path) = SubSeq(Relative(d, path), Len(name) + 2, Len(Relative(d, path)))

\* It is so for each path in the directory.
LEMMA InsideName ==
  ASSUME NEW path, IsPath(path), NEW d, IsSeq(d), NEW name, Plain(name),
         NEW D, D = Joined(d, name), Inside(D, path)
  PROVE  NamedIn(d, name, D, path)
<1>1. IsSeq(path) /\ IsSeq(name) /\ name # <<>> BY DEF IsPath, Plain
<1>2. PICK m \in Nat, k \in Nat, n \in Nat : m = Len(d) /\ k = Len(name) /\ n = Len(path)
  BY <1>1, SeqIs
<1>3. k # 0 BY <1>1, <1>2, SeqIs
<1>4. PICK o \in Nat : Split(D, d, name, m, k, o) BY <1>2, SplitIs
<1>5. /\ (d = <<>> => o = 0) /\ (d # <<>> => o = m + 1)
      /\ IsSeq(D) /\ D # <<>> /\ Len(D) = o + k
      /\ \A i \in 1 .. m : D[i] = d[i]
      /\ d # <<>> => D[o] = Slash
      /\ \A j \in 1 .. k : D[o + j] = name[j]
  BY <1>4 DEF Split
<1>6. PICK q : Below(D, path, q) BY <1>5, InsideIs
<1>7. /\ q \in 0 .. n - 1 /\ q = (o + k) + 1 /\ path[q] = Slash
      /\ \A i \in 1 .. o + k : D[i] = path[i]
      /\ Relative(D, path) = SubSeq(path, q + 1, Len(path))
  BY <1>2, <1>5, <1>6 DEF Below
<1>8. d # <<>> => \A i \in 1 .. m + 1 : D[i] = path[i] BY <1>5, <1>7
<1>9. Inside(d, path)
  <2>1. CASE d = <<>> BY <2>1 DEF Inside
  <2>2. CASE d # <<>>
    <3>1. PICK f : f = Append(d, Slash) OBVIOUS
    <3>2. IsSeq(f) /\ Len(f) = m + 1 /\ (\A i \in 1 .. m : f[i] = d[i]) /\ f[m + 1] = Slash
      BY <1>2, <3>1, SeqAppend
    <3>3. o = m + 1 /\ D[m + 1] = Slash BY <1>5, <2>2
    <3>4. \A i \in 1 .. m + 1 : f[i] = path[i]
      <4> TAKE i \in 1 .. m + 1
      <4>1. CASE i = m + 1 BY <1>8, <2>2, <3>2, <3>3, <4>1
      <4>2. CASE i # m + 1
        <5>1. i \in 1 .. m BY <4>2
        <5> QED BY <1>5, <1>8, <2>2, <3>2, <5>1
      <4> QED BY <4>1, <4>2
    <3>5. m + 1 <= n BY <1>7, <3>3
    <3>6. IsPrefix(f, path) BY <1>1, <1>2, <3>2, <3>4, <3>5, PrefixIs
    <3> QED BY <3>1, <3>6 DEF Inside
  <2> QED BY <2>1, <2>2
<1>10. PICK rel : rel = Relative(d, path) OBVIOUS
<1>11. rel = SubSeq(path, o + 1, Len(path))
  <2>1. PICK p : Below(d, path, p) BY <1>9, InsideIs
  <2>2. p = o /\ Relative(d, path) = SubSeq(path, p + 1, Len(path)) BY <1>2, <1>5, <2>1 DEF Below
  <2> QED BY <1>10, <2>2
<1>12. o <= n BY <1>7
<1>13. Rest(rel, path, o) BY <1>1, <1>2, <1>11, <1>12, RestIs
<1>14. IsSeq(rel) /\ Len(rel) = n - o /\ \A j \in 1 .. n - o : rel[j] = path[o + j]
  BY <1>2, <1>13 DEF Rest
<1>15. \A j \in 1 .. k : rel[j] = name[j]
  <2> TAKE j \in 1 .. k
  <2>1. j \in 1 .. n - o /\ o + j \in 1 .. o + k BY <1>7, SMTT(30)
  <2> QED BY <1>5, <1>7, <1>14, <2>1
<1>16. \A j \in 1 .. k : rel[j] # Slash BY <1>2, <1>15 DEF Plain
<1>17. rel[k + 1] = Slash /\ k + 1 \in 1 .. n - o
  <2>1. k + 1 \in 1 .. n - o /\ o + (k + 1) = q BY <1>7
  <2> QED BY <1>7, <1>14, <2>1
<1>18. PICK l \in Nat : l = n - o BY <1>12
<1>19. k < l /\ Len(rel) = l BY <1>14, <1>17, <1>18
<1>20. FirstName(rel) = SubSeq(rel, 1, k)
  <2>1. ~ \A j \in 1 .. Len(rel) : rel[j] # Slash BY <1>14, <1>17
  <2>2. PICK i \in 1 .. Len(rel) : /\ rel[i] = Slash /\ FirstName(rel) = SubSeq(rel, 1, i - 1)
                                   /\ \A j \in 1 .. i - 1 : rel[j] # Slash
    BY <1>14, <2>1, FirstNameIs
  <2>3. i \in 1 .. l BY <1>19, <2>2
  <2>4. ~ (i <= k) BY <1>16, <2>2, <2>3
  <2>5. ~ (i > k + 1) BY <1>17, <2>2, <2>3
  <2>6. i - 1 = k BY <2>3, <2>4, <2>5
  <2> QED BY <2>2, <2>6
<1>21. name = SubSeq(rel, 1, k)
  <2>1. k <= Len(rel) BY <1>19
  <2> QED BY <1>1, <1>2, <1>14, <1>15, <2>1, HeadIs
<1>22. rel # name BY <1>2, <1>19
<1>23. D # path
  <2>1. o + k < n BY <1>7
  <2> QED BY <1>2, <1>5, <2>1
<1>24. Relative(D, path) = SubSeq(rel, k + 2, Len(rel))
  <2>1. PICK s, r : s = SubSeq(rel, (k + 1) + 1, Len(rel)) /\ r = SubSeq(path, q + 1, Len(path))
    OBVIOUS
  <2>2. Rest(s, rel, k + 1)
    <3>1. k + 1 \in Nat /\ k + 1 <= Len(rel) BY <1>19
    <3> QED BY <1>14, <2>1, <3>1, RestIs
  <2>3. Rest(r, path, q)
    <3>1. q \in Nat /\ q <= Len(path) BY <1>2, <1>7
    <3> QED BY <1>1, <2>1, <3>1, RestIs
  <2>4. IsSeq(s) /\ Len(s) = l - (k + 1) /\ \A j \in 1 .. l - (k + 1) : s[j] = rel[(k + 1) + j]
    BY <1>19, <2>2 DEF Rest
  <2>5. IsSeq(r) /\ Len(r) = n - q /\ \A j \in 1 .. n - q : r[j] = path[q + j]
    BY <1>2, <2>3 DEF Rest
  <2>6. PICK z \in Nat : z = n - q /\ l - (k + 1) = z BY <1>7, <1>18
  <2>7. \A j \in 1 .. z : s[j] = r[j]
    <3> TAKE j \in 1 .. z
    <3>1. (k + 1) + j \in 1 .. n - o /\ o + ((k + 1) + j) = q + j BY <1>7, <2>6
    <3> QED BY <1>14, <2>4, <2>5, <2>6, <3>1
  <2>8. Len(s) = z /\ Len(r) = z BY <2>4, <2>5, <2>6
  <2>9. s = r BY <2>4, <2>5, <2>7, <2>8, SeqSame
  <2>10. (k + 1) + 1 = k + 2 OBVIOUS
  <2> QED BY <1>7, <2>1, <2>9, <2>10
<1> QED BY <1>2, <1>5, <1>9, <1>10, <1>20, <1>21, <1>22, <1>23, <1>24 DEF NamedIn

----------------------------
\* build_tree: what a tree shows, and what stays so.

\* The entry of a tree of d that leads to path: a file, or the directory that path is in.
Leads(d, path, e) ==
    /\ e.name = FirstName(Relative(d, path))
    /\ Joined(d, e.name) = path => e.dir = FALSE
    /\ Joined(d, e.name) # path => e.dir = TRUE
Shows(t, d, path) == \E j \in 1 .. Len(t) : Leads(d, path, t[j])

\* The entries of a tree of d: files of es, and the first w of the trees ts, which are of
\* dirs; a file comes before a directory of its name.
FileIn(d, e, es) ==
    e.dir = FALSE => \E i \in 1 .. Len(es) : es[i].path = Joined(d, e.name) /\ es[i].data = e.node
DirIn(d, e, ts, dirs, w) ==
    e.dir = TRUE => \E k \in 1 .. w : e.node = ts[k] /\ dirs[k] = Joined(d, e.name)
FilesFirst(t) ==
    \A j, k \in 1 .. Len(t) : t[j].dir = TRUE /\ t[k].dir = FALSE /\ t[j].name = t[k].name => k < j
Stands(t, d, es, ts, dirs, w) ==
    /\ \A j \in 1 .. Len(t) : FileIn(d, t[j], es) /\ DirIn(d, t[j], ts, dirs, w)
    /\ FilesFirst(t)

\* The directories of a tree of d are complete: the entries in them are before next.
Passed(dir, es, next) ==
    /\ \E i \in 1 .. Len(es) : i < next /\ Inside(dir, es[i].path)
    /\ \A i \in 1 .. Len(es) : i >= next => ~ Inside(dir, es[i].path)
Behind(t, d, es, next) == \A j \in 1 .. Len(t) : t[j].dir = TRUE => Passed(Joined(d, t[j].name), es, next)

\* An entry that a tree had it still has when one is added, and the one that is added.
LEMMA ShowsMore ==
  ASSUME NEW t, IsSeq(t), NEW e, NEW d, NEW path, Shows(t, d, path) \/ Leads(d, path, e)
  PROVE  Shows(Append(t, e), d, path)
<1>1. PICK m \in Nat : m = Len(t) BY SeqIs
<1>9. PICK u : u = Append(t, e) OBVIOUS
<1>2. Len(u) = m + 1 /\ (\A j \in 1 .. m : u[j] = t[j]) /\ u[m + 1] = e BY <1>1, <1>9, SeqAppend
<1>3. CASE Shows(t, d, path)
  <2>1. PICK j \in 1 .. m : Leads(d, path, t[j]) BY <1>1, <1>3 DEF Shows
  <2>2. j \in 1 .. m + 1 /\ u[j] = t[j] BY <1>2
  <2>3. j \in 1 .. Len(u) /\ Leads(d, path, u[j]) BY <1>2, <2>1, <2>2
  <2> QED BY <1>9, <2>3 DEF Shows
<1>4. CASE Leads(d, path, e)
  <2>1. m + 1 \in 1 .. Len(u) /\ Leads(d, path, u[m + 1]) BY <1>2, <1>4
  <2> QED BY <1>9, <2>1 DEF Shows
<1> QED BY <1>3, <1>4

\* The same with more trees.
LEMMA StandsLater ==
  ASSUME NEW t, NEW d, NEW es, NEW ts, NEW dirs, NEW w \in Nat, Stands(t, d, es, ts, dirs, w),
         NEW us, NEW more, NEW v \in Nat, w <= v, \A k \in 1 .. w : us[k] = ts[k] /\ more[k] = dirs[k]
  PROVE  Stands(t, d, es, us, more, v)
<1>1. ASSUME NEW e, DirIn(d, e, ts, dirs, w) PROVE DirIn(d, e, us, more, v)
  <2> SUFFICES ASSUME e.dir = TRUE PROVE \E k \in 1 .. v : e.node = us[k] /\ more[k] = Joined(d, e.name)
    BY DEF DirIn
  <2>1. PICK k \in 1 .. w : e.node = ts[k] /\ dirs[k] = Joined(d, e.name) BY <1>1 DEF DirIn
  <2>2. k \in 1 .. v /\ us[k] = ts[k] /\ more[k] = dirs[k] OBVIOUS
  <2> QED BY <2>1, <2>2
<1> QED BY <1>1 DEF Stands

\* An entry is added.
LEMMA StandsMore ==
  ASSUME NEW t, IsSeq(t), NEW d, NEW es, NEW ts, NEW dirs, NEW w, Stands(t, d, es, ts, dirs, w),
         NEW e, FileIn(d, e, es), DirIn(d, e, ts, dirs, w),
         e.dir = FALSE => \A j \in 1 .. Len(t) : t[j].dir = TRUE => t[j].name # e.name
  PROVE  Stands(Append(t, e), d, es, ts, dirs, w)
<1>1. PICK m \in Nat : m = Len(t) BY SeqIs
<1>9. PICK u : u = Append(t, e) OBVIOUS
<1>2. Len(u) = m + 1 /\ (\A j \in 1 .. m : u[j] = t[j]) /\ u[m + 1] = e BY <1>1, <1>9, SeqAppend
<1>3. ASSUME NEW j \in 1 .. m + 1 PROVE FileIn(d, u[j], es) /\ DirIn(d, u[j], ts, dirs, w)
  <2>1. j \in 1 .. m \/ j = m + 1 OBVIOUS
  <2> QED BY <1>1, <1>2, <2>1 DEF Stands
<1>4. ASSUME NEW j \in 1 .. m + 1, NEW k \in 1 .. m + 1,
             u[j].dir = TRUE, u[k].dir = FALSE, u[j].name = u[k].name
      PROVE  k < j
  <2>1. CASE j = m + 1
    <3>1. k # m + 1 BY <1>4, <2>1
    <3> QED BY <2>1, <3>1
  <2>2. CASE j # m + 1 /\ k = m + 1
    <3>1. j \in 1 .. m /\ u[j] = t[j] /\ u[k] = e BY <1>2, <2>2
    <3> QED BY <1>1, <1>4, <3>1
  <2>3. CASE j # m + 1 /\ k # m + 1
    <3>1. j \in 1 .. m /\ u[j] = t[j] /\ k \in 1 .. m /\ u[k] = t[k] BY <1>2, <2>3
    <3> QED BY <1>1, <1>4, <3>1 DEF Stands, FilesFirst
  <2> QED BY <2>1, <2>2, <2>3
<1>5. FilesFirst(u) BY <1>2, <1>4 DEF FilesFirst
<1> QED BY <1>9, <1>2, <1>3, <1>5 DEF Stands

\* What is complete stays complete when the next entry is looked at ...
LEMMA BehindLater ==
  ASSUME NEW t, NEW d, NEW es, NEW next \in Nat, Behind(t, d, es, next)
  PROVE  Behind(t, d, es, next + 1)
<1>1. ASSUME NEW dir, Passed(dir, es, next) PROVE Passed(dir, es, next + 1)
  <2>1. PICK i \in 1 .. Len(es) : i < next /\ Inside(dir, es[i].path) BY <1>1 DEF Passed
  <2>2. i < next + 1 BY <2>1
  <2>3. \A j \in 1 .. Len(es) : j >= next + 1 => j >= next OBVIOUS
  <2>4. \A j \in 1 .. Len(es) : j >= next + 1 => ~ Inside(dir, es[j].path) BY <1>1, <2>3 DEF Passed
  <2> QED BY <2>1, <2>2, <2>4 DEF Passed
<1> QED BY <1>1 DEF Behind

\* ... and when an entry is added that is complete.
LEMMA BehindMore ==
  ASSUME NEW t, IsSeq(t), NEW d, NEW es, NEW next, Behind(t, d, es, next), NEW e,
         e.dir = TRUE => Passed(Joined(d, e.name), es, next)
  PROVE  Behind(Append(t, e), d, es, next)
<1>1. PICK m \in Nat : m = Len(t) BY SeqIs
<1>9. PICK u : u = Append(t, e) OBVIOUS
<1>2. Len(u) = m + 1 /\ (\A j \in 1 .. m : u[j] = t[j]) /\ u[m + 1] = e BY <1>1, <1>9, SeqAppend
<1>3. ASSUME NEW j \in 1 .. m + 1, u[j].dir = TRUE PROVE Passed(Joined(d, u[j].name), es, next)
  <2>1. CASE j = m + 1 BY <1>2, <1>3, <2>1
  <2>2. CASE j # m + 1
    <3>1. j \in 1 .. m /\ u[j] = t[j] BY <1>2, <2>2
    <3> QED BY <1>1, <1>3, <3>1 DEF Behind
  <2> QED BY <2>1, <2>2
<1> QED BY <1>9, <1>2, <1>3 DEF Behind

\* A tree of d that has an entry for all that is in d.
Complete(t, d, es, ts, dirs, w) ==
    /\ IsSeq(d) /\ Stands(t, d, es, ts, dirs, w)
    /\ \A i \in 1 .. Len(es) : Inside(d, es[i].path) => Shows(t, d, es[i].path)

\* The trees that were written are of dirs.
Finished(es, ts, dirs) ==
    /\ IsSeq(dirs) /\ Len(dirs) = Len(ts)
    /\ \A k \in 1 .. Len(ts) : Complete(ts[k], dirs[k], es, ts, dirs, k - 1)

\* What is known of a frame: what it has, and that the entries before next are in it or in a
\* frame in it.
FrameStands(f, es, ts, dirs, w, next) ==
    Stands(f.entries, f.dir, es, ts, dirs, w) /\ Behind(f.entries, f.dir, es, next)
InFrames(fs, k, es, next) ==
    \A i \in 1 .. Len(es) : (i < next /\ Inside(fs[k].dir, es[i].path)) =>
        \/ Shows(fs[k].entries, fs[k].dir, es[i].path)
        \/ \E l \in k + 1 .. Len(fs) : Inside(fs[l].dir, es[i].path)

\* A directory was opened for an entry that is in it.
Reached(f, es, next) ==
    Plain(f.name) /\ \E i \in 1 .. Len(es) : i <= next /\ Inside(f.dir, es[i].path)

Mapped(b, es, dirs) ==
    /\ Finished(es, b.written, dirs)
    /\ \A k \in 1 .. Len(b.frames) :
            /\ FrameStands(b.frames[k], es, b.written, dirs, Len(b.written), b.next)
            /\ InFrames(b.frames, k, es, b.next)
    /\ \A k \in 2 .. Len(b.frames) : Reached(b.frames[k], es, b.next)
    /\ b.frames = <<>> => b.written # <<>> /\ dirs[Len(b.written)] = <<>>

\* When the innermost frame is closed, all that is in its directory was there.
LEMMA TopPassed ==
  ASSUME NEW es, Strict(es), NEW dir, IsSeq(dir), NEW next \in 1 .. Len(es) + 1,
         next = Len(es) + 1 \/ ~ Inside(dir, es[next].path),
         dir # <<>> => \E i \in 1 .. Len(es) : i <= next /\ Inside(dir, es[i].path)
  PROVE  /\ \A i \in 1 .. Len(es) : i >= next => ~ Inside(dir, es[i].path)
         /\ dir # <<>> => Passed(dir, es, next)
<1>1. PICK m \in Nat : m = Len(es) BY SeqIs DEF Strict
<1>2. \A i \in 1 .. m : es[i].path \in Seq(Nat) BY <1>1 DEF Strict
<1>3. \A i, j \in 1 .. m : i < j => Before(es[i].path, es[j].path) BY <1>1 DEF Strict
<1>4. ASSUME NEW i \in 1 .. m, i >= next, Inside(dir, es[i].path) PROVE FALSE
  <2>1. next \in 1 .. m /\ ~ Inside(dir, es[next].path) BY <1>1, <1>4
  <2>2. dir # <<>> /\ i # next BY <1>4, <2>1 DEF Inside
  <2>3. PICK j \in 1 .. m : j <= next /\ Inside(dir, es[j].path) BY <1>1, <2>2
  <2>4. j # next BY <2>1, <2>3
  <2>5. j < next /\ next < i BY <1>4, <2>1, <2>2, <2>3, <2>4
  <2>6. Before(es[j].path, es[next].path) /\ Before(es[next].path, es[i].path) BY <1>3, <2>1, <2>5
  <2>7. Inside(dir, es[next].path) BY <1>2, <1>4, <2>1, <2>3, <2>6, InsideBetween
  <2> QED BY <2>1, <2>7
<1>5. ASSUME dir # <<>> PROVE \E i \in 1 .. m : i < next /\ Inside(dir, es[i].path)
  <2>1. PICK i \in 1 .. m : i <= next /\ Inside(dir, es[i].path) BY <1>1, <1>5
  <2>2. ~ (i >= next) BY <1>4, <2>1
  <2>3. i < next BY <1>1, <2>2
  <2> QED BY <2>1, <2>3
<1> QED BY <1>1, <1>4, <1>5 DEF Passed

\* The frames and what is written when the innermost is closed.
Closing(fs, gs, ws, vs, n, w, top, e) ==
    /\ n = Len(fs) /\ top = fs[n] /\ e = Subtree(top.name, top.entries)
    /\ IsSeq(gs) /\ Len(gs) = n - 1
    /\ IsSeq(vs) /\ Len(vs) = w + 1 /\ (\A k \in 1 .. w : vs[k] = ws[k]) /\ vs[w + 1] = top.entries
    /\ \A k \in 1 .. n - 1 : gs[k].dir = fs[k].dir /\ gs[k].name = fs[k].name
    /\ \A k \in 1 .. n - 1 : k # n - 1 => gs[k].entries = fs[k].entries
    /\ n # 1 => gs[n - 1].entries = Append(fs[n - 1].entries, e) /\ IsSeq(fs[n - 1].entries)
    /\ n # 1 => top.dir # <<>> /\ top.dir = Joined(fs[n - 1].dir, top.name) /\ IsSeq(fs[n - 1].dir)
    /\ n = 1 => top.dir = <<>>
    /\ IsSeq(top.dir)

\* There is a frame before the last when there is more than one.
LEMMA NotOne == ASSUME NEW n \in Nat \ {0}, n # 1 PROVE n \in 2 .. n /\ n - 1 \in 1 .. n
  OBVIOUS

\* A round that closes a frame does this.
LEMMA CloseIs ==
  ASSUME NEW es, NEW ds, NEW b, BuildOk(b, es, ds), NEW r, Closes(b, r),
         NEW n \in Nat \ {0}, n = Len(b.frames), NEW w \in Nat, w = Len(b.written),
         NEW top, top = b.frames[n], NEW e, e = Subtree(top.name, top.entries)
  PROVE  Closing(b.frames, r.frames, b.written, r.written, n, w, top, e)
<1>1. PICK fs, gs, ws, vs : fs = b.frames /\ gs = r.frames /\ ws = b.written /\ vs = r.written
  OBVIOUS
<1>2. /\ IsSeq(gs) /\ Len(gs) = n - 1 /\ \A k \in 1 .. n - 2 : gs[k] = fs[k]
  BY <1>1 DEF Closes, SameFirst
<1>3. vs = Append(ws, top.entries) BY <1>1, Zenon DEF Closes
<1>4. n # 1 => gs[n - 1] = Extended(fs[n - 1], e) BY <1>1, Zenon DEF Closes
<1>5. IsSeq(vs) /\ Len(vs) = w + 1 /\ (\A k \in 1 .. w : vs[k] = ws[k]) /\ vs[w + 1] = top.entries
  <2>1. IsSeq(ws) BY <1>1 DEF BuildOk, TreesIn
  <2> QED BY <1>1, <1>3, <2>1, SeqAppend
<1>6. \A k \in 1 .. n : IsFrame(fs[k]) /\ IsSeq(fs[k].entries) BY <1>1 DEF BuildOk, FramesOk, TreeIn
<1>7. /\ fs # <<>> => fs[1].dir = <<>>
      /\ \A k \in 2 .. n : fs[k].dir # <<>> /\ fs[k].dir = Joined(fs[k - 1].dir, fs[k].name)
  BY <1>1 DEF BuildOk, Nested
<1>8. fs # <<>> BY <1>1, SeqEmpty
<1>9. IsSeq(top.dir)
  <2>1. n \in 1 .. n OBVIOUS
  <2> QED BY <1>1, <1>6, <2>1 DEF IsFrame
<1>10. n = 1 => top.dir = <<>> BY <1>1, <1>7, <1>8
<1>11. ASSUME n # 1
       PROVE  /\ gs[n - 1].entries = Append(fs[n - 1].entries, e) /\ IsSeq(fs[n - 1].entries)
              /\ gs[n - 1].dir = fs[n - 1].dir /\ gs[n - 1].name = fs[n - 1].name
              /\ top.dir # <<>> /\ top.dir = Joined(fs[n - 1].dir, top.name) /\ IsSeq(fs[n - 1].dir)
  <2>1. n \in 2 .. n /\ n - 1 \in 1 .. n BY <1>11, NotOne, Zenon
  <2>2. PICK f, x : f = fs[n - 1] /\ x = gs[n - 1] OBVIOUS
  <2>3. IsFrame(f) /\ IsSeq(f.entries) BY <1>6, <2>1, <2>2
  <2>4. x = Extended(f, e) BY <1>4, <1>11, <2>2
  <2>5. x.dir = f.dir /\ x.name = f.name /\ x.entries = Append(f.entries, e)
    BY <2>3, <2>4, ExtendedIs
  <2>6. top.dir # <<>> /\ top.dir = Joined(f.dir, top.name) BY <1>1, <1>7, <2>1, <2>2
  <2> QED BY <2>2, <2>3, <2>5, <2>6 DEF IsFrame
<1>12. \A k \in 1 .. n - 1 : gs[k].dir = fs[k].dir /\ gs[k].name = fs[k].name
  <2> TAKE k \in 1 .. n - 1
  <2>1. CASE k = n - 1 BY <1>11, <2>1
  <2>2. CASE k # n - 1
    <3>1. k \in 1 .. n - 2 BY <2>2
    <3> QED BY <1>2, <3>1
  <2> QED BY <2>1, <2>2
<1>13. \A k \in 1 .. n - 1 : k # n - 1 => gs[k].entries = fs[k].entries BY <1>2
<1> QED BY <1>1, <1>2, <1>5, <1>9, <1>10, <1>11, <1>12, <1>13, Zenon DEF Closing

----------------------------
\* build_tree: each tree is of one directory, and complete when it is written.

\* An entry before next that was in a frame, or one in it, still is when the innermost is closed.
LEMMA CloseHolds ==
  ASSUME NEW es, NEW ds, Listed(es, ds), NEW fs, NEW gs, NEW ws, NEW vs,
         NEW n \in Nat \ {0}, NEW w, NEW top, NEW e, Closing(fs, gs, ws, vs, n, w, top, e),
         n # 1 => Plain(top.name), NEW next, NEW k \in 1 .. n - 1, InFrames(fs, k, es, next)
  PROVE  InFrames(gs, k, es, next)
<1>9. n = Len(fs) /\ top = fs[n] /\ e = Subtree(top.name, top.entries) BY Zenon DEF Closing
<1>1. n # 1 /\ n - 1 \in 1 .. n - 1 OBVIOUS
<1>2. /\ gs[k].dir = fs[k].dir
      /\ k # n - 1 => gs[k].entries = fs[k].entries
      /\ k = n - 1 => gs[k].entries = Append(fs[k].entries, e) /\ IsSeq(fs[k].entries)
      /\ Len(gs) = n - 1
  BY <1>1 DEF Closing
<1>3. /\ top.dir # <<>> /\ top.dir = Joined(fs[n - 1].dir, top.name) /\ IsSeq(fs[n - 1].dir)
      /\ gs[n - 1].dir = fs[n - 1].dir
  BY <1>1 DEF Closing
<1> SUFFICES ASSUME NEW i \in 1 .. Len(es), i < next, Inside(gs[k].dir, es[i].path)
             PROVE  \/ Shows(gs[k].entries, gs[k].dir, es[i].path)
                    \/ \E l \in k + 1 .. n - 1 : Inside(gs[l].dir, es[i].path)
  BY <1>2 DEF InFrames
<1>4. \/ Shows(fs[k].entries, fs[k].dir, es[i].path)
      \/ \E l \in k + 1 .. n : Inside(fs[l].dir, es[i].path)
  BY <1>2, <1>9 DEF InFrames
<1>5. CASE Shows(fs[k].entries, fs[k].dir, es[i].path) BY <1>2, <1>5, ShowsMore
<1>6. ASSUME NEW l \in k + 1 .. n, Inside(fs[l].dir, es[i].path), l # n
      PROVE \E m \in k + 1 .. n - 1 : Inside(gs[m].dir, es[i].path)
  <2>1. l \in k + 1 .. n - 1 /\ l \in 1 .. n - 1 BY <1>6
  <2>2. gs[l].dir = fs[l].dir BY <2>1 DEF Closing
  <2> QED BY <1>6, <2>1, <2>2
<1>7. ASSUME Inside(top.dir, es[i].path)
      PROVE  \/ Shows(gs[k].entries, gs[k].dir, es[i].path)
             \/ \E m \in k + 1 .. n - 1 : Inside(gs[m].dir, es[i].path)
  <2>1. IsPath(es[i].path) BY DEF Listed
  <2>2. PICK d, D, name, path : /\ d = fs[n - 1].dir /\ D = top.dir /\ name = top.name
                                /\ path = es[i].path
    OBVIOUS
  <2>3. IsPath(path) /\ IsSeq(d) /\ Plain(name) /\ D = Joined(d, name) /\ Inside(D, path)
    BY <1>1, <1>3, <1>7, <2>1, <2>2
  <2>4. NamedIn(d, name, D, path) BY <2>3, InsideName
  <2>5. Inside(d, path) /\ FirstName(Relative(d, path)) = name /\ D # path BY <2>4 DEF NamedIn
  <2>6. CASE k = n - 1
    <3>1. e.name = name /\ e.dir = TRUE BY <1>9, <2>2 DEF Subtree
    <3>2. Leads(d, path, e) BY <2>3, <2>5, <3>1 DEF Leads
    <3>3. PICK t : t = fs[k].entries OBVIOUS
    <3>4. IsSeq(t) /\ gs[k].entries = Append(t, e) /\ gs[k].dir = d BY <1>2, <2>2, <2>6, <3>3
    <3>5. Shows(Append(t, e), d, path) BY <3>2, <3>4, ShowsMore
    <3> QED BY <2>2, <3>4, <3>5
  <2>7. CASE k # n - 1
    <3>1. n - 1 \in k + 1 .. n - 1 BY <2>7
    <3>2. Inside(gs[n - 1].dir, es[i].path) BY <1>3, <2>2, <2>5
    <3> QED BY <3>1, <3>2
  <2> QED BY <2>6, <2>7
<1>8. ASSUME NEW l \in k + 1 .. n, Inside(fs[l].dir, es[i].path)
      PROVE  \/ Inside(fs[n].dir, es[i].path)
             \/ \E m \in k + 1 .. n - 1 : Inside(gs[m].dir, es[i].path)
  BY <1>6, <1>8
<1> QED BY <1>4, <1>5, <1>7, <1>8, <1>9

\* The trees that were written, and the one that is.
LEMMA CloseFinishes ==
  ASSUME NEW es, NEW ws, NEW vs, NEW dirs, NEW more, NEW w \in Nat, IsSeq(vs), Len(vs) = w + 1,
         \A k \in 1 .. w : vs[k] = ws[k], Len(ws) = w, Finished(es, ws, dirs), NEW d,
         IsSeq(more), Len(more) = w + 1, \A k \in 1 .. w : more[k] = dirs[k], more[w + 1] = d,
         Complete(vs[w + 1], d, es, ws, dirs, w)
  PROVE  Finished(es, vs, more)
<1>3. ASSUME NEW t, NEW dir, NEW v \in 0 .. w, Complete(t, dir, es, ws, dirs, v)
      PROVE Complete(t, dir, es, vs, more, v)
  <2>4. PICK u \in Nat : u = v OBVIOUS
  <2>1. v \in Nat /\ v <= u /\ \A k \in 1 .. v : vs[k] = ws[k] /\ more[k] = dirs[k] BY <2>4
  <2>2. Stands(t, dir, es, ws, dirs, v) BY <1>3 DEF Complete
  <2>3. Stands(t, dir, es, vs, more, u) BY <2>1, <2>2, StandsLater
  <2> QED BY <1>3, <2>3, <2>4 DEF Complete
<1>4. ASSUME NEW k \in 1 .. w + 1 PROVE Complete(vs[k], more[k], es, vs, more, k - 1)
  <2>1. CASE k = w + 1
    <3>1. w \in 0 .. w /\ k - 1 = w BY <2>1
    <3> QED BY <1>3, <2>1, <3>1
  <2>2. CASE k # w + 1
    <3>1. k \in 1 .. w /\ k - 1 \in 0 .. w BY <2>2
    <3>2. Complete(ws[k], dirs[k], es, ws, dirs, k - 1) BY <3>1 DEF Finished
    <3>3. vs[k] = ws[k] /\ more[k] = dirs[k] BY <3>1
    <3> QED BY <1>3, <3>1, <3>2, <3>3
  <2> QED BY <2>1, <2>2
<1> QED BY <1>4 DEF Finished

\* What the frames have when the innermost is closed.
LEMMA CloseStands ==
  ASSUME NEW es, NEW fs, NEW gs, NEW ws, NEW vs, NEW n \in Nat \ {0}, NEW w \in Nat, NEW top, NEW e,
         Closing(fs, gs, ws, vs, n, w, top, e),
         NEW dirs, NEW more, \A k \in 1 .. w : more[k] = dirs[k], more[w + 1] = top.dir,
         NEW next, n # 1 => Passed(top.dir, es, next),
         NEW k \in 1 .. n - 1, FrameStands(fs[k], es, ws, dirs, w, next)
  PROVE  FrameStands(gs[k], es, vs, more, w + 1, next)
<1>1. n # 1 OBVIOUS
<1>2. /\ gs[k].dir = fs[k].dir
      /\ k # n - 1 => gs[k].entries = fs[k].entries
      /\ k = n - 1 => gs[k].entries = Append(fs[k].entries, e) /\ IsSeq(fs[k].entries)
  BY <1>1 DEF Closing
<1>3. k = n - 1 => top.dir = Joined(fs[k].dir, top.name) BY <1>1 DEF Closing
<1>4. vs[w + 1] = top.entries /\ \A i \in 1 .. w : vs[i] = ws[i] BY DEF Closing
<1>5. PICK t, d : t = fs[k].entries /\ d = fs[k].dir OBVIOUS
<1>6. Stands(t, d, es, ws, dirs, w) /\ Behind(t, d, es, next) BY <1>5 DEF FrameStands
<1>7. Stands(t, d, es, vs, more, w + 1)
  <2>1. w + 1 \in Nat /\ w <= w + 1 /\ \A i \in 1 .. w : vs[i] = ws[i] /\ more[i] = dirs[i] BY <1>4
  <2> QED BY <1>6, <2>1, StandsLater
<1>8. CASE k # n - 1 BY <1>2, <1>5, <1>6, <1>7, <1>8 DEF FrameStands
<1>9. CASE k = n - 1
  <2>1. e.name = top.name /\ e.dir = TRUE /\ e.node = top.entries BY DEF Closing, Subtree
  <2>2. w + 1 \in 1 .. w + 1 OBVIOUS
  <2>3. Joined(d, e.name) = top.dir BY <1>3, <1>5, <1>9, <2>1
  <2>4. DirIn(d, e, vs, more, w + 1) BY <1>4, <2>1, <2>2, <2>3 DEF DirIn
  <2>5. FileIn(d, e, es) BY <2>1 DEF FileIn
  <2>6. ~ (e.dir = FALSE) BY <2>1
  <2>7. IsSeq(t) /\ gs[k].entries = Append(t, e) /\ gs[k].dir = d BY <1>2, <1>5, <1>9
  <2>8. Stands(Append(t, e), d, es, vs, more, w + 1) BY <1>7, <2>4, <2>5, <2>6, <2>7, StandsMore
  <2>9. Behind(Append(t, e), d, es, next) BY <1>1, <1>6, <2>3, <2>7, BehindMore
  <2> QED BY <2>7, <2>8, <2>9 DEF FrameStands
<1> QED BY <1>8, <1>9

\* A round that closes a frame: the tree that is written is complete.
LEMMA CloseMaps ==
  ASSUME NEW es, NEW ds, Listed(es, ds), Strict(es), NEW b, BuildOk(b, es, ds), b.frames # <<>>,
         NEW dirs, Mapped(b, es, dirs), NEW r, Closes(b, r),
         NEW last, last = b.frames[Len(b.frames)],
         b.next = Len(es) + 1 \/ ~ Inside(last.dir, es[b.next].path)
  PROVE  Mapped(r, es, Append(dirs, last.dir))
<1>1. PICK fs, gs, ws, vs, next : fs = b.frames /\ gs = r.frames /\ ws = b.written /\ vs = r.written
                                  /\ next = b.next
  OBVIOUS
<1>18. PICK top, more : top = last /\ more = Append(dirs, top.dir) OBVIOUS
<1>2. PICK n \in Nat \ {0} : n = Len(fs) BY <1>1, SeqIs DEF BuildOk, IsBuild
<1>3. PICK w \in Nat : w = Len(ws) BY <1>1, SeqIs DEF BuildOk, TreesIn
<1>4. PICK e : e = Subtree(top.name, top.entries) OBVIOUS
<1>5. top = fs[n] BY <1>1, <1>2, <1>18
<1>6. Closing(fs, gs, ws, vs, n, w, top, e) BY <1>1, <1>2, <1>3, <1>4, <1>5, CloseIs
<1>7. /\ Finished(es, ws, dirs)
      /\ \A k \in 1 .. n : FrameStands(fs[k], es, ws, dirs, w, next) /\ InFrames(fs, k, es, next)
      /\ \A k \in 2 .. n : Reached(fs[k], es, next)
  BY <1>1, <1>2, <1>3, Zenon DEF Mapped
<1>8. r.next = next BY <1>1, Zenon DEF Closes
<1>9. n # 1 => Reached(top, es, next)
  <2>1. ASSUME n # 1 PROVE n \in 2 .. n BY <2>1, NotOne, Zenon
  <2> QED BY <1>5, <1>7, <2>1, Zenon
<1>10. /\ n # 1 => top.dir # <<>>
       /\ n = 1 => top.dir = <<>>
       /\ IsSeq(top.dir)
  BY <1>6, Zenon DEF Closing
<1>11. /\ \A i \in 1 .. Len(es) : i >= next => ~ Inside(top.dir, es[i].path)
       /\ top.dir # <<>> => Passed(top.dir, es, next)
  <2>1. next \in 1 .. Len(es) + 1 BY <1>1 DEF BuildOk
  <2>2. top.dir # <<>> => \E i \in 1 .. Len(es) : i <= next /\ Inside(top.dir, es[i].path)
    BY <1>9, <1>10, Zenon DEF Reached
  <2> QED BY <1>1, <1>10, <1>18, <2>1, <2>2, TopPassed
<1>12. Complete(top.entries, top.dir, es, ws, dirs, w)
  <2>1. n \in 1 .. n OBVIOUS
  <2>2. Stands(top.entries, top.dir, es, ws, dirs, w) BY <1>5, <1>7, <2>1, Zenon DEF FrameStands
  <2>3. InFrames(fs, n, es, next) BY <1>7, <2>1, Zenon
  <2>4. ASSUME NEW i \in 1 .. Len(es), Inside(top.dir, es[i].path)
        PROVE Shows(top.entries, top.dir, es[i].path)
    <3>1. i < next
      <4>1. ~ (i >= next) BY <1>11, <2>4
      <4>2. next \in Nat
        <5>1. PICK m \in Nat : m = Len(es) BY SeqIs DEF Listed
        <5>2. next \in 1 .. m + 1 BY <1>1, <5>1 DEF BuildOk
        <5> QED BY <5>2
      <4> QED BY <4>1, <4>2
    <3>2. \/ Shows(fs[n].entries, fs[n].dir, es[i].path)
          \/ \E l \in n + 1 .. n : Inside(fs[l].dir, es[i].path)
      BY <1>2, <1>5, <2>3, <2>4, <3>1 DEF InFrames
    <3>3. n + 1 .. n = {} OBVIOUS
    <3> QED BY <1>5, <3>2, <3>3, Zenon
  <2> QED BY <1>10, <2>2, <2>4 DEF Complete
<1>13. /\ IsSeq(gs) /\ Len(gs) = n - 1
       /\ IsSeq(vs) /\ Len(vs) = w + 1 /\ (\A k \in 1 .. w : vs[k] = ws[k]) /\ vs[w + 1] = top.entries
       /\ \A k \in 1 .. n - 1 : gs[k].dir = fs[k].dir /\ gs[k].name = fs[k].name
  BY <1>6, Zenon DEF Closing
<1>14. /\ Finished(es, vs, more) /\ Len(more) = w + 1 /\ more[w + 1] = top.dir
       /\ \A k \in 1 .. w : more[k] = dirs[k]
  <2>1. Len(ws) = w /\ Complete(vs[w + 1], top.dir, es, ws, dirs, w) BY <1>3, <1>12, <1>13
  <2>2. IsSeq(dirs) /\ Len(dirs) = w BY <1>3, <1>7 DEF Finished
  <2>3. /\ IsSeq(more) /\ Len(more) = w + 1 /\ more[w + 1] = top.dir
        /\ \A k \in 1 .. w : more[k] = dirs[k]
    BY <1>18, <2>2, SeqAppend
  <2>4. Finished(es, vs, more) BY <1>7, <1>13, <2>1, <2>3, CloseFinishes
  <2> QED BY <2>3, <2>4
<1>15. ASSUME NEW k \in 1 .. n - 1
       PROVE FrameStands(gs[k], es, vs, more, w + 1, next) /\ InFrames(gs, k, es, next)
  <2>1. k \in 1 .. n OBVIOUS
  <2>2. FrameStands(fs[k], es, ws, dirs, w, next) /\ InFrames(fs, k, es, next) BY <1>7, <2>1
  <2>3. FrameStands(gs[k], es, vs, more, w + 1, next)
    BY <1>6, <1>10, <1>11, <1>14, <2>2, CloseStands
  <2>4. n # 1 => Plain(top.name) BY <1>9, Zenon DEF Reached
  <2>5. InFrames(gs, k, es, next) BY <1>6, <2>2, <2>4, CloseHolds
  <2> QED BY <2>3, <2>5
<1>16. ASSUME NEW k \in 2 .. n - 1 PROVE Reached(gs[k], es, next)
  <2>1. k \in 2 .. n /\ k \in 1 .. n - 1 OBVIOUS
  <2>2. Reached(fs[k], es, next) /\ gs[k].dir = fs[k].dir /\ gs[k].name = fs[k].name
    BY <1>7, <1>13, <2>1
  <2> QED BY <2>2 DEF Reached
<1>17. gs = <<>> => vs # <<>> /\ more[Len(vs)] = <<>>
  <2> SUFFICES ASSUME gs = <<>> PROVE vs # <<>> /\ more[Len(vs)] = <<>> OBVIOUS
  <2>1. Len(gs) = 0 BY SeqEmpty
  <2>2. n = 1 BY <1>13, <2>1
  <2>3. vs # <<>>
    <3>1. Len(vs) # 0 BY <1>13
    <3> QED BY <1>13, <3>1, SeqIs, Zenon
  <2> QED BY <1>10, <1>13, <1>14, <2>2, <2>3
<1>19. Mapped(r, es, more) BY <1>1, <1>8, <1>13, <1>14, <1>15, <1>16, <1>17, Zenon DEF Mapped
<1> QED BY <1>18, <1>19

\* No entry before that of a file is in a directory of its name: such a path is not before it.
LEMMA NotPassed ==
  ASSUME NEW es, NEW ds, Listed(es, ds), Strict(es), NEW next \in 1 .. Len(es)
  PROVE  ~ Passed(es[next].path, es, next)
<1> SUFFICES ASSUME Passed(es[next].path, es, next) PROVE FALSE OBVIOUS
<1>1. PICK i \in 1 .. Len(es) : i < next /\ Inside(es[next].path, es[i].path) BY DEF Passed
<1>2. PICK p, x : p = es[next].path /\ x = es[i].path OBVIOUS
<1>3. Before(x, p) /\ x \in Seq(Nat) /\ p \in Seq(Nat) BY <1>1, <1>2 DEF Strict
<1>4. IsSeq(p) /\ p # <<>> /\ IsSeq(x) BY <1>2 DEF Listed, IsPath, Normal
<1>5. Before(p, x) BY <1>1, <1>2, <1>4, InsideBefore
<1> QED BY <1>3, <1>5, BeforeNot

\* The frames when an entry is added to the innermost.
Adding(fs, gs, n, top, e) ==
    /\ n = Len(fs) /\ top = fs[n]
    /\ IsSeq(gs) /\ Len(gs) = n
    /\ \A k \in 1 .. n : gs[k].dir = fs[k].dir /\ gs[k].name = fs[k].name
    /\ \A k \in 1 .. n : k # n => gs[k].entries = fs[k].entries
    /\ gs[n].entries = Append(fs[n].entries, e) /\ IsSeq(fs[n].entries)

\* A round that adds a file does this.
LEMMA AddIs ==
  ASSUME NEW es, NEW ds, NEW b, BuildOk(b, es, ds), NEW r, NEW e, Adds(b, r, e),
         NEW n \in Nat \ {0}, n = Len(b.frames), NEW top, top = b.frames[n]
  PROVE  Adding(b.frames, r.frames, n, top, e)
<1>1. PICK fs, gs : fs = b.frames /\ gs = r.frames OBVIOUS
<1>2. /\ IsSeq(gs) /\ Len(gs) = n /\ (\A k \in 1 .. n - 1 : gs[k] = fs[k])
      /\ gs[n] = Extended(fs[n], e)
  BY <1>1, Zenon DEF Adds, SameFirst
<1>3. \A k \in 1 .. n : IsFrame(fs[k]) /\ IsSeq(fs[k].entries) BY <1>1 DEF BuildOk, FramesOk, TreeIn
<1>4. n \in 1 .. n OBVIOUS
<1>5. PICK f, x : f = fs[n] /\ x = gs[n] OBVIOUS
<1>6. x.dir = f.dir /\ x.name = f.name /\ x.entries = Append(f.entries, e) /\ IsSeq(f.entries)
  <2>1. IsFrame(f) /\ IsSeq(f.entries) BY <1>3, <1>4, <1>5
  <2>2. x = Extended(f, e) BY <1>2, <1>5
  <2>3. x.dir = f.dir /\ x.name = f.name /\ x.entries = Append(f.entries, e)
    BY <2>1, <2>2, ExtendedIs
  <2> QED BY <2>1, <2>3
<1>7. \A k \in 1 .. n : /\ gs[k].dir = fs[k].dir /\ gs[k].name = fs[k].name
                        /\ k # n => gs[k].entries = fs[k].entries
  <2> TAKE k \in 1 .. n
  <2>1. CASE k = n BY <1>5, <1>6, <2>1
  <2>2. CASE k # n
    <3>1. k \in 1 .. n - 1 BY <2>2
    <3> QED BY <1>2, <3>1
  <2> QED BY <2>1, <2>2
<1> QED BY <1>1, <1>2, <1>5, <1>6, <1>7, Zenon DEF Adding

\* What the frames have when a file is added: it is before a directory of its name, if
\* there is to be one.
LEMMA AddStands ==
  ASSUME NEW es, NEW ds, Listed(es, ds), Strict(es), NEW fs, NEW gs, NEW ws, NEW n \in Nat \ {0},
         NEW w, NEW top, NEW e, Adding(fs, gs, n, top, e), NEW dirs, NEW next \in 1 .. Len(es),
         e.dir = FALSE, Joined(top.dir, e.name) = es[next].path, e.node = es[next].data,
         NEW k \in 1 .. n, FrameStands(fs[k], es, ws, dirs, w, next)
  PROVE  FrameStands(gs[k], es, ws, dirs, w, next + 1)
<1>1. PICK t, d : t = fs[k].entries /\ d = fs[k].dir OBVIOUS
<1>2. Stands(t, d, es, ws, dirs, w) /\ Behind(t, d, es, next) BY <1>1 DEF FrameStands
<1>3. next \in Nat OBVIOUS
<1>4. gs[k].dir = d /\ (k # n => gs[k].entries = t) BY <1>1 DEF Adding
<1>5. CASE k # n BY <1>2, <1>3, <1>4, <1>5, BehindLater DEF FrameStands
<1>6. CASE k = n
  <2>1. gs[k].entries = Append(t, e) /\ IsSeq(t) /\ d = top.dir BY <1>1, <1>6 DEF Adding
  <2>2. FileIn(d, e, es) BY <2>1 DEF FileIn
  <2>3. ~ (e.dir = TRUE) OBVIOUS
  <2>4. DirIn(d, e, ws, dirs, w) BY <2>3 DEF DirIn
  <2>5. ASSUME NEW j \in 1 .. Len(t), t[j].dir = TRUE, t[j].name = e.name PROVE FALSE
    <3>1. Passed(Joined(d, t[j].name), es, next) BY <1>2, <2>5 DEF Behind
    <3>2. Passed(es[next].path, es, next) BY <2>1, <2>5, <3>1
    <3> QED BY <3>2, NotPassed
  <2>6. Stands(Append(t, e), d, es, ws, dirs, w) BY <1>2, <2>1, <2>2, <2>4, <2>5, StandsMore
  <2>7. Behind(Append(t, e), d, es, next) BY <1>2, <2>1, <2>3, BehindMore
  <2>8. Behind(Append(t, e), d, es, next + 1) BY <1>3, <2>7, BehindLater
  <2> QED BY <1>4, <2>1, <2>6, <2>8 DEF FrameStands
<1> QED BY <1>5, <1>6

\* The entry that was next is in its frame now.
LEMMA AddHolds ==
  ASSUME NEW es, NEW fs, NEW gs, NEW n \in Nat \ {0}, NEW top, NEW e, Adding(fs, gs, n, top, e),
         NEW next \in 1 .. Len(es), Inside(top.dir, es[next].path), Leads(top.dir, es[next].path, e),
         NEW k \in 1 .. n, InFrames(fs, k, es, next)
  PROVE  InFrames(gs, k, es, next + 1)
<1>1. /\ gs[k].dir = fs[k].dir /\ (k # n => gs[k].entries = fs[k].entries)
      /\ k = n => gs[k].entries = Append(fs[k].entries, e) /\ IsSeq(fs[k].entries)
      /\ n = Len(fs) /\ Len(gs) = n /\ top = fs[n] /\ gs[n].dir = fs[n].dir
  BY DEF Adding
<1> SUFFICES ASSUME NEW i \in 1 .. Len(es), i < next + 1, Inside(gs[k].dir, es[i].path)
             PROVE  \/ Shows(gs[k].entries, gs[k].dir, es[i].path)
                    \/ \E l \in k + 1 .. n : Inside(gs[l].dir, es[i].path)
  BY <1>1 DEF InFrames
<1>2. CASE i = next
  <2>1. CASE k = n BY <1>1, <1>2, <2>1, ShowsMore
  <2>2. CASE k # n
    <3>1. n \in k + 1 .. n BY <2>2
    <3>2. Inside(gs[n].dir, es[i].path) BY <1>1, <1>2
    <3> QED BY <3>1, <3>2
  <2> QED BY <2>1, <2>2
<1>3. CASE i # next
  <2>1. i < next BY <1>3
  <2>2. \/ Shows(fs[k].entries, fs[k].dir, es[i].path)
        \/ \E l \in k + 1 .. n : Inside(fs[l].dir, es[i].path)
    BY <1>1, <2>1 DEF InFrames
  <2>3. CASE Shows(fs[k].entries, fs[k].dir, es[i].path) BY <1>1, <2>3, ShowsMore
  <2>4. ASSUME NEW l \in k + 1 .. n, Inside(fs[l].dir, es[i].path)
        PROVE Inside(gs[l].dir, es[i].path)
    <3>1. l \in 1 .. n OBVIOUS
    <3> QED BY <2>4, <3>1 DEF Adding
  <2> QED BY <2>2, <2>3, <2>4
<1> QED BY <1>2, <1>3

\* A round that adds a file.
LEMMA AddMaps ==
  ASSUME NEW es, NEW ds, Listed(es, ds), Strict(es), NEW b, BuildOk(b, es, ds), b.frames # <<>>,
         NEW dirs, Mapped(b, es, dirs), NEW r, NEW last, last = b.frames[Len(b.frames)],
         b.next \in 1 .. Len(es), Inside(last.dir, es[b.next].path),
         NEW name, name = FirstName(Relative(last.dir, es[b.next].path)),
         Joined(last.dir, name) = es[b.next].path, Adds(b, r, File(name, es[b.next].data))
  PROVE  Mapped(r, es, dirs)
<1>1. PICK fs, gs, ws, next : fs = b.frames /\ gs = r.frames /\ ws = b.written /\ next = b.next
  OBVIOUS
<1>2. PICK n \in Nat \ {0} : n = Len(fs) BY <1>1, SeqIs DEF BuildOk, IsBuild
<1>3. PICK top, e : top = last /\ e = File(name, es[next].data) OBVIOUS
<1>4. top = fs[n] BY <1>1, <1>2, <1>3
<1>5. Adding(fs, gs, n, top, e) BY <1>1, <1>2, <1>3, <1>4, AddIs
<1>6. r.next = next + 1 /\ r.written = ws BY <1>1, Zenon DEF Adds
<1>7. PICK w : w = Len(ws) OBVIOUS
<1>8. /\ Finished(es, ws, dirs)
      /\ \A k \in 1 .. n : FrameStands(fs[k], es, ws, dirs, w, next) /\ InFrames(fs, k, es, next)
      /\ \A k \in 2 .. n : Reached(fs[k], es, next)
  BY <1>1, <1>2, <1>7, Zenon DEF Mapped
<1>9. e.name = name /\ e.dir = FALSE /\ e.node = es[next].data BY <1>3 DEF File
<1>10. /\ next \in 1 .. Len(es) /\ Joined(top.dir, e.name) = es[next].path
       /\ Inside(top.dir, es[next].path) /\ e.name = FirstName(Relative(top.dir, es[next].path))
  BY <1>1, <1>3, <1>9
<1>11. Leads(top.dir, es[next].path, e) BY <1>9, <1>10 DEF Leads
<1>12. ASSUME NEW k \in 1 .. n
       PROVE FrameStands(gs[k], es, ws, dirs, w, next + 1) /\ InFrames(gs, k, es, next + 1)
  <2>1. FrameStands(fs[k], es, ws, dirs, w, next) /\ InFrames(fs, k, es, next) BY <1>8
  <2>2. FrameStands(gs[k], es, ws, dirs, w, next + 1) BY <1>5, <1>9, <1>10, <2>1, AddStands
  <2>3. InFrames(gs, k, es, next + 1) BY <1>5, <1>10, <1>11, <2>1, AddHolds
  <2> QED BY <2>2, <2>3
<1>13. next \in Nat
  <2>1. PICK m \in Nat : m = Len(es) BY SeqIs DEF Listed
  <2> QED BY <1>10, <2>1
<1>14. ASSUME NEW k \in 2 .. n PROVE Reached(gs[k], es, next + 1)
  <2>1. k \in 1 .. n OBVIOUS
  <2>2. Reached(fs[k], es, next) /\ gs[k].dir = fs[k].dir /\ gs[k].name = fs[k].name
    BY <1>5, <1>8, <2>1 DEF Adding
  <2>3. PICK i \in 1 .. Len(es) : i <= next /\ Inside(fs[k].dir, es[i].path) BY <2>2 DEF Reached
  <2>4. i <= next + 1 BY <1>13, <2>3
  <2> QED BY <2>2, <2>3, <2>4 DEF Reached
<1>15. Len(gs) = n /\ gs # <<>>
  <2>1. Len(gs) = n BY <1>5 DEF Adding
  <2> QED BY <2>1, SeqEmpty
<1> QED BY <1>1, <1>6, <1>7, <1>8, <1>12, <1>14, <1>15, Zenon DEF Mapped

\* No entry before next is in the directory that is opened for it.
LEMMA OpenFresh ==
  ASSUME NEW es, NEW ds, Listed(es, ds), NEW fs, NEW n \in Nat \ {0}, NEW top,
         n = Len(fs), top = fs[n], IsSeq(top.dir), NEW ws, NEW dirs, NEW w, NEW next \in 1 .. Len(es),
         FrameStands(top, es, ws, dirs, w, next), InFrames(fs, n, es, next),
         NEW dir, NEW name, Plain(name), dir = Joined(top.dir, name), Inside(dir, es[next].path),
         NEW i \in 1 .. Len(es), i < next, Inside(dir, es[i].path)
  PROVE  FALSE
<1>1. PICK d, D, path, t : d = top.dir /\ D = dir /\ path = es[i].path /\ t = top.entries OBVIOUS
<1>2. IsPath(path) /\ IsSeq(d) /\ D = Joined(d, name) /\ Inside(D, path) BY <1>1 DEF Listed
<1>3. NamedIn(d, name, D, path) BY <1>2, InsideName
<1>4. Inside(d, path) /\ FirstName(Relative(d, path)) = name /\ D # path BY <1>3 DEF NamedIn
<1>5. n + 1 .. n = {} OBVIOUS
<1>6. Shows(t, d, path)
  <2>1. \/ Shows(fs[n].entries, fs[n].dir, es[i].path)
        \/ \E l \in n + 1 .. Len(fs) : Inside(fs[l].dir, es[i].path)
    BY <1>1, <1>4 DEF InFrames
  <2> QED BY <1>1, <1>5, <2>1
<1>7. PICK j \in 1 .. Len(t) : Leads(d, path, t[j]) BY <1>6 DEF Shows
<1>8. t[j].name = name /\ t[j].dir = TRUE BY <1>2, <1>4, <1>7 DEF Leads
<1>9. Behind(t, d, es, next) BY <1>1 DEF FrameStands
<1>10. Passed(D, es, next) BY <1>2, <1>8, <1>9 DEF Behind
<1>11. next >= next OBVIOUS
<1> QED BY <1>1, <1>10, <1>11 DEF Passed

\* A round that opens a directory.
LEMMA OpenMaps ==
  ASSUME NEW es, NEW ds, Listed(es, ds), NEW b, BuildOk(b, es, ds), b.frames # <<>>,
         NEW dirs, Mapped(b, es, dirs), NEW r, NEW last, last = b.frames[Len(b.frames)],
         b.next \in 1 .. Len(es), NEW dir, NEW name, Plain(name), Inside(dir, es[b.next].path),
         Joined(last.dir, name) = dir, Opens(b, r, dir, name)
  PROVE  Mapped(r, es, dirs)
<1>1. PICK fs, gs, ws, next : fs = b.frames /\ gs = r.frames /\ ws = b.written /\ next = b.next
  OBVIOUS
<1>2. PICK n \in Nat \ {0} : n = Len(fs) BY <1>1, SeqIs DEF BuildOk, IsBuild
<1>3. PICK top, D : top = last /\ D = dir OBVIOUS
<1>4. top = fs[n] BY <1>1, <1>2, <1>3
<1>5. r.next = next /\ r.written = ws BY <1>1, Zenon DEF Opens
<1>6. Len(gs) = n + 1 /\ IsSeq(gs) /\ \A k \in 1 .. n : gs[k] = fs[k]
  BY <1>1, <1>2, Zenon DEF Opens, SameFirst
<1>7. gs[n + 1].dir = D /\ gs[n + 1].name = name /\ gs[n + 1].entries = <<>>
  <2>1. gs[n + 1] = [dir |-> D, name |-> name, entries |-> <<>>]
    BY <1>1, <1>2, <1>3, Zenon DEF Opens
  <2> QED BY <2>1
<1>8. PICK w : w = Len(ws) OBVIOUS
<1>9. /\ Finished(es, ws, dirs)
      /\ \A k \in 1 .. n : FrameStands(fs[k], es, ws, dirs, w, next) /\ InFrames(fs, k, es, next)
      /\ \A k \in 2 .. n : Reached(fs[k], es, next)
  BY <1>1, <1>2, <1>8, Zenon DEF Mapped
<1>10. IsSeq(top.dir) /\ n \in 1 .. n
  <2>1. n \in 1 .. n OBVIOUS
  <2> QED BY <1>1, <1>2, <1>4, <2>1 DEF BuildOk, FramesOk, IsFrame
<1>11. next \in 1 .. Len(es) /\ Inside(D, es[next].path) /\ D = Joined(top.dir, name) BY <1>1, <1>3
<1>12. ASSUME NEW i \in 1 .. Len(es), i < next, Inside(D, es[i].path) PROVE FALSE
  <2>1. FrameStands(top, es, ws, dirs, w, next) /\ InFrames(fs, n, es, next) BY <1>4, <1>9, <1>10
  <2> QED BY <1>2, <1>4, <1>10, <1>11, <1>12, <2>1, OpenFresh
<1>13. ASSUME NEW k \in 1 .. n
       PROVE FrameStands(gs[k], es, ws, dirs, w, next) /\ InFrames(gs, k, es, next)
  <2>1. gs[k] = fs[k] BY <1>6
  <2>2. FrameStands(fs[k], es, ws, dirs, w, next) /\ InFrames(fs, k, es, next) BY <1>9
  <2>3. ASSUME NEW i \in 1 .. Len(es), i < next, Inside(gs[k].dir, es[i].path)
        PROVE  \/ Shows(gs[k].entries, gs[k].dir, es[i].path)
               \/ \E l \in k + 1 .. n + 1 : Inside(gs[l].dir, es[i].path)
    <3>1. \/ Shows(gs[k].entries, gs[k].dir, es[i].path)
          \/ \E l \in k + 1 .. n : Inside(fs[l].dir, es[i].path)
      BY <1>2, <2>1, <2>2, <2>3 DEF InFrames
    <3>2. ASSUME NEW l \in k + 1 .. n, Inside(fs[l].dir, es[i].path)
          PROVE l \in k + 1 .. n + 1 /\ Inside(gs[l].dir, es[i].path)
      <4>1. l \in 1 .. n OBVIOUS
      <4> QED BY <1>6, <3>2, <4>1
    <3> QED BY <3>1, <3>2
  <2> QED BY <1>6, <2>1, <2>2, <2>3 DEF InFrames
<1>14. FrameStands(gs[n + 1], es, ws, dirs, w, next)
  <2>1. PICK f : f = gs[n + 1] OBVIOUS
  <2>2. f.entries = <<>> /\ 1 .. Len(f.entries) = {} BY <1>7, <2>1, SeqEmpty
  <2>3. Stands(f.entries, f.dir, es, ws, dirs, w) /\ Behind(f.entries, f.dir, es, next)
    BY <2>2, Zenon DEF Stands, FilesFirst, Behind
  <2> QED BY <2>1, <2>3 DEF FrameStands
<1>15. InFrames(gs, n + 1, es, next) BY <1>7, <1>12 DEF InFrames
<1>16. ASSUME NEW k \in 2 .. n + 1 PROVE Reached(gs[k], es, next)
  <2>1. CASE k = n + 1
    <3>1. next <= next
      <4>1. PICK m \in Nat : m = Len(es) BY SeqIs DEF Listed
      <4> QED BY <1>11, <4>1
    <3>2. \E i \in 1 .. Len(es) : i <= next /\ Inside(D, es[i].path) BY <1>11, <3>1
    <3> QED BY <1>7, <2>1, <3>2 DEF Reached
  <2>2. CASE k # n + 1
    <3>1. k \in 2 .. n /\ k \in 1 .. n BY <2>2
    <3> QED BY <1>6, <1>9, <3>1
  <2> QED BY <2>1, <2>2
<1>17. gs # <<>> BY <1>6, SeqEmpty
<1>18. ASSUME NEW k \in 1 .. n + 1
       PROVE FrameStands(gs[k], es, ws, dirs, w, next) /\ InFrames(gs, k, es, next)
  <2>1. k \in 1 .. n \/ k = n + 1 OBVIOUS
  <2> QED BY <1>13, <1>14, <1>15, <2>1
<1> QED BY <1>1, <1>5, <1>6, <1>8, <1>9, <1>16, <1>17, <1>18, Zenon DEF Mapped

\* In the beginning no tree is written, and nothing is in the frame.
LEMMA StartMaps ==
  ASSUME NEW es, NEW ds, Listed(es, ds), NEW b, b = BuildStart PROVE Mapped(b, es, <<>>)
<1>1. PICK f : f = b.frames[1] OBVIOUS
<1>2. /\ b.frames # <<>> /\ Len(b.frames) = 1 /\ b.next = 1 /\ b.written = <<>>
      /\ f = [dir |-> <<>>, name |-> <<>>, entries |-> <<>>]
  BY <1>1, StartIs
<1>3. f.entries = <<>> /\ 1 .. Len(f.entries) = {} BY <1>2, SeqEmpty
<1>4. PICK w : w = Len(b.written) OBVIOUS
<1>5. Stands(f.entries, f.dir, es, b.written, <<>>, w) /\ Behind(f.entries, f.dir, es, b.next)
  BY <1>3, Zenon DEF Stands, FilesFirst, Behind
<1>6. FrameStands(f, es, b.written, <<>>, w, b.next) BY <1>5 DEF FrameStands
<1>7. InFrames(b.frames, 1, es, b.next)
  <2>1. \A i \in 1 .. Len(es) : ~ (i < 1) OBVIOUS
  <2> QED BY <1>2, <2>1 DEF InFrames
<1>8. Finished(es, b.written, <<>>)
  <2>1. 1 .. Len(b.written) = {} BY <1>2, SeqEmpty
  <2> QED BY <1>2, <2>1, SeqEmpty DEF Finished
<1>9. \A k \in 1 .. Len(b.frames) : FrameStands(b.frames[k], es, b.written, <<>>, w, b.next)
                                    /\ InFrames(b.frames, k, es, b.next)
  <2>1. \A k \in 1 .. Len(b.frames) : k = 1 BY <1>2
  <2> QED BY <1>1, <1>6, <1>7, <2>1
<1>10. \A k \in 2 .. Len(b.frames) : Reached(b.frames[k], es, b.next)
  <2>1. 2 .. Len(b.frames) = {} BY <1>2
  <2> QED BY <2>1
<1> QED BY <1>2, <1>4, <1>8, <1>9, <1>10, Zenon DEF Mapped

\* So it stays in each round.
LEMMA RoundMaps ==
  ASSUME NEW es, NEW ds, Listed(es, ds), Strict(es), NEW b, BuildOk(b, es, ds),
         \E dirs : Mapped(b, es, dirs), NEW r, r = BuildRound(es, b)
  PROVE  \E dirs : Mapped(r, es, dirs)
<1>1. PICK dirs : Mapped(b, es, dirs) OBVIOUS
<1>2. CASE b.frames = <<>> BY <1>1, <1>2 DEF BuildRound
<1>3. CASE b.frames # <<>>
  <2>1. PICK top : top = b.frames[Len(b.frames)] OBVIOUS
  <2>2. IsBuild(r) /\ Turn(es, b, r, top) BY <1>3, <2>1, RoundTurns
  <2>3. ASSUME b.next = Len(es) + 1 \/ ~ Inside(top.dir, es[b.next].path), Closes(b, r)
        PROVE \E more : Mapped(r, es, more)
    <3>1. Mapped(r, es, Append(dirs, top.dir)) BY <1>1, <1>3, <2>1, <2>3, CloseMaps
    <3> QED BY <3>1
  <2>4. ASSUME NEW name, b.next \in 1 .. Len(es), Inside(top.dir, es[b.next].path),
               name = FirstName(Relative(top.dir, es[b.next].path)),
               Joined(top.dir, name) = es[b.next].path, Adds(b, r, File(name, es[b.next].data))
        PROVE  Mapped(r, es, dirs)
    BY <1>1, <1>3, <2>1, <2>4, AddMaps
  <2>5. ASSUME NEW dir, NEW name, b.next \in 1 .. Len(es), Inside(dir, es[b.next].path), Plain(name),
               Joined(top.dir, name) = dir, Opens(b, r, dir, name)
        PROVE  Mapped(r, es, dirs)
    BY <1>1, <1>3, <2>1, <2>5, OpenMaps
  <2> QED BY <2>2, <2>3, <2>4, <2>5, Zenon DEF Turn
<1> QED BY <1>2, <1>3

\* So it is after all of them.
LEMMA BuiltMaps ==
  ASSUME NEW es, NEW ds, Listed(es, ds), Strict(es)
  PROVE  \A n \in Nat : \E dirs : Mapped(Built(es, n), es, dirs)
<1> DEFINE A == {n \in Nat : \E dirs : Mapped(Built(es, n), es, dirs)}
<1>1. 0 \in A
  <2>1. Mapped(Built(es, 0), es, <<>>) BY BuiltIs, StartMaps
  <2> QED BY <2>1
<1>2. ASSUME NEW n \in Nat, n \in A PROVE n + 1 \in A
  <2>1. /\ \E dirs : Mapped(Built(es, n), es, dirs)
        /\ Built(es, n + 1) = BuildRound(es, Built(es, n))
        /\ BuildOk(Built(es, n), es, ds)
    BY <1>2, BuiltIs, BuiltOk
  <2>2. \E dirs : Mapped(Built(es, n + 1), es, dirs) BY <2>1, RoundMaps
  <2> QED BY <2>2
<1> HIDE DEF A
<1>3. \A n \in Nat : n \in A BY <1>1, <1>2, Counting
<1> QED BY <1>3 DEF A

\* build_tree of sorted entries: the trees are of directories, the last of the root, and each
\* has what is in its directory.
LEMMA BuildMaps ==
  ASSUME NEW es, NEW ds, Listed(es, ds), Strict(es), NEW ts, ts = Build(es)
  PROVE  \E dirs : Finished(es, ts, dirs) /\ dirs[Len(ts)] = <<>>
<1>1. PICK n, b : n = Rounds(es) /\ b = Built(es, n) OBVIOUS
<1>2. n \in Nat /\ b.frames = <<>> BY <1>1, BuildEnds
<1>3. ts = b.written BY <1>1, BuiltIs
<1>4. PICK dirs : Mapped(b, es, dirs) BY <1>1, <1>2, BuiltMaps
<1> QED BY <1>2, <1>3, <1>4, Zenon DEF Mapped

----------------------------
\* walk_tree_path reads only what is there.

\* What a tree in the storage names is there.
Closed(m) ==
    \A h \in DOMAIN m : h.tag = "tree" => \A j \in 1 .. Len(h.body) : EntryHash(h.body[j]) \in DOMAIN m

\* The entry that is found is one of the tree.
LEMMA FindEntryIs ==
  ASSUME NEW t, IsTree(t), NEW name, NEW e \in FindEntry(t, name)
  PROVE  \E j \in 1 .. Len(t) : e = EntryHash(t[j])
<1>1. DOMAIN t = 1 .. Len(t) BY SeqIs DEF IsTree
<1> QED BY <1>1 DEF FindEntry

\* walk_tree_path after n names.
WalkBody(a, f, n) ==
    IF n = 0 THEN [process |-> a.process, hash |-> a.hash, path |-> a.path, result |-> {}]
    ELSE WalkName(f[n - 1])
WalkR == INSTANCE Recursion WITH Body <- WalkBody

Walked(w, s, hash, path) ==
    /\ w[0] = [process |-> s, hash |-> hash, path |-> path, result |-> {}]
    /\ \A n \in Nat : w[n + 1] = WalkName(w[n])
    /\ WalkTree(s, hash, path) = w[Len(path)]

\* WalkTree is its recursion.
LEMMA WalkTreeIs == ASSUME NEW s, NEW hash, NEW path PROVE \E w : Walked(w, s, hash, path)
<1>1. PICK a : a = [process |-> s, hash |-> hash, path |-> path] OBVIOUS
<1> DEFINE f == WalkR!Rec(a, Nat)
<1>2. a.process = s /\ a.hash = hash /\ a.path = path BY <1>1
<1>3. WalkTree(s, hash, path) = f[Len(path)] BY <1>2 DEF WalkTree, WalkR!Rec, WalkBody
<1>4. \A g, h : WalkBody(a, g, 0) = WalkBody(a, h, 0) BY DEF WalkBody
<1>5. \A g, h : \A n \in Nat : g[n] = h[n] => WalkBody(a, g, n + 1) = WalkBody(a, h, n + 1)
  BY DEF WalkBody
<1>6. f[0] = WalkBody(a, f, 0) /\ \A n \in Nat : f[n + 1] = WalkBody(a, f, n + 1)
  BY <1>4, <1>5, Counting, WalkR!Stepped
<1> HIDE DEF f
<1>7. f[0] = [process |-> s, hash |-> hash, path |-> path, result |-> {}] BY <1>2, <1>6 DEF WalkBody
<1>8. ASSUME NEW n \in Nat PROVE f[n + 1] = WalkName(f[n])
  <2>1. n + 1 # 0 /\ (n + 1) - 1 = n OBVIOUS
  <2> QED BY <1>6, <2>1, Zenon DEF WalkBody
<1>9. Walked(f, s, hash, path) BY <1>3, <1>7, <1>8, Zenon DEF Walked
<1> QED BY <1>9

\* What was read on the way from the arenas of s.
WalkOk(w, s) ==
    /\ w = [process |-> w.process, hash |-> w.hash, path |-> w.path, result |-> w.result]
    /\ Sound(w.process) /\ w.process.storage = s.storage /\ Kept(s.stores, w.process.stores)
    /\ w.hash \in DOMAIN s.storage
    /\ \A e \in w.result : e \in DOMAIN s.storage /\ w.path = <<>> /\ Got(w.process.stores, e)

\* A name more: what is read is there, and what is found is there.
LEMMA WalkNameOk ==
  ASSUME NEW s, Sound(s), Closed(s.storage), NEW w, WalkOk(w, s), NEW v, v = WalkName(w)
  PROVE  WalkOk(v, s)
<1>1. /\ w = [process |-> w.process, hash |-> w.hash, path |-> w.path, result |-> w.result]
      /\ Sound(w.process) /\ w.process.storage = s.storage /\ Kept(s.stores, w.process.stores)
      /\ w.hash \in DOMAIN s.storage
      /\ \A e \in w.result : e \in DOMAIN s.storage /\ w.path = <<>> /\ Got(w.process.stores, e)
  BY DEF WalkOk
<1>2. PICK p, h : p = w.process /\ h = w.hash OBVIOUS
<1>3. PICK read, name : read = ReadObject(p, h) /\ name = FirstName(w.path) OBVIOUS
<1>4. /\ Sound(read) /\ read.storage = s.storage
      /\ Kept(p.stores, read.stores) /\ Got(read.stores, h)
  BY <1>1, <1>2, <1>3, ObjectRead
<1>5. Kept(s.stores, read.stores) BY <1>1, <1>2, <1>4, KeptTwice
<1>6. PICK found : found = IF h.tag # "tree" THEN {}
                           ELSE FindEntry(TreeAt(read.stores.tree, LastId(read.stores, "tree")), name)
  OBVIOUS
<1>7. \A e \in found : e \in DOMAIN s.storage
  <2> TAKE e \in found
  <2>1. h.tag = "tree" /\ e \in FindEntry(TreeAt(read.stores.tree, LastId(read.stores, "tree")), name)
    BY <1>6
  <2>2. IsHash(h) BY <1>1, <1>2 DEF Sound, StorageOk
  <2>3. IsTree(h.body) BY <2>1, <2>2 DEF IsHash, BlobOf, TreeOf, CommitOf
  <2>4. Body(h) = h.body BY <2>1 DEF Body
  <2>5. At(read.stores, "tree", LastId(read.stores, "tree")) = h.body
    BY <1>4, <2>1, <2>4, Zenon DEF Got
  <2>6. TreeAt(read.stores.tree, LastId(read.stores, "tree")) = h.body BY <2>5, AtIs, Zenon
  <2>7. e \in FindEntry(h.body, name) BY <2>1, <2>6, Zenon
  <2>8. \E j \in 1 .. Len(h.body) : e = EntryHash(h.body[j]) BY <2>3, <2>7, FindEntryIs
  <2>9. \A j \in 1 .. Len(h.body) : EntryHash(h.body[j]) \in DOMAIN s.storage
    BY <1>1, <1>2, <2>1 DEF Closed
  <2> QED BY <2>8, <2>9
<1>8. PICK e : e = CHOOSE x \in found : TRUE OBVIOUS
<1>9. v = IF w.path = <<>> THEN w
          ELSE IF found = {} THEN [w EXCEPT !.process = read, !.path = <<>>]
          ELSE IF name = w.path
          THEN [w EXCEPT !.process = ReadObject(read, e), !.path = <<>>, !.result = {e}]
          ELSE [w EXCEPT !.process = read, !.hash = e, !.path = SubSeq(@, Len(name) + 2, Len(@))]
  BY <1>2, <1>3, <1>6, <1>8, Zenon DEF WalkName
<1>10. CASE w.path = <<>> BY <1>9, <1>10
<1>11. CASE w.path # <<>>
  <2>1. w.result = {} BY <1>1, <1>11
  <2>2. CASE found = {}
    <3>1. v = [w EXCEPT !.process = read, !.path = <<>>] BY <1>9, <1>11, <2>2
    <3>2. v = [process |-> read, hash |-> w.hash, path |-> <<>>, result |-> w.result] BY <1>1, <3>1
    <3> QED BY <1>1, <1>4, <1>5, <2>1, <3>2 DEF WalkOk
  <2>3. ASSUME found # {} PROVE e \in found /\ e \in DOMAIN s.storage BY <1>7, <1>8, <2>3
  <2>4. CASE found # {} /\ name = w.path
    <3>1. PICK r : r = ReadObject(read, e) OBVIOUS
    <3>2. v = [w EXCEPT !.process = r, !.path = <<>>, !.result = {e}]
      BY <1>9, <1>11, <2>4, <3>1, Zenon
    <3>3. v = [process |-> r, hash |-> w.hash, path |-> <<>>, result |-> {e}] BY <1>1, <3>2
    <3>4. /\ Sound(r) /\ r.storage = read.storage
          /\ Kept(read.stores, r.stores) /\ Got(r.stores, e)
      BY <1>4, <2>3, <2>4, <3>1, ObjectRead
    <3>5. Kept(s.stores, r.stores) BY <1>5, <3>4, KeptTwice
    <3> QED BY <1>1, <1>4, <2>3, <2>4, <3>3, <3>4, <3>5 DEF WalkOk
  <2>5. CASE found # {} /\ name # w.path
    <3>1. PICK rest : rest = SubSeq(w.path, Len(name) + 2, Len(w.path)) OBVIOUS
    <3>2. v = [w EXCEPT !.process = read, !.hash = e, !.path = SubSeq(@, Len(name) + 2, Len(@))]
      BY <1>9, <1>11, <2>5, Zenon
    <3>3. v = [process |-> read, hash |-> e, path |-> rest, result |-> w.result] BY <1>1, <3>1, <3>2
    <3> QED BY <1>4, <1>5, <2>1, <2>3, <2>5, <3>3 DEF WalkOk
  <2> QED BY <2>2, <2>4, <2>5
<1> QED BY <1>10, <1>11

\* So the walk ends with an object it has just read.
LEMMA WalkEnds ==
  ASSUME NEW s, Sound(s), Closed(s.storage), NEW hash \in DOMAIN s.storage, NEW path, IsSeq(path),
         NEW w, w = WalkTree(s, hash, path)
  PROVE  WalkOk(w, s)
<1>7. PICK f : Walked(f, s, hash, path) BY WalkTreeIs
<1>1. /\ f[0] = [process |-> s, hash |-> hash, path |-> path, result |-> {}]
      /\ \A n \in Nat : f[n + 1] = WalkName(f[n])
      /\ WalkTree(s, hash, path) = f[Len(path)]
  BY <1>7, Zenon DEF Walked
<1>2. WalkOk(f[0], s)
  <2>1. PICK x : x = f[0] OBVIOUS
  <2>2. x = [process |-> s, hash |-> hash, path |-> path, result |-> {}] BY <1>1, <2>1
  <2>3. Kept(s.stores, s.stores) BY KeptSelf DEF Sound
  <2> QED BY <2>1, <2>2, <2>3 DEF WalkOk
<1> DEFINE A == {n \in Nat : WalkOk(f[n], s)}
<1>3. 0 \in A BY <1>2
<1>4. ASSUME NEW n \in Nat, n \in A PROVE n + 1 \in A
  <2>1. WalkOk(f[n], s) /\ f[n + 1] = WalkName(f[n]) BY <1>1, <1>4
  <2>2. WalkOk(f[n + 1], s) BY <2>1, WalkNameOk
  <2> QED BY <2>2
<1>5. Len(path) \in Nat BY SeqIs
<1>6. Len(path) \in A
  <2> HIDE DEF A
  <2> QED BY <1>3, <1>4, <1>5, Counting
<1> QED BY <1>1, <1>6

----------------------------
\* walk_tree_path ends with what is staged.

\* The entries of one path, and what find_entry finds.
Sought(es, p) == {BlobOf(es[i].data) : i \in {j \in 1 .. Len(es) : es[j].path = p}}
Blobs(hashes) == {h \in hashes : h.tag = "blob"}

\* Sorted entries have different paths.
LEMMA StrictApart ==
  ASSUME NEW es, Strict(es), NEW i \in 1 .. Len(es), NEW j \in 1 .. Len(es), es[i].path = es[j].path
  PROVE  i = j
<1>1. PICK n \in Nat : n = Len(es) BY SeqIs DEF Strict
<1>2. i \in 1 .. n /\ j \in 1 .. n BY <1>1
<1>3. CASE i < j BY <1>3, BeforeNot DEF Strict
<1>4. CASE j < i BY <1>4, BeforeNot DEF Strict
<1>5. i < j \/ j < i \/ i = j BY <1>2
<1> QED BY <1>3, <1>4, <1>5

\* find_entry finds the first entry of the name, if there is one.
LEMMA FoundFirst ==
  ASSUME NEW t, IsTree(t), NEW name
  PROVE  /\ \A e \in FindEntry(t, name) :
               \E j \in 1 .. Len(t) : /\ e = EntryHash(t[j]) /\ t[j].name = name
                                      /\ \A i \in 1 .. j - 1 : t[i].name # name
         /\ FindEntry(t, name) = {} => \A j \in 1 .. Len(t) : t[j].name # name
<1>1. DOMAIN t = 1 .. Len(t) BY SeqIs DEF IsTree
<1>2. \A e \in FindEntry(t, name) :
          \E j \in 1 .. Len(t) : /\ e = EntryHash(t[j]) /\ t[j].name = name
                                 /\ \A i \in 1 .. j - 1 : t[i].name # name
  BY <1>1 DEF FindEntry
<1>3. ASSUME FindEntry(t, name) = {}, NEW j \in 1 .. Len(t), t[j].name = name PROVE FALSE
  <2>1. PICK n \in Nat : n = Len(t) BY SeqIs DEF IsTree
  <2> DEFINE S == {i \in 1 .. n : t[i].name = name}
  <2>2. S \in SUBSET Nat /\ j \in S BY <1>3, <2>1
  <2>3. PICK m \in S : \A k \in S : m <= k
    <3> HIDE DEF S
    <3> QED BY <2>2, Least
  <2>4. m \in 1 .. n /\ t[m].name = name OBVIOUS
  <2>5. ASSUME NEW i \in 1 .. m - 1, t[i].name = name PROVE FALSE
    <3>1. i \in S /\ ~ (m <= i) BY <2>4, <2>5
    <3> HIDE DEF S
    <3> QED BY <2>3, <3>1
  <2>6. EntryHash(t[m]) \in FindEntry(t, name) BY <1>1, <2>1, <2>4, <2>5 DEF FindEntry
  <2> QED BY <1>3, <2>6
<1> QED BY <1>2, <1>3

\* A tree that is complete shows what is staged under a path, and leads to the tree that is.
Seeks(es, ts, dirs, v, p, d, rel, name, found) ==
    /\ found = {} => Sought(es, p) = {}
    /\ name = rel => \A e \in found : Blobs({e}) = Sought(es, p)
    /\ name # rel => \A e \in found :
            \E k \in 1 .. v : /\ e = TreeOf(ts[k]) /\ Inside(dirs[k], p) /\ IsSeq(dirs[k])
                              /\ Relative(dirs[k], p) = SubSeq(rel, Len(name) + 2, Len(rel))

\* It is so for each tree of a directory that the path is in.
LEMMA TreeSeeks ==
  ASSUME NEW es, NEW ds, Strict(es), NEW ts, NEW dirs, NEW v, NEW t, NEW n, TreeIn(t, ds, ts, n),
         NEW d, Complete(t, d, es, ts, dirs, v), \A k \in 1 .. v : IsSeq(dirs[k]),
         NEW p, IsPath(p), Inside(d, p), \A i \in 1 .. Len(es) : es[i].path \notin Above(p),
         NEW rel, rel = Relative(d, p), NEW name, name = FirstName(rel),
         NEW found, found = FindEntry(t, name)
  PROVE  Seeks(es, ts, dirs, v, p, d, rel, name, found)
<1>1. IsSeq(d) /\ Stands(t, d, es, ts, dirs, v) BY DEF Complete
<1>2. IsTree(t) /\ \A j \in 1 .. Len(t) : t[j].dir = TRUE \/ t[j].dir = FALSE
  BY DEF TreeIn, Child, IsTree
<1>3. Named(d, p, rel, name) BY <1>1, NameIs
<1>4. ASSUME NEW i \in 1 .. Len(es), es[i].path = p
      PROVE \E k \in 1 .. Len(t) : t[k].name = name /\ (Joined(d, name) = p => t[k].dir = FALSE)
  <2>1. Shows(t, d, p) BY <1>4 DEF Complete
  <2>2. PICK k \in 1 .. Len(t) : Leads(d, p, t[k]) BY <2>1 DEF Shows
  <2> QED BY <2>2 DEF Leads
<1>5. /\ \A e \in found : \E j \in 1 .. Len(t) : /\ e = EntryHash(t[j]) /\ t[j].name = name
                                                 /\ \A i \in 1 .. j - 1 : t[i].name # name
      /\ found = {} => \A j \in 1 .. Len(t) : t[j].name # name
  BY <1>2, FoundFirst
<1>6. found = {} => Sought(es, p) = {} BY <1>4, <1>5 DEF Sought
<1>7. ASSUME name = rel, NEW e \in found PROVE Blobs({e}) = Sought(es, p)
  <2>1. PICK j \in 1 .. Len(t) : /\ e = EntryHash(t[j]) /\ t[j].name = name
                                 /\ \A i \in 1 .. j - 1 : t[i].name # name
    BY <1>5
  <2>2. Joined(d, name) = p BY <1>3, <1>7 DEF Named
  <2>3. CASE t[j].dir = FALSE
    <3>1. PICK i \in 1 .. Len(es) : es[i].path = p /\ es[i].data = t[j].node
      BY <1>1, <2>1, <2>2, <2>3 DEF Stands, FileIn
    <3>2. e = BlobOf(es[i].data) /\ e.tag = "blob" BY <2>1, <2>3, <3>1 DEF EntryHash, BlobOf
    <3>3. \A k \in 1 .. Len(es) : es[k].path = p <=> k = i BY <3>1, StrictApart
    <3>4. {k \in 1 .. Len(es) : es[k].path = p} = {i} BY <3>3
    <3>5. Sought(es, p) = {e} BY <3>2, <3>4 DEF Sought
    <3> QED BY <3>2, <3>5 DEF Blobs
  <2>4. CASE t[j].dir = TRUE
    <3>1. e.tag = "tree" BY <2>1, <2>4 DEF EntryHash, TreeOf
    <3>2. ASSUME NEW i \in 1 .. Len(es), es[i].path = p PROVE FALSE
      <4>1. PICK k \in 1 .. Len(t) : t[k].name = name /\ t[k].dir = FALSE BY <1>4, <2>2, <3>2
      <4>2. k < j BY <1>1, <2>1, <2>4, <4>1 DEF Stands, FilesFirst
      <4>3. k \in 1 .. j - 1
        <5>1. PICK m \in Nat : m = Len(t) BY <1>2, SeqIs DEF IsTree
        <5>2. k \in 1 .. m /\ j \in 1 .. m BY <5>1
        <5> QED BY <4>2, <5>2
      <4> QED BY <2>1, <4>1, <4>3
    <3>3. Sought(es, p) = {} BY <3>2 DEF Sought
    <3>4. "tree" # "blob" OBVIOUS
    <3> QED BY <3>1, <3>3, <3>4 DEF Blobs
  <2> QED BY <1>2, <2>3, <2>4
<1>8. ASSUME name # rel, NEW e \in found
      PROVE  \E k \in 1 .. v : /\ e = TreeOf(ts[k]) /\ Inside(dirs[k], p) /\ IsSeq(dirs[k])
                               /\ Relative(dirs[k], p) = SubSeq(rel, Len(name) + 2, Len(rel))
  <2>1. PICK j \in 1 .. Len(t) : e = EntryHash(t[j]) /\ t[j].name = name BY <1>5
  <2>2. PICK D : D = Joined(d, name) OBVIOUS
  <2>3. IsSeq(D) /\ D # <<>> /\ Inside(D, p) BY <1>3, <1>8, <2>2 DEF Named
  <2>4. Plain(name) BY <1>3 DEF Named, Plain
  <2>5. D \in Above(p) BY <2>3, InsideAbove
  <2>6. t[j].dir = TRUE
    <3>1. ASSUME t[j].dir = FALSE PROVE FALSE
      <4>1. PICK i \in 1 .. Len(es) : es[i].path = D BY <1>1, <2>1, <2>2, <3>1 DEF Stands, FileIn
      <4> QED BY <2>5, <4>1
    <3> QED BY <1>2, <3>1
  <2>7. PICK k \in 1 .. v : t[j].node = ts[k] /\ dirs[k] = D
    BY <1>1, <2>1, <2>2, <2>6 DEF Stands, DirIn
  <2>8. e = TreeOf(ts[k]) BY <2>1, <2>6, <2>7 DEF EntryHash
  <2>9. NamedIn(d, name, D, p) BY <1>1, <2>2, <2>3, <2>4, InsideName
  <2>10. Relative(D, p) = SubSeq(rel, Len(name) + 2, Len(rel)) BY <2>9, Zenon DEF NamedIn
  <2> QED BY <2>3, <2>7, <2>8, <2>10
<1> QED BY <1>6, <1>7, <1>8 DEF Seeks

\* A walk to p after n names: it is in a tree of a directory that p is in, or has ended with
\* what is staged.
Walks(w, n, es, ts, dirs, p) ==
    /\ w.path = <<>> => Blobs(w.result) = Sought(es, p)
    /\ w.path # <<>> =>
        /\ Len(w.path) + n <= Len(p) /\ w.result = {}
        /\ \E k \in 1 .. Len(ts) : /\ w.hash = TreeOf(ts[k])
                                   /\ Inside(dirs[k], p) /\ w.path = Relative(dirs[k], p)

\* What is left of a path in a directory.
LEMMA RelativeLen ==
  ASSUME NEW p, IsPath(p), NEW d, IsSeq(d), Inside(d, p), NEW rel, rel = Relative(d, p)
  PROVE  IsSeq(rel) /\ Len(rel) \in Nat \ {0} /\ rel # <<>>
<1>1. PICK o : Below(d, p, o) BY InsideIs
<1>2. PICK n \in Nat : n = Len(p) BY SeqIs DEF IsPath
<1>3. o \in 0 .. n - 1 /\ rel = SubSeq(p, o + 1, n) BY <1>1, <1>2 DEF Below
<1>4. IsSeq(SubSeq(p, o + 1, n)) /\ Len(SubSeq(p, o + 1, n)) = IF o + 1 <= n THEN n - (o + 1) + 1 ELSE 0
  BY <1>3, SeqSub
<1>5. IsSeq(rel) /\ Len(rel) = n - o BY <1>3, <1>4
<1>6. n - o \in Nat \ {0} BY <1>3
<1>7. rel # <<>> BY <1>5, <1>6, SeqEmpty
<1> QED BY <1>5, <1>6, <1>7

\* A name more: the walk goes on in the directory of it, or ends at the file.
LEMMA WalkNameFinds ==
  ASSUME NEW es, NEW ds, Strict(es), NEW ts, TreesIn(ts, ds), NEW dirs, Finished(es, ts, dirs),
         NEW p, IsPath(p), \A i \in 1 .. Len(es) : es[i].path \notin Above(p),
         NEW s, NEW w, WalkOk(w, s), NEW n \in Nat, Walks(w, n, es, ts, dirs, p),
         NEW v, v = WalkName(w)
  PROVE  Walks(v, n + 1, es, ts, dirs, p)
<1>1. CASE w.path = <<>>
  <2>1. v = w BY <1>1, Zenon DEF WalkName
  <2> QED BY <1>1, <2>1 DEF Walks
<1>2. CASE w.path # <<>>
  <2>1. PICK m \in Nat : m = Len(ts) BY SeqIs DEF TreesIn
  <2>2. PICK k \in 1 .. m : /\ w.hash = TreeOf(ts[k])
                            /\ Inside(dirs[k], p) /\ w.path = Relative(dirs[k], p)
    BY <1>2, <2>1 DEF Walks
  <2>3. Len(w.path) + n <= Len(p) /\ w.result = {} BY <1>2 DEF Walks
  <2>4. PICK t, d, rel, h : t = ts[k] /\ d = dirs[k] /\ rel = w.path /\ h = w.hash OBVIOUS
  <2>5. PICK name, read : name = FirstName(rel) /\ read = ReadObject(w.process, h) OBVIOUS
  <2>6. \A i \in 1 .. m : Complete(ts[i], dirs[i], es, ts, dirs, i - 1) /\ IsSeq(dirs[i])
    BY <2>1, Zenon DEF Finished, Complete
  <2>7. TreeIn(t, ds, ts, k - 1) /\ Complete(t, d, es, ts, dirs, k - 1) /\ IsSeq(d)
    BY <2>1, <2>4, <2>6 DEF TreesIn
  <2>8. h.tag = "tree" /\ h.body = t BY <2>2, <2>4 DEF TreeOf
  <2>9. TreeAt(read.stores.tree, LastId(read.stores, "tree")) = t
    <3>1. Sound(w.process) /\ h \in DOMAIN w.process.storage BY <2>4 DEF WalkOk
    <3>2. Got(read.stores, h) BY <2>5, <3>1, ObjectRead
    <3>3. Body(h) = t BY <2>8 DEF Body
    <3>4. At(read.stores, "tree", LastId(read.stores, "tree")) = t
      BY <2>8, <3>2, <3>3, Zenon DEF Got
    <3> QED BY <3>4, AtIs, Zenon
  <2>10. PICK found : found = FindEntry(t, name) OBVIOUS
  <2>11. Seeks(es, ts, dirs, k - 1, p, d, rel, name, found)
    <3>1. \A i \in 1 .. k - 1 : IsSeq(dirs[i]) BY <2>6
    <3>2. Inside(d, p) /\ rel = Relative(d, p) BY <2>2, <2>4
    <3> QED BY <2>5, <2>7, <2>10, <3>1, <3>2, TreeSeeks
  <2>12. PICK e : e = CHOOSE x \in found : TRUE OBVIOUS
  <2>13. v = IF found = {} THEN [w EXCEPT !.process = read, !.path = <<>>]
             ELSE IF name = rel
             THEN [w EXCEPT !.process = ReadObject(read, e), !.path = <<>>, !.result = {e}]
             ELSE [w EXCEPT !.process = read, !.hash = e, !.path = SubSeq(@, Len(name) + 2, Len(@))]
    BY <1>2, <2>4, <2>5, <2>8, <2>9, <2>10, <2>12, Zenon DEF WalkName
  <2>14. w = [process |-> w.process, hash |-> w.hash, path |-> w.path, result |-> w.result]
    BY DEF WalkOk
  <2>15. CASE found = {}
    <3>1. v = [w EXCEPT !.process = read, !.path = <<>>] BY <2>13, <2>15
    <3>2. v.path = <<>> /\ v.result = {} BY <2>3, <2>14, <3>1
    <3>3. Blobs({}) = {} /\ Sought(es, p) = {} BY <2>11, <2>15 DEF Seeks, Blobs
    <3> QED BY <3>2, <3>3 DEF Walks
  <2>16. ASSUME found # {} PROVE e \in found BY <2>12, <2>16
  <2>17. CASE found # {} /\ name = rel
    <3>1. PICK r : r = ReadObject(read, e) OBVIOUS
    <3>2. v = [w EXCEPT !.process = r, !.path = <<>>, !.result = {e}] BY <2>13, <2>17, <3>1, Zenon
    <3>3. v.path = <<>> /\ v.result = {e} BY <2>14, <3>2
    <3>4. Blobs({e}) = Sought(es, p) BY <2>11, <2>16, <2>17, Zenon DEF Seeks
    <3> QED BY <3>3, <3>4 DEF Walks
  <2>18. CASE found # {} /\ name # rel
    <3>1. PICK rest : rest = SubSeq(rel, Len(name) + 2, Len(rel)) OBVIOUS
    <3>2. v = [w EXCEPT !.process = read, !.hash = e, !.path = SubSeq(@, Len(name) + 2, Len(@))]
      BY <2>13, <2>18, Zenon
    <3>3. v = [process |-> read, hash |-> e, path |-> rest, result |-> w.result]
      BY <2>4, <2>14, <3>1, <3>2
    <3>4. PICK i \in 1 .. k - 1 : /\ e = TreeOf(ts[i]) /\ Inside(dirs[i], p) /\ IsSeq(dirs[i])
                                  /\ Relative(dirs[i], p) = rest
      BY <2>11, <2>16, <2>18, <3>1, Zenon DEF Seeks
    <3>5. i \in 1 .. m OBVIOUS
    <3>6. rest # <<>> BY <3>4, RelativeLen
    <3>7. Len(rest) + (n + 1) <= Len(p)
      <4>1. IsSeq(rel) /\ Len(rel) \in Nat \ {0} BY <2>2, <2>4, <2>7, RelativeLen
      <4>2. Named(d, p, rel, name) BY <2>2, <2>4, <2>5, <2>7, NameIs
      <4>3. IsSeq(name) /\ name # <<>> BY <4>2 DEF Named
      <4>4. PICK a \in Nat, c \in Nat, x \in Nat : a = Len(rel) /\ c = Len(name) /\ x = Len(p)
        BY <4>1, <4>3, SeqIs DEF IsPath
      <4>5. a # 0 /\ c # 0 BY <4>1, <4>3, <4>4, SeqIs
      <4>6. Len(SubSeq(rel, c + 2, a)) = IF c + 2 <= a THEN a - (c + 2) + 1 ELSE 0 BY SeqSub
      <4>7. Len(rest) = IF c + 2 <= a THEN a - (c + 2) + 1 ELSE 0 BY <3>1, <4>4, <4>6
      <4>8. PICK y \in Nat : y = Len(rest) /\ y + 1 <= a BY <4>5, <4>7
      <4>9. a + n <= x BY <2>3, <2>4, <4>4
      <4>10. y + (n + 1) <= x BY <4>8, <4>9
      <4> QED BY <4>4, <4>8, <4>10
    <3>8. v.path = rest /\ v.result = {} /\ v.hash = e BY <2>3, <3>3
    <3> QED BY <2>1, <3>4, <3>5, <3>6, <3>7, <3>8 DEF Walks
  <2> QED BY <2>15, <2>17, <2>18
<1> QED BY <1>1, <1>2

\* A walk from the last of the trees ends with what is staged.
LEMMA WalkFinds ==
  ASSUME NEW es, NEW ds, Strict(es), NEW ts, TreesIn(ts, ds), ts # <<>>, NEW dirs,
         Finished(es, ts, dirs), dirs[Len(ts)] = <<>>,
         NEW p, IsPath(p), \A i \in 1 .. Len(es) : es[i].path \notin Above(p),
         NEW s, Sound(s), Closed(s.storage), TreeOf(Last(ts)) \in DOMAIN s.storage
  PROVE  Blobs(WalkTree(s, TreeOf(Last(ts)), p).result) = Sought(es, p)
<1>1. PICK hash : hash = TreeOf(Last(ts)) OBVIOUS
<1>12. PICK f : Walked(f, s, hash, p) BY WalkTreeIs
<1>2. /\ f[0] = [process |-> s, hash |-> hash, path |-> p, result |-> {}]
      /\ \A n \in Nat : f[n + 1] = WalkName(f[n])
      /\ WalkTree(s, hash, p) = f[Len(p)]
  BY <1>12, Zenon DEF Walked
<1>3. PICK x \in Nat : x = Len(p) /\ IsSeq(p) /\ p # <<>> BY SeqIs DEF IsPath, Normal
<1>4. WalkOk(f[0], s) /\ Walks(f[0], 0, es, ts, dirs, p)
  <2>1. PICK w : w = f[0] OBVIOUS
  <2>2. w = [process |-> s, hash |-> hash, path |-> p, result |-> {}] BY <1>2, <2>1
  <2>3. Kept(s.stores, s.stores) BY KeptSelf DEF Sound
  <2>4. WalkOk(w, s) BY <1>1, <2>2, <2>3 DEF WalkOk
  <2>5. PICK m \in Nat \ {0} : m = Len(ts) BY SeqIs DEF TreesIn
  <2>6. m \in 1 .. m /\ hash = TreeOf(ts[m]) /\ dirs[m] = <<>> BY <1>1, <2>5 DEF Last
  <2>7. Inside(dirs[m], p) BY <2>6 DEF Inside
  <2>8. Relative(dirs[m], p) = p
    <3>1. Relative(dirs[m], p) = SubSeq(p, 1, x) BY <1>3, <2>6 DEF Relative
    <3>2. x <= x /\ \A i \in 1 .. x : p[i] = p[i] OBVIOUS
    <3>3. p = SubSeq(p, 1, x) BY <1>3, <3>2, HeadIs
    <3> QED BY <3>1, <3>3
  <2>9. x + 0 <= x OBVIOUS
  <2>10. w.path = p /\ w.result = {} /\ w.hash = hash BY <2>2
  <2>11. \E k \in 1 .. Len(ts) : /\ w.hash = TreeOf(ts[k])
                                 /\ Inside(dirs[k], p) /\ w.path = Relative(dirs[k], p)
    BY <2>5, <2>6, <2>7, <2>8, <2>10
  <2>12. Walks(w, 0, es, ts, dirs, p) BY <1>3, <2>9, <2>10, <2>11 DEF Walks
  <2> QED BY <2>1, <2>4, <2>12
<1> DEFINE A == {n \in Nat : WalkOk(f[n], s) /\ Walks(f[n], n, es, ts, dirs, p)}
<1>5. 0 \in A BY <1>4
<1>6. ASSUME NEW n \in Nat, n \in A PROVE n + 1 \in A
  <2>1. WalkOk(f[n], s) /\ Walks(f[n], n, es, ts, dirs, p) /\ f[n + 1] = WalkName(f[n])
    BY <1>2, <1>6
  <2>2. WalkOk(f[n + 1], s) BY <2>1, WalkNameOk
  <2>3. Walks(f[n + 1], n + 1, es, ts, dirs, p) BY <2>1, WalkNameFinds
  <2> QED BY <2>2, <2>3
<1>7. x \in A
  <2> HIDE DEF A
  <2> QED BY <1>5, <1>6, Counting
<1>8. PICK w : w = f[x] OBVIOUS
<1>9. WalkOk(w, s) /\ Walks(w, x, es, ts, dirs, p) BY <1>7, <1>8
<1>10. w.path = <<>>
  <2> SUFFICES ASSUME w.path # <<>> PROVE FALSE OBVIOUS
  <2>1. Len(w.path) + x <= x BY <1>3, <1>9 DEF Walks
  <2>2. PICK k \in 1 .. Len(ts) : Inside(dirs[k], p) /\ w.path = Relative(dirs[k], p)
    BY <1>9 DEF Walks
  <2>3. IsSeq(dirs[k]) BY DEF Finished, Complete
  <2>4. Len(w.path) \in Nat \ {0} BY <2>2, <2>3, RelativeLen
  <2> QED BY <2>1, <2>4
<1>11. Blobs(w.result) = Sought(es, p) BY <1>9, <1>10 DEF Walks
<1> QED BY <1>1, <1>2, <1>3, <1>8, <1>11

\* The entries of one path are those the index has for it.
LEMMA SoughtIs ==
  ASSUME Inv, NEW es, es = Sorted, NEW p \in Paths
  PROVE  Sought(es, p) = {BlobOf(data[i]) : i \in Found(p)}
<1>1. PICK n \in Nat : n = Len(paths) BY Arrays, Zenon DEF Inv
<1>2. Found(p) = {i \in 1 .. n : paths[i] = p} BY <1>1, FoundIs, Arrays DEF Inv
<1>3. ASSUME NEW j \in 1 .. Len(es), es[j].path = p
      PROVE \E i \in 1 .. n : paths[i] = p /\ data[i] = es[j].data
  <2>1. PICK i \in 1 .. n : es[j] = [path |-> paths[i], data |-> data[i]] BY <1>1, SortedEntry
  <2> QED BY <1>3, <2>1
<1>4. ASSUME NEW i \in 1 .. n, paths[i] = p
      PROVE \E j \in 1 .. Len(es) : es[j].path = p /\ es[j].data = data[i]
  <2>1. PICK x : x = [path |-> paths[i], data |-> data[i]] OBVIOUS
  <2>2. Within(es, x) BY <1>1, <2>1, SortedEntries
  <2>3. PICK j \in 1 .. Len(es) : es[j] = x BY <2>2 DEF Within
  <2> QED BY <1>4, <2>1, <2>3
<1> QED BY <1>2, <1>3, <1>4, SMTT(30) DEF Sought

\* A path of the index, in a storage that has the trees of the index.
LEMMA WalkShows ==
  ASSUME Inv, NEW s, Sound(s), Closed(s.storage), TreeOf(Committed) \in DOMAIN s.storage,
         NEW p \in Paths, Above(p) \cap {paths[i] : i \in DOMAIN paths} = {}
  PROVE  Blobs(WalkTree(s, TreeOf(Committed), p).result) = {BlobOf(data[i]) : i \in Found(p)}
<1>1. PICK es, ts, ds : es = Sorted /\ ts = IndexTrees /\ ds = {data[i] : i \in DOMAIN data} OBVIOUS
<1>2. Strict(es) /\ Len(es) = Len(paths) BY <1>1, SortedEntries
<1>3. Listed(es, ds) BY <1>1, SortedListed
<1>4. TreesIn(ts, ds) /\ ts # <<>> /\ Committed = Last(ts) BY <1>1, IndexTreesAre
<1>5. ts = Build(es) BY <1>1 DEF IndexTrees, WriteTree, Sorted
<1>6. PICK dirs : Finished(es, ts, dirs) /\ dirs[Len(ts)] = <<>> BY <1>2, <1>3, <1>5, BuildMaps
<1>7. IsPath(p) BY PathAssumption, Zenon DEF IsPath, IsSeq
<1>8. ASSUME NEW j \in 1 .. Len(es) PROVE es[j].path \notin Above(p)
  <2>1. PICK i \in 1 .. Len(paths) : es[j] = [path |-> paths[i], data |-> data[i]]
    BY <1>1, SortedEntry
  <2>2. es[j].path = paths[i] /\ i \in DOMAIN paths BY <2>1, Arrays DEF Inv
  <2> QED BY <2>2
<1>9. TreeOf(Last(ts)) \in DOMAIN s.storage BY <1>4
<1>10. Blobs(WalkTree(s, TreeOf(Last(ts)), p).result) = Sought(es, p)
  BY <1>2, <1>4, <1>6, <1>7, <1>8, <1>9, WalkFinds
<1> QED BY <1>1, <1>4, <1>10, SoughtIs

\* What was committed stays committed as long as the index does not change.
LEMMA CommittedKept == ASSUME UNCHANGED vars PROVE Committed' = Committed /\ data' = data
  BY DEF Committed, IndexTrees, EntriesInOrder, vars

----------------------------
\* Sets as sequences: two sorted sequences with the same entries are one.

\* Where two sorted sequences with the same entries would differ first, the second has the
\* smaller entry, seen from the first ...
LEMMA StrictFirst ==
  ASSUME NEW s, Strict(s), NEW t, Strict(t), NEW m \in Nat \ {0}, m <= Len(s), Within(t, s[m]),
         \A i \in 1 .. m - 1 : i <= Len(s) /\ i <= Len(t) /\ s[i] = t[i]
  PROVE  m <= Len(t) /\ (s[m] # t[m] => Before(t[m].path, s[m].path))
<1>1. PICK n \in Nat, k \in Nat : n = Len(s) /\ k = Len(t) BY SeqIs DEF Strict
<1>2. PICK l \in 1 .. k : t[l] = s[m] BY <1>1 DEF Within
<1>3. /\ \A i \in 1 .. n : s[i].path \in Seq(Nat)
      /\ \A i, j \in 1 .. n : i < j => Before(s[i].path, s[j].path)
  BY <1>1 DEF Strict
<1>4. \A i, j \in 1 .. k : i < j => Before(t[i].path, t[j].path) BY <1>1 DEF Strict
<1>5. m \in 1 .. n BY <1>1
<1>6. l >= m
  <2> SUFFICES ASSUME l < m PROVE FALSE BY <1>2
  <2>1. l \in 1 .. m - 1 /\ l \in 1 .. n BY <1>1, <1>2
  <2>2. s[l] = s[m] BY <1>2, <2>1
  <2>3. Before(s[m].path, s[m].path) BY <1>3, <1>5, <2>1, <2>2
  <2> QED BY <1>3, <1>5, <2>3, BeforeNotSame
<1>7. m \in 1 .. k BY <1>2, <1>6
<1>8. ASSUME s[m] # t[m] PROVE Before(t[m].path, s[m].path)
  <2>1. m < l
    <3>1. l # m BY <1>2, <1>8
    <3> QED BY <1>2, <1>6, <3>1
  <2> QED BY <1>2, <1>4, <1>7, <2>1
<1> QED BY <1>1, <1>7, <1>8

\* ... and the other way round, so they do not differ.
LEMMA StrictSame ==
  ASSUME NEW s, Strict(s), NEW t, Strict(t), \A x : Within(s, x) <=> Within(t, x)
  PROVE  s = t
<1>1. PICK n \in Nat, k \in Nat : n = Len(s) /\ k = Len(t) BY SeqIs DEF Strict
<1> DEFINE Same(i) == i <= n /\ i <= k /\ s[i] = t[i]
           A == {i \in Nat \ {0} : (i <= n \/ i <= k) /\ ~ Same(i)}
<1>2. A = {}
  <2> SUFFICES ASSUME A # {} PROVE FALSE OBVIOUS
  <2>1. A \in SUBSET Nat OBVIOUS
  <2>2. PICK m \in A : \A i \in A : m <= i
    <3> HIDE DEF A
    <3> QED BY <2>1, Least
  <2>3. m \in Nat \ {0} /\ (m <= n \/ m <= k) /\ ~ Same(m) BY <2>2
  <2>4. \A i \in 1 .. m - 1 : Same(i)
    <3> TAKE i \in 1 .. m - 1
    <3>1. i \in Nat \ {0} /\ ~ (m <= i) /\ (i <= n \/ i <= k) BY <2>3
    <3>2. i \notin A BY <2>2, <3>1
    <3> QED BY <3>1, <3>2
  <2>5. m <= n => Within(t, s[m]) BY <1>1, <2>3 DEF Within
  <2>6. m <= k => Within(s, t[m]) BY <1>1, <2>3 DEF Within
  <2>7. /\ \A i \in 1 .. m - 1 : i <= Len(s) /\ i <= Len(t) /\ s[i] = t[i]
        /\ \A i \in 1 .. m - 1 : i <= Len(t) /\ i <= Len(s) /\ t[i] = s[i]
    BY <1>1, <2>4
  <2>8. m <= n => m <= k /\ (s[m] # t[m] => Before(t[m].path, s[m].path))
    BY <1>1, <2>3, <2>5, <2>7, StrictFirst
  <2>9. m <= k => m <= n /\ (t[m] # s[m] => Before(s[m].path, t[m].path))
    BY <1>1, <2>3, <2>6, <2>7, StrictFirst
  <2>10. m <= n /\ m <= k /\ s[m] # t[m] BY <2>3, <2>8, <2>9
  <2>11. s[m].path \in Seq(Nat) /\ t[m].path \in Seq(Nat) BY <1>1, <2>3, <2>10 DEF Strict
  <2> QED BY <2>8, <2>9, <2>10, <2>11, BeforeNot
<1>3. \A i \in Nat \ {0} : i <= n \/ i <= k => Same(i) BY <1>2
<1>4. n = k
  <2>1. n # 0 => n <= k BY <1>3
  <2>2. k # 0 => k <= n BY <1>3
  <2> QED BY <2>1, <2>2
<1>5. \A i \in 1 .. n : s[i] = t[i] BY <1>3
<1> QED BY <1>1, <1>4, <1>5, SeqSame DEF Strict

\* Each element of S once.
Lists(t, S) ==
    /\ IsSeq(t)
    /\ \A i \in 1 .. Len(t) : t[i] \in S
    /\ \A x \in S : \E i \in 1 .. Len(t) : t[i] = x
    /\ \A i, j \in 1 .. Len(t) : i # j => t[i] # t[j]

\* SetToSeq lists a finite set.
LEMMA SetListed == ASSUME NEW S, IsFiniteSet(S) PROVE Lists(SetToSeq(S), S)
<1>1. PICK n \in Nat : n = Cardinality(S) /\ ExistsBijection(1 .. n, S) BY FS_CardinalityType
<1>2. PICK t : t = SetToSeq(S) OBVIOUS
<1>3. \E f \in [1 .. n -> S] : IsInjective(f) BY <1>1 DEF ExistsBijection, Bijection, Injection
<1>4. t \in [1 .. n -> S] /\ IsInjective(t)
  <2>1. t = CHOOSE f \in [1 .. n -> S] : IsInjective(f) BY <1>1, <1>2 DEF SetToSeq
  <2> QED BY <1>3, <2>1
<1>5. t \in Injection(1 .. n, S) BY <1>4 DEF Injection
<1>6. Cardinality(1 .. n) = n BY FS_Interval
<1>7. t \in Surjection(1 .. n, S) BY <1>1, <1>5, <1>6, FS_Injection
<1>8. \A x \in S : \E i \in 1 .. n : t[i] = x BY <1>7 DEF Surjection
<1>9. IsSeq(t) /\ Len(t) = n BY <1>4, SeqMade
<1>10. \A i, j \in 1 .. n : i # j => t[i] # t[j] BY <1>4 DEF IsInjective
<1> QED BY <1>2, <1>4, <1>8, <1>9, <1>10 DEF Lists

\* So does the sorted sequence of its elements.
LEMMA InOrderIs == ASSUME NEW S, IsFiniteSet(S), S \subseteq Seq(Nat) PROVE Lists(InOrder(S), S)
<1>1. PICK t : t = SetToSeq(S) OBVIOUS
<1>2. Lists(t, S) BY <1>1, SetListed
<1>3. PICK n \in Nat : n = Len(t) /\ DOMAIN t = 1 .. n BY <1>2, SeqIs DEF Lists
<1>4. PICK u : u = [j \in DOMAIN t |-> [path |-> t[j]]] OBVIOUS
<1>5. u = [j \in 1 .. n |-> u[j]] /\ \A j \in 1 .. n : u[j] = [path |-> t[j]] BY <1>3, <1>4
<1>6. IsSeq(u) /\ Len(u) = n BY <1>5, SeqMade
<1>7. /\ \A j \in 1 .. n : u[j].path = t[j] /\ u[j].path \in Seq(Nat)
      /\ \A i, j \in 1 .. n : i # j => u[i].path # u[j].path
  <2>1. \A j \in 1 .. n : u[j].path = t[j] BY <1>5
  <2>2. \A j \in 1 .. n : t[j] \in S BY <1>2, <1>3 DEF Lists
  <2>3. \A i, j \in 1 .. n : i # j => t[i] # t[j] BY <1>2, <1>3 DEF Lists
  <2> QED BY <2>1, <2>2, <2>3
<1>8. PICK s : s = ByPath(u) OBVIOUS
<1>9. Strict(s) /\ Len(s) = n /\ \A x : Within(s, x) <=> Within(u, x)
  <2>1. Strict(ByPath(u)) /\ Len(ByPath(u)) = Len(u) /\ \A x : Within(ByPath(u), x) <=> Within(u, x)
    BY <1>6, <1>7, SortedIs
  <2> QED BY <1>6, <1>8, <2>1
<1>10. PICK r : r = InOrder(S) OBVIOUS
<1>11. r = [j \in DOMAIN s |-> s[j].path] BY <1>1, <1>4, <1>8, <1>10 DEF InOrder
<1>12. DOMAIN s = 1 .. n BY <1>9, SeqIs DEF Strict
<1>13. r = [j \in 1 .. n |-> r[j]] /\ \A j \in 1 .. n : r[j] = s[j].path BY <1>11, <1>12
<1>14. IsSeq(r) /\ Len(r) = n BY <1>13, SeqMade
<1>15. ASSUME NEW i \in 1 .. n PROVE r[i] \in S
  <2>1. Within(u, s[i]) BY <1>9 DEF Within
  <2>2. PICK j \in 1 .. n : u[j] = s[i] BY <1>6, <2>1 DEF Within
  <2>3. r[i] = t[j] BY <1>7, <1>13, <2>2
  <2> QED BY <1>2, <1>3, <2>3 DEF Lists
<1>16. ASSUME NEW x \in S PROVE \E i \in 1 .. n : r[i] = x
  <2>1. PICK j \in 1 .. n : t[j] = x BY <1>2, <1>3 DEF Lists
  <2>2. Within(s, u[j]) BY <1>6, <1>9 DEF Within
  <2>3. PICK i \in 1 .. n : s[i] = u[j] BY <1>9, <2>2 DEF Within
  <2>4. r[i] = x BY <1>7, <1>13, <2>1, <2>3
  <2> QED BY <2>4
<1>17. ASSUME NEW i \in 1 .. n, NEW j \in 1 .. n, i # j PROVE r[i] # r[j]
  <2>1. s[i].path \in Seq(Nat) /\ s[j].path \in Seq(Nat) BY <1>9 DEF Strict
  <2>2. Before(s[i].path, s[j].path) \/ Before(s[j].path, s[i].path)
    <3>1. i < j \/ j < i BY <1>17
    <3> QED BY <1>9, <3>1 DEF Strict
  <2>3. s[i].path # s[j].path BY <2>1, <2>2, BeforeNot
  <2> QED BY <1>13, <2>3
<1> QED BY <1>10, <1>14, <1>15, <1>16, <1>17 DEF Lists

----------------------------
\* write-tree: the directories of a set of files, and the tree of each.

InDir(d, p) == IsSeq(d) /\ d # <<>> /\ Inside(d, p) /\ Len(d) \in Nat /\ Len(d) < MaxPath

\* A directory that is above a path has it in it.
LEMMA AboveIs == ASSUME NEW p, IsPath(p), NEW d \in Above(p) PROVE InDir(d, p)
<1>1. IsSeq(p) /\ Normal(p) BY DEF IsPath
<1>2. PICK n \in Nat : n = Len(p) /\ DOMAIN p = 1 .. n BY <1>1, SeqIs
<1>3. PICK i \in 1 .. n : p[i] = Slash /\ d = SubSeq(p, 1, i - 1) BY <1>2 DEF Above, Slashes
<1>4. p[1] # Slash /\ n <= MaxPath BY <1>2 DEF IsPath, Normal
<1>5. i # 1 BY <1>3, <1>4
<1>6. PICK m \in Nat : m = i - 1 /\ m + 1 = i /\ m # 0 BY <1>5
<1>7. /\ IsSeq(SubSeq(p, 1, m)) /\ Len(SubSeq(p, 1, m)) = (IF 1 <= m THEN m - 1 + 1 ELSE 0)
      /\ \A j \in 1 .. m - 1 + 1 : SubSeq(p, 1, m)[j] = p[1 + j - 1]
  BY SeqSub
<1>8. IsSeq(d) /\ Len(d) = m BY <1>3, <1>6, <1>7
<1>9. \A j \in 1 .. m : d[j] = p[j] BY <1>3, <1>6, <1>7
<1>10. d # <<>> BY <1>6, <1>8, SeqIs
<1>11. PICK f : f = Append(d, Slash) OBVIOUS
<1>12. IsSeq(f) /\ Len(f) = m + 1 /\ (\A j \in 1 .. m : f[j] = d[j]) /\ f[m + 1] = Slash
  BY <1>8, <1>11, SeqAppend
<1>13. \A j \in 1 .. m + 1 : f[j] = p[j] BY <1>3, <1>6, <1>9, <1>12
<1>14. m + 1 <= n BY <1>6
<1>15. IsPrefix(f, p) BY <1>1, <1>2, <1>12, <1>13, <1>14, PrefixIs
<1>16. m < MaxPath BY <1>4, <1>14, PathAssumption
<1> QED BY <1>8, <1>10, <1>11, <1>15, <1>16 DEF InDir, Inside

\* The files of a directory on the disk: no file has the name of a directory.
FilesOk(F) ==
    /\ IsFiniteSet(F)
    /\ \A f \in F : IsPath(f.path) /\ f.path \in Seq(Nat)
    /\ \A f, g \in F : f.path = g.path => f = g
    /\ \A f, g \in F : f.path \notin Above(g.path)

Dirs(F) == {<<>>} \cup UNION {Above(f.path) : f \in F}

\* A directory is shorter than a path can be, and has the name of no file.
LEMMA DirsIs ==
  ASSUME NEW F, FilesOk(F), NEW d \in Dirs(F)
  PROVE  /\ IsSeq(d) /\ Len(d) \in Nat /\ (d = <<>> \/ Len(d) < MaxPath)
         /\ \A f \in F : d # f.path
<1>1. CASE d = <<>>
  <2>1. \A f \in F : f.path # <<>> BY DEF FilesOk, IsPath, Normal
  <2> QED BY <1>1, <2>1, SeqEmpty
<1>2. CASE d # <<>>
  <2>1. PICK f \in F : d \in Above(f.path) BY <1>2 DEF Dirs
  <2>2. InDir(d, f.path) BY <2>1, AboveIs DEF FilesOk
  <2>3. \A g \in F : g.path # d BY <2>1 DEF FilesOk
  <2> QED BY <1>2, <2>2, <2>3 DEF InDir
<1> QED BY <1>1, <1>2

\* What a file is in is one of the directories.
LEMMA DirsHas ==
  ASSUME NEW F, FilesOk(F), NEW f \in F, NEW d, IsSeq(d), Inside(d, f.path)
  PROVE  d \in Dirs(F)
<1>1. CASE d = <<>> BY <1>1 DEF Dirs
<1>2. CASE d # <<>>
  <2>1. d \in Above(f.path) BY <1>2, InsideAbove DEF FilesOk
  <2> QED BY <2>1 DEF Dirs
<1> QED BY <1>1, <1>2

\* A sequence of numbers.
LEMMA NatSeq == ASSUME NEW s, IsSeq(s), \A j \in 1 .. Len(s) : s[j] \in Nat PROVE s \in Seq(Nat)
<1>1. PICK k \in Nat : k = Len(s) /\ s = [j \in 1 .. k |-> s[j]] BY SeqIs
<1>2. s \in [1 .. k -> Nat] BY <1>1
<1> QED BY <1>2, SeqDef

\* The first name of a sequence of numbers is one.
LEMMA FirstNameNat ==
  ASSUME NEW s, IsSeq(s), \A j \in 1 .. Len(s) : s[j] \in Nat
  PROVE  FirstName(s) \in Seq(Nat)
<1>1. PICK n \in Nat : n = Len(s) BY SeqIs
<1>2. CASE FirstName(s) = s BY <1>2, NatSeq
<1>3. ASSUME NEW i \in 1 .. n, FirstName(s) = SubSeq(s, 1, i - 1) PROVE FirstName(s) \in Seq(Nat)
  <2>1. PICK m \in Nat : m = i - 1 /\ m <= n BY <1>3
  <2>2. PICK r : r = SubSeq(s, 1, m) OBVIOUS
  <2>3. /\ IsSeq(SubSeq(s, 1, m)) /\ Len(SubSeq(s, 1, m)) = (IF 1 <= m THEN m - 1 + 1 ELSE 0)
        /\ \A j \in 1 .. m - 1 + 1 : SubSeq(s, 1, m)[j] = s[1 + j - 1]
    BY SeqSub
  <2>4. IsSeq(r) /\ Len(r) = m /\ \A j \in 1 .. m : r[j] = s[j] BY <2>2, <2>3
  <2>5. \A j \in 1 .. Len(r) : r[j] \in Nat BY <1>1, <2>1, <2>4
  <2>6. r \in Seq(Nat) BY <2>4, <2>5, NatSeq
  <2> QED BY <1>3, <2>1, <2>2, <2>6
<1> QED BY <1>1, <1>2, <1>3, FirstNameIs

\* The name of a path in a directory.
NameIn(d, f) == FirstName(Relative(d, f.path))

\* The name of a path in a directory has no slash, and names the path or a directory that
\* has it in it.
LEMMA NameInIs ==
  ASSUME NEW d, IsSeq(d), NEW p, IsPath(p), p \in Seq(Nat), Inside(d, p),
         NEW name, name = FirstName(Relative(d, p))
  PROVE  /\ Plain(name) /\ name \in Seq(Nat)
         /\ Joined(d, name) = p \/ (IsSeq(Joined(d, name)) /\ Inside(Joined(d, name), p))
<1>1. PICK rel : rel = Relative(d, p) OBVIOUS
<1>2. Named(d, p, rel, name) BY <1>1, NameIs
<1>3. Plain(name) BY <1>2 DEF Named, Plain
<1>4. Joined(d, name) = p \/ (IsSeq(Joined(d, name)) /\ Inside(Joined(d, name), p))
  BY <1>2, Zenon DEF Named
<1>5. PICK o : Below(d, p, o) BY InsideIs DEF IsPath
<1>6. PICK n \in Nat : n = Len(p) /\ DOMAIN p = 1 .. n BY SeqIs DEF IsPath
<1>7. o \in 0 .. n - 1 /\ rel = SubSeq(p, o + 1, Len(p)) BY <1>1, <1>5, <1>6 DEF Below
<1>8. Rest(rel, p, o)
  <2>1. o \in Nat /\ o <= Len(p) /\ IsSeq(p) BY <1>6, <1>7 DEF IsPath
  <2> QED BY <1>7, <2>1, RestIs
<1>9. /\ IsSeq(rel) /\ Len(rel) = n - o /\ \A j \in 1 .. n - o : rel[j] = p[o + j]
  BY <1>6, <1>8 DEF Rest
<1>10. \A j \in 1 .. n - o : rel[j] \in Nat
  <2> TAKE j \in 1 .. n - o
  <2>1. o + j \in 1 .. n BY <1>7
  <2>2. p[o + j] \in Nat BY <1>6, <2>1, ElementOfSeq
  <2> QED BY <1>9, <2>2
<1>11. FirstName(rel) \in Seq(Nat)
  <2>1. \A j \in 1 .. Len(rel) : rel[j] \in Nat BY <1>9, <1>10
  <2> QED BY <1>9, <2>1, FirstNameNat
<1>14. name \in Seq(Nat) BY <1>1, <1>11
<1> QED BY <1>3, <1>4, <1>14

\* sorted_dir_entries lists the name of each file in the directory once.
LEMMA NamesAre ==
  ASSUME NEW F, FilesOk(F), NEW d, IsSeq(d), NEW ns, ns = NamesIn(F, d)
  PROVE  Lists(ns, {NameIn(d, f) : f \in {g \in F : Inside(d, g.path)}})
<1>1. PICK G : G = {g \in F : Inside(d, g.path)} OBVIOUS
<1>2. ASSUME NEW g \in F PROVE (d = <<>> \/ d \in Above(g.path)) <=> Inside(d, g.path)
  <2>1. CASE d = <<>> BY <2>1 DEF Inside
  <2>2. CASE d # <<>>
    <3>1. IsPath(g.path) BY DEF FilesOk
    <3>2. Inside(d, g.path) => d \in Above(g.path) BY <2>2, <3>1, InsideAbove
    <3>3. d \in Above(g.path) => Inside(d, g.path) BY <3>1, AboveIs DEF InDir
    <3> QED BY <2>2, <3>2, <3>3
  <2> QED BY <2>1, <2>2
<1>3. {g \in F : d = <<>> \/ d \in Above(g.path)} = G BY <1>1, <1>2
<1>4. PICK S : S = {NameIn(d, f) : f \in G} OBVIOUS
<1>5. ns = InOrder(S) BY <1>3, <1>4, Zenon DEF NamesIn, NameIn
<1>6. IsFiniteSet(G) BY <1>1, FS_Subset DEF FilesOk
<1>7. [f \in G |-> NameIn(d, f)] \in Surjection(G, S) BY <1>4 DEF Surjection
<1>8. IsFiniteSet(S) BY <1>6, <1>7, FS_Surjection
<1>9. S \subseteq Seq(Nat)
  <2> SUFFICES ASSUME NEW f \in G PROVE NameIn(d, f) \in Seq(Nat) BY <1>4
  <2>1. IsPath(f.path) /\ f.path \in Seq(Nat) /\ Inside(d, f.path) BY <1>1 DEF FilesOk
  <2> QED BY <2>1, NameInIs DEF NameIn
<1>10. Lists(InOrder(S), S) BY <1>8, <1>9, InOrderIs
<1> QED BY <1>1, <1>4, <1>5, <1>10, Zenon

DirBody(F, f, d) ==
    [j \in DOMAIN NamesIn(F, d) |->
        LET name == NamesIn(F, d)[j]
            path == Joined(d, name)
        IN  IF path \in Dirs(F) THEN Subtree(name, f[path])
            ELSE File(name, (CHOOSE g \in F : g.path = path).data)]
DirR == INSTANCE Recursion WITH Body <- DirBody
DirTrees(F) == DirR!Rec(F, Dirs(F))

\* A directory in another has a longer path: the recursion ends.
LEMMA JoinedLonger ==
  ASSUME NEW d, IsSeq(d), NEW name, Plain(name), NEW D, D = Joined(d, name)
  PROVE  IsSeq(D) /\ D # <<>> /\ Len(D) \in Nat /\ Len(d) \in Nat /\ Len(d) < Len(D)
<1>1. IsSeq(name) /\ name # <<>> BY DEF Plain
<1>2. PICK m \in Nat, k \in Nat : m = Len(d) /\ k = Len(name) /\ k # 0 BY <1>1, SeqIs
<1>3. PICK o \in Nat : Split(D, d, name, m, k, o) BY <1>2, SplitIs
<1>4. IsSeq(D) /\ D # <<>> /\ Len(D) = o + k /\ (d # <<>> => o = m + 1) /\ (d = <<>> => o = 0)
  BY <1>3 DEF Split
<1>5. d = <<>> => m = 0 BY <1>2, SeqEmpty
<1> QED BY <1>2, <1>4, <1>5

\* None of the names has a slash.
LEMMA NamePlain ==
  ASSUME NEW F, FilesOk(F), NEW d, IsSeq(d), NEW ns, ns = NamesIn(F, d)
  PROVE  /\ IsSeq(ns) /\ Len(ns) \in Nat /\ DOMAIN ns = 1 .. Len(ns)
         /\ \A j \in 1 .. Len(ns) : Plain(ns[j])
<1>1. Lists(ns, {NameIn(d, f) : f \in {g \in F : Inside(d, g.path)}}) BY NamesAre
<1>2. IsSeq(ns) BY <1>1 DEF Lists
<1>3. ASSUME NEW j \in 1 .. Len(ns) PROVE Plain(ns[j])
  <2>1. PICK f \in F : Inside(d, f.path) /\ ns[j] = NameIn(d, f) BY <1>1 DEF Lists
  <2> QED BY <2>1, NameInIs DEF FilesOk, NameIn
<1> QED BY <1>2, <1>3, SeqIs

\* The tree of each directory is made of those in it.
LEMMA DirTreesIs ==
  ASSUME NEW F, FilesOk(F)
  PROVE  DirTrees(F) = [d \in Dirs(F) |-> DirBody(F, DirTrees(F), d)]
<1> DEFINE D == Dirs(F)
           size == [d \in D |-> MaxPath - Len(d)]
<1>1. \A d \in D : size[d] \in Nat
  <2> TAKE d \in D
  <2>1. PICK n \in Nat : n = Len(d) /\ (d = <<>> \/ n < MaxPath) BY DirsIs
  <2>2. d = <<>> => n = 0 BY <2>1, SeqEmpty
  <2> QED BY <2>1, <2>2, PathAssumption
<1>2. ASSUME NEW f, NEW g, NEW d \in D, \A y \in D : size[y] < size[d] => f[y] = g[y]
      PROVE DirBody(F, f, d) = DirBody(F, g, d)
  <2>1. PICK ns : ns = NamesIn(F, d) OBVIOUS
  <2>2. /\ IsSeq(ns) /\ Len(ns) \in Nat /\ DOMAIN ns = 1 .. Len(ns)
        /\ \A j \in 1 .. Len(ns) : Plain(ns[j])
    BY <2>1, NamePlain, DirsIs
  <2>3. ASSUME NEW j \in DOMAIN ns, Joined(d, ns[j]) \in D
        PROVE f[Joined(d, ns[j])] = g[Joined(d, ns[j])]
    <3>1. PICK e : e = Joined(d, ns[j]) OBVIOUS
    <3>2. Len(e) \in Nat /\ Len(d) \in Nat /\ Len(d) < Len(e)
      <4>1. Plain(ns[j]) /\ IsSeq(d) BY <2>2, DirsIs
      <4> QED BY <3>1, <4>1, JoinedLonger
    <3>3. size[e] < size[d] BY <2>3, <3>1, <3>2, PathAssumption
    <3> HIDE DEF size
    <3> QED BY <1>2, <2>3, <3>1, <3>3
  <2> HIDE DEF size
  <2> QED BY <2>1, <2>3 DEF DirBody
<1> HIDE DEF size
<1>3. DirR!Rec(F, D) = [d \in D |-> DirBody(F, DirR!Rec(F, D), d)]
  <2> HIDE DEF D
  <2> QED BY <1>1, <1>2, Counting, DirR!Defined
<1> QED BY <1>3, Zenon DEF DirTrees

ItemsAre(F, d, ns, t) ==
    /\ IsSeq(t) /\ Len(t) = Len(ns)
    /\ \A j \in 1 .. Len(ns) :
         t[j] = IF Joined(d, ns[j]) \in Dirs(F)
                THEN Subtree(ns[j], DirTrees(F)[Joined(d, ns[j])])
                ELSE File(ns[j], (CHOOSE g \in F : g.path = Joined(d, ns[j])).data)

\* The entries of it, in the order of the names.
LEMMA DirItems ==
  ASSUME NEW F, FilesOk(F), NEW d \in Dirs(F), NEW ns, ns = NamesIn(F, d),
         NEW t, t = DirTrees(F)[d]
  PROVE  ItemsAre(F, d, ns, t)
<1>1. /\ IsSeq(ns) /\ Len(ns) \in Nat /\ DOMAIN ns = 1 .. Len(ns) BY NamePlain, DirsIs
<1>2. t = DirBody(F, DirTrees(F), d) BY DirTreesIs
<1>3. t = [j \in 1 .. Len(ns) |->
              IF Joined(d, ns[j]) \in Dirs(F)
              THEN Subtree(ns[j], DirTrees(F)[Joined(d, ns[j])])
              ELSE File(ns[j], (CHOOSE g \in F : g.path = Joined(d, ns[j])).data)]
  BY <1>1, <1>2, Zenon DEF DirBody
<1>4. t = [j \in 1 .. Len(ns) |-> t[j]] BY <1>3
<1>5. IsSeq(t) /\ Len(t) = Len(ns) BY <1>1, <1>4, SeqMade
<1> QED BY <1>3, <1>5 DEF ItemsAre

\* The tree of the directory is the one with the empty path.
LEMMA DirectoryTreeIs == ASSUME NEW F PROVE DirectoryTree(F) = DirTrees(F)[<<>>]
  BY DEF DirectoryTree, DirTrees, DirR!Rec, DirBody, Dirs

----------------------------
\* write-tree: flatten_tree finds each file once.

\* A file, or a directory of more than n bytes, by its path.
IsNode(e, F, n) ==
    \/ \E f \in F : e = File(f.path, f.data)
    \/ /\ e.name \in Dirs(F) /\ e.name # <<>> /\ n < Len(e.name)
       /\ e = Subtree(e.name, DirTrees(F)[e.name])

HasFile(e, f) == IF e.dir THEN Inside(e.name, f.path) ELSE e = File(f.path, f.data)
HeldIn(s, f)  == \E k \in 1 .. Len(s) : HasFile(s[k], f)

\* The items hold each file at most once.
Nodes(s, F, n) ==
    /\ IsSeq(s)
    /\ \A k \in 1 .. Len(s) : IsNode(s[k], F, n)
    /\ \A f \in F : \A k, l \in 1 .. Len(s) : HasFile(s[k], f) /\ HasFile(s[l], f) => k = l

Renamed(e, d) == [e EXCEPT !.name = Joined(d, @)]

\* Entries and their names.
LEMMA ItemNames ==
  ASSUME NEW name, NEW node
  PROVE  /\ Subtree(name, node).name = name /\ Subtree(name, node).dir = TRUE
         /\ File(name, node).name = name /\ File(name, node).dir = FALSE
  BY DEF Subtree, File

\* An entry that is named by its path is otherwise the same ...
LEMMA RecordNamed ==
  ASSUME NEW d, NEW name, NEW dir, NEW node
  PROVE  Renamed([name |-> name, dir |-> dir, node |-> node], d)
              = [name |-> Joined(d, name), dir |-> dir, node |-> node]
  BY DEF Renamed

\* ... a subtree or a file.
LEMMA RenamedIs ==
  ASSUME NEW d, NEW name, NEW node
  PROVE  /\ Renamed(Subtree(name, node), d) = Subtree(Joined(d, name), node)
         /\ Renamed(File(name, node), d) = File(Joined(d, name), node)
<1>1. PICK in : in = TRUE OBVIOUS
<1>2. PICK out : out = FALSE OBVIOUS
<1>3. \A a : Subtree(a, node) = [name |-> a, dir |-> in, node |-> node] BY <1>1, Zenon DEF Subtree
<1>4. \A a : File(a, node) = [name |-> a, dir |-> out, node |-> node] BY <1>2, Zenon DEF File
<1>5. Renamed(Subtree(name, node), d) = Subtree(Joined(d, name), node) BY <1>3, RecordNamed
<1>6. Renamed(File(name, node), d) = File(Joined(d, name), node) BY <1>4, RecordNamed
<1> QED BY <1>5, <1>6

ChildOf(x, F, d, name) ==
    /\ IsNode(x, F, Len(d))
    /\ \A f \in F : HasFile(x, f) <=> Inside(d, f.path) /\ NameIn(d, f) = name

\* Each entry of the tree of a directory, named by its path: a file or a directory below
\* it, which has the files of that name in it.
LEMMA ChildIs ==
  ASSUME NEW F, FilesOk(F), NEW d \in Dirs(F), NEW ns, ns = NamesIn(F, d),
         NEW j \in 1 .. Len(ns), NEW u, u = Under(d, DirTrees(F)[d])
  PROVE  ChildOf(u[j], F, d, ns[j])
<1>0. PICK x : x = u[j] OBVIOUS
<1>1. PICK t : t = DirTrees(F)[d] OBVIOUS
<1>2. PICK name : name = ns[j] OBVIOUS
<1>3. PICK D : D = Joined(d, name) OBVIOUS
<1>4. IsSeq(d) /\ Plain(name) BY <1>2, NamePlain, DirsIs
<1>5. PICK dat : dat = (CHOOSE g \in F : g.path = D).data OBVIOUS
<1>6. IsSeq(t) /\ Len(t) = Len(ns)
      /\ t[j] = IF D \in Dirs(F) THEN Subtree(name, DirTrees(F)[D]) ELSE File(name, dat)
  BY <1>1, <1>2, <1>3, <1>5, DirItems DEF ItemsAre
<1>7. x = [t[j] EXCEPT !.name = Joined(d, @)] BY <1>0, <1>1, <1>6, UnderIs
<1>14. x = Renamed(t[j], d) BY <1>7, Zenon DEF Renamed
<1>8. ASSUME D \in Dirs(F) PROVE x = Subtree(D, DirTrees(F)[D]) /\ x.dir = TRUE /\ x.name = D
  <2>1. t[j] = Subtree(name, DirTrees(F)[D]) BY <1>6, <1>8
  <2>3. x = Renamed(Subtree(name, DirTrees(F)[D]), d) BY <1>14, <2>1
  <2>4. Renamed(Subtree(name, DirTrees(F)[D]), d) = Subtree(Joined(d, name), DirTrees(F)[D])
    BY RenamedIs, Zenon
  <2>2. x = Subtree(D, DirTrees(F)[D]) BY <1>3, <2>3, <2>4
  <2> QED BY <2>2, ItemNames, Zenon
<1>13. ASSUME D \notin Dirs(F) PROVE x = File(D, dat) /\ x.dir = FALSE /\ x.name = D
  <2>1. t[j] = File(name, dat) BY <1>6, <1>13
  <2>3. x = Renamed(File(name, dat), d) BY <1>14, <2>1
  <2>4. Renamed(File(name, dat), d) = File(Joined(d, name), dat) BY RenamedIs, Zenon
  <2>2. x = File(D, dat) BY <1>3, <2>3, <2>4
  <2> QED BY <2>2, ItemNames, Zenon
<1>9. PICK f \in F : Inside(d, f.path) /\ NameIn(d, f) = name
  <2>1. Lists(ns, {NameIn(d, f) : f \in {g \in F : Inside(d, g.path)}}) BY <1>4, NamesAre
  <2>2. ns[j] \in {NameIn(d, f) : f \in {g \in F : Inside(d, g.path)}} BY <2>1 DEF Lists
  <2> QED BY <1>2, <2>2
<1>10. ASSUME NEW g \in F, Inside(d, g.path), NameIn(d, g) = name
       PROVE (D = g.path /\ D \notin Dirs(F)) \/ (Inside(D, g.path) /\ D \in Dirs(F))
  <2>1. IsPath(g.path) /\ g.path \in Seq(Nat) BY DEF FilesOk
  <2>2. D = g.path \/ (IsSeq(D) /\ Inside(D, g.path))
    BY <1>3, <1>4, <1>10, <2>1, NameInIs DEF NameIn
  <2>3. CASE D = g.path BY <2>3, DirsIs
  <2>4. CASE IsSeq(D) /\ Inside(D, g.path) BY <2>4, DirsHas
  <2> QED BY <2>2, <2>3, <2>4
<1>11. CASE D \in Dirs(F)
  <2>1. x = Subtree(D, DirTrees(F)[D]) /\ x.dir = TRUE /\ x.name = D BY <1>8, <1>11
  <2>2. IsSeq(D) /\ D # <<>> /\ Len(d) < Len(D) BY <1>3, <1>4, JoinedLonger
  <2>3. IsNode(x, F, Len(d)) BY <1>11, <2>1, <2>2 DEF IsNode
  <2>4. ASSUME NEW g \in F PROVE HasFile(x, g) <=> Inside(d, g.path) /\ NameIn(d, g) = name
    <3>1. HasFile(x, g) <=> Inside(D, g.path) BY <2>1 DEF HasFile
    <3>2. ASSUME Inside(D, g.path) PROVE Inside(d, g.path) /\ NameIn(d, g) = name
      <4>1. IsPath(g.path) BY DEF FilesOk
      <4>2. NamedIn(d, name, D, g.path) BY <1>3, <1>4, <3>2, <4>1, InsideName
      <4> QED BY <4>2 DEF NamedIn, NameIn
    <3>3. ASSUME Inside(d, g.path), NameIn(d, g) = name PROVE Inside(D, g.path)
      BY <1>10, <1>11, <3>3
    <3> QED BY <3>1, <3>2, <3>3
  <2> QED BY <1>0, <1>2, <2>3, <2>4 DEF ChildOf
<1>12. CASE D \notin Dirs(F)
  <2>1. D = f.path BY <1>9, <1>10, <1>12
  <2>2. dat = f.data
    <3>1. PICK c : c = CHOOSE g \in F : g.path = D OBVIOUS
    <3>2. c \in F /\ c.path = D BY <2>1, <3>1
    <3>3. c = f BY <2>1, <3>2 DEF FilesOk
    <3> QED BY <1>5, <3>1, <3>3
  <2>3. x = File(f.path, f.data) /\ x.dir = FALSE /\ x.name = f.path BY <1>13, <1>12, <2>1, <2>2
  <2>4. IsNode(x, F, Len(d)) BY <2>3 DEF IsNode
  <2>5. ASSUME NEW g \in F PROVE HasFile(x, g) <=> Inside(d, g.path) /\ NameIn(d, g) = name
    <3>1. HasFile(x, g) <=> x = File(g.path, g.data) BY <2>3 DEF HasFile
    <3>2. ASSUME x = File(g.path, g.data) PROVE g = f
      <4>1. g.path = f.path BY <2>3, <3>2 DEF File
      <4> QED BY <4>1 DEF FilesOk
    <3>3. ASSUME Inside(d, g.path), NameIn(d, g) = name PROVE g = f
      <4>1. g.path = f.path BY <1>10, <1>12, <2>1, <3>3
      <4> QED BY <4>1 DEF FilesOk
    <3> QED BY <1>9, <2>3, <3>1, <3>2, <3>3
  <2> QED BY <1>0, <1>2, <2>4, <2>5 DEF ChildOf
<1> QED BY <1>11, <1>12

\* The entries of a directory hold the files in it.
LEMMA UnderNodes ==
  ASSUME NEW F, FilesOk(F), NEW d \in Dirs(F), NEW u, u = Under(d, DirTrees(F)[d])
  PROVE  /\ Nodes(u, F, Len(d))
         /\ \A f \in F : HeldIn(u, f) <=> Inside(d, f.path)
<1>1. PICK ns : ns = NamesIn(F, d) OBVIOUS
<1>2. PICK t : t = DirTrees(F)[d] OBVIOUS
<1>3. IsSeq(t) /\ Len(t) = Len(ns) BY <1>1, <1>2, DirItems DEF ItemsAre
<1>4. IsSeq(u) /\ Len(u) = Len(ns) BY <1>2, <1>3, UnderIs
<1>5. \A j \in 1 .. Len(ns) : ChildOf(u[j], F, d, ns[j]) BY <1>1, ChildIs
<1>6. Lists(ns, {NameIn(d, f) : f \in {g \in F : Inside(d, g.path)}}) BY <1>1, NamesAre, DirsIs
<1>7. ASSUME NEW f \in F, NEW k \in 1 .. Len(u), NEW l \in 1 .. Len(u), HasFile(u[k], f), HasFile(u[l], f)
      PROVE k = l
  <2>1. NameIn(d, f) = ns[k] /\ NameIn(d, f) = ns[l] BY <1>4, <1>5, <1>7 DEF ChildOf
  <2> QED BY <1>4, <1>6, <2>1 DEF Lists
<1>8. ASSUME NEW f \in F PROVE HeldIn(u, f) <=> Inside(d, f.path)
  <2>1. ASSUME HeldIn(u, f) PROVE Inside(d, f.path)
    <3>1. PICK k \in 1 .. Len(u) : HasFile(u[k], f) BY <2>1 DEF HeldIn
    <3> QED BY <1>4, <1>5, <3>1 DEF ChildOf
  <2>2. ASSUME Inside(d, f.path) PROVE HeldIn(u, f)
    <3>1. NameIn(d, f) \in {NameIn(d, g) : g \in {h \in F : Inside(d, h.path)}} BY <2>2
    <3>2. PICK k \in 1 .. Len(ns) : ns[k] = NameIn(d, f) BY <1>6, <3>1 DEF Lists
    <3>3. HasFile(u[k], f) BY <1>5, <2>2, <3>2 DEF ChildOf
    <3> QED BY <1>4, <3>3 DEF HeldIn
  <2> QED BY <2>1, <2>2
<1>9. \A k \in 1 .. Len(u) : IsNode(u[k], F, Len(d)) BY <1>4, <1>5 DEF ChildOf
<1> QED BY <1>4, <1>7, <1>8, <1>9 DEF Nodes

\* Each place of a concatenation is one of a part ...
LEMMA FlattenFrom ==
  ASSUME NEW ss, IsSeq(ss), \A j \in 1 .. Len(ss) : IsSeq(ss[j]), NEW i \in 1 .. Len(FlattenSeq(ss))
  PROVE  \E j \in 1 .. Len(ss) : \E k \in 1 .. Len(ss[j]) :
            /\ i = Sums(Lens(ss))[j - 1] + k
            /\ FlattenSeq(ss)[i] = ss[j][k]
<1>1. PICK n \in Nat : n = Len(ss) /\ DOMAIN ss = 1 .. n BY SeqIs
<1>2. PICK L : L = Lens(ss) OBVIOUS
<1>3. \A j \in 1 .. n : L[j] = Len(ss[j]) /\ L[j] \in Nat
  <2> TAKE j \in 1 .. n
  <2>1. Len(ss[j]) \in Nat BY <1>1, SeqIs
  <2> QED BY <1>1, <1>2, <2>1 DEF Lens
<1>4. PICK S : S = Sums(L) OBVIOUS
<1>5. S[0] = 0 /\ \A m \in Nat : S[m + 1] = S[m] + L[m + 1] BY <1>4, SumsIs
<1>6. \A m \in 0 .. n : S[m] \in Nat BY <1>3, <1>4, SumsNat
<1>7. i \in Nat /\ i # 0 /\ i <= S[n]
  <2>1. Len(FlattenSeq(ss)) = S[n] BY <1>1, <1>2, <1>4, FlattenIs
  <2>2. S[n] \in Nat BY <1>6
  <2>3. i \in 1 .. S[n] BY <2>1
  <2> QED BY <2>2, <2>3
<1> DEFINE A == {m \in Nat : m <= n /\ i <= S[m]}
<1>8. PICK m \in A : \A l \in A : m <= l
  <2>1. A \in SUBSET Nat /\ n \in A BY <1>7
  <2> HIDE DEF A
  <2> QED BY <2>1, Least
<1>9. m \in Nat /\ m <= n /\ i <= S[m] /\ m # 0
  <2>1. m \in Nat /\ m <= n /\ i <= S[m] BY <1>8
  <2>2. m # 0
    <3> SUFFICES ASSUME m = 0 PROVE FALSE OBVIOUS
    <3>1. i <= S[0] BY <2>1
    <3> QED BY <1>5, <1>7, <3>1
  <2> QED BY <2>1, <2>2
<1>10. PICK l \in Nat : l + 1 = m /\ m - 1 = l BY <1>9
<1>11. l \in 0 .. n /\ m \in 1 .. n BY <1>9, <1>10
<1>12. S[l] < i
  <2>1. l \notin A BY <1>8, <1>10
  <2> QED BY <1>6, <1>7, <1>11, <2>1
<1>13. S[m] = S[l] + L[m] /\ S[l] \in Nat /\ L[m] \in Nat BY <1>3, <1>5, <1>6, <1>10, <1>11
<1>14. PICK k \in Nat : k = i - S[l] /\ k \in 1 .. L[m] /\ i = S[l] + k
  BY <1>7, <1>9, <1>12, <1>13, SMTT(30)
<1>15. k \in 1 .. Len(ss[m]) /\ i = S[m - 1] + k BY <1>3, <1>10, <1>11, <1>14
<1>16. FlattenSeq(ss)[S[m - 1] + k] = ss[m][k] BY <1>1, <1>2, <1>4, <1>11, <1>15, FlattenIs
<1> QED BY <1>1, <1>2, <1>4, <1>11, <1>15, <1>16

\* ... and each of a part one of it.
LEMMA FlattenIn ==
  ASSUME NEW ss, IsSeq(ss), \A j \in 1 .. Len(ss) : IsSeq(ss[j]),
         NEW j \in 1 .. Len(ss), NEW k \in 1 .. Len(ss[j])
  PROVE  Sums(Lens(ss))[j - 1] + k \in 1 .. Len(FlattenSeq(ss))
<1>1. PICK n \in Nat : n = Len(ss) /\ DOMAIN ss = 1 .. n BY SeqIs
<1>2. PICK L : L = Lens(ss) OBVIOUS
<1>3. \A i \in 1 .. n : L[i] = Len(ss[i]) /\ L[i] \in Nat
  <2> TAKE i \in 1 .. n
  <2>1. Len(ss[i]) \in Nat BY <1>1, SeqIs
  <2> QED BY <1>1, <1>2, <2>1 DEF Lens
<1>4. PICK S : S = Sums(L) OBVIOUS
<1>5. \A m \in Nat : S[m + 1] = S[m] + L[m + 1] BY <1>4, SumsIs
<1>6. \A m \in 0 .. n : S[m] \in Nat /\ S[m] <= S[n] BY <1>3, <1>4, SumsNat
<1>7. Len(FlattenSeq(ss)) = S[n] BY <1>1, <1>2, <1>4, FlattenIs
<1>8. PICK l \in Nat : l + 1 = j /\ l = j - 1 /\ l \in 0 .. n /\ j \in 0 .. n /\ j \in 1 .. n
  BY <1>1
<1>9. S[j] = S[l] + L[j] /\ S[l] \in Nat /\ S[j] \in Nat /\ S[n] \in Nat /\ S[j] <= S[n] /\ n \in 0 .. n
  <2>1. S[l + 1] = S[l] + L[l + 1] BY <1>5
  <2>2. S[j] = S[l] + L[j] BY <1>8, <2>1
  <2>3. S[l] \in Nat /\ S[j] \in Nat /\ S[j] <= S[n] BY <1>6, <1>8
  <2>4. n \in 0 .. n BY <1>1
  <2>5. S[n] \in Nat BY <1>6, <2>4
  <2> QED BY <2>2, <2>3, <2>4, <2>5
<1>10. k \in 1 .. L[j] /\ L[j] \in Nat BY <1>3, <1>8
<1>11. S[l] + k \in 1 .. S[n] BY <1>9, <1>10, SMTT(30)
<1> QED BY <1>2, <1>4, <1>7, <1>8, <1>11

\* A longer path is longer than less.
LEMMA NodeLonger ==
  ASSUME NEW F, FilesOk(F), NEW n \in Nat, NEW m \in Nat, m <= n, NEW e, IsNode(e, F, n)
  PROVE  IsNode(e, F, m)
<1>1. CASE \E f \in F : e = File(f.path, f.data) BY <1>1 DEF IsNode
<1>2. CASE ~ \E f \in F : e = File(f.path, f.data)
  <2>1. e.name \in Dirs(F) /\ e.name # <<>> /\ n < Len(e.name) /\ e = Subtree(e.name, DirTrees(F)[e.name])
    BY <1>2 DEF IsNode
  <2>2. m < Len(e.name) BY <2>1, DirsIs
  <2> QED BY <2>1, <2>2 DEF IsNode
<1> QED BY <1>1, <1>2

\* What makes way for an item holds what the item holds.
PieceOf(x, e, F, n) ==
    /\ Nodes(x, F, n)
    /\ \A f \in F : HeldIn(x, f) <=> HasFile(e, f)
    /\ e.dir => IsSeq(e.node)

\* It is so for a file, which stays, and for a directory, which makes way for its entries.
LEMMA PieceNodes ==
  ASSUME NEW F, FilesOk(F), NEW n \in Nat, NEW e, IsNode(e, F, n)
  PROVE  PieceOf(Piece(e), e, F, n + 1)
<1>1. PICK x : x = Piece(e) OBVIOUS
<1>2. ASSUME NEW f \in F, e = File(f.path, f.data) PROVE PieceOf(x, e, F, n + 1)
  <2>1. e.dir = FALSE
    <3>1. PICK g : g = File(f.path, f.data) OBVIOUS
    <3>2. g.dir = FALSE BY <3>1 DEF File
    <3> QED BY <1>2, <3>1, <3>2, Zenon
  <2>2. x = <<e>> BY <1>1, <2>1 DEF Piece
  <2>3. IsSeq(x) /\ Len(x) = 1 /\ x[1] = e BY <2>2, SeqOne
  <2>4. IsNode(e, F, n + 1) BY <1>2 DEF IsNode
  <2>5. Nodes(x, F, n + 1) BY <2>3, <2>4 DEF Nodes
  <2>6. \A g \in F : HeldIn(x, g) <=> HasFile(e, g) BY <2>3 DEF HeldIn
  <2> QED BY <2>1, <2>5, <2>6 DEF PieceOf
<1>3. ASSUME e.name \in Dirs(F), e.name # <<>>, n < Len(e.name), e = Subtree(e.name, DirTrees(F)[e.name])
      PROVE PieceOf(x, e, F, n + 1)
  <2>1. PICK d, t : d = e.name /\ t = DirTrees(F)[d] OBVIOUS
  <2>2. e = Subtree(d, t) BY <1>3, <2>1
  <2>3. e.dir = TRUE /\ e.node = t
    <3>1. e.dir = TRUE BY <2>2, ItemNames, Zenon
    <3>2. e.node = t BY <2>2 DEF Subtree
    <3> QED BY <3>1, <3>2
  <2>4. x = Under(d, t) BY <1>1, <2>1, <2>3 DEF Piece
  <2>5. d \in Dirs(F) BY <1>3, <2>1
  <2>6. Nodes(x, F, Len(d)) /\ \A f \in F : HeldIn(x, f) <=> Inside(d, f.path)
    BY <2>1, <2>4, <2>5, UnderNodes
  <2>7. Len(d) \in Nat /\ n + 1 <= Len(d) BY <1>3, <2>1, <2>5, DirsIs
  <2>8. Nodes(x, F, n + 1)
    <3>1. \A k \in 1 .. Len(x) : IsNode(x[k], F, n + 1) BY <2>6, <2>7, NodeLonger DEF Nodes
    <3> QED BY <2>6, <3>1 DEF Nodes
  <2>9. \A f \in F : HasFile(e, f) <=> Inside(d, f.path) BY <2>1, <2>3 DEF HasFile
  <2>10. IsSeq(t) BY <2>1, <2>5, DirItems DEF ItemsAre
  <2> QED BY <2>3, <2>6, <2>8, <2>9, <2>10 DEF PieceOf
<1>4. PieceOf(x, e, F, n + 1) BY <1>2, <1>3, Zenon DEF IsNode
<1> QED BY <1>1, <1>4

\* A round of flatten_tree leaves each file held once, by directories one name deeper at
\* least.
LEMMA ExpandNodes ==
  ASSUME NEW F, FilesOk(F), NEW n \in Nat, NEW s, Nodes(s, F, n), NEW u, u = Expand(s)
  PROVE  /\ Nodes(u, F, n + 1)
         /\ \A f \in F : HeldIn(s, f) => HeldIn(u, f)
<1>1. PICK ss : ss = Pieces(s) OBVIOUS
<1>2. \A j \in 1 .. Len(s) : PieceOf(Piece(s[j]), s[j], F, n + 1) BY PieceNodes DEF Nodes
<1>3. IsItems(s) BY <1>2 DEF IsItems, PieceOf, Nodes
<1>4. /\ u = FlattenSeq(ss) /\ IsSeq(ss) /\ Len(ss) = Len(s)
      /\ \A j \in 1 .. Len(s) : ss[j] = Piece(s[j]) /\ IsSeq(ss[j])
      /\ IsSeq(u)
  BY <1>1, <1>3, PiecesIs
<1>5. PICK S : S = Sums(Lens(ss)) OBVIOUS
<1>6. \A i \in 1 .. Len(u) : \E j \in 1 .. Len(s) : \E k \in 1 .. Len(ss[j]) :
          i = S[j - 1] + k /\ u[i] = ss[j][k]
  <2>1. \A j \in 1 .. Len(ss) : IsSeq(ss[j]) BY <1>4
  <2>2. \A i \in 1 .. Len(FlattenSeq(ss)) : \E j \in 1 .. Len(ss) : \E k \in 1 .. Len(ss[j]) :
            i = Sums(Lens(ss))[j - 1] + k /\ FlattenSeq(ss)[i] = ss[j][k]
    BY <1>4, <2>1, FlattenFrom, Zenon
  <2> QED BY <1>4, <1>5, <2>2
<1>7. \A j \in 1 .. Len(s) : PieceOf(ss[j], s[j], F, n + 1) BY <1>2, <1>4
<1>8. \A i \in 1 .. Len(u) : IsNode(u[i], F, n + 1)
  <2> TAKE i \in 1 .. Len(u)
  <2>1. PICK j \in 1 .. Len(s) : \E k \in 1 .. Len(ss[j]) : i = S[j - 1] + k /\ u[i] = ss[j][k]
    BY <1>6
  <2>2. PICK k \in 1 .. Len(ss[j]) : u[i] = ss[j][k] BY <2>1
  <2> QED BY <1>7, <2>2 DEF PieceOf, Nodes
<1>9. ASSUME NEW f \in F, NEW a \in 1 .. Len(u), NEW b \in 1 .. Len(u),
             HasFile(u[a], f), HasFile(u[b], f)
      PROVE  a = b
  <2>1. PICK j \in 1 .. Len(s) : \E k \in 1 .. Len(ss[j]) : a = S[j - 1] + k /\ u[a] = ss[j][k]
    BY <1>6
  <2>2. PICK k \in 1 .. Len(ss[j]) : a = S[j - 1] + k /\ u[a] = ss[j][k] BY <2>1
  <2>3. PICK l \in 1 .. Len(s) : \E m \in 1 .. Len(ss[l]) : b = S[l - 1] + m /\ u[b] = ss[l][m]
    BY <1>6
  <2>4. PICK m \in 1 .. Len(ss[l]) : b = S[l - 1] + m /\ u[b] = ss[l][m] BY <2>3
  <2>5. HasFile(ss[j][k], f) /\ HasFile(ss[l][m], f) BY <1>9, <2>2, <2>4
  <2>6. HasFile(s[j], f) /\ HasFile(s[l], f) BY <1>7, <2>5 DEF PieceOf, HeldIn
  <2>7. j = l BY <2>6 DEF Nodes
  <2>8. k = m BY <1>7, <2>2, <2>4, <2>5, <2>7 DEF PieceOf, Nodes
  <2> QED BY <2>2, <2>4, <2>7, <2>8
<1>10. ASSUME NEW f \in F, HeldIn(s, f) PROVE HeldIn(u, f)
  <2>1. PICK j \in 1 .. Len(s) : HasFile(s[j], f) BY <1>10 DEF HeldIn
  <2>2. PICK k \in 1 .. Len(ss[j]) : HasFile(ss[j][k], f) BY <1>7, <2>1 DEF PieceOf, HeldIn
  <2>3. PICK i : i = S[j - 1] + k /\ u[i] = ss[j][k] BY <1>4, <1>5, FlattenIs
  <2>4. i \in 1 .. Len(u) BY <1>4, <1>5, <2>3, FlattenIn
  <2> QED BY <2>2, <2>3, <2>4 DEF HeldIn
<1> QED BY <1>4, <1>8, <1>9, <1>10 DEF Nodes

\* Files and subtrees are entries.
LEMMA EntryIs ==
  ASSUME NEW name, IsSeq(name), NEW node
  PROVE  IsEntry(Subtree(name, node)) /\ IsEntry(File(name, node))
<1>1. ASSUME NEW dir, NEW e, e = [name |-> name, dir |-> dir, node |-> node] PROVE IsEntry(e)
  BY <1>1 DEF IsEntry
<1>2. IsEntry([name |-> name, dir |-> TRUE, node |-> node]) BY <1>1, Zenon
<1>3. IsEntry([name |-> name, dir |-> FALSE, node |-> node]) BY <1>1, Zenon
<1> QED BY <1>2, <1>3, Zenon DEF Subtree, File

\* The tree of a directory is a sequence of them.
LEMMA DirIsTree ==
  ASSUME NEW F, FilesOk(F), NEW d \in Dirs(F), NEW t, t = DirTrees(F)[d] PROVE IsTree(t)
<1>1. PICK ns : ns = NamesIn(F, d) OBVIOUS
<1>2. ItemsAre(F, d, ns, t) BY <1>1, DirItems
<1>3. IsSeq(t) /\ Len(t) = Len(ns) BY <1>2 DEF ItemsAre
<1>4. ASSUME NEW j \in 1 .. Len(ns) PROVE IsEntry(t[j])
  <2>1. IsSeq(ns[j]) BY <1>1, NamePlain, DirsIs DEF Plain
  <2>2. PICK D : D = Joined(d, ns[j]) OBVIOUS
  <2>3. t[j] = IF D \in Dirs(F) THEN Subtree(ns[j], DirTrees(F)[D])
               ELSE File(ns[j], (CHOOSE g \in F : g.path = D).data)
    BY <1>2, <2>2 DEF ItemsAre
  <2>4. CASE D \in Dirs(F)
    <3>1. t[j] = Subtree(ns[j], DirTrees(F)[D]) BY <2>3, <2>4
    <3> QED BY <2>1, <3>1, EntryIs
  <2>5. CASE D \notin Dirs(F)
    <3>1. t[j] = File(ns[j], (CHOOSE g \in F : g.path = D).data) BY <2>3, <2>5
    <3> QED BY <2>1, <3>1, EntryIs
  <2> QED BY <2>4, <2>5, Zenon
<1> QED BY <1>3, <1>4 DEF IsTree

\* So it is after each round: every file is held once.
LEMMA DirLevels ==
  ASSUME NEW F, FilesOk(F), NEW t, t = DirectoryTree(F)
  PROVE  \A n \in Nat : Nodes(Level(t, n), F, n) /\ \A f \in F : HeldIn(Level(t, n), f)
<1> DEFINE A == {n \in Nat : Nodes(Level(t, n), F, n) /\ \A f \in F : HeldIn(Level(t, n), f)}
<1>1. 0 \in A
  <2>1. t = DirTrees(F)[<<>>] /\ <<>> \in Dirs(F) BY DirectoryTreeIs DEF Dirs
  <2>2. IsTree(t) BY <2>1, DirIsTree
  <2>3. Under(<<>>, t) = t BY <2>2, UnderRoot
  <2>4. Nodes(t, F, Len(<<>>)) /\ \A f \in F : HeldIn(t, f) <=> Inside(<<>>, f.path)
    BY <2>1, <2>3, UnderNodes, Zenon
  <2>5. \A f \in F : Inside(<<>>, f.path) BY DEF Inside
  <2>6. Level(t, 0) = t BY LevelIs
  <2>7. Nodes(t, F, 0) BY <2>4, SeqEmpty, Zenon
  <2> QED BY <2>4, <2>5, <2>6, <2>7
<1>2. ASSUME NEW n \in Nat, n \in A PROVE n + 1 \in A
  <2>1. PICK s : s = Level(t, n) OBVIOUS
  <2>2. Nodes(s, F, n) /\ \A f \in F : HeldIn(s, f) BY <1>2, <2>1
  <2>3. PICK u : u = Expand(s) OBVIOUS
  <2>4. Nodes(u, F, n + 1) /\ \A f \in F : HeldIn(s, f) => HeldIn(u, f) BY <2>2, <2>3, ExpandNodes
  <2>5. Level(t, n + 1) = u BY <2>1, <2>3, LevelIs
  <2> QED BY <2>2, <2>4, <2>5
<1>3. \A n \in Nat : n \in A
  <2> HIDE DEF A
  <2> QED BY <1>1, <1>2, Counting
<1> QED BY <1>3

\* Each file of the directory once.
FilesOf(u, F) ==
    /\ IsSeq(u)
    /\ \A k \in 1 .. Len(u) : \E f \in F : u[k] = File(f.path, f.data)
    /\ \A f \in F : \E k \in 1 .. Len(u) : u[k] = File(f.path, f.data)
    /\ \A f \in F : \A k, l \in 1 .. Len(u) :
            u[k] = File(f.path, f.data) /\ u[l] = File(f.path, f.data) => k = l

\* After as many rounds as a path has bytes no directory is left.
LEMMA DirFiles ==
  ASSUME NEW F, FilesOk(F), NEW u, u = Files(DirectoryTree(F)) PROVE FilesOf(u, F)
<1>1. MaxPath \in Nat BY PathAssumption
<1>2. Nodes(u, F, MaxPath) /\ \A f \in F : HeldIn(u, f)
  <2>1. PICK t : t = DirectoryTree(F) OBVIOUS
  <2>2. u = Level(t, MaxPath) BY <2>1, LevelIs
  <2> QED BY <1>1, <2>1, <2>2, DirLevels
<1>3. ASSUME NEW k \in 1 .. Len(u) PROVE \E f \in F : u[k] = File(f.path, f.data)
  <2>1. IsNode(u[k], F, MaxPath) BY <1>2 DEF Nodes
  <2>2. ~ (u[k].name \in Dirs(F) /\ u[k].name # <<>> /\ MaxPath < Len(u[k].name))
    <3>1. PICK d : d = u[k].name OBVIOUS
    <3>2. ASSUME d \in Dirs(F), d # <<>>, MaxPath < Len(d) PROVE FALSE
      <4>1. Len(d) \in Nat /\ Len(d) < MaxPath BY <3>2, DirsIs
      <4> QED BY <1>1, <3>2, <4>1
    <3> QED BY <3>1, <3>2
  <2> QED BY <2>1, <2>2 DEF IsNode
<1>4. \A f \in F : HasFile(File(f.path, f.data), f)
  <2> TAKE f \in F
  <2>1. PICK g : g = File(f.path, f.data) OBVIOUS
  <2>2. g.dir = FALSE BY <2>1 DEF File
  <2>3. HasFile(g, f) BY <2>1, <2>2 DEF HasFile
  <2> QED BY <2>1, <2>3
<1>5. ASSUME NEW f \in F PROVE \E k \in 1 .. Len(u) : u[k] = File(f.path, f.data)
  <2>1. PICK k \in 1 .. Len(u) : HasFile(u[k], f) BY <1>2 DEF HeldIn
  <2>2. PICK g \in F : u[k] = File(g.path, g.data) BY <1>3
  <2>3. PICK e : e = u[k] OBVIOUS
  <2>4. e.dir = FALSE BY <2>2, <2>3 DEF File
  <2>5. e = File(f.path, f.data) BY <2>1, <2>3, <2>4 DEF HasFile
  <2> QED BY <2>3, <2>5
<1>6. ASSUME NEW f \in F, NEW k \in 1 .. Len(u), NEW l \in 1 .. Len(u),
             u[k] = File(f.path, f.data), u[l] = File(f.path, f.data)
      PROVE  k = l
  <2>1. HasFile(u[k], f) /\ HasFile(u[l], f) BY <1>4, <1>6
  <2> QED BY <1>2, <2>1 DEF Nodes
<1>7. IsSeq(u) BY <1>2 DEF Nodes
<1> QED BY <1>3, <1>5, <1>6, <1>7 DEF FilesOf

\* flatten_tree of the tree of a directory: its files, sorted.
LEMMA DirectoryFlat ==
  ASSUME NEW F, FilesOk(F), NEW r, r = FlattenTree(DirectoryTree(F))
  PROVE  /\ Strict(r)
         /\ \A x : Within(r, x) <=> \E f \in F : x = [path |-> f.path, data |-> f.data]
<1>1. PICK u : u = Files(DirectoryTree(F)) OBVIOUS
<1>2. FilesOf(u, F) BY <1>1, DirFiles
<1>3. PICK n \in Nat : n = Len(u) /\ DOMAIN u = 1 .. n BY <1>2, SeqIs DEF FilesOf
<1>4. PICK v : v = [j \in DOMAIN u |-> [path |-> u[j].name, data |-> u[j].node]] OBVIOUS
<1>5. v = [j \in 1 .. n |-> v[j]] /\ \A j \in 1 .. n : v[j] = [path |-> u[j].name, data |-> u[j].node]
  BY <1>3, <1>4
<1>6. IsSeq(v) /\ Len(v) = n BY <1>5, SeqMade
<1>7. r = ByPath(v) BY <1>1, <1>4 DEF FlattenTree
<1>8. ASSUME NEW j \in 1 .. n, NEW f \in F, u[j] = File(f.path, f.data)
      PROVE v[j] = [path |-> f.path, data |-> f.data] /\ v[j].path = f.path
  <2>1. u[j].name = f.path /\ u[j].node = f.data BY <1>8 DEF File
  <2>2. v[j] = [path |-> f.path, data |-> f.data] BY <1>5, <2>1
  <2> QED BY <2>2
<1>9. \A j \in 1 .. n : \E f \in F : u[j] = File(f.path, f.data) BY <1>2, <1>3 DEF FilesOf
<1>10. \A j \in 1 .. n : v[j].path \in Seq(Nat) BY <1>8, <1>9 DEF FilesOk
<1>11. ASSUME NEW i \in 1 .. n, NEW j \in 1 .. n, v[i].path = v[j].path PROVE i = j
  <2>1. PICK f \in F : u[i] = File(f.path, f.data) BY <1>9
  <2>2. PICK g \in F : u[j] = File(g.path, g.data) BY <1>9
  <2>4. v[i].path = f.path /\ v[j].path = g.path BY <1>8, <2>1, <2>2
  <2>3. f = g BY <1>11, <2>4 DEF FilesOk
  <2> QED BY <1>2, <1>3, <2>1, <2>2, <2>3 DEF FilesOf
<1>12. Strict(r) /\ \A x : Within(r, x) <=> Within(v, x) BY <1>6, <1>7, <1>10, <1>11, SortedIs
<1>13. ASSUME NEW x PROVE Within(v, x) <=> \E f \in F : x = [path |-> f.path, data |-> f.data]
  <2>1. ASSUME Within(v, x) PROVE \E f \in F : x = [path |-> f.path, data |-> f.data]
    <3>1. PICK j \in 1 .. n : v[j] = x BY <1>6, <2>1 DEF Within
    <3>2. PICK f \in F : u[j] = File(f.path, f.data) BY <1>9
    <3> QED BY <1>8, <3>1, <3>2
  <2>2. ASSUME NEW f \in F, x = [path |-> f.path, data |-> f.data] PROVE Within(v, x)
    <3>1. PICK j \in 1 .. n : u[j] = File(f.path, f.data) BY <1>2, <1>3 DEF FilesOf
    <3>2. v[j] = x BY <1>8, <2>2, <3>1
    <3> QED BY <1>6, <3>2 DEF Within
  <2> QED BY <2>1, <2>2
<1> QED BY <1>12, <1>13

\* The files of the index are such a set when no path is above another, and those of the
\* committed tree are the same.
LEMMA AgreesHolds == ASSUME Inv PROVE TreesAgree
<1> SUFFICES ASSUME \A i \in DOMAIN paths : Above(paths[i]) \cap {paths[j] : j \in DOMAIN paths} = {}
             PROVE  FlattenTree(DirectoryTree({EntriesInOrder[i] : i \in DOMAIN paths}))
                      = FlattenTree(Committed)
  BY DEF TreesAgree
<1>1. PICK es : es = EntriesInOrder OBVIOUS
<1>2. PICK n \in Nat : n = Len(paths) /\ DOMAIN paths = 1 .. n BY Arrays, Zenon DEF Inv
<1>3. \A i \in 1 .. n : es[i] = [path |-> paths[i], data |-> data[i]]
  BY <1>1, <1>2, EntriesIs DEF Entered
<1>4. PICK F : F = {es[i] : i \in 1 .. n} OBVIOUS
<1>5. \A i \in 1 .. n : es[i].path = paths[i] /\ es[i].data = data[i]
  <2> TAKE i \in 1 .. n
  <2>1. es[i] = [path |-> paths[i], data |-> data[i]] BY <1>3
  <2> QED BY <2>1
<1>6. FilesOk(F)
  <2>1. IsFiniteSet(F)
    <3>1. [i \in 1 .. n |-> es[i]] \in Surjection(1 .. n, F) BY <1>4 DEF Surjection
    <3>2. IsFiniteSet(1 .. n) BY FS_Interval
    <3> QED BY <3>1, <3>2, FS_Surjection
  <2>2. \A f \in F : \E i \in 1 .. n : f = es[i] /\ f.path = paths[i] BY <1>4, <1>5
  <2>3. \A i \in 1 .. n : IsPath(paths[i]) /\ paths[i] \in Seq(Nat) BY <1>2, PathsAre
  <2>4. \A f \in F : IsPath(f.path) /\ f.path \in Seq(Nat) BY <2>2, <2>3
  <2>5. ASSUME NEW f \in F, NEW g \in F, f.path = g.path PROVE f = g
    <3>1. PICK i \in 1 .. n : f = es[i] /\ f.path = paths[i] BY <2>2
    <3>2. PICK j \in 1 .. n : g = es[j] /\ g.path = paths[j] BY <2>2
    <3>3. i = j BY <1>2, <2>5, <3>1, <3>2, PathsAre
    <3> QED BY <3>1, <3>2, <3>3
  <2>6. ASSUME NEW f \in F, NEW g \in F PROVE f.path \notin Above(g.path)
    <3>1. PICK i \in 1 .. n : f.path = paths[i] BY <2>2
    <3>2. PICK j \in 1 .. n : g.path = paths[j] BY <2>2
    <3>3. Above(paths[j]) \cap {paths[k] : k \in 1 .. n} = {} BY <1>2
    <3> QED BY <3>1, <3>2, <3>3
  <2> QED BY <2>1, <2>4, <2>5, <2>6 DEF FilesOk
<1>7. PICK r : r = FlattenTree(DirectoryTree(F)) OBVIOUS
<1>8. Strict(r) /\ \A x : Within(r, x) <=> \E f \in F : x = [path |-> f.path, data |-> f.data]
  BY <1>6, <1>7, DirectoryFlat
<1>9. PICK s : s = Sorted OBVIOUS
<1>10. /\ Strict(s)
       /\ \A x : Within(s, x) <=> \E i \in 1 .. n : x = [path |-> paths[i], data |-> data[i]]
  BY <1>2, <1>9, SortedEntries
<1>11. Strict(ByPath(s)) /\ \A x : Within(ByPath(s), x) <=> Within(s, x)
  <2>1. PICK m \in Nat : m = Len(s) BY <1>10, SeqIs DEF Strict
  <2>2. IsSeq(s) /\ \A i \in 1 .. m : s[i].path \in Seq(Nat) BY <1>10, <2>1 DEF Strict
  <2>3. ASSUME NEW i \in 1 .. m, NEW j \in 1 .. m, i # j PROVE s[i].path # s[j].path
    <3>1. i < j \/ j < i BY <2>3
    <3>2. Before(s[i].path, s[j].path) \/ Before(s[j].path, s[i].path)
      BY <1>10, <2>1, <3>1 DEF Strict
    <3> QED BY <2>2, <3>2, BeforeNot
  <2> QED BY <2>1, <2>2, <2>3, SortedIs
<1>12. \A x : (\E f \in F : x = [path |-> f.path, data |-> f.data])
                <=> \E i \in 1 .. n : x = [path |-> paths[i], data |-> data[i]]
  <2>1. \A f \in F : \E i \in 1 .. n : f.path = paths[i] /\ f.data = data[i] BY <1>4, <1>5
  <2>2. \A i \in 1 .. n : \E f \in F : f.path = paths[i] /\ f.data = data[i] BY <1>4, <1>5
  <2> QED BY <2>1, <2>2
<1>13. \A x : Within(r, x) <=> Within(ByPath(s), x) BY <1>8, <1>10, <1>11, <1>12
<1>14. r = ByPath(s) BY <1>8, <1>11, <1>13, StrictSame
<1>15. FlattenTree(Committed) = ByPath(s) BY <1>9, FlatIs
<1>16. {EntriesInOrder[i] : i \in DOMAIN paths} = F BY <1>1, <1>2, <1>4
<1> QED BY <1>7, <1>14, <1>15, <1>16

----------------------------
\* Commits: objects are written after what they name.

\* The objects a process holds are in its arenas.
HeldOk(hs, w) ==
    /\ IsSeq(hs)
    /\ \A k \in 1 .. Len(hs) :
        /\ IsHash(hs[k].hash) /\ hs[k].id \in 1 .. LastId(w, hs[k].hash.tag)
        /\ At(w, hs[k].hash.tag, hs[k].id) = Body(hs[k].hash)

\* A process that holds nothing.
LEMMA HeldNone == ASSUME NEW w PROVE HeldOk(<<>>, w)
  BY SeqEmpty DEF HeldOk

\* One more of them, and none of the others moves.
LEMMA HeldMore ==
  ASSUME NEW hs, NEW w, HeldOk(hs, w), NEW v, Kept(w, v), NEW h, IsHash(h), Got(v, h),
         NEW gs, gs = Append(hs, [hash |-> h, id |-> LastId(v, h.tag)])
  PROVE  HeldOk(gs, v)
<1>1. PICK n \in Nat : n = Len(hs) BY SeqIs DEF HeldOk
<1>2. PICK x : x = [hash |-> h, id |-> LastId(v, h.tag)] OBVIOUS
<1>3. gs = Append(hs, x) BY <1>2
<1>4. IsSeq(gs) /\ Len(gs) = n + 1 /\ (\A k \in 1 .. n : gs[k] = hs[k]) /\ gs[n + 1] = x
  BY <1>1, <1>3, SeqAppend DEF HeldOk
<1>5. ASSUME NEW k \in 1 .. n + 1
      PROVE  /\ IsHash(gs[k].hash) /\ gs[k].id \in 1 .. LastId(v, gs[k].hash.tag)
             /\ At(v, gs[k].hash.tag, gs[k].id) = Body(gs[k].hash)
  <2>1. CASE k = n + 1
    <3>1. gs[k] = x /\ x.hash = h /\ x.id = LastId(v, h.tag) BY <1>2, <1>4, <2>1
    <3>2. PICK i \in Nat \ {0} : i = LastId(v, h.tag) BY DEF Got
    <3>3. i \in 1 .. i OBVIOUS
    <3> QED BY <3>1, <3>2, <3>3, Zenon DEF Got
  <2>2. CASE k # n + 1
    <3>1. k \in 1 .. n BY <2>2
    <3>2. PICK y, g, id : y = gs[k] /\ g = y.hash /\ id = y.id OBVIOUS
    <3>3. y = hs[k] BY <1>4, <3>1, <3>2
    <3>4. IsHash(g) /\ id \in 1 .. LastId(w, g.tag) /\ At(w, g.tag, id) = Body(g)
      BY <1>1, <3>1, <3>2, <3>3, Zenon DEF HeldOk
    <3>5. g.tag \in Tags BY <3>4, TagIs
    <3>6. PICK i \in Nat, j \in Nat : i = LastId(w, g.tag) /\ j = LastId(v, g.tag) /\ i <= j
      BY <3>5 DEF Kept
    <3>7. At(v, g.tag, id) = At(w, g.tag, id) BY <3>4, <3>5, Zenon DEF Kept
    <3>8. id \in 1 .. j BY <3>4, <3>6
    <3> QED BY <3>2, <3>4, <3>6, <3>7, <3>8, Zenon
  <2> QED BY <2>1, <2>2
<1>6. \A k \in 1 .. Len(gs) :
          /\ IsHash(gs[k].hash) /\ gs[k].id \in 1 .. LastId(v, gs[k].hash.tag)
          /\ At(v, gs[k].hash.tag, gs[k].id) = Body(gs[k].hash)
  BY <1>4, <1>5, Zenon
<1> QED BY <1>4, <1>6, Zenon DEF HeldOk

----------------------------
\* The process that commits, after the blobs and n trees.
WroteBody(s, f, n) ==
    IF n = 0 THEN WriteBlobs(Opened(s.m), s.ds) ELSE WriteTreeObject(f[n - 1], s.ts[n])
WroteR == INSTANCE Recursion WITH Body <- WroteBody

Writing(w, m, ds, ts) ==
    /\ w[0] = WriteBlobs(Opened(m), ds)
    /\ \A n \in Nat : w[n + 1] = WriteTreeObject(w[n], ts[n + 1])
    /\ TreesWritten = w[Len(ts)]

\* TreesWritten is its recursion.
LEMMA TreesWrittenIs ==
  ASSUME NEW m, m = storage, NEW ds, ds = {data[i] : i \in DOMAIN data}, NEW ts, ts = IndexTrees
  PROVE  \E w : Writing(w, m, ds, ts)
<1>1. PICK a : a = [m |-> m, ds |-> ds, ts |-> ts] OBVIOUS
<1> DEFINE f == WroteR!Rec(a, Nat)
<1>2. a.m = storage /\ a.ds = {data[i] : i \in DOMAIN data} /\ a.ts = IndexTrees BY <1>1
<1>3. TreesWritten = f[Len(ts)] BY <1>2 DEF TreesWritten, WroteR!Rec, WroteBody
<1>4. \A g, h : WroteBody(a, g, 0) = WroteBody(a, h, 0) BY DEF WroteBody
<1>5. \A g, h : \A n \in Nat : g[n] = h[n] => WroteBody(a, g, n + 1) = WroteBody(a, h, n + 1)
  BY DEF WroteBody
<1>6. f[0] = WroteBody(a, f, 0) /\ \A n \in Nat : f[n + 1] = WroteBody(a, f, n + 1)
  BY <1>4, <1>5, Counting, WroteR!Stepped
<1> HIDE DEF f
<1>7. f[0] = WriteBlobs(Opened(m), ds) BY <1>2, <1>6 DEF WroteBody
<1>8. ASSUME NEW n \in Nat PROVE f[n + 1] = WriteTreeObject(f[n], ts[n + 1])
  <2>1. n + 1 # 0 /\ (n + 1) - 1 = n OBVIOUS
  <2>2. f[n + 1] = WriteTreeObject(f[(n + 1) - 1], a.ts[n + 1]) BY <1>6, <2>1, Zenon DEF WroteBody
  <2> QED BY <1>2, <2>1, <2>2, Zenon
<1>9. PICK w : w = f OBVIOUS
<1>10. w[0] = WriteBlobs(Opened(m), ds) /\ TreesWritten = w[Len(ts)] BY <1>3, <1>7, <1>9
<1>11. \A n \in Nat : w[n + 1] = WriteTreeObject(w[n], ts[n + 1]) BY <1>8, <1>9
<1> QED BY <1>10, <1>11 DEF Writing

\* The storage k has what m has, the blobs of ds and the first n of the trees ts.
Carries(k, m, ds, ts, n) ==
    /\ DOMAIN m \subseteq DOMAIN k
    /\ \A d \in ds : BlobOf(d) \in DOMAIN k
    /\ \A i \in 1 .. n : TreeOf(ts[i]) \in DOMAIN k

\* A tree is written after what it names.
LEMMA TreeCarried ==
  ASSUME NEW ts, NEW ds, TreesIn(ts, ds), NEW n \in 1 .. Len(ts),
         NEW k, NEW m, Carries(k, m, ds, ts, n - 1)
  PROVE  /\ IsTree(ts[n])
         /\ \A j \in 1 .. Len(ts[n]) : EntryHash(ts[n][j]) \in DOMAIN k
<1>1. PICK t : t = ts[n] OBVIOUS
<1>2. IsSeq(t) /\ \A j \in 1 .. Len(t) : Child(t[j], ds, ts, n - 1) BY <1>1 DEF TreesIn, TreeIn
<1>3. IsTree(t) BY <1>2 DEF IsTree, Child
<1>4. ASSUME NEW j \in 1 .. Len(t) PROVE EntryHash(t[j]) \in DOMAIN k
  <2>1. PICK e : e = t[j] OBVIOUS
  <2>2. Child(e, ds, ts, n - 1) BY <1>2, <2>1
  <2>3. CASE e.dir = FALSE /\ e.node \in ds BY <2>1, <2>3 DEF EntryHash, Carries
  <2>4. CASE e.dir = TRUE /\ \E i \in 1 .. n - 1 : e.node = ts[i]
    BY <2>1, <2>4 DEF EntryHash, Carries
  <2> QED BY <2>2, <2>3, <2>4 DEF Child
<1> QED BY <1>1, <1>3, <1>4

\* Storage that gets an object whose parts it has.
LEMMA ClosedAdded ==
  ASSUME NEW m, Closed(m), NEW h, NEW k, DOMAIN k = DOMAIN m \cup {h},
         h.tag = "tree" => \A j \in 1 .. Len(h.body) : EntryHash(h.body[j]) \in DOMAIN m
  PROVE  Closed(k)
  BY Zenon DEF Closed

\* When all trees are written, all that they name is there.
LEMMA TreesCarried ==
  ASSUME Inv, StorageOk(storage), Closed(storage),
         NEW ds, ds = {data[i] : i \in DOMAIN data}, NEW ts, ts = IndexTrees,
         NEW s, s = TreesWritten
  PROVE  Sound(s) /\ Closed(s.storage) /\ Carries(s.storage, storage, ds, ts, Len(ts))
<1>1. PICK m : m = storage OBVIOUS
<1>15. PICK w : Writing(w, m, ds, ts) BY <1>1, TreesWrittenIs
<1>2. /\ w[0] = WriteBlobs(Opened(m), ds)
      /\ \A n \in Nat : w[n + 1] = WriteTreeObject(w[n], ts[n + 1])
      /\ TreesWritten = w[Len(ts)]
  BY <1>15 DEF Writing
<1>3. TreesIn(ts, ds) BY IndexTreesAre
<1>4. PICK len \in Nat : len = Len(ts) BY <1>3, SeqIs DEF TreesIn
<1> DEFINE A == {n \in Nat : n <= len =>
                  Sound(w[n]) /\ Closed(w[n].storage) /\ Carries(w[n].storage, m, ds, ts, n)}
<1>5. 0 \in A
  <2>1. PICK o, r, B : o = Opened(m) /\ r = WriteBlobs(o, ds) /\ B = {BlobOf(d) : d \in ds} OBVIOUS
  <2>2. Sound(o) /\ o.storage = m BY <1>1, <2>1, OpenedSound
  <2>3. ds \in SUBSET Data BY Arrays DEF Inv
  <2>4. Sound(r) /\ Added(o.storage, B, r.storage) BY <2>1, <2>2, <2>3, BlobsWritten
  <2>5. DOMAIN r.storage = DOMAIN m \cup B BY <2>2, <2>4 DEF Added
  <2>6. \A h \in B : h.tag = "blob" BY <2>1 DEF BlobOf
  <2>7. Closed(r.storage) BY <1>1, <2>5, <2>6 DEF Closed
  <2>8. Carries(r.storage, m, ds, ts, 0) BY <2>1, <2>5 DEF Carries
  <2>9. r = w[0] BY <1>2, <2>1
  <2> QED BY <2>4, <2>7, <2>8, <2>9
<1>6. ASSUME NEW n \in Nat, n \in A PROVE n + 1 \in A
  <2> SUFFICES ASSUME n + 1 <= len
               PROVE  /\ Sound(w[n + 1]) /\ Closed(w[n + 1].storage)
                      /\ Carries(w[n + 1].storage, m, ds, ts, n + 1)
    OBVIOUS
  <2>1. PICK p, r, i : p = w[n] /\ r = w[n + 1] /\ i = n + 1 OBVIOUS
  <2>2. PICK t : t = ts[i] OBVIOUS
  <2>3. n <= len OBVIOUS
  <2>4. Sound(p) /\ Closed(p.storage) /\ Carries(p.storage, m, ds, ts, n) BY <1>6, <2>1, <2>3
  <2>5. i \in 1 .. Len(ts) /\ i - 1 = n BY <1>4, <2>1
  <2>6. IsTree(t) /\ \A j \in 1 .. Len(t) : EntryHash(t[j]) \in DOMAIN p.storage
    <3>1. Carries(p.storage, m, ds, ts, i - 1) BY <2>4, <2>5
    <3> QED BY <1>3, <2>2, <2>5, <3>1, TreeCarried
  <2>7. r = WriteTreeObject(p, t) BY <1>2, <2>1, <2>2, Zenon
  <2>8. Sound(r) /\ Added(p.storage, {TreeOf(t)}, r.storage) BY <2>4, <2>6, <2>7, TreeWritten
  <2>9. PICK h : h = TreeOf(t) OBVIOUS
  <2>10. DOMAIN r.storage = DOMAIN p.storage \cup {h} BY <2>8, <2>9, Zenon DEF Added
  <2>11. h.body = t BY <2>9 DEF TreeOf
  <2>12. Closed(r.storage) BY <2>4, <2>6, <2>10, <2>11, ClosedAdded
  <2>13. \A j \in 1 .. i : TreeOf(ts[j]) \in DOMAIN r.storage
    <3> TAKE j \in 1 .. i
    <3>1. j \in 1 .. n \/ j = i BY <2>1
    <3> QED BY <2>2, <2>4, <2>9, <2>10, <3>1 DEF Carries
  <2>14. Carries(r.storage, m, ds, ts, i) BY <2>4, <2>10, <2>13, Zenon DEF Carries
  <2> QED BY <2>1, <2>8, <2>12, <2>14
<1>7. len \in A
  <2> HIDE DEF A
  <2> QED BY <1>5, <1>6, Counting
<1> QED BY <1>1, <1>2, <1>4, <1>7

----------------------------
\* log.

\* The commits, each with the one before as its parent, and their trees are in the storage.
HistoryOk(cs, m) ==
    /\ IsSeq(cs)
    /\ \A i \in 1 .. Len(cs) :
        /\ IsCommit(cs[i]) /\ CommitOf(cs[i]) \in DOMAIN m /\ TreeOf(cs[i].tree) \in DOMAIN m
        /\ i = 1 => cs[i].parents = <<>>
        /\ i # 1 => cs[i].parents = <<cs[i - 1]>>

\* A commit is added to the history.
LEMMA HistoryMore ==
  ASSUME NEW cs, NEW m, HistoryOk(cs, m), NEW k, DOMAIN m \subseteq DOMAIN k,
         NEW c, IsCommit(c), CommitOf(c) \in DOMAIN k, TreeOf(c.tree) \in DOMAIN k,
         c.parents = IF cs = <<>> THEN <<>> ELSE <<Last(cs)>>,
         NEW ds, ds = Append(cs, c)
  PROVE  HistoryOk(ds, k)
<1>1. PICK n \in Nat : n = Len(cs) BY SeqIs DEF HistoryOk
<1>2. IsSeq(ds) /\ Len(ds) = n + 1 /\ (\A i \in 1 .. n : ds[i] = cs[i]) /\ ds[n + 1] = c
  BY <1>1, SeqAppend DEF HistoryOk
<1>3. ASSUME NEW i \in 1 .. n + 1
      PROVE  /\ IsCommit(ds[i]) /\ CommitOf(ds[i]) \in DOMAIN k /\ TreeOf(ds[i].tree) \in DOMAIN k
             /\ i = 1 => ds[i].parents = <<>>
             /\ i # 1 => ds[i].parents = <<ds[i - 1]>>
  <2>1. CASE i = n + 1
    <3>1. ds[i] = c BY <1>2, <2>1
    <3>2. CASE i = 1
      <4>1. cs = <<>> BY <1>1, <2>1, <3>2, SeqIs DEF HistoryOk
      <4> QED BY <3>1, <3>2, <4>1
    <3>3. CASE i # 1
      <4>1. cs # <<>> BY <1>1, <2>1, <3>3, SeqIs DEF HistoryOk
      <4>2. PICK y : y = Last(cs) OBVIOUS
      <4>3. i - 1 = n /\ n \in 1 .. n BY <2>1, <3>3
      <4>4. ds[i - 1] = y BY <1>1, <1>2, <4>2, <4>3 DEF Last
      <4>5. c.parents = <<y>> BY <4>1, <4>2
      <4> QED BY <3>1, <3>3, <4>4, <4>5
    <3> QED BY <3>2, <3>3
  <2>2. CASE i # n + 1
    <3>1. i \in 1 .. n BY <2>2
    <3>2. ds[i] = cs[i] BY <1>2, <3>1
    <3>3. /\ IsCommit(cs[i]) /\ CommitOf(cs[i]) \in DOMAIN m /\ TreeOf(cs[i].tree) \in DOMAIN m
          /\ i = 1 => cs[i].parents = <<>>
          /\ i # 1 => cs[i].parents = <<cs[i - 1]>>
      BY <1>1, <3>1 DEF HistoryOk
    <3>4. ASSUME i # 1 PROVE ds[i - 1] = cs[i - 1]
      <4>1. i - 1 \in 1 .. n BY <3>1, <3>4
      <4> QED BY <1>2, <4>1
    <3> QED BY <3>2, <3>3, <3>4, Zenon
  <2> QED BY <2>1, <2>2
<1>4. \A i \in 1 .. Len(ds) :
          /\ IsCommit(ds[i]) /\ CommitOf(ds[i]) \in DOMAIN k /\ TreeOf(ds[i].tree) \in DOMAIN k
          /\ i = 1 => ds[i].parents = <<>>
          /\ i # 1 => ds[i].parents = <<ds[i - 1]>>
  BY <1>2, <1>3, Zenon
<1> QED BY <1>2, <1>4, Zenon DEF HistoryOk

\* The history when more is stored.
LEMMA HistoryLater ==
  ASSUME NEW cs, NEW m, HistoryOk(cs, m), NEW k, DOMAIN m \subseteq DOMAIN k
  PROVE  HistoryOk(cs, k)
  BY Zenon DEF HistoryOk

\* The last commit.
LEMMA LastCommit ==
  ASSUME NEW cs, NEW m, HistoryOk(cs, m), cs # <<>>
  PROVE  /\ Len(cs) \in 1 .. Len(cs) /\ Last(cs) = cs[Len(cs)]
         /\ TreeOf(Last(cs).tree) \in DOMAIN m
<1>1. PICK n \in Nat \ {0} : n = Len(cs) BY SeqIs DEF HistoryOk
<1>2. n \in 1 .. n OBVIOUS
<1> QED BY <1>1, <1>2 DEF Last, HistoryOk

----------------------------
\* log after n commits.
LogBody(a, f, n) ==
    IF n = 0 THEN [process |-> a.process, next |-> <<a.h>>, shown |-> <<>>] ELSE LogOne(f[n - 1])
LogR == INSTANCE Recursion WITH Body <- LogBody

Showing(f, s, h, limit) ==
    /\ f[0] = [process |-> s, next |-> <<h>>, shown |-> <<>>]
    /\ \A n \in Nat : f[n + 1] = LogOne(f[n])
    /\ Log(s, h, limit) = f[limit].shown

\* Log is its recursion.
LEMMA LogIs == ASSUME NEW s, NEW h, NEW limit PROVE \E f : Showing(f, s, h, limit)
<1>1. PICK a : a = [process |-> s, h |-> h] OBVIOUS
<1> DEFINE f == LogR!Rec(a, Nat)
<1>2. a.process = s /\ a.h = h BY <1>1
<1>3. Log(s, h, limit) = f[limit].shown BY <1>2 DEF Log, LogR!Rec, LogBody
<1>4. \A g, k : LogBody(a, g, 0) = LogBody(a, k, 0) BY DEF LogBody
<1>5. \A g, k : \A n \in Nat : g[n] = k[n] => LogBody(a, g, n + 1) = LogBody(a, k, n + 1)
  BY DEF LogBody
<1>6. f[0] = LogBody(a, f, 0) /\ \A n \in Nat : f[n + 1] = LogBody(a, f, n + 1)
  BY <1>4, <1>5, Counting, LogR!Stepped
<1> HIDE DEF f
<1>7. f[0] = [process |-> s, next |-> <<h>>, shown |-> <<>>] BY <1>2, <1>6 DEF LogBody
<1>8. ASSUME NEW n \in Nat PROVE f[n + 1] = LogOne(f[n])
  <2>1. n + 1 # 0 /\ (n + 1) - 1 = n OBVIOUS
  <2> QED BY <1>6, <2>1, Zenon DEF LogBody
<1> QED BY <1>3, <1>7, <1>8, Zenon DEF Showing

\* n commits are shown, the last of them first.
Shown(l, s, cs, len, n) ==
    /\ l = [process |-> l.process, next |-> l.next, shown |-> l.shown]
    /\ Sound(l.process) /\ l.process.storage = s.storage
    /\ IsSeq(l.shown) /\ Len(l.shown) = n
    /\ \A i \in 1 .. n : l.shown[i] = cs[len - i + 1]
    /\ n = len => l.next = <<>>
    /\ n < len => l.next = <<CommitOf(cs[len - n])>>

\* One commit more is shown.
LEMMA LogOneIs ==
  ASSUME NEW s, NEW cs, HistoryOk(cs, s.storage), NEW len \in Nat, len = Len(cs),
         NEW n \in Nat, n < len, NEW l, Shown(l, s, cs, len, n), NEW k, k = LogOne(l)
  PROVE  Shown(k, s, cs, len, n + 1)
<1>1. /\ l = [process |-> l.process, next |-> l.next, shown |-> l.shown]
      /\ Sound(l.process) /\ l.process.storage = s.storage
      /\ IsSeq(l.shown) /\ Len(l.shown) = n
      /\ \A i \in 1 .. n : l.shown[i] = cs[len - i + 1]
      /\ l.next = <<CommitOf(cs[len - n])>>
  BY DEF Shown
<1>2. PICK j : j = len - n OBVIOUS
<1>3. j \in 1 .. len BY <1>2
<1>4. PICK c, h : c = cs[j] /\ h = CommitOf(c) OBVIOUS
<1>5. /\ IsCommit(c) /\ h \in DOMAIN s.storage
      /\ j = 1 => c.parents = <<>>
      /\ j # 1 => c.parents = <<cs[j - 1]>>
  BY <1>3, <1>4 DEF HistoryOk
<1>6. l.next # <<>> /\ l.next[1] = h
  <2>1. PICK o : o = <<h>> OBVIOUS
  <2>2. l.next = o BY <1>1, <1>2, <1>4, <2>1
  <2>3. IsSeq(o) /\ Len(o) = 1 /\ o[1] = h BY <2>1, SeqOne
  <2>5. IsSeq(o) /\ Len(o) # 0 BY <2>3
  <2>4. o # <<>> BY <2>5, SeqIs, Zenon
  <2> QED BY <2>2, <2>3, <2>4
<1>7. PICK read : read = ReadObject(l.process, h) OBVIOUS
<1>8. Sound(read) /\ read.storage = s.storage /\ Got(read.stores, h) BY <1>1, <1>5, <1>7, ObjectRead
<1>9. CommitAt(read.stores.commit, LastId(read.stores, "commit")) = c
  <2>1. h.tag = "commit" /\ Body(h) = c BY <1>4 DEF CommitOf, Body
  <2>2. At(read.stores, "commit", LastId(read.stores, "commit")) = c BY <1>8, <2>1, Zenon DEF Got
  <2> QED BY <2>2, AtIs, Zenon
<1>20. PICK o : o = IF c.parents = <<>> THEN <<>> ELSE <<CommitOf(c.parents[1])>> OBVIOUS
<1>21. h.tag = "commit" BY <1>4 DEF CommitOf
<1>10. k = [process |-> read, shown |-> Append(l.shown, c), next |-> o]
  BY <1>6, <1>7, <1>9, <1>20, <1>21, Zenon DEF LogOne
<1>22. j = 1 => o = <<>> BY <1>5, <1>20
<1>23. j # 1 => o = <<CommitOf(cs[j - 1])>>
  <2>1. PICK d, u : d = cs[j - 1] /\ u = <<d>> OBVIOUS
  <2>2. IsSeq(u) /\ Len(u) # 0 /\ u[1] = d BY <2>1, SeqOne
  <2>3. u # <<>> BY <2>2, SeqIs, Zenon
  <2> QED BY <1>5, <1>20, <2>1, <2>2, <2>3
<1>11. PICK t : t = Append(l.shown, c) OBVIOUS
<1>12. IsSeq(t) /\ Len(t) = n + 1 /\ (\A i \in 1 .. n : t[i] = l.shown[i]) /\ t[n + 1] = c
  BY <1>1, <1>11, SeqAppend
<1>13. /\ k = [process |-> k.process, next |-> k.next, shown |-> k.shown]
       /\ k.process = read /\ k.next = o /\ k.shown = t
  BY <1>10, <1>11
<1>14. \A i \in 1 .. n + 1 : k.shown[i] = cs[len - i + 1]
  <2> TAKE i \in 1 .. n + 1
  <2>1. CASE i = n + 1
    <3>1. len - i + 1 = j BY <1>2, <2>1
    <3> QED BY <1>4, <1>12, <1>13, <2>1, <3>1
  <2>2. CASE i # n + 1
    <3>1. i \in 1 .. n BY <2>2
    <3> QED BY <1>1, <1>12, <1>13, <3>1
  <2> QED BY <2>1, <2>2
<1>15. n + 1 = len => k.next = <<>> BY <1>2, <1>13, <1>22
<1>16. n + 1 < len => k.next = <<CommitOf(cs[len - (n + 1)])>>
  <2> SUFFICES ASSUME n + 1 < len PROVE k.next = <<CommitOf(cs[len - (n + 1)])>> OBVIOUS
  <2>1. j # 1 /\ j - 1 = len - (n + 1) BY <1>2
  <2> QED BY <1>13, <1>23, <2>1
<1>17. PICK m : m = n + 1 OBVIOUS
<1>18. /\ IsSeq(k.shown) /\ Len(k.shown) = m
       /\ \A i \in 1 .. m : k.shown[i] = cs[len - i + 1]
       /\ m = len => k.next = <<>>
       /\ m < len => k.next = <<CommitOf(cs[len - m])>>
  BY <1>12, <1>13, <1>14, <1>15, <1>16, <1>17, Zenon
<1> QED BY <1>8, <1>13, <1>17, <1>18, Zenon DEF Shown

\* All commits are shown, the last of them first.
LEMMA LogShows ==
  ASSUME NEW s, Sound(s), NEW cs, HistoryOk(cs, s.storage), cs # <<>>
  PROVE  Log(s, CommitOf(Last(cs)), Len(cs) + 1) = Reverse(cs)
<1>1. PICK len \in Nat : len = Len(cs) BY SeqIs DEF HistoryOk
<1>2. len \in 1 .. len /\ Last(cs) = cs[len] BY <1>1, LastCommit
<1>3. PICK f : Showing(f, s, CommitOf(Last(cs)), len + 1) BY LogIs
<1>4. /\ f[0] = [process |-> s, next |-> <<CommitOf(Last(cs))>>, shown |-> <<>>]
      /\ \A n \in Nat : f[n + 1] = LogOne(f[n])
      /\ Log(s, CommitOf(Last(cs)), len + 1) = f[len + 1].shown
  BY <1>3 DEF Showing
<1> DEFINE A == {n \in Nat : n <= len => Shown(f[n], s, cs, len, n)}
<1>5. 0 \in A
  <2>1. PICK l, h : l = f[0] /\ h = CommitOf(Last(cs)) OBVIOUS
  <2>2. l = [process |-> s, next |-> <<h>>, shown |-> <<>>] BY <1>4, <2>1
  <2>3. len - 0 = len /\ 0 # len /\ \A i \in 1 .. 0 : FALSE BY <1>2
  <2>4. l.next = <<CommitOf(cs[len - 0])>> BY <1>2, <2>1, <2>2, <2>3
  <2>5. /\ l = [process |-> l.process, next |-> l.next, shown |-> l.shown]
        /\ l.process = s /\ l.shown = <<>>
    BY <2>2
  <2>6. Shown(l, s, cs, len, 0) BY <2>3, <2>4, <2>5, SeqEmpty, Zenon DEF Shown
  <2> QED BY <2>1, <2>6
<1>6. ASSUME NEW n \in Nat, n \in A PROVE n + 1 \in A
  <2> SUFFICES ASSUME n + 1 <= len PROVE Shown(f[n + 1], s, cs, len, n + 1) OBVIOUS
  <2>1. n < len /\ n <= len OBVIOUS
  <2>2. Shown(f[n], s, cs, len, n) BY <1>6, <2>1
  <2>3. f[n + 1] = LogOne(f[n]) BY <1>4
  <2> QED BY <1>1, <2>1, <2>2, <2>3, LogOneIs
<1>7. len \in A
  <2> HIDE DEF A
  <2> QED BY <1>5, <1>6, Counting
<1>8. PICK l, r : l = f[len] /\ r = f[len + 1] OBVIOUS
<1>9. Shown(l, s, cs, len, len) BY <1>7, <1>8
<1>10. r = LogOne(l) BY <1>4, <1>8
<1>11. r = l BY <1>9, <1>10 DEF LogOne, Shown
<1>12. IsSeq(l.shown) /\ Len(l.shown) = len /\ \A i \in 1 .. len : l.shown[i] = cs[len - i + 1]
  BY <1>9 DEF Shown
<1>13. PICK v : v = Reverse(cs) OBVIOUS
<1>14. v = [i \in 1 .. len |-> cs[len - i + 1]] BY <1>1, <1>13 DEF Reverse
<1>15. v = [i \in 1 .. len |-> v[i]] /\ \A i \in 1 .. len : v[i] = cs[len - i + 1] BY <1>14
<1>16. IsSeq(v) /\ Len(v) = len BY <1>15, SeqMade
<1>17. l.shown = v
  <2>1. PICK u : u = l.shown OBVIOUS
  <2>2. IsSeq(u) /\ Len(u) = Len(v) /\ \A i \in 1 .. Len(u) : u[i] = v[i]
    BY <1>12, <1>15, <1>16, <2>1
  <2>3. u = v BY <1>16, <2>2, SeqSame
  <2> QED BY <2>1, <2>3
<1> QED BY <1>1, <1>4, <1>8, <1>11, <1>13, <1>17

----------------------------
\* IndexTree.

\* What was staged when a commit was made is in the storage, and so is the tree of it.
IndexStored ==
    commits # <<>> => /\ \A i \in DOMAIN data : BlobOf(data[i]) \in DOMAIN storage
                      /\ TreeOf(Committed) \in DOMAIN storage

TreeInv ==
    /\ Inv
    /\ Sound(Session) /\ Closed(storage) /\ HeldOk(held, stores)
    /\ HistoryOk(commits, storage) /\ IndexStored

\* What the process has.
LEMMA SessionIs ==
  /\ Session = [storage |-> storage, stores |-> stores, cache |-> cache]
  /\ Session.storage = storage /\ Session.stores = stores /\ Session.cache = cache
  BY DEF Session

\* No object yet.
LEMMA EmptyStorage == ASSUME NEW m, m = [h \in {} |-> 0] PROVE StorageOk(m) /\ Closed(m)
<1>1. m = [h \in DOMAIN m |-> m[h]] /\ DOMAIN m = {} OBVIOUS
<1> QED BY <1>1 DEF StorageOk, Closed

\* The invariant holds at first.
LEMMA TreeInitInv == TreeInit => TreeInv
<1> SUFFICES ASSUME TreeInit PROVE TreeInv OBVIOUS
<1>1. /\ Init /\ storage = [h \in {} |-> 0] /\ stores = NoStores /\ cache = NoCache
      /\ held = <<>> /\ commits = <<>>
  BY DEF TreeInit, ObjectsInit
<1>2. Inv BY <1>1, InitInv
<1>3. StorageOk(storage) /\ Closed(storage) BY <1>1, EmptyStorage
<1>4. Session = Opened(storage) BY <1>1 DEF Session, Opened
<1>5. Sound(Session) BY <1>3, <1>4, OpenedSound
<1>6. HeldOk(held, stores) BY <1>1, HeldNone
<1>7. HistoryOk(commits, storage) BY <1>1, SeqEmpty DEF HistoryOk
<1>8. IndexStored BY <1>1 DEF IndexStored
<1> QED BY <1>2, <1>3, <1>5, <1>6, <1>7, <1>8 DEF TreeInv

\* The index does not change.
LEMMA IndexKept == ASSUME Inv, UNCHANGED vars PROVE Inv'
  BY StepInv

\* The index changes before the first commit.
LEMMA IndexInv ==
  ASSUME TreeInv, commits = <<>>, Next, UNCHANGED <<objvars, commits>> PROVE TreeInv'
<1>1. Inv' BY StepInv DEF TreeInv
<1>2. storage' = storage /\ stores' = stores /\ cache' = cache /\ held' = held /\ commits' = commits
  BY DEF objvars
<1>3. Sound(Session)' BY <1>2 DEF TreeInv, Session
<1>4. Closed(storage)' /\ HeldOk(held, stores)' /\ HistoryOk(commits, storage)' BY <1>2 DEF TreeInv
<1>5. IndexStored' BY <1>2 DEF IndexStored
<1> QED BY <1>1, <1>3, <1>4, <1>5 DEF TreeInv

\* A process starts.
LEMMA OpenInv == ASSUME TreeInv, Open, UNCHANGED <<vars, commits>> PROVE TreeInv'
<1>1. Inv' BY IndexKept DEF TreeInv
<1>2. PICK m : m = storage OBVIOUS
<1>3. StorageOk(m) /\ Closed(m) /\ HistoryOk(commits, m) BY <1>2, SessionIs DEF TreeInv, Sound
<1>4. PICK s : s = Opened(m) OBVIOUS
<1>5. Sound(s) /\ s.storage = m BY <1>3, <1>4, OpenedSound
<1>6. storage' = m /\ stores' = s.stores /\ cache' = s.cache /\ held' = <<>>
  BY <1>2, <1>4, <1>5 DEF Open, Becomes
<1>7. Session' = s BY <1>5, <1>6 DEF Session, Sound
<1>8. HeldOk(held, stores)' BY <1>6, HeldNone
<1>9. commits' = commits /\ data' = data /\ Committed' = Committed BY CommittedKept
<1>10. IndexStored' BY <1>2, <1>6, <1>9 DEF TreeInv, IndexStored
<1>11. Sound(Session)' /\ Closed(storage)' /\ HistoryOk(commits, storage)'
  BY <1>3, <1>5, <1>6, <1>7, <1>9
<1> QED BY <1>1, <1>8, <1>10, <1>11 DEF TreeInv

\* A process reads or writes an object.
LEMMA HoldsInv ==
  ASSUME TreeInv, UNCHANGED <<vars, commits>>,
         NEW s, Sound(s), Closed(s.storage), DOMAIN storage \subseteq DOMAIN s.storage,
         Kept(stores, s.stores), Becomes(s),
         NEW h, IsHash(h), Got(s.stores, h), Holds(h)
  PROVE  TreeInv'
<1>1. Inv' BY IndexKept DEF TreeInv
<1>2. storage' = s.storage /\ stores' = s.stores /\ cache' = s.cache BY DEF Becomes
<1>3. Session' = s BY <1>2 DEF Session, Sound
<1>4. held' = Append(held, [hash |-> h, id |-> LastId(stores', h.tag)]) BY DEF Holds
<1>5. HeldOk(held, stores)'
  <2>1. PICK v, gs : v = s.stores /\ gs = Append(held, [hash |-> h, id |-> LastId(v, h.tag)])
    OBVIOUS
  <2>2. HeldOk(gs, v) BY <2>1, HeldMore DEF TreeInv
  <2>3. held' = gs /\ stores' = v BY <1>2, <1>4, <2>1
  <2> QED BY <2>2, <2>3
<1>6. commits' = commits /\ data' = data /\ Committed' = Committed BY CommittedKept
<1>7. HistoryOk(commits, storage)' BY <1>2, <1>6, HistoryLater DEF TreeInv
<1>8. IndexStored' BY <1>2, <1>6 DEF TreeInv, IndexStored
<1>9. Sound(Session)' /\ Closed(storage)' BY <1>2, <1>3
<1> QED BY <1>1, <1>5, <1>7, <1>8, <1>9 DEF TreeInv

\* A process reads an object, through the cache or past it.
LEMMA ReadInv ==
  ASSUME TreeInv, NEW h \in DOMAIN storage, UNCHANGED <<vars, commits>>, Read(h) \/ ReadOnce(h)
  PROVE  TreeInv'
<1>1. PICK s : s = Session OBVIOUS
<1>2. /\ Sound(s) /\ Closed(storage)
      /\ s.storage = storage /\ s.stores = stores
  BY <1>1, SessionIs DEF TreeInv
<1>3. IsHash(h) BY <1>2 DEF Sound, StorageOk
<1>4. CASE Read(h)
  <2>1. PICK r : r = ReadObject(s, h) OBVIOUS
  <2>2. Sound(r) /\ r.storage = s.storage /\ Kept(s.stores, r.stores) /\ Got(r.stores, h)
    BY <1>2, <2>1, ObjectRead
  <2>3. Becomes(r) /\ Holds(h) BY <1>1, <1>4, <2>1 DEF Read
  <2> QED BY <1>2, <1>3, <2>2, <2>3, HoldsInv
<1>5. CASE ReadOnce(h)
  <2>1. PICK r : r = ReadPast(s, h) OBVIOUS
  <2>2. Sound(r) /\ r.storage = s.storage /\ Kept(s.stores, r.stores) /\ Got(r.stores, h)
    BY <1>2, <2>1, ObjectReadPast
  <2>3. Becomes(r) /\ Holds(h) BY <1>1, <1>5, <2>1 DEF ReadOnce
  <2> QED BY <1>2, <1>3, <2>2, <2>3, HoldsInv
<1> QED BY <1>4, <1>5

\* A process follows a path.
LEMMA WalkInv ==
  ASSUME TreeInv, commits # <<>>, NEW p \in Paths, UNCHANGED <<vars, commits>>,
         WalkPath(TreeOf(Last(commits).tree), p)
  PROVE  TreeInv'
<1>1. PICK s, h : s = Session /\ h = TreeOf(Last(commits).tree) OBVIOUS
<1>2. /\ Sound(s) /\ Closed(storage)
      /\ s.storage = storage /\ s.stores = stores
  BY <1>1, SessionIs DEF TreeInv
<1>3. h \in DOMAIN s.storage BY <1>1, <1>2, LastCommit DEF TreeInv
<1>4. IsSeq(p) BY PathAssumption DEF IsSeq
<1>5. PICK w : w = WalkTree(s, h, p) OBVIOUS
<1>6. WalkOk(w, s) BY <1>2, <1>3, <1>4, <1>5, WalkEnds
<1>7. PICK e \in w.result : Becomes(w.process) /\ Holds(e) BY <1>1, <1>5 DEF WalkPath
<1>8. /\ Sound(w.process) /\ w.process.storage = s.storage /\ Kept(s.stores, w.process.stores)
      /\ e \in DOMAIN s.storage /\ Got(w.process.stores, e)
  BY <1>6, <1>7 DEF WalkOk
<1>9. IsHash(e) BY <1>2, <1>8 DEF Sound, StorageOk
<1> QED BY <1>2, <1>7, <1>8, <1>9, HoldsInv

\* The tree that stash writes.
LEMMA StashTreeIs ==
  ASSUME Inv, NEW t, t = StashEntries
  PROVE  IsTree(t) /\ \A j \in 1 .. Len(t) : j \in DOMAIN data /\ EntryHash(t[j]) = BlobOf(data[j])
<1>1. PICK n \in Nat : n = Len(paths) BY Arrays, Zenon DEF Inv
<1>2. /\ DOMAIN paths = 1 .. n /\ DOMAIN data = 1 .. n
      /\ \A i \in 1 .. n : paths[i] \in Paths
  BY <1>1, Arrays DEF Inv
<1>3. t = [i \in 1 .. n |-> File(paths[i], data[i])] BY <1>2 DEF StashEntries
<1>4. t = [i \in 1 .. n |-> t[i]] /\ \A i \in 1 .. n : t[i] = File(paths[i], data[i]) BY <1>3
<1>5. IsSeq(t) /\ Len(t) = n BY <1>4, SeqMade
<1>6. ASSUME NEW j \in 1 .. n PROVE IsEntry(t[j]) /\ EntryHash(t[j]) = BlobOf(data[j])
  <2>1. PICK e, dir : e = t[j] /\ dir = FALSE OBVIOUS
  <2>2. e = [name |-> paths[j], dir |-> dir, node |-> data[j]] BY <1>4, <2>1, Zenon DEF File
  <2>3. e = [name |-> e.name, dir |-> e.dir, node |-> e.node] /\ e.name = paths[j]
        /\ e.dir = dir /\ e.node = data[j]
    BY <2>2
  <2>4. IsSeq(paths[j]) BY <1>2, PathAssumption DEF IsSeq
  <2>5. IsEntry(e) BY <2>3, <2>4 DEF IsEntry
  <2>6. EntryHash(e) = BlobOf(data[j]) BY <2>1, <2>3, Zenon DEF EntryHash
  <2> QED BY <2>1, <2>5, <2>6
<1> QED BY <1>2, <1>5, <1>6, SMTT(30) DEF IsTree

\* A process writes the tree that stash writes.
LEMMA StashInv ==
  ASSUME TreeInv, commits # <<>>, UNCHANGED <<vars, commits>>, WriteEntries(StashEntries)
  PROVE  TreeInv'
<1>1. PICK s, t : s = Session /\ t = StashEntries OBVIOUS
<1>2. /\ Sound(s) /\ Closed(storage)
      /\ s.storage = storage /\ s.stores = stores
  BY <1>1, SessionIs DEF TreeInv
<1>3. IsTree(t) /\ \A j \in 1 .. Len(t) : EntryHash(t[j]) \in DOMAIN storage
  BY <1>1, StashTreeIs DEF TreeInv, IndexStored
<1>4. PICK r, h : r = WriteTreeObject(s, t) /\ h = TreeOf(t) OBVIOUS
<1>5. /\ Sound(r) /\ Added(s.storage, {h}, r.storage)
      /\ Kept(s.stores, r.stores) /\ Got(r.stores, h)
  BY <1>2, <1>3, <1>4, TreeWritten
<1>6. IsHash(h) BY <1>3, <1>4 DEF IsHash
<1>7. DOMAIN r.storage = DOMAIN storage \cup {h} BY <1>2, <1>5 DEF Added
<1>8. h.body = t BY <1>4 DEF TreeOf
<1>9. Closed(r.storage) BY <1>2, <1>3, <1>7, <1>8, ClosedAdded
<1>10. Becomes(r) /\ Holds(h) BY <1>1, <1>4 DEF WriteEntries
<1> QED BY <1>2, <1>5, <1>6, <1>7, <1>9, <1>10, HoldsInv

\* Whatever a process does.
LEMMA ProcessInv == ASSUME TreeInv, Process PROVE TreeInv'
<1>1. commits # <<>> /\ UNCHANGED <<vars, commits>> BY DEF Process
<1>2. ASSUME NEW hash \in DOMAIN storage, Read(hash) \/ ReadOnce(hash) PROVE TreeInv'
  BY <1>1, <1>2, ReadInv
<1>3. ASSUME NEW p \in Paths, WalkPath(TreeOf(Last(commits).tree), p) PROVE TreeInv'
  BY <1>1, <1>3, WalkInv
<1>4. CASE WriteEntries(StashEntries) BY <1>1, <1>4, StashInv
<1> QED BY <1>2, <1>3, <1>4 DEF Process

\* Index::write_tree and the commit, by a process that has just started.
LEMMA CommitInv == ASSUME TreeInv, Commit PROVE TreeInv'
<1>1. PICK ds, ts, s, m : /\ ds = {data[i] : i \in DOMAIN data} /\ ts = IndexTrees
                          /\ s = TreesWritten /\ m = storage
  OBVIOUS
<1>2. Inv /\ StorageOk(m) /\ Closed(m) /\ HistoryOk(commits, m)
  BY <1>1, SessionIs DEF TreeInv, Sound
<1>3. Sound(s) /\ Closed(s.storage) /\ Carries(s.storage, m, ds, ts, Len(ts))
  BY <1>1, <1>2, TreesCarried
<1>4. TreesIn(ts, ds) /\ ts # <<>> /\ Committed = Last(ts) BY <1>1, <1>2, IndexTreesAre
<1>5. Len(ts) \in 1 .. Len(ts) /\ Committed = ts[Len(ts)]
  <2>1. PICK n \in Nat \ {0} : n = Len(ts) BY <1>4, SeqIs DEF TreesIn
  <2>2. n \in 1 .. n OBVIOUS
  <2> QED BY <1>4, <2>1, <2>2 DEF Last
<1>6. TreeOf(Committed) \in DOMAIN s.storage BY <1>3, <1>5 DEF Carries
<1>7. PICK c : c = [tree |-> Committed, author |-> Author, message |-> Messages[Len(commits) + 1],
                    parents |-> IF commits = <<>> THEN <<>> ELSE <<Last(commits)>>]
  OBVIOUS
<1>8. /\ storage' = WriteCommit(s, c).storage /\ commits' = Append(commits, c)
      /\ stores' = NoStores /\ cache' = NoCache /\ held' = <<>> /\ UNCHANGED vars
      /\ Len(commits) < Len(Messages)
  BY <1>1, <1>7 DEF Commit
<1>9. /\ c = [tree |-> c.tree, author |-> c.author, message |-> c.message, parents |-> c.parents]
      /\ c.tree = Committed /\ c.author = Author /\ c.message = Messages[Len(commits) + 1]
      /\ c.parents = IF commits = <<>> THEN <<>> ELSE <<Last(commits)>>
  BY <1>7
<1>10. IsCommit(c)
  <2>1. IsSeq(Author) BY TextAssumption DEF IsSeq
  <2>2. IsSeq(Messages[Len(commits) + 1])
    <3>1. PICK i \in Nat, n \in Nat : i = Len(commits) /\ n = Len(Messages)
      BY <1>2, SeqIs, TextAssumption, LenProperties DEF HistoryOk
    <3>2. i + 1 \in 1 .. n BY <1>8, <3>1
    <3>3. Messages[i + 1] \in Seq(Nat) BY <3>1, <3>2, TextAssumption, ElementOfSeq
    <3> QED BY <3>1, <3>3 DEF IsSeq
  <2>3. IsSeq(c.parents)
    <3>1. CASE commits = <<>> BY <1>9, <3>1, SeqEmpty
    <3>2. CASE commits # <<>>
      <4>1. PICK y, o : y = Last(commits) /\ o = <<y>> OBVIOUS
      <4>2. IsSeq(o) BY <4>1, SeqOne
      <4> QED BY <1>9, <3>2, <4>1, <4>2
    <3> QED BY <3>1, <3>2
  <2> QED BY <1>9, <2>1, <2>2, <2>3 DEF IsCommit
<1>11. PICK r, k, h : r = WriteCommit(s, c) /\ k = r.storage /\ h = CommitOf(c) OBVIOUS
<1>12. Sound(r) /\ Added(s.storage, {h}, k) BY <1>3, <1>10, <1>11, CommitWritten
<1>13. StorageOk(k) /\ DOMAIN k = DOMAIN s.storage \cup {h} BY <1>12 DEF Added
<1>14. h.tag # "tree" BY <1>11 DEF CommitOf
<1>15. Closed(k) BY <1>3, <1>13, <1>14, ClosedAdded
<1>16. PICK o : o = Opened(k) OBVIOUS
<1>17. Sound(o) /\ o.storage = k /\ o = [storage |-> k, stores |-> NoStores, cache |-> NoCache]
  BY <1>13, <1>16, OpenedSound DEF Opened
<1>18. storage' = k BY <1>8, <1>11
<1>19. Session' = o BY <1>8, <1>17, <1>18 DEF Session
<1>20. PICK cs : cs = Append(commits, c) OBVIOUS
<1>21. DOMAIN m \subseteq DOMAIN k /\ h \in DOMAIN k /\ TreeOf(c.tree) \in DOMAIN k
  BY <1>3, <1>6, <1>9, <1>13 DEF Carries
<1>22. HistoryOk(cs, k) BY <1>2, <1>9, <1>10, <1>11, <1>20, <1>21, HistoryMore
<1>23. HistoryOk(commits, storage)' BY <1>8, <1>18, <1>20, <1>22
<1>24. IndexStored'
  <2>1. \A i \in DOMAIN data : BlobOf(data[i]) \in DOMAIN k BY <1>1, <1>3, <1>13 DEF Carries
  <2>2. data' = data /\ Committed' = Committed BY <1>8, CommittedKept
  <2>3. TreeOf(Committed) \in DOMAIN k BY <1>6, <1>13
  <2> QED BY <1>18, <2>1, <2>2, <2>3 DEF IndexStored
<1>25. HeldOk(held, stores)' BY <1>8, HeldNone
<1>26. Inv' BY <1>2, <1>8, IndexKept
<1>27. Sound(Session)' /\ Closed(storage)' BY <1>15, <1>17, <1>18, <1>19
<1> QED BY <1>23, <1>24, <1>25, <1>26, <1>27 DEF TreeInv

\* A step of nothing.
LEMMA StutterInv == ASSUME TreeInv, UNCHANGED allvars PROVE TreeInv'
<1>1. Inv' BY IndexKept DEF TreeInv, allvars
<1>2. /\ storage' = storage /\ stores' = stores /\ cache' = cache /\ held' = held
      /\ commits' = commits /\ data' = data /\ Committed' = Committed
  BY CommittedKept DEF allvars, objvars
<1>3. Sound(Session)' BY <1>2 DEF TreeInv, Session
<1>4. Closed(storage)' /\ HeldOk(held, stores)' /\ HistoryOk(commits, storage)' BY <1>2 DEF TreeInv
<1>5. IndexStored' BY <1>2 DEF TreeInv, IndexStored
<1> QED BY <1>1, <1>3, <1>4, <1>5 DEF TreeInv

\* Every step keeps the invariant.
LEMMA TreeStepInv == TreeInv /\ [TreeNext]_allvars => TreeInv'
<1> SUFFICES ASSUME TreeInv, [TreeNext]_allvars PROVE TreeInv' OBVIOUS
<1>1. CASE commits = <<>> /\ Next /\ UNCHANGED <<objvars, commits>> BY <1>1, IndexInv
<1>2. CASE Commit BY <1>2, CommitInv
<1>3. CASE Process BY <1>3, ProcessInv
<1>4. CASE NextProcess BY <1>4, OpenInv DEF NextProcess
<1>5. CASE UNCHANGED allvars BY <1>5, StutterInv
<1> QED BY <1>1, <1>2, <1>3, <1>4, <1>5 DEF TreeNext

\* The invariant holds in every state.
LEMMA TreeInvHolds == TreeSpec => []TreeInv
<1> QED BY TreeInitInv, TreeStepInv, PTL DEF TreeSpec

\* The invariant gives IdsStay.
LEMMA IdsFollow == TreeInv => IdsStay
<1> SUFFICES ASSUME TreeInv PROVE IdsStay OBVIOUS
<1>1. DOMAIN held = 1 .. Len(held) BY SeqIs DEF TreeInv, HeldOk
<1> QED BY <1>1 DEF TreeInv, HeldOk, IdsStay

\* It gives CacheCounts.
LEMMA CacheFollows == TreeInv => CacheCounts
<1> SUFFICES ASSUME TreeInv PROVE CacheCounts OBVIOUS
<1>1. Counted(cache, storage) /\ cache.total <= CacheMax BY SessionIs DEF TreeInv, Sound, CacheOk
<1>2. DOMAIN cache.order = 1 .. Len(cache.order) BY <1>1, SeqIs DEF Counted
<1>3. IsInjective(cache.order) BY <1>1, <1>2 DEF Counted, IsInjective
<1>4. {cache.order[k] : k \in DOMAIN cache.order} = DOMAIN cache.map BY <1>1, <1>2 DEF Counted
<1>5. \A h \in DOMAIN cache.map : cache.map[h] = storage[h] BY <1>1 DEF Counted
<1>6. cache.total = Sums(Sizes(cache))[Len(cache.order)] BY <1>1 DEF Counted
<1>7. cache.total =
        Sums([k \in DOMAIN cache.order |-> Length(cache.map[cache.order[k]])])[Len(cache.order)]
  BY <1>6 DEF Sizes
<1> QED BY <1>1, <1>3, <1>4, <1>5, <1>7, Zenon DEF CacheCounts

\* It gives LogIsHistory.
LEMMA LogFollows == TreeInv => LogIsHistory
  BY LogShows, SessionIs DEF TreeInv, LogIsHistory

\* It gives WalkFindsStaged: the trees are in the storage before a commit because a
\* process has just written them, and after it because none is lost.
LEMMA WalksFollow == TreeInv => WalkFindsStaged
<1> SUFFICES ASSUME TreeInv PROVE WalkFindsStaged OBVIOUS
<1>1. PICK s : s = IF commits = <<>> THEN Opened(TreesWritten.storage) ELSE Session OBVIOUS
<1>2. Inv /\ Sound(Session) /\ Closed(storage) /\ StorageOk(storage) /\ Session.storage = storage
  BY SessionIs DEF TreeInv, Sound
<1>3. Sound(s) /\ Closed(s.storage) /\ TreeOf(Committed) \in DOMAIN s.storage
  <2>1. CASE commits = <<>>
    <3>1. PICK ds, ts, w, k : /\ ds = {data[i] : i \in DOMAIN data} /\ ts = IndexTrees
                              /\ w = TreesWritten /\ k = w.storage
      OBVIOUS
    <3>2. Sound(w) /\ Closed(k) /\ Carries(k, storage, ds, ts, Len(ts)) BY <1>2, <3>1, TreesCarried
    <3>3. TreesIn(ts, ds) /\ ts # <<>> /\ Committed = Last(ts) BY <1>2, <3>1, IndexTreesAre
    <3>4. PICK n \in Nat \ {0} : n = Len(ts) BY <3>3, SeqIs DEF TreesIn
    <3>5. n \in 1 .. n OBVIOUS
    <3>6. TreeOf(Committed) \in DOMAIN k BY <3>2, <3>3, <3>4, <3>5 DEF Carries, Last
    <3>7. Sound(Opened(k)) /\ Opened(k).storage = k BY <3>1, <3>2, OpenedSound DEF Sound
    <3> QED BY <1>1, <2>1, <3>1, <3>2, <3>6, <3>7
  <2>2. CASE commits # <<>> BY <1>1, <1>2, <2>2 DEF TreeInv, IndexStored
  <2> QED BY <2>1, <2>2
<1>4. ASSUME NEW p \in Paths, Above(p) \cap {paths[i] : i \in DOMAIN paths} = {}
      PROVE Blobs(WalkTree(s, TreeOf(Committed), p).result) = {BlobOf(data[i]) : i \in Found(p)}
  BY <1>2, <1>3, <1>4, WalkShows
<1>5. WalkFindsStaged =
          \A p \in Paths :
              Above(p) \cap {paths[i] : i \in DOMAIN paths} = {} =>
                  Blobs(WalkTree(s, TreeOf(Committed), p).result) = {BlobOf(data[i]) : i \in Found(p)}
  BY <1>1 DEF WalkFindsStaged, Blobs
<1> QED BY <1>4, <1>5

\* Whatever the index went through, for any paths, contents and hashes of paths: the tree
\* that write_tree makes of it flattens (flatten_tree) and looks up
\* (SortedFlatTree::lookup) to what each path was staged with, and to nothing for a path
\* that is not tracked.
THEOREM CommittedIsIndex == TreeSpec => []CommitHoldsIndex
<1>1. TreeInv => CommitHoldsIndex BY CommitHolds DEF TreeInv
<1> QED BY <1>1, TreeInvHolds, PTL

\* Whatever the index went through, and whatever the process read before: walk_tree_path,
\* from the tree of the last commit, finds for each path the contents it was staged with,
\* and none for a path that is not tracked, unless a file is tracked under the name of a
\* directory above it.
THEOREM WalksFindStaged == TreeSpec => []WalkFindsStaged
<1> QED BY WalksFollow, TreeInvHolds, PTL

\* Whatever the index went through: the tree that write-tree makes of a directory with the
\* tracked files, where no file can have the name of a directory, flattens to what the
\* committed tree does, although the order within its trees can differ.
THEOREM DirectoryTreesAgree == TreeSpec => []TreesAgree
<1>1. TreeInv => TreesAgree BY AgreesHolds DEF TreeInv
<1> QED BY <1>1, TreeInvHolds, PTL

\* Whatever a process reads and writes, in any order: the ObjectCache holds what the
\* storage holds, counts the bytes it holds, and stays within CACHE_MAX_BYTES.
THEOREM CacheIsCounted == TreeSpec => []CacheCounts
<1> QED BY CacheFollows, TreeInvHolds, PTL

\* However many objects a process pushes, whatever the cache evicts: an id goes on
\* standing for the object it was given for.
THEOREM IdsStand == TreeSpec => []IdsStay
<1> QED BY IdsFollow, TreeInvHolds, PTL

\* log shows every commit as it was made, newest first, whatever the process read before,
\* and ends.
THEOREM LogShowsHistory == TreeSpec => []LogIsHistory
<1> QED BY LogFollows, TreeInvHolds, PTL
============================================================================
