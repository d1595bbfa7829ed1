-------------------------- MODULE WorkspaceProofs --------------------------
(***************************************************************************)
(* Proofs about Workspace for any set of paths, contents and lengths and   *)
(* any bounds: its types, the soundness of the fast dirty check, that a    *)
(* stash saved and applied again gives the tracked work back, that stage   *)
(* takes what it matches and status and diff show what there is.           *)
(***************************************************************************)
EXTENDS Views, TLAPS

\* What makes the fast check sound: outside of B the mtime an entry records
\* identifies the contents of its file, whatever the lengths.
Truthful(ix, d, B) ==
    \A p \in (DOMAIN ix \cap DOMAIN d) \ B :
        ix[p].mtime = d[p].mtime => d[p].data = ix[p].data

StatTruth == Truthful(index, disk, blind)

----------------------------------------------------------------------------
\* The operators on directories, indexes and trees.

LEMMA OverIs ==
    ASSUME NEW a, NEW b
    PROVE  /\ DOMAIN Over(a, b) = DOMAIN a \cup DOMAIN b
           /\ \A p \in DOMAIN a : Over(a, b)[p] = a[p]
           /\ \A p \in DOMAIN b \ DOMAIN a : Over(a, b)[p] = b[p]
  BY DEF Over

LEMMA RestrictIs ==
    ASSUME NEW a, NEW S
    PROVE  /\ DOMAIN Restrict(a, S) = S
           /\ \A p \in S : Restrict(a, S)[p] = a[p]
  BY DEF Restrict

LEMMA WithoutIs ==
    ASSUME NEW a, NEW S
    PROVE  /\ DOMAIN Without(a, S) = DOMAIN a \ S
           /\ \A p \in DOMAIN a \ S : Without(a, S)[p] = a[p]
  BY RestrictIs DEF Without

LEMMA StampIs ==
    ASSUME NEW tree, NEW t
    PROVE  /\ DOMAIN Stamp(tree, t) = DOMAIN tree
           /\ \A p \in DOMAIN tree : /\ Stamp(tree, t)[p].data = tree[p]
                                     /\ Stamp(tree, t)[p].mtime = t
  BY DEF Stamp

LEMMA ContentsIs ==
    ASSUME NEW f
    PROVE  /\ DOMAIN Contents(f) = DOMAIN f
           /\ \A p \in DOMAIN f : Contents(f)[p] = f[p].data
  BY DEF Contents

LEMMA PartialIs ==
    ASSUME NEW S, NEW f
    PROVE  f \in Partial(S) <=> /\ DOMAIN f \subseteq Paths
                                /\ f \in [DOMAIN f -> S]
  <1>1. ASSUME f \in Partial(S)
        PROVE  DOMAIN f \subseteq Paths /\ f \in [DOMAIN f -> S]
    BY <1>1 DEF Partial
  <1>2. ASSUME DOMAIN f \subseteq Paths, f \in [DOMAIN f -> S]
        PROVE  f \in Partial(S)
    BY <1>2 DEF Partial
  <1> QED BY <1>1, <1>2

LEMMA OverType ==
    ASSUME NEW S, NEW f \in Partial(S), NEW g \in Partial(S)
    PROVE  Over(f, g) \in Partial(S)
  <1>1. DOMAIN f \subseteq Paths /\ f \in [DOMAIN f -> S] BY PartialIs
  <1>2. DOMAIN g \subseteq Paths /\ g \in [DOMAIN g -> S] BY PartialIs
  <1>3. Over(f, g) \in [DOMAIN f \cup DOMAIN g -> S] BY <1>1, <1>2 DEF Over
  <1> QED BY <1>1, <1>2, <1>3, PartialIs

LEMMA RestrictType ==
    ASSUME NEW S, NEW f \in Partial(S), NEW D, D \subseteq DOMAIN f
    PROVE  Restrict(f, D) \in Partial(S)
  <1>1. DOMAIN f \subseteq Paths /\ f \in [DOMAIN f -> S] BY PartialIs
  <1>2. Restrict(f, D) \in [D -> S] BY <1>1 DEF Restrict
  <1> QED BY <1>1, <1>2, PartialIs

LEMMA WithoutType ==
    ASSUME NEW S, NEW f \in Partial(S), NEW D
    PROVE  Without(f, D) \in Partial(S)
  BY RestrictType DEF Without

LEMMA StampType ==
    ASSUME NEW tree \in Trees, NEW t \in 0 .. MaxTime
    PROVE  Stamp(tree, t) \in Partial(Stat)
  <1>1. DOMAIN tree \subseteq Paths /\ tree \in [DOMAIN tree -> Data]
    BY PartialIs DEF Trees
  <1>2. Stamp(tree, t) \in [DOMAIN tree -> Stat] BY <1>1 DEF Stamp, Stat
  <1> QED BY <1>1, <1>2, PartialIs

LEMMA ContentsType ==
    ASSUME NEW f \in Partial(Stat)
    PROVE  Contents(f) \in Trees
  <1>1. DOMAIN f \subseteq Paths /\ f \in [DOMAIN f -> Stat] BY PartialIs
  <1>2. Contents(f) \in [DOMAIN f -> Data] BY <1>1 DEF Contents, Stat
  <1> QED BY <1>1, <1>2, PartialIs DEF Trees

LEMMA NoTreeType == ASSUME NEW S PROVE NoTree \in Partial(S)
  <1>1. NoTree \in [{} -> S] BY DEF NoTree
  <1> QED BY <1>1, PartialIs

----------------------------------------------------------------------------
\* What the composed commands return.

LEMMA StashIs ==
    ASSUME NEW st \in Stash
    PROVE  st.staged \in Trees /\ st.dirty \in Trees /\ DOMAIN st.dirty \subseteq DOMAIN st.staged
  BY DEF Stash

LEMMA HeadType == ASSUME TypeOK PROVE head \in Trees
  BY NoTreeType DEF TypeOK, Trees

LEMMA StashedType == ASSUME TypeOK PROVE Stashed(Work) \in Stash
  <1> DEFINE looks == {p \in DOMAIN index \cap DOMAIN disk : IsDirty(index, disk, p)}
  <1>1. index \in Partial(Stat) /\ disk \in Partial(Stat) BY DEF TypeOK
  <1>2. Contents(index) \in Trees /\ Contents(disk) \in Trees BY <1>1, ContentsType
  <1>3. looks \subseteq DOMAIN Contents(disk) /\ looks \subseteq DOMAIN Contents(index)
    BY ContentsIs
  <1>4. Restrict(Contents(disk), looks) \in Trees
    BY <1>2, <1>3, RestrictType DEF Trees
  <1>5. DOMAIN Restrict(Contents(disk), looks) = looks BY RestrictIs
  <1>6. Stashed(Work) = [staged |-> Contents(index), dirty |-> Restrict(Contents(disk), looks)]
    BY DEF Stashed, Work
  <1> QED BY <1>2, <1>3, <1>4, <1>5, <1>6 DEF Stash

LEMMA SwitchType ==
    ASSUME TypeOK, NEW tree \in Trees
    PROVE  /\ SwitchTo(Work, tree).disk \in Partial(Stat)
           /\ SwitchTo(Work, tree).index \in Partial(Stat)
           /\ SwitchTo(Work, tree).stashes = stashes
           /\ SwitchTo(Work, tree).blind = {}
  <1>1. Stamp(tree, now) \in Partial(Stat) BY StampType DEF TypeOK
  <1>2. Without(disk, DOMAIN index \ DOMAIN tree) \in Partial(Stat)
    BY WithoutType DEF TypeOK
  <1> QED BY <1>1, <1>2, OverType DEF SwitchTo, Work

LEMMA AppliedType ==
    ASSUME TypeOK, NEW w, w.disk \in Partial(Stat), w.index \in Partial(Stat),
           w.blind \subseteq Paths,
           NEW st \in Stash, NEW late \in SUBSET DOMAIN st.dirty, Passes(late)
    PROVE  /\ Applied(w, st, late).disk \in Partial(Stat)
           /\ Applied(w, st, late).index \in Partial(Stat)
           /\ Applied(w, st, late).stashes = w.stashes
           /\ Applied(w, st, late).blind \subseteq Paths
           /\ now' \in 0 .. MaxTime
  <1>1. Stamp(st.staged, now) \in Partial(Stat) BY StampType, StashIs DEF TypeOK
  <1>2. Stamp(st.dirty, now) \in Partial(Stat) BY StampType, StashIs DEF TypeOK
  <1>3. /\ Over(Stamp(st.staged, now), w.disk) \in Partial(Stat)
        /\ Over(Stamp(st.staged, now), w.index) \in Partial(Stat)
    BY <1>1, OverType
  <1>4. Over(Stamp(st.dirty, now), Over(Stamp(st.staged, now), w.disk)) \in Partial(Stat)
    BY <1>2, <1>3, OverType
  <1>5. Stamp(Restrict(st.dirty, late), now + 1) \in Partial(Stat)
    <2>1. Restrict(st.dirty, late) \in Trees BY StashIs, RestrictType DEF Trees
    <2>2. CASE late = {}
      <3>1. Stamp(Restrict(st.dirty, late), now + 1) \in [{} -> Stat]
        BY <2>2 DEF Stamp, Restrict
      <3> QED BY <3>1, PartialIs
    <2>3. CASE late # {}
      <3>1. now + 1 \in 0 .. MaxTime BY <2>3, BoundAssumption DEF TypeOK, Passes
      <3> QED BY <2>1, <3>1, StampType
    <2> QED BY <2>2, <2>3
  <1>6. Applied(w, st, late).disk \in Partial(Stat) BY <1>4, <1>5, OverType DEF Applied
  <1>7. DOMAIN st.dirty \subseteq Paths BY StashIs, PartialIs DEF Trees
  <1>8. now' \in 0 .. MaxTime BY BoundAssumption DEF TypeOK, Passes
  <1> QED BY <1>3, <1>6, <1>7, <1>8 DEF Applied

\* What stash() returns when something looks changed.
LEMMA SavedIs ==
    ASSUME ~LooksUnchanged(Stashed(Work))
    PROVE  /\ Saved(Work).disk = SwitchTo(Work, head).disk
           /\ Saved(Work).index = SwitchTo(Work, head).index
           /\ Saved(Work).stashes = <<Stashed(Work)>> \o stashes
           /\ Saved(Work).blind = {}
  <1>1. Saved(Work) = [SwitchTo(Work, head) EXCEPT !.stashes = <<Stashed(Work)>> \o @]
    BY DEF Saved
  <1>2. SwitchTo(Work, head).stashes = stashes /\ SwitchTo(Work, head).blind = {}
    BY DEF SwitchTo, Work
  <1>3. /\ SwitchTo(Work, head) =
             [disk    |-> SwitchTo(Work, head).disk,
              index   |-> SwitchTo(Work, head).index,
              stashes |-> SwitchTo(Work, head).stashes,
              blind   |-> SwitchTo(Work, head).blind]
    BY DEF SwitchTo
  <1> QED BY <1>1, <1>2, <1>3

LEMMA SavedUnchanged ==
    ASSUME LooksUnchanged(Stashed(Work))
    PROVE  Saved(Work) = Work
  BY DEF Saved

LEMMA SavedType ==
    ASSUME TypeOK
    PROVE  /\ Saved(Work).disk \in Partial(Stat)
           /\ Saved(Work).index \in Partial(Stat)
           /\ Saved(Work).stashes \in Seq(Stash)
           /\ Saved(Work).blind \subseteq Paths
  <1>1. CASE LooksUnchanged(Stashed(Work))
    BY <1>1, SavedUnchanged DEF Work, TypeOK
  <1>2. CASE ~LooksUnchanged(Stashed(Work))
    <2>1. stashes \in Seq(Stash) /\ Stashed(Work) \in Stash BY StashedType DEF TypeOK
    <2>2. <<Stashed(Work)>> \o stashes \in Seq(Stash) BY <2>1
    <2> QED BY <1>2, <2>2, SavedIs, SwitchType, HeadType
  <1> QED BY <1>1, <1>2

LEMMA SwitchTruth ==
    ASSUME NEW w, NEW tree
    PROVE  Truthful(SwitchTo(w, tree).index, SwitchTo(w, tree).disk, {})
  BY DEF SwitchTo, Truthful, Over, Stamp

LEMMA SavedTruth ==
    ASSUME StatTruth
    PROVE  Truthful(Saved(Work).index, Saved(Work).disk, Saved(Work).blind)
  <1>1. CASE LooksUnchanged(Stashed(Work))
    BY <1>1, SavedUnchanged DEF Work, StatTruth
  <1>2. CASE ~LooksUnchanged(Stashed(Work))
    BY <1>2, SavedIs, SwitchTruth
  <1> QED BY <1>1, <1>2

\* The staged files are stamped as they are recorded.  The dirty ones are written over them:
\* in the same second, and are blind from then on, or in the next one, and their entries,
\* which are staged ones, do not have that mtime.
LEMMA AppliedTruth ==
    ASSUME TypeOK, NEW w, Truthful(w.index, w.disk, w.blind),
           NEW st \in Stash, NEW late \in SUBSET DOMAIN st.dirty
    PROVE  LET a == Applied(w, st, late) IN Truthful(a.index, a.disk, a.blind)
  <1> DEFINE d  == Over(Stamp(Restrict(st.dirty, late), now + 1),
                        Over(Stamp(st.dirty, now), Over(Stamp(st.staged, now), w.disk)))
             ix == Over(Stamp(st.staged, now), w.index)
             bl == (w.blind \ DOMAIN st.staged) \cup (DOMAIN st.dirty \ late)
  <1>1. DOMAIN st.dirty \subseteq DOMAIN st.staged BY StashIs
  <1>2. \A p \in DOMAIN st.staged : ix[p].data = st.staged[p] /\ ix[p].mtime = now
    BY DEF Over, Stamp
  <1>3. \A p \in late : d[p].mtime = now + 1
    BY DEF Over, Stamp, Restrict
  <1>4. \A p \in DOMAIN st.staged \ DOMAIN st.dirty : d[p].data = st.staged[p]
    BY DEF Over, Stamp, Restrict
  <1>5. \A p \in DOMAIN ix \ DOMAIN st.staged : p \in DOMAIN w.index /\ ix[p] = w.index[p]
    BY DEF Over, Stamp
  <1>6. \A p \in DOMAIN d \ DOMAIN st.staged : p \in DOMAIN w.disk /\ d[p] = w.disk[p]
    BY <1>1 DEF Over, Stamp, Restrict
  <1>7. now + 1 # now BY DEF TypeOK
  <1>8. Truthful(ix, d, bl)
    <2> HIDE DEF d, ix
    <2> SUFFICES ASSUME NEW p \in (DOMAIN ix \cap DOMAIN d) \ bl, ix[p].mtime = d[p].mtime
                 PROVE  d[p].data = ix[p].data
      BY DEF Truthful
    <2>1. CASE p \notin DOMAIN st.staged BY <1>1, <1>5, <1>6, <2>1 DEF Truthful
    <2>2. CASE p \in DOMAIN st.staged \ DOMAIN st.dirty BY <1>2, <1>4, <2>2
    <2>3. CASE p \in DOMAIN st.dirty
      <3>1. p \in late BY <2>3
      <3> QED BY <1>1, <1>2, <1>3, <1>7, <2>3, <3>1
    <2> QED BY <2>1, <2>2, <2>3
  <1> QED BY <1>8 DEF Applied

----------------------------------------------------------------------------
\* Type correctness.

LEMMA TypeInit == Init => TypeOK
  <1> SUFFICES ASSUME Init PROVE TypeOK OBVIOUS
  <1>1. disk \in Partial(Stat) /\ index \in Partial(Stat) BY NoTreeType DEF Init
  <1>2. now \in 0 .. MaxTime BY BoundAssumption DEF Init
  <1>3. stashes \in Seq(Stash) BY DEF Init
  <1> QED BY <1>1, <1>2, <1>3 DEF Init, TypeOK

LEMMA TypeStep == TypeOK /\ [Next]_vars => TypeOK'
  <1> SUFFICES ASSUME TypeOK, [Next]_vars PROVE TypeOK' OBVIOUS
  <1>0. /\ disk \in Partial(Stat) /\ index \in Partial(Stat)
        /\ head \in history \cup {NoTree} /\ history \subseteq Trees \ {NoTree}
        /\ stashes \in Seq(Stash) /\ now \in 0 .. MaxTime /\ blind \subseteq Paths
    BY DEF TypeOK
  <1>u. ASSUME NEW S PROVE (blind \ S) \cup Unseen(index, S) \subseteq Paths
    <2>1. DOMAIN index \subseteq Paths BY <1>0, PartialIs
    <2> QED BY <1>0, <2>1 DEF Unseen
  <1>w. /\ Work.disk = disk /\ Work.index = index /\ Work.stashes = stashes
        /\ Work.blind = blind
    BY DEF Work
  <1>s. ASSUME NEW tree \in Trees PROVE Stamp(tree, now) \in Partial(Stat)
    BY <1>0, StampType
  <1>c. Contents(index) \in Trees /\ Contents(disk) \in Trees BY <1>0, ContentsType
  <1>h. head \in Trees BY HeadType
  <1>1. CASE Edit
    <2> PICK p \in Paths, c \in Data : disk' = Over(Stamp([q \in {p} |-> c], now), disk)
      BY <1>1 DEF Edit
    <2>1. [q \in {p} |-> c] \in Trees
      <3>1. [q \in {p} |-> c] \in [{p} -> Data] OBVIOUS
      <3> QED BY <3>1, PartialIs DEF Trees
    <2>2. disk' \in Partial(Stat) BY <1>0, <1>s, <2>1, OverType
    <2>3. blind' \subseteq Paths
      <3>1. PICK q \in Paths : blind' = (blind \ {q}) \cup Unseen(index, {q})
        BY <1>1 DEF Edit
      <3> QED BY <1>u, <3>1
    <2> QED BY <1>0, <1>1, <2>2, <2>3 DEF Edit, TypeOK
  <1>2. CASE Delete
    <2>1. disk' \in Partial(Stat) BY <1>0, <1>2, WithoutType DEF Delete
    <2> QED BY <1>0, <1>2, <2>1 DEF Delete, TypeOK
  <1>3. CASE Tick
    <2>1. now' \in 0 .. MaxTime BY <1>0, <1>3, BoundAssumption DEF Tick
    <2> QED BY <1>0, <1>3, <2>1 DEF Tick, TypeOK
  <1>4. ASSUME NEW S, Stage(S) PROVE TypeOK'
    <2>1. ToStage(S) \subseteq DOMAIN disk BY DEF ToStage
    <2>2. Restrict(disk, ToStage(S)) \in Partial(Stat) BY <1>0, <2>1, RestrictType
    <2>3. Restrict(index, DOMAIN index \cap DOMAIN disk) \in Partial(Stat)
      BY <1>0, RestrictType
    <2>4. index' \in Partial(Stat) BY <1>4, <2>2, <2>3, OverType DEF Stage
    <2> QED BY <1>0, <1>4, <2>4 DEF Stage, TypeOK
  <1>5. ASSUME NEW S, Unstage(S) PROVE TypeOK'
    <2>1. index' \in Partial(Stat) BY <1>0, <1>5, WithoutType DEF Unstage
    <2> QED BY <1>0, <1>5, <2>1 DEF Unstage, TypeOK
  <1>6. CASE Commit
    <2>1. head' \in Trees BY <1>6, <1>c DEF Commit
    <2>2. DOMAIN head' # {} BY <1>6, ContentsIs DEF Commit
    <2>3. DOMAIN NoTree = {} BY DEF NoTree
    <2>4. head' \in Trees \ {NoTree} BY <2>1, <2>2, <2>3
    <2> QED BY <1>0, <1>6, <2>4 DEF Commit, TypeOK
  <1>7. CASE Checkout
    <2> PICK tree \in history : Becomes(SwitchTo(Work, tree)) /\ head' = tree
      BY <1>7 DEF Checkout
    <2>1. tree \in Trees BY <1>0
    <2>2. disk' \in Partial(Stat) /\ index' \in Partial(Stat) /\ stashes' = stashes /\ blind' = {}
      BY <2>1, SwitchType DEF Becomes
    <2> QED BY <1>0, <1>7, <2>2 DEF Checkout, TypeOK
  <1>8. CASE CheckoutPath
    <2> PICK tree \in history : \E p \in DOMAIN tree :
           /\ disk' = Over(Stamp(Restrict(tree, {p}), now), disk)
           /\ index' = Over(Stamp(Restrict(tree, {p}), now), index)
      BY <1>8 DEF CheckoutPath
    <2> PICK p \in DOMAIN tree :
           /\ disk' = Over(Stamp(Restrict(tree, {p}), now), disk)
           /\ index' = Over(Stamp(Restrict(tree, {p}), now), index)
      OBVIOUS
    <2>1. Restrict(tree, {p}) \in Trees BY <1>0, RestrictType DEF Trees
    <2>2. disk' \in Partial(Stat) /\ index' \in Partial(Stat)
      BY <1>0, <1>s, <2>1, OverType
    <2>3. blind' \subseteq Paths BY <1>0, <1>8 DEF CheckoutPath
    <2> QED BY <1>0, <1>8, <2>2, <2>3 DEF CheckoutPath, TypeOK
  <1>9. ASSUME NEW S, Discard(S) PROVE TypeOK'
    <2> DEFINE matched == S \cap DOMAIN disk
               truth   == IF head = NoTree THEN Contents(index) ELSE head
               kept    == matched \cap DOMAIN truth
    <2>1. truth \in Trees BY <1>c, <1>h
    <2>2. /\ disk' = Over(Stamp(Restrict(truth, kept), now), Without(disk, matched))
          /\ index' = Without(index, matched \ kept)
      BY <1>9 DEF Discard
    <2>3. kept \subseteq DOMAIN truth OBVIOUS
    <2> HIDE DEF truth, kept, matched
    <2>4. Restrict(truth, kept) \in Trees BY <2>1, <2>3, RestrictType DEF Trees
    <2>5. disk' \in Partial(Stat) BY <1>0, <1>s, <2>2, <2>4, WithoutType, OverType
    <2>6. index' \in Partial(Stat) BY <1>0, <2>2, WithoutType
    <2>7. blind' = (blind \ matched) \cup Unseen(index, kept)
      BY <1>9 DEF Discard, kept, truth, matched
    <2>8. blind' \subseteq Paths
      <3>1. Unseen(index, kept) \subseteq Paths BY <1>u
      <3> QED BY <1>0, <2>7, <3>1
    <2> QED BY <1>0, <1>9, <2>5, <2>6, <2>8 DEF Discard, TypeOK
  <1>10. CASE DiscardAll
    <2>1. Restrict(disk, DOMAIN disk \cap DOMAIN index) \in Partial(Stat)
      BY <1>0, RestrictType
    <2>2. disk' \in Partial(Stat) BY <1>10, <1>s, <1>c, <2>1, OverType DEF DiscardAll
    <2> QED BY <1>0, <1>10, <2>2 DEF DiscardAll, TypeOK
  <1>11. CASE StashSave
    BY <1>0, <1>11, SavedType DEF StashSave, Becomes, TypeOK
  <1>12. ASSUME NEW i \in 1 .. Len(stashes), StashApply(i) PROVE TypeOK'
    <2>1. stashes[i] \in Stash BY <1>0, <1>12
    <2>2. PICK late \in SUBSET DOMAIN stashes[i].dirty :
             Passes(late) /\ Becomes(Applied(Work, stashes[i], late))
      BY <1>12 DEF StashApply
    <2>3. /\ disk' \in Partial(Stat) /\ index' \in Partial(Stat) /\ stashes' = stashes
          /\ blind' \subseteq Paths /\ now' \in 0 .. MaxTime
      BY <1>0, <1>w, <2>1, <2>2, AppliedType DEF Becomes
    <2> QED BY <1>0, <1>12, <2>3 DEF StashApply, TypeOK
  <1>13. CASE StashPop
    <2>1. stashes[1] \in Stash BY <1>0, <1>13 DEF StashPop
    <2>2. PICK late \in SUBSET DOMAIN stashes[1].dirty :
             Passes(late) /\ Becomes([Applied(Work, stashes[1], late) EXCEPT !.stashes = Tail(@)])
      BY <1>13 DEF StashPop
    <2> DEFINE a == Applied(Work, stashes[1], late)
    <2>3. /\ a.disk \in Partial(Stat) /\ a.index \in Partial(Stat) /\ a.stashes = stashes
          /\ a.blind \subseteq Paths /\ now' \in 0 .. MaxTime
      BY <1>0, <1>w, <2>1, <2>2, AppliedType
    <2>4. disk' = a.disk /\ index' = a.index /\ stashes' = Tail(a.stashes) /\ blind' = a.blind
      BY <2>2 DEF Becomes, Applied
    <2>5. Tail(stashes) \in Seq(Stash) BY <1>0, <1>13 DEF StashPop
    <2> HIDE DEF a
    <2> QED BY <1>0, <1>13, <2>3, <2>4, <2>5 DEF StashPop, TypeOK
  <1>14. ASSUME NEW i \in 1 .. Len(stashes), StashDrop(i) PROVE TypeOK'
    <2>1. RemoveAt(stashes, i) \in Seq(Stash)
      BY <1>0 DEF RemoveAt
    <2> QED BY <1>0, <1>14, <2>1 DEF StashDrop, TypeOK
  <1>15. CASE Checkpoint
    <2> DEFINE w == Saved(Work)
    <2>1. /\ w.disk \in Partial(Stat) /\ w.index \in Partial(Stat) /\ w.stashes \in Seq(Stash)
          /\ w.blind \subseteq Paths
      BY SavedType
    <2>2. 0 < Len(w.stashes) BY <1>15 DEF Checkpoint
    <2>3. PICK late \in SUBSET DOMAIN w.stashes[1].dirty :
             Passes(late) /\ Becomes(Applied(w, w.stashes[1], late))
      BY <1>15 DEF Checkpoint
    <2> HIDE DEF w
    <2>4. w.stashes[1] \in Stash BY <2>1, <2>2
    <2>5. /\ disk' \in Partial(Stat) /\ index' \in Partial(Stat) /\ stashes' = w.stashes
          /\ blind' \subseteq Paths /\ now' \in 0 .. MaxTime
      BY <2>1, <2>3, <2>4, AppliedType DEF Becomes
    <2> QED BY <1>0, <1>15, <2>1, <2>5 DEF Checkpoint, TypeOK
  <1>16. CASE UNCHANGED vars
    BY <1>16 DEF vars, TypeOK
  <1> QED
    BY <1>1, <1>2, <1>3, <1>4, <1>5, <1>6, <1>7, <1>8, <1>9, <1>10, <1>11, <1>12,
       <1>13, <1>14, <1>15, <1>16 DEF Next

\* TypeOK holds throughout: in particular every tree of a commit and every stash is
\* one the commands that read it can restore.
THEOREM TypeCorrect == Spec => []TypeOK
  BY TypeInit, TypeStep, PTL DEF Spec

----------------------------------------------------------------------------
\* The fast dirty check.  Where a file is written without its entry, it is blind from then
\* on if the entry records this second; everywhere else both are written.

LEMMA TruthStep ==
    ASSUME TypeOK, StatTruth, [Next]_vars
    PROVE  StatTruth'
  <1>0. Truthful(index, disk, blind) BY DEF StatTruth
  <1>w. /\ Work.disk = disk /\ Work.index = index /\ Work.stashes = stashes
        /\ Work.blind = blind
    BY DEF Work
  <1>g. SUFFICES Truthful(index', disk', blind') BY DEF StatTruth, Truthful
  <1>1. CASE Edit
    <2> PICK p \in Paths, c \in Data :
           /\ disk' = Over(Stamp([q \in {p} |-> c], now), disk)
           /\ blind' = (blind \ {p}) \cup Unseen(index, {p})
      BY <1>1 DEF Edit
    <2>1. index' = index BY <1>1 DEF Edit
    <2> QED BY <1>0, <2>1 DEF Truthful, Over, Stamp, Unseen
  <1>2. CASE Delete
    BY <1>0, <1>2 DEF Delete, Truthful, Without, Restrict
  <1>3. CASE Tick
    BY <1>0, <1>3 DEF Tick
  <1>4. ASSUME NEW S, Stage(S) PROVE Truthful(index', disk', blind')
    <2>1. index' = Over(Restrict(disk, ToStage(S)), Restrict(index, DOMAIN index \cap DOMAIN disk))
      BY <1>4 DEF Stage
    <2>2. disk' = disk /\ blind' = blind \ ToStage(S) BY <1>4 DEF Stage
    <2> QED BY <1>0, <2>1, <2>2 DEF Truthful, Over, Restrict
  <1>5. ASSUME NEW S, Unstage(S) PROVE Truthful(index', disk', blind')
    BY <1>0, <1>5 DEF Unstage, Truthful, Without, Restrict
  <1>6. CASE Commit
    BY <1>0, <1>6 DEF Commit
  <1>7. CASE Checkout
    <2> PICK tree \in history : Becomes(SwitchTo(Work, tree))
      BY <1>7 DEF Checkout
    <2> DEFINE w == SwitchTo(Work, tree)
    <2>0. w.blind = {} BY DEF SwitchTo
    <2>1. Truthful(w.index, w.disk, {}) BY SwitchTruth
    <2>2. disk' = w.disk /\ index' = w.index /\ blind' = w.blind BY DEF Becomes
    <2> HIDE DEF w
    <2> QED BY <2>0, <2>1, <2>2
  <1>8. CASE CheckoutPath
    <2>1. PICK tree, p, one : /\ one = Stamp(Restrict(tree, {p}), now)
                              /\ disk' = Over(one, disk) /\ index' = Over(one, index)
                              /\ blind' = blind \ {p}
      BY <1>8 DEF CheckoutPath
    <2>2. DOMAIN one = {p} BY <2>1 DEF Stamp, Restrict
    <2>3. /\ DOMAIN index' = {p} \cup DOMAIN index
          /\ index'[p] = one[p]
          /\ \A q \in DOMAIN index \ {p} : index'[q] = index[q]
      <3>1. index' = Over(one, index) BY <2>1
      <3> QED BY <2>2, <3>1 DEF Over
    <2>4. /\ DOMAIN disk' = {p} \cup DOMAIN disk
          /\ disk'[p] = one[p]
          /\ \A q \in DOMAIN disk \ {p} : disk'[q] = disk[q]
      <3>1. disk' = Over(one, disk) BY <2>1
      <3> QED BY <2>2, <3>1 DEF Over
    <2> SUFFICES ASSUME NEW q \in (DOMAIN index' \cap DOMAIN disk') \ blind',
                        index'[q].mtime = disk'[q].mtime
                 PROVE  disk'[q].data = index'[q].data
      BY DEF Truthful
    <2>5. CASE q = p BY <2>3, <2>4, <2>5
    <2>6. CASE q # p
      <3>1. q \in (DOMAIN index \cap DOMAIN disk) \ blind BY <2>1, <2>3, <2>4, <2>6
      <3>2. index'[q] = index[q] /\ disk'[q] = disk[q] BY <2>3, <2>4, <2>6, <3>1
      <3> QED BY <1>0, <3>1, <3>2 DEF Truthful
    <2> QED BY <2>5, <2>6
  <1>9. ASSUME NEW S, Discard(S) PROVE Truthful(index', disk', blind')
    <2> DEFINE matched == S \cap DOMAIN disk
               truth   == IF head = NoTree THEN Contents(index) ELSE head
               kept    == matched \cap DOMAIN truth
    <2>1. blind' = (blind \ matched) \cup Unseen(index, kept)
      BY <1>9 DEF Discard
    <2>2. /\ disk' = Over(Stamp(Restrict(truth, kept), now), Without(disk, matched))
          /\ index' = Without(index, matched \ kept)
      BY <1>9 DEF Discard
    <2> HIDE DEF truth, kept, matched
    <2>3. DOMAIN Restrict(truth, kept) = kept BY RestrictIs
    <2>4. \A p \in kept : p \in DOMAIN disk' /\ disk'[p].mtime = now
      BY <2>2, <2>3 DEF Over, Stamp
    <2>5. \A p \in DOMAIN disk' \ kept :
             p \in DOMAIN disk /\ p \notin matched /\ disk'[p] = disk[p]
      BY <2>2, <2>3 DEF Over, Stamp, Without, Restrict
    <2>6. \A p \in DOMAIN index' : p \in DOMAIN index /\ index'[p] = index[p]
      BY <2>2 DEF Without, Restrict
    <2>7. \A p \in kept \cap DOMAIN index' : p \notin blind' => index'[p].mtime # now
      BY <2>1, <2>6 DEF Unseen
    <2>8. \A p \in DOMAIN disk' \ kept : p \notin blind' => p \notin blind
      BY <2>1, <2>5
    <2> QED BY <1>0, <2>4, <2>5, <2>6, <2>7, <2>8 DEF Truthful
  <1>10. CASE DiscardAll
    <2>1. disk' = Over(Stamp(Contents(index), now), Restrict(disk, DOMAIN disk \cap DOMAIN index))
      BY <1>10 DEF DiscardAll
    <2>2. index' = index BY <1>10 DEF DiscardAll
    <2> QED BY <2>1, <2>2 DEF Truthful, Over, Stamp, Contents
  <1>11. CASE StashSave
    BY <1>11, SavedTruth DEF StashSave, Becomes
  <1>12. ASSUME NEW i \in 1 .. Len(stashes), StashApply(i) PROVE Truthful(index', disk', blind')
    <2>1. stashes[i] \in Stash BY <1>12 DEF TypeOK
    <2>2. PICK late \in SUBSET DOMAIN stashes[i].dirty :
             Becomes(Applied(Work, stashes[i], late))
      BY <1>12 DEF StashApply
    <2> QED BY <1>0, <1>w, <2>1, <2>2, AppliedTruth DEF Becomes
  <1>13. CASE StashPop
    <2>1. stashes[1] \in Stash BY <1>13 DEF StashPop, TypeOK
    <2>2. PICK late \in SUBSET DOMAIN stashes[1].dirty :
             Becomes([Applied(Work, stashes[1], late) EXCEPT !.stashes = Tail(@)])
      BY <1>13 DEF StashPop
    <2> DEFINE a == Applied(Work, stashes[1], late)
    <2>3. Truthful(a.index, a.disk, a.blind)
      BY <1>0, <1>w, <2>1, AppliedTruth
    <2>4. disk' = a.disk /\ index' = a.index /\ blind' = a.blind
      BY <2>2 DEF Becomes, Applied
    <2> HIDE DEF a
    <2> QED BY <2>3, <2>4
  <1>14. ASSUME NEW i, StashDrop(i) PROVE Truthful(index', disk', blind')
    BY <1>0, <1>14 DEF StashDrop
  <1>15. CASE Checkpoint
    <2> DEFINE w == Saved(Work)
    <2>1. Truthful(w.index, w.disk, w.blind) /\ w.stashes \in Seq(Stash)
      BY SavedTruth, SavedType
    <2>2. 0 < Len(w.stashes) BY <1>15 DEF Checkpoint
    <2>3. PICK late \in SUBSET DOMAIN w.stashes[1].dirty :
             Becomes(Applied(w, w.stashes[1], late))
      BY <1>15 DEF Checkpoint
    <2> HIDE DEF w
    <2>4. w.stashes[1] \in Stash BY <2>1, <2>2
    <2> QED BY <2>1, <2>3, <2>4, AppliedTruth DEF Becomes
  <1>16. CASE UNCHANGED vars
    BY <1>0, <1>16 DEF vars
  <1> QED
    BY <1>1, <1>2, <1>3, <1>4, <1>5, <1>6, <1>7, <1>8, <1>9, <1>10, <1>11, <1>12,
       <1>13, <1>14, <1>15, <1>16 DEF Next

LEMMA TruthMeansSame == StatTruth => CleanMeansSame
  BY DEF StatTruth, Truthful, CleanMeansSame, IsDirty

\* Whatever commands ran, a tracked file that looks clean to Index::is_dirty has the contents
\* its entry names, unless it was written unrecorded in the second of the recording.
THEOREM FastCheckSound == Spec => []CleanMeansSame
  <1>1. Init => StatTruth BY DEF Init, StatTruth, Truthful, NoTree
  <1>2. TypeOK /\ StatTruth /\ [Next]_vars => StatTruth' BY TruthStep
  <1> QED BY <1>1, <1>2, TypeCorrect, TruthMeansSame, PTL DEF Spec

LEMMA RoundTrip ==
    ASSUME TypeOK, CleanMeansSame
    PROVE  StashRoundTrip
  <1> DEFINE st == Stashed(Work)
             w  == Saved(Work)
  <1> SUFFICES ASSUME w # Work, NEW late \in SUBSET DOMAIN Head(w.stashes).dirty
               PROVE  LET a == Applied(w, Head(w.stashes), late)
                      IN  /\ \A p \in DOMAIN index : /\ p \in DOMAIN a.index
                                                     /\ a.index[p].data = index[p].data
                          /\ \A p \in (DOMAIN index \cap DOMAIN disk) \ Missed :
                                a.disk[p].data = disk[p].data
    BY DEF StashRoundTrip
  <1>1. ~LooksUnchanged(st) BY SavedUnchanged
  <1>2. Head(w.stashes) = st
    <2>1. w.stashes = <<st>> \o stashes BY <1>1, SavedIs
    <2>2. stashes \in Seq(Stash) /\ st \in Stash BY StashedType DEF TypeOK
    <2> HIDE DEF st, w
    <2> QED BY <2>1, <2>2
  <1>3. st.staged = Contents(index) BY DEF Stashed, Work
  <1>4. st.dirty = Restrict(Contents(disk), {p \in DOMAIN index \cap DOMAIN disk : IsDirty(index, disk, p)})
    BY DEF Stashed, Work
  <1> DEFINE a == Applied(w, Head(w.stashes), late)
  <1>5. /\ a.index = Over(Stamp(st.staged, now), w.index)
        /\ a.disk  = Over(Stamp(Restrict(st.dirty, late), now + 1),
                         Over(Stamp(st.dirty, now), Over(Stamp(st.staged, now), w.disk)))
    BY <1>2 DEF Applied
  <1>d. late \subseteq DOMAIN st.dirty BY <1>2
  <1> HIDE DEF st, w, a
  <1>6. \A p \in DOMAIN index : p \in DOMAIN a.index /\ a.index[p].data = index[p].data
    BY <1>3, <1>5 DEF Over, Stamp, Contents
  <1>7. ASSUME NEW p \in (DOMAIN index \cap DOMAIN disk) \ Missed
        PROVE  a.disk[p].data = disk[p].data
    <2>1. CASE IsDirty(index, disk, p)
      <3>1. p \in DOMAIN st.dirty /\ st.dirty[p] = disk[p].data
        BY <1>4, <2>1 DEF Restrict, Contents
      <3> QED BY <1>5, <3>1 DEF Over, Stamp, Restrict
    <2>2. CASE ~IsDirty(index, disk, p)
      <3>1. p \notin DOMAIN st.dirty BY <1>4, <2>2 DEF Restrict
      <3>2. a.disk[p].data = index[p].data
        BY <1>3, <1>5, <1>d, <3>1 DEF Over, Stamp, Restrict, Contents
      <3>3. p \notin blind BY <2>2 DEF Missed
      <3> QED BY <2>2, <3>2, <3>3 DEF CleanMeansSame
    <2> QED BY <2>1, <2>2
  <1> QED BY <1>6, <1>7 DEF a

\* Saving a stash and applying it, whether or not the clock moves on, gives back every staged
\* version and every tracked file that was on disk, those the fast check misses aside.
THEOREM StashLosesNothing == Spec => []StashRoundTrip
  <1>1. TypeOK /\ CleanMeansSame => StashRoundTrip BY RoundTrip
  <1>2. Spec => []CleanMeansSame BY FastCheckSound
  <1> QED BY <1>1, <1>2, TypeCorrect, PTL

----------------------------------------------------------------------------
\* Stage, status and diff.

\* Under the fast check, no matched file that Stage skips differs from its entry.
LEMMA StageTakes ==
    ASSUME CleanMeansSame, NEW S \in SUBSET Paths, Stage(S)
    PROVE  /\ DOMAIN index' \subseteq DOMAIN disk
           /\ \A p \in S \cap DOMAIN disk :
                Size[disk[p].data] <= MaxFile =>
                    /\ p \in DOMAIN index'
                    /\ p \notin Missed => index'[p].data = disk[p].data
  <1> DEFINE taken == Restrict(disk, ToStage(S))
             left  == Restrict(index, DOMAIN index \cap DOMAIN disk)
  <1>1. index' = Over(taken, left) BY DEF Stage
  <1>2. /\ DOMAIN taken = ToStage(S) /\ \A p \in ToStage(S) : taken[p] = disk[p]
        /\ DOMAIN left = DOMAIN index \cap DOMAIN disk
        /\ \A p \in DOMAIN left : left[p] = index[p]
    BY RestrictIs
  <1>3. ToStage(S) \subseteq DOMAIN disk BY DEF ToStage
  <1> HIDE DEF taken, left
  <1>4. DOMAIN index' \subseteq DOMAIN disk BY <1>1, <1>2, <1>3 DEF Over
  <1>5. ASSUME NEW p \in S \cap DOMAIN disk, Size[disk[p].data] <= MaxFile
        PROVE  /\ p \in DOMAIN index'
               /\ p \notin Missed => index'[p].data = disk[p].data
    <2>1. CASE p \in ToStage(S)
      <3>1. p \in DOMAIN taken /\ taken[p] = disk[p] BY <1>2, <2>1
      <3> QED BY <1>1, <3>1 DEF Over
    <2>2. CASE p \notin ToStage(S)
      <3>1. p \in DOMAIN index /\ ~IsDirty(index, disk, p) BY <1>5, <2>2 DEF ToStage
      <3>2. p \notin Missed => disk[p].data = index[p].data
        <4> SUFFICES ASSUME p \notin Missed PROVE disk[p].data = index[p].data OBVIOUS
        <4>1. p \notin blind BY <3>1 DEF Missed
        <4> QED BY <3>1, <4>1 DEF CleanMeansSame
      <3>3. p \in DOMAIN left \ DOMAIN taken BY <1>2, <2>2, <3>1
      <3>4. p \in DOMAIN index' /\ index'[p] = index[p] BY <1>1, <1>2, <3>3 DEF Over
      <3> QED BY <3>2, <3>4
    <2> QED BY <2>1, <2>2
  <1> QED BY <1>4, <1>5

\* mog stage takes every matched file under the limit as it is on disk, those the fast check
\* misses aside, and leaves no entry whose file is gone.
THEOREM StageTakesWhatIsThere == Spec => StageCaptures
  <1> DEFINE Captures ==
        \A S \in SUBSET Paths : Stage(S) =>
           /\ DOMAIN index' \subseteq DOMAIN disk
           /\ \A p \in S \cap DOMAIN disk :
                Size[disk[p].data] <= MaxFile =>
                    /\ p \in DOMAIN index'
                    /\ p \notin Missed => index'[p].data = disk[p].data
  <1>1. CleanMeansSame => Captures BY StageTakes
  <1>2. Spec => []CleanMeansSame BY FastCheckSound
  <1>3. []CleanMeansSame => [][Captures]_vars BY <1>1, PTL
  <1> QED BY <1>2, <1>3, PTL DEF StageCaptures

LEMMA ListedIs ==
    Listed = StatusBuckets.staged_new_modified \cup StatusBuckets.staged_deleted
             \cup StatusBuckets.modified \cup StatusBuckets.deleted \cup StatusBuckets.untracked
  BY DEF Listed, StatusBuckets

\* A path that status does not list is the same on disk, in the index and in HEAD, but for
\* the contents on disk of a file the fast check is blind to.
THEOREM StatusIsComplete == Spec => []StatusShowsAll
  <1>1. ASSUME CleanMeansSame PROVE StatusShowsAll
    BY <1>1, ListedIs DEF CleanMeansSame, StatusShowsAll, StatusBuckets
  <1>2. Spec => []CleanMeansSame BY FastCheckSound
  <1> QED BY <1>1, <1>2, PTL

\* Every path whose text a diff shows is one that status lists, or one the fast check is
\* blind to.
THEOREM DiffsShowWhatStatusLists == Spec => []DiffsAreListed
  <1>1. ASSUME CleanMeansSame PROVE DiffsAreListed
    <2> SUFFICES ASSUME NEW p \in DiffWorkingVsIndex \cup DiffStaged \cup DiffWorkingVsTree(head),
                        p \notin Listed, p \notin blind
                 PROVE  p \in DOMAIN disk /\ disk[p].data \notin Text
      BY DEF DiffsAreListed
    <2>1. /\ p \in DOMAIN index <=> p \in DOMAIN disk
          /\ p \in DOMAIN index <=> p \in DOMAIN head
          /\ p \in DOMAIN index => disk[p].data = index[p].data /\ index[p].data = head[p]
      BY <1>1, ListedIs DEF CleanMeansSame, StatusBuckets
    <2> QED BY <2>1 DEF DiffWorkingVsIndex, DiffStaged, DiffWorkingVsTree, Prints
  <1>2. Spec => []CleanMeansSame BY FastCheckSound
  <1> QED BY <1>1, <1>2, PTL
=============================================================================
