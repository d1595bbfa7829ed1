-------------------------- MODULE StashRefsProofs --------------------------
(***************************************************************************)
(* Proofs about StashRefs for any number of saves and a crash between any  *)
(* two steps: no rename falls on a name in use, so no stash is lost and    *)
(* the numbers stay in order; and only a crash leaves a gap.               *)
(***************************************************************************)
EXTENDS StashRefs, TLAPS

\* The files a shift has renamed, or leaves alone.
Settled == DOMAIN refs \ run.todo

\* Between the settled files and those yet to rename there is a free name: the file
\* that is renamed next does not fall on a settled one.
Apart ==
    /\ run.at = "idle" => run.todo = {}
    /\ run.at = "up" => /\ saves > 0
                        /\ \A n \in DOMAIN refs : refs[n] < saves
                        /\ \A d \in Settled : d > 0
                        /\ \A d \in Settled, t \in run.todo : t + 1 < d
    /\ run.at = "down" => /\ \A t \in run.todo : t > 0
                          /\ \A d \in Settled, t \in run.todo : d + 1 < t

\* The one gap there is lies between the settled files and those yet to rename.
OneGap ==
    ~crashed =>
        /\ run.at = "idle" => \A n \in DOMAIN refs : n > 0 => n - 1 \in DOMAIN refs
        /\ run.at = "up" =>
              /\ \A t \in run.todo : t > 0 => t - 1 \in run.todo
              /\ \A d \in Settled : d > 1 => d - 1 \in Settled \/ d - 2 \in run.todo
        /\ run.at = "down" =>
              /\ \A d \in Settled : d > 0 => d - 1 \in Settled
              /\ \A t \in run.todo : t > 1 => t - 1 \in run.todo \/ t - 2 \in Settled

Inv == TypeOK /\ NewestFirst /\ Apart /\ OneGap

----------------------------------------------------------------------------
LEMMA InitInv == Init => Inv
  <1> SUFFICES ASSUME Init PROVE Inv OBVIOUS
  <1>1. /\ DOMAIN refs = {} /\ refs \in [DOMAIN refs -> 1 .. saves]
        /\ saves = 0 /\ crashed = FALSE
        /\ run = Idle /\ run.at = "idle" /\ run.todo = {}
    BY DEF Init, Idle
  <1>2. TypeOK BY <1>1 DEF TypeOK, Idle
  <1>3. NewestFirst /\ Apart /\ OneGap BY <1>1 DEF NewestFirst, Apart, OneGap
  <1> QED BY <1>2, <1>3 DEF Inv

\* A rename to a free name.
LEMMA RenameKeeps ==
    ASSUME TypeOK, NEW n \in run.todo, NEW m \in Nat, m \notin DOMAIN refs,
           refs' = Rename(refs, n, m), run' = [run EXCEPT !.todo = @ \ {n}],
           UNCHANGED <<saves, crashed>>
    PROVE  /\ TypeOK'
           /\ Lost = {}
           /\ run'.at = run.at /\ run'.todo = run.todo \ {n}
           /\ Settled' = Settled \cup {m}
           /\ DOMAIN refs' = (DOMAIN refs \ {n}) \cup {m}
           /\ refs'[m] = refs[n]
           /\ \A d \in DOMAIN refs \ {n} : refs'[d] = refs[d]
  <1>0. /\ n \in DOMAIN refs /\ n # m
        /\ refs \in [DOMAIN refs -> 1 .. saves]
        /\ DOMAIN refs \subseteq Nat
        /\ run.at \in {"idle", "up", "down"} /\ run.todo \subseteq DOMAIN refs
    BY DEF TypeOK
  <1>1. /\ DOMAIN refs' = (DOMAIN refs \ {n}) \cup {m}
        /\ refs'[m] = refs[n]
        /\ \A d \in DOMAIN refs \ {n} : refs'[d] = refs[d]
    BY <1>0 DEF Rename
  <1>2. run'.at = run.at /\ run'.todo = run.todo \ {n}
    BY DEF TypeOK
  <1>3. refs' \in [DOMAIN refs' -> 1 .. saves]
    BY <1>0, <1>1 DEF Rename
  <1>4. run' \in [at : {"idle", "up", "down"}, todo : SUBSET DOMAIN refs']
    BY <1>0, <1>1 DEF TypeOK
  <1>5. TypeOK' BY <1>0, <1>1, <1>3, <1>4 DEF TypeOK
  <1>6. Lost = {} BY <1>0, <1>1 DEF Lost
  <1>7. Settled' = Settled \cup {m} BY <1>0, <1>1, <1>2 DEF Settled
  <1> QED BY <1>1, <1>2, <1>5, <1>6, <1>7

\* Every step keeps the invariant, and loses a stash only where one is removed.
LEMMA Step ==
    ASSUME Inv, [Next]_vars
    PROVE  Inv' /\ (Lost = {} \/ (run.at = "idle" /\ \E n \in DOMAIN refs : Lost = {n}))
  <1>0. /\ refs \in [DOMAIN refs -> 1 .. saves]
        /\ DOMAIN refs \subseteq Nat
        /\ saves \in Nat
        /\ run.at \in {"idle", "up", "down"} /\ run.todo \subseteq DOMAIN refs
        /\ crashed \in BOOLEAN
        /\ TypeOK /\ NewestFirst /\ Apart /\ OneGap
    BY DEF Inv, TypeOK
  <1>l. refs' = refs => Lost = {} BY DEF Lost
  <1>1. CASE UNCHANGED vars
    BY <1>0, <1>1, <1>l DEF vars, Inv, TypeOK, NewestFirst, Apart, OneGap, Settled
  <1>2. CASE SaveBegin
    <2>1. run'.at = "up" /\ run'.todo = DOMAIN refs /\ Settled' = {}
      BY <1>2 DEF SaveBegin, Settled
    <2>2. TypeOK' BY <1>0, <1>2 DEF SaveBegin, TypeOK
    <2>3. NewestFirst' BY <1>0, <1>2 DEF SaveBegin, NewestFirst
    <2>4. Apart' BY <1>0, <1>2, <2>1 DEF SaveBegin, Apart
    <2>5. OneGap' BY <1>0, <1>2, <2>1 DEF SaveBegin, OneGap
    <2> QED BY <1>2, <1>l, <2>2, <2>3, <2>4, <2>5 DEF SaveBegin, Inv
  <1>3. CASE ShiftUp
    <2> PICK n \in run.todo :
           /\ \A m \in run.todo : m <= n
           /\ refs' = Rename(refs, n, n + 1)
           /\ run' = [run EXCEPT !.todo = @ \ {n}]
      BY <1>3 DEF ShiftUp
    <2>0. run.at = "up" /\ UNCHANGED <<saves, crashed>> /\ n \in Nat BY <1>0, <1>3 DEF ShiftUp
    <2>1. n + 1 \notin DOMAIN refs BY <1>0, <2>0 DEF Apart, Settled
    <2>2. /\ TypeOK' /\ Lost = {}
          /\ run'.at = "up" /\ run'.todo = run.todo \ {n}
          /\ Settled' = Settled \cup {n + 1}
          /\ DOMAIN refs' = (DOMAIN refs \ {n}) \cup {n + 1}
          /\ refs'[n + 1] = refs[n]
          /\ \A d \in DOMAIN refs \ {n} : refs'[d] = refs[d]
      <3>1. n + 1 \in Nat BY <2>0
      <3> QED BY <1>0, <2>0, <2>1, <3>1, RenameKeeps
    <2>3. NewestFirst' BY <1>0, <2>0, <2>1, <2>2 DEF NewestFirst
    <2>4. Apart'
      <3>1. \A d \in Settled' : d > 0 BY <1>0, <2>0, <2>2 DEF Apart
      <3>2. \A d \in Settled', t \in run'.todo : t + 1 < d
        BY <1>0, <2>0, <2>2 DEF Apart
      <3>3. \A d \in DOMAIN refs' : refs'[d] < saves'
        <4>1. \A d \in DOMAIN refs : refs[d] < saves BY <1>0, <2>0 DEF Apart
        <4>2. n \in DOMAIN refs BY <1>0
        <4> QED BY <2>0, <2>2, <4>1, <4>2
      <3>4. saves' > 0 BY <1>0, <2>0 DEF Apart
      <3> QED BY <2>2, <3>1, <3>2, <3>3, <3>4 DEF Apart
    <2>5. OneGap'
      <3> SUFFICES ASSUME ~crashed
                   PROVE  /\ \A t \in run'.todo : t > 0 => t - 1 \in run'.todo
                          /\ \A d \in Settled' : d > 1 =>
                                d - 1 \in Settled' \/ d - 2 \in run'.todo
        BY <2>0, <2>2 DEF OneGap
      <3>0. /\ \A t \in run.todo : t > 0 => t - 1 \in run.todo
            /\ \A d \in Settled : d > 1 => d - 1 \in Settled \/ d - 2 \in run.todo
        BY <1>0, <2>0 DEF OneGap
      <3>1. \A t \in run'.todo : t > 0 => t - 1 \in run'.todo
        BY <1>0, <2>0, <2>2, <3>0
      <3>2. ASSUME NEW d \in Settled, d > 1
            PROVE  d - 1 \in Settled' \/ d - 2 \in run'.todo
        <4>1. d \in Nat BY <1>0 DEF Settled
        <4>2. CASE d - 2 = n BY <2>0, <2>2, <4>1, <4>2
        <4>3. CASE d - 2 # n BY <2>2, <3>0, <3>2, <4>3
        <4> QED BY <4>2, <4>3
      <3>3. n + 1 > 1 => (n + 1) - 2 \in run'.todo BY <1>0, <2>0, <2>2, <3>0
      <3> QED BY <2>2, <3>1, <3>2, <3>3
    <2> QED BY <2>2, <2>3, <2>4, <2>5 DEF Inv
  <1>4. CASE Put
    <2>0. /\ run.at = "up" /\ run.todo = {} /\ UNCHANGED <<saves, crashed>>
          /\ refs' = [n \in DOMAIN refs \cup {0} |-> IF n = 0 THEN saves ELSE refs[n]]
          /\ run'.at = "idle" /\ run'.todo = {} /\ run' = Idle
      BY <1>4 DEF Put, Idle
    <2>1. Settled = DOMAIN refs BY <1>0, <2>0 DEF Settled
    <2>2. /\ 0 \notin DOMAIN refs
          /\ \A n \in DOMAIN refs : refs[n] < saves /\ n > 0
      BY <1>0, <2>0, <2>1 DEF Apart
    <2>3. /\ DOMAIN refs' = DOMAIN refs \cup {0}
          /\ refs'[0] = saves
          /\ \A n \in DOMAIN refs : refs'[n] = refs[n]
      BY <2>0, <2>2
    <2>4. TypeOK'
      <3>1. saves > 0 BY <1>0, <2>0 DEF Apart
      <3>2. refs' \in [DOMAIN refs' -> 1 .. saves] BY <1>0, <2>0, <3>1
      <3>3. run' \in [at : {"idle", "up", "down"}, todo : SUBSET DOMAIN refs']
        BY <2>0 DEF Idle
      <3> QED BY <1>0, <2>0, <2>3, <3>2, <3>3 DEF TypeOK
    <2>5. NewestFirst' BY <1>0, <2>2, <2>3 DEF NewestFirst
    <2>6. Apart' BY <2>0 DEF Apart
    <2>7. OneGap'
      <3>1. ASSUME ~crashed, NEW n \in DOMAIN refs', n > 0 PROVE n - 1 \in DOMAIN refs'
        <4>1. n \in DOMAIN refs /\ n \in Nat BY <1>0, <2>3, <3>1
        <4>2. n > 1 => n - 1 \in DOMAIN refs BY <1>0, <2>0, <2>1, <3>1, <4>1 DEF OneGap
        <4> QED BY <2>3, <3>1, <4>1, <4>2
      <3> QED BY <2>0, <3>1 DEF OneGap
    <2>8. Lost = {} BY <1>0, <2>3 DEF Lost
    <2> QED BY <2>4, <2>5, <2>6, <2>7, <2>8 DEF Inv
  <1>5. ASSUME NEW n \in DOMAIN refs, Remove(n)
        PROVE  Inv' /\ (Lost = {} \/ (run.at = "idle" /\ \E k \in DOMAIN refs : Lost = {k}))
    <2>0. /\ run.at = "idle" /\ run.todo = {} /\ UNCHANGED <<saves, crashed>> /\ n \in Nat
          /\ run'.at = "down" /\ run'.todo = {m \in DOMAIN refs : m > n}
          /\ run' = [at |-> "down", todo |-> {m \in DOMAIN refs : m > n}]
      BY <1>0, <1>5 DEF Remove, Apart
    <2>1. /\ DOMAIN refs' = DOMAIN refs \ {n}
          /\ \A d \in DOMAIN refs \ {n} : refs'[d] = refs[d]
          /\ refs' \in [DOMAIN refs' -> 1 .. saves]
      BY <1>0, <1>5 DEF Remove, Restrict
    <2>2. \A d : d \in Settled' <=> d \in DOMAIN refs /\ d < n
      BY <1>0, <2>0, <2>1 DEF Settled
    <2>3. TypeOK'
      <3>1. run' \in [at : {"idle", "up", "down"}, todo : SUBSET DOMAIN refs']
        BY <1>0, <2>0, <2>1
      <3> QED BY <1>0, <2>0, <2>1, <3>1 DEF TypeOK
    <2>4. NewestFirst' BY <1>0, <2>1 DEF NewestFirst
    <2>5. Apart' BY <1>0, <2>0, <2>2 DEF Apart
    <2>6. OneGap'
      <3> SUFFICES ASSUME ~crashed
                   PROVE  /\ \A d \in Settled' : d > 0 => d - 1 \in Settled'
                          /\ \A t \in run'.todo : t > 1 =>
                                t - 1 \in run'.todo \/ t - 2 \in Settled'
        BY <2>0 DEF OneGap
      <3>0. \A d \in DOMAIN refs : d > 0 => d - 1 \in DOMAIN refs BY <1>0, <2>0 DEF OneGap
      <3>1. ASSUME NEW d \in Settled', d > 0 PROVE d - 1 \in Settled'
        BY <1>0, <2>0, <2>2, <3>0, <3>1
      <3>2. ASSUME NEW t \in run'.todo, t > 1
            PROVE  t - 1 \in run'.todo \/ t - 2 \in Settled'
        <4>1. t \in DOMAIN refs /\ t \in Nat /\ t > n BY <1>0, <2>0
        <4>2. t - 1 \in DOMAIN refs BY <3>0, <4>1, <3>2
        <4>3. CASE t - 1 = n
          <5>1. n > 0 /\ t - 2 = n - 1 BY <2>0, <3>2, <4>1, <4>3
          <5>2. n - 1 \in DOMAIN refs BY <3>0, <5>1
          <5> QED BY <2>0, <2>2, <5>1, <5>2
        <4>4. CASE t - 1 # n BY <2>0, <4>1, <4>2, <4>4
        <4> QED BY <4>3, <4>4
      <3> QED BY <3>1, <3>2
    <2>7. Lost = {} \/ Lost = {n} BY <2>1 DEF Lost
    <2> QED BY <2>0, <2>3, <2>4, <2>5, <2>6, <2>7 DEF Inv
  <1>6. CASE ShiftDown
    <2> PICK n \in run.todo :
           /\ \A m \in run.todo : n <= m
           /\ refs' = Rename(refs, n, n - 1)
           /\ run' = [run EXCEPT !.todo = @ \ {n}]
      BY <1>6 DEF ShiftDown
    <2>0. run.at = "down" /\ UNCHANGED <<saves, crashed>> /\ n \in Nat BY <1>0, <1>6 DEF ShiftDown
    <2>1. n > 0 /\ n - 1 \in Nat /\ n - 1 \notin DOMAIN refs
      BY <1>0, <2>0 DEF Apart, Settled
    <2>2. /\ TypeOK' /\ Lost = {}
          /\ run'.at = "down" /\ run'.todo = run.todo \ {n}
          /\ Settled' = Settled \cup {n - 1}
          /\ DOMAIN refs' = (DOMAIN refs \ {n}) \cup {n - 1}
          /\ refs'[n - 1] = refs[n]
          /\ \A d \in DOMAIN refs \ {n} : refs'[d] = refs[d]
      BY <1>0, <2>0, <2>1, RenameKeeps
    <2>3. NewestFirst' BY <1>0, <2>0, <2>1, <2>2 DEF NewestFirst
    <2>4. Apart'
      <3>1. \A t \in run'.todo : t > 0 BY <1>0, <2>0, <2>2 DEF Apart
      <3>2. \A d \in Settled', t \in run'.todo : d + 1 < t
        BY <1>0, <2>0, <2>2 DEF Apart
      <3> QED BY <2>2, <3>1, <3>2 DEF Apart
    <2>5. OneGap'
      <3> SUFFICES ASSUME ~crashed
                   PROVE  /\ \A d \in Settled' : d > 0 => d - 1 \in Settled'
                          /\ \A t \in run'.todo : t > 1 =>
                                t - 1 \in run'.todo \/ t - 2 \in Settled'
        BY <2>0, <2>2 DEF OneGap
      <3>0. /\ \A d \in Settled : d > 0 => d - 1 \in Settled
            /\ \A t \in run.todo : t > 1 => t - 1 \in run.todo \/ t - 2 \in Settled
        BY <1>0, <2>0 DEF OneGap
      <3>1. \A d \in Settled : d > 0 => d - 1 \in Settled' BY <2>2, <3>0
      <3>2. n - 1 > 0 => (n - 1) - 1 \in Settled'
        <4>1. n > 1 => n - 2 \in Settled BY <1>0, <2>0, <3>0
        <4> QED BY <2>0, <2>2, <4>1
      <3>3. ASSUME NEW t \in run'.todo, t > 1
            PROVE  t - 1 \in run'.todo \/ t - 2 \in Settled'
        <4>1. t \in Nat BY <1>0, <2>2
        <4>2. CASE t - 1 = n BY <2>0, <2>2, <4>1, <4>2
        <4>3. CASE t - 1 # n BY <2>2, <3>0, <3>3, <4>3
        <4> QED BY <4>2, <4>3
      <3> QED BY <2>2, <3>1, <3>2, <3>3
    <2> QED BY <2>2, <2>3, <2>4, <2>5 DEF Inv
  <1>7. CASE RemoveEnd
    <2>0. /\ run.at = "down" /\ run.todo = {} /\ UNCHANGED <<refs, saves, crashed>>
          /\ run'.at = "idle" /\ run'.todo = {} /\ run' = Idle
      BY <1>7 DEF RemoveEnd, Idle
    <2>1. Settled = DOMAIN refs BY <2>0 DEF Settled
    <2>2. TypeOK' BY <1>0, <2>0 DEF TypeOK, Idle
    <2>3. NewestFirst' /\ Apart' BY <1>0, <2>0 DEF NewestFirst, Apart
    <2>4. OneGap' BY <1>0, <2>0, <2>1 DEF OneGap
    <2> QED BY <1>l, <2>0, <2>2, <2>3, <2>4 DEF Inv
  <1>8. CASE PopRefused
    BY <1>1, <1>8 DEF PopRefused
  <1>9. CASE Crash
    <2>0. /\ UNCHANGED <<refs, saves>> /\ crashed' = TRUE
          /\ run'.at = "idle" /\ run'.todo = {} /\ run' = Idle
      BY <1>9 DEF Crash, Idle
    <2>1. TypeOK' BY <1>0, <2>0 DEF TypeOK, Idle
    <2>2. NewestFirst' /\ Apart' /\ OneGap' BY <1>0, <2>0 DEF NewestFirst, Apart, OneGap
    <2> QED BY <1>l, <2>0, <2>1, <2>2 DEF Inv
  <1> QED BY <1>1, <1>2, <1>3, <1>4, <1>5, <1>6, <1>7, <1>8, <1>9 DEF Next

----------------------------------------------------------------------------
LEMMA Invariance == Spec => []Inv
  <1>1. Inv /\ [Next]_vars => Inv' BY Step
  <1> QED BY InitInv, <1>1, PTL DEF Spec

\* Stashes are numbered by naturals and a command renames only files there are.
THEOREM TypeCorrect == Spec => []TypeOK
  <1>1. Inv => TypeOK BY DEF Inv
  <1> QED BY Invariance, <1>1, PTL

\* Between any two renames and after any crash, a lower number is a newer stash: pop
\* never takes an older stash than it leaves.
THEOREM OrderKept == Spec => []NewestFirst
  <1>1. Inv => NewestFirst BY DEF Inv
  <1> QED BY Invariance, <1>1, PTL

\* The shifts clobber nothing, also when they start from the gaps a crash left: a
\* step takes a stash from the list only when pop or drop removes it.
THEOREM NothingClobbered == Spec => StashesKept
  <1>1. Inv /\ [Next]_vars =>
          [Lost = {} \/ (run.at = "idle" /\ \E n \in DOMAIN refs : Lost = {n})]_vars
    BY Step
  <1> QED BY Invariance, <1>1, PTL DEF Spec, StashesKept

\* Until a command dies half way, the numbers have no gap, and stash 0 exists when
\* any does.
THEOREM GapsOnlyAfterCrash == Spec => []NoGaps
  <1>1. Inv => NoGaps BY DEF Inv, OneGap, NoGaps
  <1> QED BY Invariance, <1>1, PTL
============================================================================
