----------------------------- MODULE RefsProofs -----------------------------
(***************************************************************************)
(* Proofs about Refs for any branches, commits and processes: its types,   *)
(* and, for one process at a time that may crash between any two writes,   *)
(* that no command but the forced delete loses a commit of a branch.       *)
(***************************************************************************)
EXTENDS Refs, TLAPS

\* What a command has read and will write names commits that were made.
KnownStep(s, made) ==
    /\ s.at = "commit" => s.parents \subseteq made /\ s.to \in Branches \cup made
    /\ s.at = "flush" => s.commit \in made
    /\ s.at = "create" => s.name \in Branches /\ s.commit \in made
    /\ s.at = "rename_new" => s.commit \in made
    /\ s.at \in {"rename_new", "rename_old", "rename_head"} => {s.old, s.new} \subseteq Branches
    /\ s.at = "checkout" => s.to \in Branches \cup made

Known == \A p \in Procs : KnownStep(run[p], DOMAIN parents)

TypeInv == TypeOK /\ Known

OneProcess == \E p : Procs = {p}

\* What a command has read still holds when it writes: true of a process alone.
Current == \A p \in Procs :
    /\ At(p, "commit") => run[p].to = head /\ run[p].parents = HeadCommit
    /\ At(p, "create") => run[p].name \notin DOMAIN heads
    /\ At(p, "delete") => /\ run[p].name \in DOMAIN heads
                          /\ Merged(run[p].name)
    /\ At(p, "rename_new") => /\ run[p].old \in DOMAIN heads
                              /\ run[p].new \notin DOMAIN heads
                              /\ run[p].commit = heads[run[p].old]
    /\ At(p, "rename_old") => /\ {run[p].old, run[p].new} \subseteq DOMAIN heads
                              /\ run[p].old # run[p].new
                              /\ heads[run[p].new] = heads[run[p].old]

----------------------------------------------------------------------------
\* Operators.

LEMMA SetIs ==
    ASSUME NEW f, NEW x, NEW y
    PROVE  /\ DOMAIN Set(f, x, y) = DOMAIN f \cup {x}
           /\ Set(f, x, y)[x] = y
           /\ \A z \in DOMAIN f \ {x} : Set(f, x, y)[z] = f[z]
  BY DEF Set

LEMMA DropIs ==
    ASSUME NEW f, NEW x
    PROVE  /\ DOMAIN Drop(f, x) = DOMAIN f \ {x}
           /\ \A z \in DOMAIN f \ {x} : Drop(f, x)[z] = f[z]
  BY DEF Drop, Restrict

\* One way to put a step record in place.
LEMMA GoesIs ==
    ASSUME NEW p \in Procs, NEW s, run \in [Procs -> Steps], s \in Steps, Goes(p, s)
    PROVE  /\ run' \in [Procs -> Steps]
           /\ run'[p] = s
           /\ \A q \in Procs \ {p} : run'[q] = run[q]
  BY DEF Goes

\* A branch or HEAD that resolves names a commit made.
LEMMA HeadCommitIs == ASSUME TypeOK PROVE HeadCommit \subseteq DOMAIN parents
  BY NamesAssumption DEF TypeOK, HeadCommit

\* What every set holding x and closed under the parents P gives contains: the
\* commits the walk from x finds when every commit made can be read.
Past(x, P) ==
    {c \in Commits : \A S \in SUBSET Commits :
        x \in S /\ (\A d \in S \cap DOMAIN P : P[d] \subseteq S) => c \in S}

LEMMA HistoryIs ==
    /\ History = UNION {Past(heads[b], parents) : b \in DOMAIN heads}
    /\ History' = UNION {Past(heads'[b], parents') : b \in DOMAIN heads'}
  BY DEF History, Reachable, Closed, Past

\* The past of a commit in the past of x is in the past of x, also when commits
\* were made in between.
LEMMA PastGrows ==
    ASSUME NEW P, NEW Q, DOMAIN P \subseteq DOMAIN Q, \A d \in DOMAIN P : Q[d] = P[d],
           NEW x, NEW y \in Past(x, Q)
    PROVE  Past(y, P) \subseteq Past(x, Q)
  <1> SUFFICES ASSUME NEW c \in Past(y, P), NEW S \in SUBSET Commits, x \in S,
                      \A d \in S \cap DOMAIN Q : Q[d] \subseteq S
               PROVE  c \in S
    BY DEF Past
  <1>1. y \in S BY DEF Past
  <1>2. \A d \in S \cap DOMAIN P : P[d] \subseteq S OBVIOUS
  <1> QED BY <1>1, <1>2 DEF Past

LEMMA PastSelf == ASSUME NEW P, NEW x \in Commits PROVE x \in Past(x, P)
  BY DEF Past

LEMMA PastParents ==
    ASSUME NEW P, NEW c \in DOMAIN P, NEW q \in P[c] \cap Commits PROVE q \in Past(c, P)
  BY DEF Past

\* A walk that ends at unreadable commits finds nothing outside the past.
LEMMA WalkInPast ==
    ASSUME stored \subseteq DOMAIN parents, NEW x
    PROVE  Reachable(x, stored) \subseteq Past(x, parents)
  BY DEF Reachable, Closed, Past

\* History is kept by a step that only adds commits, and after which every branch's
\* commit is in the past of some branch.
LEMMA HistoryGrows ==
    ASSUME DOMAIN parents \subseteq DOMAIN parents',
           \A d \in DOMAIN parents : parents'[d] = parents[d],
           \A b \in DOMAIN heads : \E e \in DOMAIN heads' : heads[b] \in Past(heads'[e], parents')
    PROVE  History \subseteq History'
  <1> SUFFICES ASSUME NEW b \in DOMAIN heads PROVE Past(heads[b], parents) \subseteq History'
    BY HistoryIs
  <1> PICK e \in DOMAIN heads' : heads[b] \in Past(heads'[e], parents') OBVIOUS
  <1>1. Past(heads[b], parents) \subseteq Past(heads'[e], parents') BY PastGrows
  <1> QED BY <1>1, HistoryIs

----------------------------------------------------------------------------
\* Types.

LEMMA TypeInit == Init => TypeInv
  <1> SUFFICES ASSUME Init PROVE TypeInv OBVIOUS
  <1>1. run \in [Procs -> Steps] /\ \A p \in Procs : run[p].at = "idle"
    BY DEF Init, Idle, Steps
  <1>2. TypeOK BY <1>1, NamesAssumption DEF Init, TypeOK
  <1>3. Known BY <1>1 DEF Known, KnownStep
  <1> QED BY <1>2, <1>3 DEF TypeInv

\* Commits are only added: what the other processes have read stays known.
LEMMA KnownGoes ==
    ASSUME TypeInv, NEW p \in Procs, NEW s \in Steps, Goes(p, s),
           DOMAIN parents \subseteq DOMAIN parents', KnownStep(s, DOMAIN parents')
    PROVE  run' \in [Procs -> Steps] /\ Known'
  <1>1. /\ run' \in [Procs -> Steps]
        /\ run'[p] = s
        /\ \A q \in Procs \ {p} : run'[q] = run[q]
    BY GoesIs DEF TypeInv, TypeOK
  <1>2. ASSUME NEW q \in Procs PROVE KnownStep(run'[q], DOMAIN parents')
    <2>1. CASE q = p BY <1>1, <2>1
    <2>2. CASE q # p
      <3>1. KnownStep(run[q], DOMAIN parents) BY DEF TypeInv, Known
      <3> QED BY <1>1, <2>2, <3>1 DEF KnownStep
    <2> QED BY <2>1, <2>2
  <1> QED BY <1>1, <1>2 DEF Known

LEMMA IdleStep == Idle \in Steps /\ \A made : KnownStep(Idle, made)
  BY DEF Idle, Steps, KnownStep

LEMMA DisturbedStep ==
    ASSUME TypeOK, [Next]_vars PROVE disturbed' \in BOOLEAN
  BY DEF TypeOK, Next, vars, CommitBegin, CommitRef, CommitFlush, CreateBegin, CreateRef,
         DeleteBegin, ForceBegin, DeleteRef, RenameBegin, RenameNew, RenameOld, RenameHead,
         CheckoutBegin, CheckoutHead, InitAgain, Crash

LEMMA TypeStep == TypeInv /\ [Next]_vars => TypeInv'
  <1> SUFFICES ASSUME TypeInv, [Next]_vars PROVE TypeInv' OBVIOUS
  <1>t. TypeOK /\ Known BY DEF TypeInv
  <1>0. /\ parents \in [DOMAIN parents -> SUBSET DOMAIN parents]
        /\ DOMAIN parents \subseteq Commits
        /\ stored \subseteq DOMAIN parents
        /\ heads \in [DOMAIN heads -> DOMAIN parents]
        /\ DOMAIN heads \subseteq Branches
        /\ head \in Branches \cup DOMAIN parents
    BY DEF TypeInv, TypeOK
  <1>i. Idle \in Steps /\ KnownStep(Idle, DOMAIN parents) /\ KnownStep(Idle, DOMAIN parents')
    BY IdleStep
  <1>k. ASSUME NEW p \in Procs PROVE KnownStep(run[p], DOMAIN parents)
    BY <1>t DEF Known
  <1>b. disturbed' \in BOOLEAN BY <1>t, DisturbedStep
  \* A step that writes no file.
  <1>r. ASSUME NEW p \in Procs, NEW s \in Steps, Goes(p, s), KnownStep(s, DOMAIN parents),
               UNCHANGED <<parents, stored, heads, head>>
        PROVE  TypeInv'
    <2>1. run' \in [Procs -> Steps] /\ Known' BY <1>r, KnownGoes
    <2> QED BY <1>0, <1>b, <1>r, <2>1 DEF TypeInv, TypeOK
  \* A command that ends with a write of a branch file or of HEAD.
  <1>e. ASSUME NEW p \in Procs, Goes(p, Idle), UNCHANGED parents,
               stored' \subseteq DOMAIN parents,
               heads' \in [DOMAIN heads' -> DOMAIN parents], DOMAIN heads' \subseteq Branches,
               head' \in Branches \cup DOMAIN parents
        PROVE  TypeInv'
    <2>1. run' \in [Procs -> Steps] /\ Known' BY <1>e, <1>i, KnownGoes
    <2> QED BY <1>0, <1>b, <1>e, <2>1 DEF TypeInv, TypeOK
  \* Setting or dropping a branch keeps the branches' type.
  <1>s. ASSUME NEW b \in Branches, NEW D, DOMAIN parents \subseteq D, NEW c \in D
        PROVE  /\ Set(heads, b, c) \in [DOMAIN Set(heads, b, c) -> D]
               /\ DOMAIN Set(heads, b, c) \subseteq Branches
    BY <1>0, <1>s DEF Set
  <1>d. ASSUME NEW b
        PROVE  /\ Drop(heads, b) \in [DOMAIN Drop(heads, b) -> DOMAIN parents]
               /\ DOMAIN Drop(heads, b) \subseteq Branches
    BY <1>0 DEF Drop, Restrict
  <1> SUFFICES ASSUME NEW p \in Procs,
                      \/ CommitBegin(p) \/ CommitRef(p) \/ CommitFlush(p)
                      \/ CreateBegin(p) \/ CreateRef(p)
                      \/ DeleteBegin(p) \/ ForceBegin(p) \/ DeleteRef(p)
                      \/ RenameBegin(p) \/ RenameNew(p) \/ RenameOld(p) \/ RenameHead(p)
                      \/ CheckoutBegin(p) \/ CheckoutHead(p)
                      \/ InitAgain(p) \/ Crash(p)
               PROVE  TypeInv'
    <2>1. CASE UNCHANGED vars
      BY <1>t, <2>1 DEF vars, TypeInv, TypeOK, Known
    <2> QED BY <2>1 DEF Next
  <1>1. CASE CommitBegin(p)
    <2> DEFINE s == [at |-> "commit", parents |-> HeadCommit, to |-> head]
    <2>1. HeadCommit \subseteq DOMAIN parents BY <1>t, HeadCommitIs
    <2>2. s \in Steps BY <1>0, <2>1 DEF Steps
    <2>3. KnownStep(s, DOMAIN parents) BY <1>0, <2>1 DEF KnownStep
    <2> QED BY <1>1, <1>r, <2>2, <2>3 DEF CommitBegin
  <1>2. CASE CommitRef(p)
    <2> PICK c \in Commits :
           /\ c \in DOMAIN parents => parents[c] = run[p].parents
           /\ parents' = Set(parents, c, run[p].parents)
           /\ IF run[p].to \in Branches
              THEN heads' = Set(heads, run[p].to, c) /\ head' = head
              ELSE heads' = heads /\ head' = c
           /\ Goes(p, [at |-> "flush", commit |-> c])
           /\ UNCHANGED stored
      BY <1>2 DEF CommitRef
    <2>1. run[p].parents \subseteq DOMAIN parents
      BY <1>2, <1>k DEF CommitRef, At, KnownStep
    <2>2. DOMAIN parents' = DOMAIN parents \cup {c} BY SetIs
    <2>3. parents' \in [DOMAIN parents' -> SUBSET DOMAIN parents']
      BY <1>0, <2>1 DEF Set
    <2>4. /\ heads' \in [DOMAIN heads' -> DOMAIN parents']
          /\ DOMAIN heads' \subseteq Branches
          /\ head' \in Branches \cup DOMAIN parents'
      <3>1. CASE run[p].to \in Branches
        <4>1. heads' = Set(heads, run[p].to, c) /\ head' = head BY <3>1
        <4> QED BY <1>0, <1>s, <2>2, <3>1, <4>1
      <3>2. CASE run[p].to \notin Branches
        <4>1. heads' = heads /\ head' = c BY <3>2
        <4> QED BY <1>0, <2>2, <4>1
      <3> QED BY <3>1, <3>2
    <2>5. [at |-> "flush", commit |-> c] \in Steps BY DEF Steps
    <2>6. KnownStep([at |-> "flush", commit |-> c], DOMAIN parents') BY <2>2 DEF KnownStep
    <2>7. run' \in [Procs -> Steps] /\ Known' BY <2>2, <2>5, <2>6, KnownGoes
    <2>8. DOMAIN parents' \subseteq Commits /\ stored' \subseteq DOMAIN parents'
      BY <1>0, <2>2
    <2> QED BY <1>b, <2>3, <2>4, <2>7, <2>8 DEF TypeInv, TypeOK
  <1>3. CASE CommitFlush(p)
    <2>1. run[p].commit \in DOMAIN parents
      BY <1>3, <1>k DEF CommitFlush, At, KnownStep
    <2> QED BY <1>0, <1>3, <1>e, <2>1 DEF CommitFlush
  <1>4. CASE CreateBegin(p)
    <2> PICK name \in Branches \ DOMAIN heads, c \in stored :
           Goes(p, [at |-> "create", name |-> name, commit |-> c])
      BY <1>4 DEF CreateBegin
    <2> DEFINE s == [at |-> "create", name |-> name, commit |-> c]
    <2>1. s \in Steps BY <1>0 DEF Steps
    <2>2. KnownStep(s, DOMAIN parents) BY <1>0 DEF KnownStep
    <2> QED BY <1>4, <1>r, <2>1, <2>2 DEF CreateBegin
  <1>5. CASE CreateRef(p)
    <2>1. run[p].name \in Branches /\ run[p].commit \in DOMAIN parents
      BY <1>5, <1>k DEF CreateRef, At, KnownStep
    <2> QED BY <1>0, <1>5, <1>e, <1>s, <2>1 DEF CreateRef
  <1>6. CASE DeleteBegin(p)
    <2> PICK name \in DOMAIN heads \ {head} : Goes(p, [at |-> "delete", name |-> name])
      BY <1>6 DEF DeleteBegin
    <2>1. [at |-> "delete", name |-> name] \in Steps BY <1>0 DEF Steps
    <2>2. KnownStep([at |-> "delete", name |-> name], DOMAIN parents) BY DEF KnownStep
    <2> QED BY <1>6, <1>r, <2>1, <2>2 DEF DeleteBegin
  <1>7. CASE ForceBegin(p)
    <2> PICK name \in DOMAIN heads \ {head} : Goes(p, [at |-> "force", name |-> name])
      BY <1>7 DEF ForceBegin
    <2>1. [at |-> "force", name |-> name] \in Steps BY <1>0 DEF Steps
    <2>2. KnownStep([at |-> "force", name |-> name], DOMAIN parents) BY DEF KnownStep
    <2> QED BY <1>7, <1>r, <2>1, <2>2 DEF ForceBegin
  <1>8. CASE DeleteRef(p)
    BY <1>0, <1>8, <1>e, <1>d DEF DeleteRef
  <1>9. CASE RenameBegin(p)
    <2> PICK old \in DOMAIN heads, new \in Branches \ DOMAIN heads :
           Goes(p, [at |-> "rename_new", old |-> old, new |-> new, commit |-> heads[old]])
      BY <1>9 DEF RenameBegin
    <2> DEFINE s == [at |-> "rename_new", old |-> old, new |-> new, commit |-> heads[old]]
    <2>1. heads[old] \in DOMAIN parents /\ old \in Branches BY <1>0
    <2>2. s \in Steps BY <1>0, <2>1 DEF Steps
    <2>3. KnownStep(s, DOMAIN parents) BY <1>0, <2>1 DEF KnownStep
    <2> QED BY <1>9, <1>r, <2>2, <2>3 DEF RenameBegin
  <1>10. CASE RenameNew(p)
    <2> DEFINE s == [at |-> "rename_old", old |-> run[p].old, new |-> run[p].new]
    <2>1. run[p].old \in Branches /\ run[p].new \in Branches /\ run[p].commit \in DOMAIN parents
      BY <1>10, <1>k DEF RenameNew, At, KnownStep
    <2>4. s \in Steps BY <2>1 DEF Steps
    <2>5. KnownStep(s, DOMAIN parents') BY <2>1 DEF KnownStep
    <2>6. run' \in [Procs -> Steps] /\ Known'
      BY <1>10, <2>4, <2>5, KnownGoes DEF RenameNew
    <2>7. /\ heads' \in [DOMAIN heads' -> DOMAIN parents]
          /\ DOMAIN heads' \subseteq Branches
      BY <1>10, <1>s, <2>1 DEF RenameNew
    <2> QED BY <1>0, <1>b, <1>10, <2>6, <2>7 DEF RenameNew, TypeInv, TypeOK
  <1>11. CASE RenameOld(p)
    <2> DEFINE s == IF run[p].old \notin DOMAIN heads \/ head # run[p].old THEN Idle
                    ELSE [at |-> "rename_head", old |-> run[p].old, new |-> run[p].new]
    <2>2. run[p].old \in Branches /\ run[p].new \in Branches
      BY <1>11, <1>k DEF RenameOld, At, KnownStep
    <2>3. s \in Steps /\ KnownStep(s, DOMAIN parents')
      <3> DEFINE t == [at |-> "rename_head", old |-> run[p].old, new |-> run[p].new]
      <3>1. t \in Steps BY <2>2 DEF Steps
      <3>2. KnownStep(t, DOMAIN parents') BY <2>2 DEF KnownStep
      <3>3. s = Idle \/ s = t OBVIOUS
      <3> QED BY <1>i, <3>1, <3>2, <3>3
    <2>4. run' \in [Procs -> Steps] /\ Known'
      BY <1>11, <2>3, KnownGoes DEF RenameOld
    <2>5. /\ heads' \in [DOMAIN heads' -> DOMAIN parents]
          /\ DOMAIN heads' \subseteq Branches
      BY <1>11, <1>d DEF RenameOld
    <2> QED BY <1>0, <1>b, <1>11, <2>4, <2>5 DEF RenameOld, TypeInv, TypeOK
  <1>12. CASE RenameHead(p)
    <2>1. run[p].new \in Branches BY <1>12, <1>k DEF RenameHead, At, KnownStep
    <2> QED BY <1>0, <1>12, <1>e, <2>1 DEF RenameHead
  <1>13. CASE CheckoutBegin(p)
    <2> PICK to \in {b \in DOMAIN heads : heads[b] \in stored} \cup stored :
           Goes(p, [at |-> "checkout", to |-> to])
      BY <1>13 DEF CheckoutBegin
    <2>1. to \in Branches \cup DOMAIN parents BY <1>0
    <2>2. [at |-> "checkout", to |-> to] \in Steps BY <1>0, <2>1 DEF Steps
    <2>3. KnownStep([at |-> "checkout", to |-> to], DOMAIN parents) BY <2>1 DEF KnownStep
    <2> QED BY <1>13, <1>r, <2>2, <2>3 DEF CheckoutBegin
  <1>14. CASE CheckoutHead(p)
    <2>1. run[p].to \in Branches \cup DOMAIN parents
      BY <1>14, <1>k DEF CheckoutHead, At, KnownStep
    <2> QED BY <1>0, <1>14, <1>e, <2>1 DEF CheckoutHead
  <1>15. CASE InitAgain(p)
    BY <1>t, <1>b, <1>0, <1>15, NamesAssumption DEF InitAgain, TypeInv, TypeOK, Known
  <1>16. CASE Crash(p)
    BY <1>16, <1>i, <1>r DEF Crash
  <1> QED
    BY <1>1, <1>2, <1>3, <1>4, <1>5, <1>6, <1>7, <1>8, <1>9, <1>10, <1>11, <1>12,
       <1>13, <1>14, <1>15, <1>16

\* Branches and HEAD always name commits that were made, and a commit's parents are
\* commits that were made, whatever processes run and wherever they crash.
THEOREM TypeCorrect == Spec => []TypeOK
  <1>1. TypeInv => TypeOK BY DEF TypeInv
  <1> QED BY TypeInit, TypeStep, <1>1, PTL DEF Spec

----------------------------------------------------------------------------
\* Histories, for one process.

LEMMA CurrentInit == Init => Current
  <1> SUFFICES ASSUME Init, NEW p \in Procs PROVE run[p].at = "idle"
    BY DEF Current, At
  <1> QED BY DEF Init, Idle

\* A command that begins has just read what it will use, and nothing else runs.
LEMMA CurrentStep ==
    ASSUME OneProcess, TypeInv, Current, [Next]_vars PROVE Current'
  <1>1. CASE UNCHANGED vars
    <2>1. UNCHANGED <<parents, stored, heads, head, run>> BY <1>1 DEF vars
    <2>2. HeadCommit' = HeadCommit BY <2>1 DEF HeadCommit
    <2>3. ASSUME NEW p \in Procs PROVE Merged(run[p].name)' = Merged(run[p].name)
      BY <2>1 DEF Merged, OtherReachable, Reachable, Closed
    <2> QED BY <2>1, <2>2, <2>3 DEF Current, At
  <1>2. ASSUME NEW p \in Procs,
               \/ CommitBegin(p) \/ CommitRef(p) \/ CommitFlush(p)
               \/ CreateBegin(p) \/ CreateRef(p)
               \/ DeleteBegin(p) \/ ForceBegin(p) \/ DeleteRef(p)
               \/ RenameBegin(p) \/ RenameNew(p) \/ RenameOld(p) \/ RenameHead(p)
               \/ CheckoutBegin(p) \/ CheckoutHead(p)
               \/ InitAgain(p) \/ Crash(p)
        PROVE  Current'
    <2>1. Procs = {p} BY DEF OneProcess
    <2>2. run \in [Procs -> Steps] BY DEF TypeInv, TypeOK
    <2>4. ASSUME run'[p].at \notin {"commit", "create", "delete", "rename_new", "rename_old"}
          PROVE  Current'
      BY <2>1, <2>4 DEF Current, At
    <2>5. CASE CommitBegin(p)
      <3>1. run'[p] = [at |-> "commit", parents |-> HeadCommit, to |-> head]
        BY <2>2, <2>5 DEF CommitBegin, Goes
      <3>2. run'[p].at = "commit" /\ run'[p].to = head /\ run'[p].parents = HeadCommit BY <3>1
      <3>3. head' = head /\ HeadCommit' = HeadCommit BY <2>5 DEF CommitBegin, HeadCommit
      <3> QED BY <2>1, <3>2, <3>3 DEF Current, At
    <2>6. CASE CreateBegin(p)
      <3> PICK name \in Branches \ DOMAIN heads, c \in stored :
             Goes(p, [at |-> "create", name |-> name, commit |-> c])
        BY <2>6 DEF CreateBegin
      <3>1. run'[p] = [at |-> "create", name |-> name, commit |-> c]
        BY <2>2 DEF Goes
      <3>2. run'[p].at = "create" /\ run'[p].name \notin DOMAIN heads BY <3>1
      <3>3. heads' = heads BY <2>6 DEF CreateBegin
      <3> QED BY <2>1, <3>2, <3>3 DEF Current, At
    <2>7. CASE DeleteBegin(p)
      <3> PICK name \in DOMAIN heads \ {head} :
             Merged(name) /\ Goes(p, [at |-> "delete", name |-> name])
        BY <2>7 DEF DeleteBegin
      <3>1. run'[p] = [at |-> "delete", name |-> name] BY <2>2 DEF Goes
      <3>2. UNCHANGED <<parents, stored, heads>> BY <2>7 DEF DeleteBegin
      <3>3. Merged(run[p].name)'
        <4>1. run'[p].name = name BY <3>1
        <4>2. OtherReachable(run[p].name)' = OtherReachable(name)
          BY <3>2, <4>1 DEF OtherReachable, Reachable, Closed
        <4> QED BY <3>2, <4>1, <4>2 DEF Merged
      <3>4. run'[p].at = "delete" /\ run'[p].name \in DOMAIN heads' BY <3>1, <3>2
      <3> QED BY <2>1, <3>3, <3>4 DEF Current, At
    <2>8. CASE RenameBegin(p)
      <3> PICK old \in DOMAIN heads, new \in Branches \ DOMAIN heads :
             Goes(p, [at |-> "rename_new", old |-> old, new |-> new, commit |-> heads[old]])
        BY <2>8 DEF RenameBegin
      <3>1. run'[p] = [at |-> "rename_new", old |-> old, new |-> new, commit |-> heads[old]]
        BY <2>2 DEF Goes
      <3>2. run'[p].at = "rename_new" BY <3>1
      <3>3. run'[p].old = old BY <3>1
      <3>4. run'[p].new = new BY <3>1
      <3>5. run'[p].commit = heads[old] BY <3>1
      <3>6. heads' = heads BY <2>8 DEF RenameBegin
      <3> QED BY <2>1, <3>2, <3>3, <3>4, <3>5, <3>6 DEF Current, At
    <2>9. CASE RenameNew(p)
      <3>1. run'[p] = [at |-> "rename_old", old |-> run[p].old, new |-> run[p].new]
        BY <2>2, <2>9 DEF RenameNew, Goes
      <3>2. /\ run[p].old \in DOMAIN heads
            /\ run[p].new \notin DOMAIN heads
            /\ run[p].commit = heads[run[p].old]
        BY <2>9 DEF RenameNew, Current
      <3>3. heads' = Set(heads, run[p].new, run[p].commit) BY <2>9 DEF RenameNew
      <3>4. /\ {run[p].old, run[p].new} \subseteq DOMAIN heads'
            /\ run[p].old # run[p].new
            /\ heads'[run[p].new] = heads'[run[p].old]
        BY <3>2, <3>3 DEF Set
      <3>5. run'[p].at = "rename_old" BY <3>1
      <3>6. run'[p].old = run[p].old BY <3>1
      <3>7. run'[p].new = run[p].new BY <3>1
      <3> QED BY <2>1, <3>4, <3>5, <3>6, <3>7 DEF Current, At
    <2>10. CASE CommitRef(p)
      <3> PICK c \in Commits : Goes(p, [at |-> "flush", commit |-> c])
        BY <2>10 DEF CommitRef
      <3>1. run'[p].at \notin {"commit", "create", "delete", "rename_new", "rename_old"}
        BY <2>2 DEF Goes
      <3> QED BY <2>4, <3>1
    <2>11. CASE ForceBegin(p)
      <3> PICK name \in DOMAIN heads : Goes(p, [at |-> "force", name |-> name])
        BY <2>11 DEF ForceBegin
      <3>1. run'[p].at \notin {"commit", "create", "delete", "rename_new", "rename_old"}
        BY <2>2 DEF Goes
      <3> QED BY <2>4, <3>1
    <2>12. CASE RenameOld(p)
      <3>1. Goes(p, IF run[p].old \notin DOMAIN heads \/ head # run[p].old THEN Idle
                    ELSE [at |-> "rename_head", old |-> run[p].old, new |-> run[p].new])
        BY <2>12 DEF RenameOld
      <3>2. run'[p].at \in {"idle", "rename_head"} BY <2>2, <3>1 DEF Goes, Idle
      <3> QED BY <2>4, <3>2
    <2>13. CASE CheckoutBegin(p)
      <3> PICK to : Goes(p, [at |-> "checkout", to |-> to])
        BY <2>13 DEF CheckoutBegin
      <3>1. run'[p].at \notin {"commit", "create", "delete", "rename_new", "rename_old"}
        BY <2>2 DEF Goes
      <3> QED BY <2>4, <3>1
    <2>14. CASE Goes(p, Idle)
      <3>1. run'[p].at = "idle" BY <2>2, <2>14 DEF Goes, Idle
      <3> QED BY <2>4, <3>1
    <2>15. CASE InitAgain(p)
      BY <2>4, <2>15 DEF InitAgain, At
    <2> QED
      BY <1>2, <2>5, <2>6, <2>7, <2>8, <2>9, <2>10, <2>11, <2>12, <2>13, <2>14, <2>15
         DEF CommitFlush, CreateRef, DeleteRef, RenameHead, CheckoutHead, Crash
  <1> QED BY <1>1, <1>2 DEF Next

LEMMA HistoryStep ==
    ASSUME OneProcess, TypeInv, Current, [Next]_vars,
           \A p \in Procs : At(p, "force") => run'[p] = run[p]
    PROVE  History \subseteq History'
  <1>0. /\ DOMAIN parents \subseteq Commits
        /\ stored \subseteq DOMAIN parents
        /\ heads \in [DOMAIN heads -> DOMAIN parents]
        /\ run \in [Procs -> Steps]
    BY DEF TypeInv, TypeOK
  \* A branch that still leads to the same commit.
  <1>s. \A b \in DOMAIN heads : heads[b] \in Past(heads[b], parents) BY <1>0, PastSelf
  <1>1. CASE UNCHANGED <<parents, heads>>
    BY <1>1, <1>s, HistoryGrows
  <1>2. ASSUME NEW p \in Procs, CommitRef(p) PROVE History \subseteq History'
    <2> PICK c \in Commits :
           /\ c \in DOMAIN parents => parents[c] = run[p].parents
           /\ parents' = Set(parents, c, run[p].parents)
           /\ IF run[p].to \in Branches
              THEN heads' = Set(heads, run[p].to, c) /\ head' = head
              ELSE heads' = heads /\ head' = c
      BY <1>2 DEF CommitRef
    <2>1. /\ DOMAIN parents \subseteq DOMAIN parents'
          /\ \A d \in DOMAIN parents : parents'[d] = parents[d]
          /\ c \in DOMAIN parents' /\ parents'[c] = run[p].parents
      BY DEF Set
    <2>2. run[p].to = head /\ run[p].parents = HeadCommit BY <1>2 DEF CommitRef, Current
    <2>3. ASSUME NEW b \in DOMAIN heads
          PROVE  \E e \in DOMAIN heads' : heads[b] \in Past(heads'[e], parents')
      <3>0. heads[b] \in Commits BY <1>0
      <3>1. CASE head \in Branches /\ b = head
        <4>1. heads' = Set(heads, b, c) BY <2>2, <3>1
        <4>2. b \in DOMAIN heads' /\ heads'[b] = c BY <4>1 DEF Set
        <4>3. HeadCommit = {heads[b]} BY <3>1 DEF HeadCommit
        <4>4. heads[b] \in parents'[c] \cap Commits BY <2>1, <2>2, <3>0, <4>3
        <4>5. heads[b] \in Past(c, parents') BY <2>1, <4>4, PastParents
        <4> QED BY <4>2, <4>5
      <3>2. CASE head \notin Branches \/ b # head
        <4>1. b \in DOMAIN heads' /\ heads'[b] = heads[b] BY <2>2, <3>2 DEF Set
        <4> QED BY <3>0, <4>1, PastSelf
      <3> QED BY <3>1, <3>2
    <2> QED BY <2>1, <2>3, HistoryGrows
  \* A branch file added under a new name.
  <1>3. ASSUME NEW b, NEW c, b \notin DOMAIN heads, heads' = Set(heads, b, c),
               UNCHANGED parents
        PROVE  History \subseteq History'
    <2>1. \A a \in DOMAIN heads : a \in DOMAIN heads' /\ heads'[a] = heads[a] BY <1>3 DEF Set
    <2> QED BY <1>3, <1>s, <2>1, HistoryGrows
  \* A branch file removed when its commit is in the past of another branch.
  <1>4. ASSUME NEW b \in DOMAIN heads, NEW e \in DOMAIN heads \ {b},
               heads[b] \in Past(heads[e], parents), heads' = Drop(heads, b), UNCHANGED parents
        PROVE  History \subseteq History'
    <2>1. \A a \in DOMAIN heads \ {b} : a \in DOMAIN heads' /\ heads'[a] = heads[a]
      BY <1>4, DropIs
    <2>2. ASSUME NEW a \in DOMAIN heads
          PROVE  \E d \in DOMAIN heads' : heads[a] \in Past(heads'[d], parents')
      <3>1. CASE a = b BY <1>4, <2>1, <3>1
      <3>2. CASE a # b BY <1>4, <1>s, <2>1, <3>2
      <3> QED BY <3>1, <3>2
    <2> QED BY <1>4, <2>2, HistoryGrows
  <1>5. ASSUME NEW p \in Procs, CreateRef(p) PROVE History \subseteq History'
    BY <1>3, <1>5 DEF CreateRef, Current
  <1>6. ASSUME NEW p \in Procs, DeleteRef(p) PROVE History \subseteq History'
    <2>1. At(p, "delete")
      <3>1. ASSUME At(p, "force") PROVE FALSE
        <4>1. run'[p] = Idle BY <1>0, <1>6 DEF DeleteRef, Goes
        <4> QED BY <3>1, <4>1 DEF At, Idle
      <3> QED BY <1>6, <3>1 DEF DeleteRef
    <2>2. run[p].name \in DOMAIN heads /\ Merged(run[p].name) BY <2>1 DEF Current
    <2>3. PICK e \in DOMAIN heads \ {run[p].name} :
             heads[run[p].name] \in Reachable(heads[e], stored)
      BY <2>2 DEF Merged, OtherReachable
    <2>4. heads[run[p].name] \in Past(heads[e], parents) BY <1>0, <2>3, WalkInPast
    <2> QED BY <1>4, <1>6, <2>2, <2>4 DEF DeleteRef
  <1>7. ASSUME NEW p \in Procs, RenameNew(p) PROVE History \subseteq History'
    BY <1>3, <1>7 DEF RenameNew, Current
  <1>8. ASSUME NEW p \in Procs, RenameOld(p) PROVE History \subseteq History'
    <2>1. /\ {run[p].old, run[p].new} \subseteq DOMAIN heads
          /\ run[p].old # run[p].new
          /\ heads[run[p].new] = heads[run[p].old]
      BY <1>8 DEF RenameOld, Current
    <2>2. heads[run[p].old] \in Past(heads[run[p].new], parents) BY <1>s, <2>1
    <2> QED BY <1>4, <1>8, <2>1, <2>2 DEF RenameOld
  <1> QED
    BY <1>1, <1>2, <1>5, <1>6, <1>7, <1>8
       DEF Next, vars, CommitBegin, CommitFlush, CreateBegin, DeleteBegin, ForceBegin,
           RenameBegin, RenameHead, CheckoutBegin, CheckoutHead, InitAgain, Crash

\* When mog commands run one at a time, no command but the forced delete loses a
\* commit of a branch, even if it crashes between any two of its writes: an invariant
\* (Current) says that what a command read still holds when it writes.
THEOREM HistoryIsKept == ASSUME OneProcess PROVE Spec => HistoryKept
  <1>1. Init => TypeInv /\ Current BY TypeInit, CurrentInit
  <1>2. (TypeInv /\ Current) /\ [Next]_vars => (TypeInv /\ Current)'
    BY TypeStep, CurrentStep
  <1>3. TypeInv /\ Current /\ [Next]_vars =>
          [(\A p \in Procs : At(p, "force") => run'[p] = run[p]) => History \subseteq History']_vars
    BY HistoryStep
  <1> QED BY <1>1, <1>2, <1>3, PTL DEF Spec, HistoryKept

----------------------------------------------------------------------------
\* HEAD and the store between commands, for one process none of whose commands died.

Settled ==
    ~disturbed =>
        /\ \A c \in DOMAIN parents \ stored : \E p \in Procs : At(p, "flush") /\ run[p].commit = c
        /\ head \in Branches =>
              \/ head \in DOMAIN heads
              \/ DOMAIN heads = {} /\ DOMAIN parents = {}
              \/ \E p \in Procs : At(p, "rename_head")
        /\ \A p \in Procs :
              /\ At(p, "delete") \/ At(p, "force") => run[p].name # head
              /\ At(p, "checkout") => run[p].to \in DOMAIN heads \cup DOMAIN parents
              /\ At(p, "rename_head") => run[p].new \in DOMAIN heads

LEMMA SettledInit == Init => Settled
  BY DEF Init, Settled, At, Idle

LEMMA SettledStep ==
    ASSUME OneProcess, TypeInv, Current, Settled, [Next]_vars PROVE Settled'
  <1>0. /\ DOMAIN parents \subseteq Commits
        /\ stored \subseteq DOMAIN parents
        /\ heads \in [DOMAIN heads -> DOMAIN parents]
        /\ head \in Branches \cup DOMAIN parents
        /\ run \in [Procs -> Steps]
    BY DEF TypeInv, TypeOK
  <1> SUFFICES ASSUME NEW p \in Procs,
                      \/ CommitBegin(p) \/ CommitRef(p) \/ CommitFlush(p)
                      \/ CreateBegin(p) \/ CreateRef(p)
                      \/ DeleteBegin(p) \/ ForceBegin(p) \/ DeleteRef(p)
                      \/ RenameBegin(p) \/ RenameNew(p) \/ RenameOld(p) \/ RenameHead(p)
                      \/ CheckoutBegin(p) \/ CheckoutHead(p)
                      \/ InitAgain(p) \/ Crash(p)
               PROVE  Settled'
    <2>1. CASE UNCHANGED vars BY <2>1 DEF vars, Settled, At
    <2> QED BY <2>1 DEF Next
  <1>1. Procs = {p} BY DEF OneProcess
  <1>k. KnownStep(run[p], DOMAIN parents) BY DEF TypeInv, Known
  \* A command that begins writes nothing.
  <1>b. ASSUME UNCHANGED <<parents, stored, heads, head, disturbed>>, At(p, "idle"),
               NEW s, Goes(p, s), s.at \notin {"flush", "rename_head"},
               s.at \in {"delete", "force"} => s.name # head,
               s.at = "checkout" => s.to \in DOMAIN heads \cup DOMAIN parents
        PROVE  Settled'
    <2>1. run'[p] = s BY <1>0, <1>b DEF Goes
    <2> QED BY <1>1, <1>b, <2>1 DEF Settled, At
  <1>2. CASE CommitBegin(p) BY <1>2, <1>b DEF CommitBegin
  <1>3. CASE CommitRef(p)
    <2> PICK c \in Commits :
           /\ parents' = Set(parents, c, run[p].parents)
           /\ IF run[p].to \in Branches
              THEN heads' = Set(heads, run[p].to, c) /\ head' = head
              ELSE heads' = heads /\ head' = c
           /\ Goes(p, [at |-> "flush", commit |-> c])
           /\ UNCHANGED <<stored, disturbed>>
      BY <1>3 DEF CommitRef
    <2>1. run'[p].at = "flush" /\ run'[p].commit = c BY <1>0 DEF Goes
    <2>2. run[p].to = head BY <1>3 DEF CommitRef, Current
    <2>3. DOMAIN parents' = DOMAIN parents \cup {c} BY SetIs
    <2>4. At(p, "commit") BY <1>3 DEF CommitRef
    <2>5. head' \in Branches => head' \in DOMAIN heads'
      BY <2>2, NamesAssumption DEF Set
    <2>6. ASSUME ~disturbed PROVE \A d \in DOMAIN parents' \ stored' : d = c
      BY <1>1, <2>3, <2>4, <2>6 DEF Settled, At
    <2> QED BY <1>1, <2>1, <2>5, <2>6 DEF Settled, At
  <1>4. CASE CommitFlush(p)
    <2>1. run'[p].at = "idle" BY <1>0, <1>4 DEF CommitFlush, Goes, Idle
    <2> QED BY <1>1, <1>4, <2>1 DEF CommitFlush, Settled, At
  <1>5. CASE CreateBegin(p)
    <2> PICK name \in Branches \ DOMAIN heads, c \in stored :
           Goes(p, [at |-> "create", name |-> name, commit |-> c])
      BY <1>5 DEF CreateBegin
    <2> QED BY <1>5, <1>b DEF CreateBegin
  <1>6. CASE CreateRef(p)
    <2>1. run'[p].at = "idle" BY <1>0, <1>6 DEF CreateRef, Goes, Idle
    <2>2. DOMAIN parents # {} BY <1>6, <1>k DEF CreateRef, At, KnownStep
    <2>3. DOMAIN heads \subseteq DOMAIN heads' BY <1>6 DEF CreateRef, Set
    <2> QED BY <1>1, <1>6, <2>1, <2>2, <2>3 DEF CreateRef, Settled, At
  <1>7. CASE DeleteBegin(p)
    <2> PICK name \in DOMAIN heads \ {head} : Goes(p, [at |-> "delete", name |-> name])
      BY <1>7 DEF DeleteBegin
    <2> QED BY <1>7, <1>b DEF DeleteBegin
  <1>8. CASE ForceBegin(p)
    <2> PICK name \in DOMAIN heads \ {head} : Goes(p, [at |-> "force", name |-> name])
      BY <1>8 DEF ForceBegin
    <2> QED BY <1>8, <1>b DEF ForceBegin
  <1>9. CASE DeleteRef(p)
    <2>1. run'[p].at = "idle" BY <1>0, <1>9 DEF DeleteRef, Goes, Idle
    <2>2. DOMAIN heads' = DOMAIN heads \ {run[p].name} BY <1>9, DropIs DEF DeleteRef
    <2> QED BY <1>1, <1>9, <2>1, <2>2 DEF DeleteRef, Settled, At
  <1>10. CASE RenameBegin(p)
    <2> PICK old \in DOMAIN heads, new \in Branches \ DOMAIN heads :
           Goes(p, [at |-> "rename_new", old |-> old, new |-> new, commit |-> heads[old]])
      BY <1>10 DEF RenameBegin
    <2> QED BY <1>10, <1>b DEF RenameBegin
  <1>11. CASE RenameNew(p)
    <2>1. run'[p].at = "rename_old" BY <1>0, <1>11 DEF RenameNew, Goes
    <2>2. DOMAIN parents # {} BY <1>11, <1>k DEF RenameNew, At, KnownStep
    <2>3. DOMAIN heads \subseteq DOMAIN heads' BY <1>11 DEF RenameNew, Set
    <2> QED BY <1>1, <1>11, <2>1, <2>2, <2>3 DEF RenameNew, Settled, At
  <1>12. CASE RenameOld(p)
    <2>1. /\ {run[p].old, run[p].new} \subseteq DOMAIN heads
          /\ run[p].old # run[p].new
      BY <1>12 DEF RenameOld, Current
    <2>2. DOMAIN heads' = DOMAIN heads \ {run[p].old} BY <1>12, DropIs DEF RenameOld
    <2>3. run'[p] = IF head # run[p].old THEN Idle
                    ELSE [at |-> "rename_head", old |-> run[p].old, new |-> run[p].new]
      BY <1>0, <1>12, <2>1 DEF RenameOld, Goes
    <2>4. CASE head # run[p].old
      <3>1. run'[p].at = "idle" BY <2>3, <2>4 DEF Idle
      <3> QED BY <1>1, <1>12, <2>1, <2>2, <2>4, <3>1 DEF RenameOld, Settled, At
    <2>5. CASE head = run[p].old
      <3>1. run'[p].at = "rename_head" /\ run'[p].new = run[p].new BY <2>3, <2>5
      <3> QED BY <1>1, <1>12, <2>1, <2>2, <3>1 DEF RenameOld, Settled, At
    <2> QED BY <2>4, <2>5
  <1>13. CASE RenameHead(p)
    <2>1. run'[p].at = "idle" BY <1>0, <1>13 DEF RenameHead, Goes, Idle
    <2> QED BY <1>1, <1>13, <2>1 DEF RenameHead, Settled, At
  <1>14. CASE CheckoutBegin(p)
    <2> PICK to \in {b \in DOMAIN heads : heads[b] \in stored} \cup stored :
           Goes(p, [at |-> "checkout", to |-> to])
      BY <1>14 DEF CheckoutBegin
    <2> QED BY <1>0, <1>14, <1>b DEF CheckoutBegin
  <1>15. CASE CheckoutHead(p)
    <2>1. run'[p].at = "idle" BY <1>0, <1>15 DEF CheckoutHead, Goes, Idle
    <2> QED BY <1>0, <1>1, <1>15, <2>1, NamesAssumption DEF CheckoutHead, Settled, At
  <1>16. CASE InitAgain(p) \/ Crash(p) BY <1>16 DEF InitAgain, Crash, Settled
  <1> QED
    BY <1>2, <1>3, <1>4, <1>5, <1>6, <1>7, <1>8, <1>9, <1>10, <1>11, <1>12, <1>13,
       <1>14, <1>15, <1>16

LEMMA SettledAlways == ASSUME OneProcess PROVE Spec => [](TypeInv /\ Settled)
  <1>1. Init => TypeInv /\ Current /\ Settled BY TypeInit, CurrentInit, SettledInit
  <1>2. (TypeInv /\ Current /\ Settled) /\ [Next]_vars => (TypeInv /\ Current /\ Settled)'
    BY TypeStep, CurrentStep, SettledStep
  <1> QED BY <1>1, <1>2, PTL DEF Spec

\* When commands run one at a time and none has died, HEAD leads to a commit whenever a
\* command ends and there is a branch: rename is the only command during which it
\* names a branch that is gone.
THEOREM HeadAlwaysResolves == ASSUME OneProcess PROVE Spec => []HeadResolves
  <1>1. TypeInv /\ Settled => HeadResolves
    <2> SUFFICES ASSUME TypeInv, Settled, \A p \in Procs : At(p, "idle"), ~disturbed,
                        DOMAIN heads # {}
                 PROVE  HeadCommit # {}
      BY DEF HeadResolves
    <2>1. head \in Branches \cup DOMAIN parents /\ DOMAIN parents \subseteq Commits
      BY DEF TypeInv, TypeOK
    <2>2. ~\E p \in Procs : At(p, "rename_head") BY DEF At
    <2>3. head \in DOMAIN heads \/ head \in Commits BY <2>1, <2>2 DEF Settled
    <2> QED BY <2>3 DEF HeadCommit
  <1> QED BY SettledAlways, <1>1, PTL

\* When commands run one at a time and none has died, every commit made has been
\* flushed when a command ends, so whatever a branch or HEAD leads to can be read.
THEOREM RefsAlwaysStored == ASSUME OneProcess PROVE Spec => []RefsStored
  <1>1. TypeInv /\ Settled => RefsStored
    <2> SUFFICES ASSUME TypeInv, Settled, \A p \in Procs : At(p, "idle"), ~disturbed,
                        NEW c \in {heads[b] : b \in DOMAIN heads} \cup HeadCommit
                 PROVE  Reachable(c, DOMAIN parents) \subseteq stored
      BY DEF RefsStored, AllStored
    <2>1. /\ parents \in [DOMAIN parents -> SUBSET DOMAIN parents]
          /\ DOMAIN parents \subseteq Commits
          /\ heads \in [DOMAIN heads -> DOMAIN parents]
      BY DEF TypeInv, TypeOK
    <2>2. c \in DOMAIN parents BY <2>1, HeadCommitIs DEF TypeInv
    <2>3. Closed(DOMAIN parents, DOMAIN parents) BY <2>1 DEF Closed
    <2>4. Reachable(c, DOMAIN parents) \subseteq DOMAIN parents
      BY <2>1, <2>2, <2>3 DEF Reachable
    <2>5. DOMAIN parents \subseteq stored BY DEF Settled, At
    <2> QED BY <2>4, <2>5
  <1> QED BY SettledAlways, <1>1, PTL
=============================================================================
