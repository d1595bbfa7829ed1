----------------------------- MODULE Recursion -----------------------------
(***************************************************************************)
(* Functions that are defined by recursion: f[x \in D] == Body(p, f, x) is *)
(* a choice among the functions that satisfy the equation, so that it says *)
(* nothing before there is one.  There is one when the body uses f at      *)
(* arguments of a smaller size.  A module that proves about such a         *)
(* function takes this one with its own body for Body, and hands it the    *)
(* induction over Nat that it has proved: this module extends nothing that *)
(* is about well-founded orders, as each instance would bring it along.    *)
(***************************************************************************)
EXTENDS Integers

CONSTANT Body(_, _, _)  \* the value at an argument: of a parameter, the function, the argument

\* The function of a parameter p, on D.
Rec(p, D) == LET f[x \in D] == Body(p, f, x) IN f

\* With a body that uses f at arguments of a smaller size, the function satisfies its
\* equation: there is one up to each size, two of them agree where both are, and so the
\* value at x is that of one of them.  The first assumption is induction over Nat.
THEOREM Defined ==
    ASSUME \A S : 0 \in S /\ (\A n \in Nat : n \in S => n + 1 \in S) => \A n \in Nat : n \in S,
           NEW p, NEW D, NEW size, \A x \in D : size[x] \in Nat,
           \A f, g : \A x \in D :
              (\A y \in D : size[y] < size[x] => f[y] = g[y]) => Body(p, f, x) = Body(p, g, x)
    PROVE  Rec(p, D) = [x \in D |-> Body(p, Rec(p, D), x)]
  <1> DEFINE Low(n) == {x \in D : size[x] < n}
             Ok(g, n) == \A x \in Low(n) : g[x] = Body(p, g, x)
             Has == {n \in Nat : \E g : Ok(g, n)}
  <1>1. 0 \in Has
    <2>1. \A g : Ok(g, 0) OBVIOUS
    <2> QED BY <2>1
  <1>2. ASSUME NEW n \in Nat, n \in Has PROVE n + 1 \in Has
    <2>1. PICK g : Ok(g, n)
      BY <1>2
    <2> DEFINE h == [x \in D |-> IF size[x] < n THEN g[x] ELSE Body(p, g, x)]
    <2>2. ASSUME NEW x \in Low(n + 1) PROVE h[x] = Body(p, h, x)
      <3>1. x \in D /\ size[x] \in Nat /\ size[x] < n + 1
        OBVIOUS
      <3>2. h[x] = Body(p, g, x)
        BY <2>1, <3>1
      <3>3. \A y \in D : size[y] < size[x] => g[y] = h[y]
        BY <3>1
      <3>4. Body(p, g, x) = Body(p, h, x)
        <4> HIDE DEF h
        <4> QED BY <3>1, <3>3
      <3> QED BY <3>2, <3>4
    <2>3. Ok(h, n + 1)
      <3> HIDE DEF h
      <3> QED BY <2>2
    <2>4. \E f : Ok(f, n + 1)
      <3> HIDE DEF h, Ok
      <3> QED BY <2>3
    <2> QED BY <2>4
  <1>3. \A n \in Nat : \E g : Ok(g, n)
    <2>1. \A n \in Nat : n \in Has
      <3> HIDE DEF Has
      <3> QED BY <1>1, <1>2
    <2> QED BY <2>1
  <1> DEFINE G(n) == CHOOSE g : Ok(g, n)
  <1>4. \A n \in Nat : Ok(G(n), n)
    <2> TAKE n \in Nat
    <2> HIDE DEF Ok
    <2> \E g : Ok(g, n) BY <1>3
    <2> QED OBVIOUS
  <1> HIDE DEF G
  <1>5. ASSUME NEW n \in Nat, NEW m \in Nat, n <= m
        PROVE  \A x \in Low(n) : G(n)[x] = G(m)[x]
    <2> DEFINE Same == {i \in Nat : i <= n => \A x \in Low(i) : G(n)[x] = G(m)[x]}
    <2>1. 0 \in Same
      OBVIOUS
    <2>2. ASSUME NEW i \in Nat, i \in Same PROVE i + 1 \in Same
      <3> SUFFICES ASSUME i + 1 <= n, NEW x \in Low(i + 1) PROVE G(n)[x] = G(m)[x]
        OBVIOUS
      <3>1. x \in Low(n) /\ x \in Low(m) /\ size[x] \in Nat
        BY <1>5
      <3>2. G(n)[x] = Body(p, G(n), x) /\ G(m)[x] = Body(p, G(m), x)
        BY <1>4, <3>1
      <3>3. \A y \in D : size[y] < size[x] => G(n)[y] = G(m)[y]
        BY <2>2
      <3> QED BY <3>2, <3>3
    <2>3. \A i \in Nat : i \in Same
      <3> HIDE DEF Same
      <3> QED BY <2>1, <2>2
    <2> QED BY <2>3
  <1> DEFINE f == [x \in D |-> G(size[x] + 1)[x]]
  <1>6. ASSUME NEW x \in D PROVE f[x] = Body(p, f, x)
    <2> DEFINE n == size[x] + 1
    <2>1. n \in Nat /\ x \in Low(n)
      OBVIOUS
    <2>2. f[x] = Body(p, G(n), x)
      BY <1>4, <2>1
    <2>3. ASSUME NEW y \in D, size[y] < size[x] PROVE G(n)[y] = f[y]
      <3>1. y \in Low(size[y] + 1) /\ size[y] + 1 <= n /\ size[y] + 1 \in Nat
        BY <2>3
      <3> QED BY <1>5, <2>1, <3>1
    <2> HIDE DEF f, n
    <2> QED BY <2>2, <2>3
  <1>7. f = [x \in D |-> Body(p, f, x)]
    BY <1>6
  <1> HIDE DEF f
  <1> QED BY <1>7 DEF Rec

\* A loop: what it has after n + 1 rounds is made of what it has after n.
THEOREM Stepped ==
    ASSUME \A S : 0 \in S /\ (\A n \in Nat : n \in S => n + 1 \in S) => \A n \in Nat : n \in S,
           NEW p, \A f, g : Body(p, f, 0) = Body(p, g, 0),
           \A f, g : \A n \in Nat : f[n] = g[n] => Body(p, f, n + 1) = Body(p, g, n + 1)
    PROVE  /\ Rec(p, Nat)[0] = Body(p, Rec(p, Nat), 0)
           /\ \A n \in Nat : Rec(p, Nat)[n + 1] = Body(p, Rec(p, Nat), n + 1)
  <1> DEFINE size == [n \in Nat |-> n]
  <1>1. \A n \in Nat : size[n] \in Nat
    OBVIOUS
  <1>2. ASSUME NEW f, NEW g, NEW n \in Nat, \A m \in Nat : size[m] < size[n] => f[m] = g[m]
        PROVE  Body(p, f, n) = Body(p, g, n)
    <2>1. CASE n = 0
      BY <2>1
    <2>2. CASE n # 0
      <3>1. PICK m \in Nat : n = m + 1
        <4> n - 1 \in Nat /\ n = (n - 1) + 1
          BY <2>2
        <4> QED OBVIOUS
      <3>2. f[m] = g[m]
        BY <1>2, <3>1
      <3> QED BY <3>1, <3>2
    <2> QED BY <2>1, <2>2
  <1> HIDE DEF size
  <1>3. Rec(p, Nat) = [n \in Nat |-> Body(p, Rec(p, Nat), n)]
    BY <1>1, <1>2, Defined
  <1>4. PICK r : r = Rec(p, Nat)
    OBVIOUS
  <1>5. \A n \in Nat : r[n] = Body(p, r, n)
    BY <1>3, <1>4
  <1> QED BY <1>4, <1>5
=============================================================================
