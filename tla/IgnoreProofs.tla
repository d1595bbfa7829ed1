---------------------------- MODULE IgnoreProofs ----------------------------
(***************************************************************************)
(* What holds of the glob loop for every rule and every path.              *)
(*                                                                         *)
(* Soundness follows the bytes consumed so far: the pattern up to pi has   *)
(* been fitted to the text up to ti, and the pattern up to the last star   *)
(* to some text up to where that star began.  Completeness follows what is *)
(* left: if there is a match at all, then there is one in which the last   *)
(* star stands for at least what it has been given so far.                 *)
(***************************************************************************)
EXTENDS Ignore, TLAPS

Cuts == [0 .. Len(pat) -> 0 .. Len(text)]

\* The first p bytes of the pattern match the first t of the text.
Prefix(p, t) == \E cut \in Cuts : cut[0] = 0 /\ cut[p] = t /\ Fits(cut, 0, p)

\* The pattern after p matches the text after t.
Rest(p, t) ==
    \E cut \in Cuts : cut[p] = t /\ cut[Len(pat)] = Len(text) /\ Fits(cut, p, Len(pat))

Busy == at \in {"loop", "trailing"}

Positions ==
    /\ at = "rule" => pi = 0 /\ ti = 0 /\ star = NoStar
    /\ star_text <= ti
    /\ at = "trailing" => ti = Len(text)
    /\ star # NoStar => star < Len(pat) /\ pat[star + 1] = Star

Consumed ==
    /\ Busy => Prefix(pi, ti)
    /\ Busy /\ star # NoStar => \E s \in 0 .. star_text : Prefix(star, s)

Sound == Positions /\ Consumed /\ GlobSound

StarFree == \A i \in DOMAIN text : text[i] # Star

\* Since the last star, pattern and text have been consumed byte by byte.
InStep ==
    at = "loop" /\ star # NoStar =>
        /\ star + 1 <= pi
        /\ ti - star_text = pi - (star + 1)
        /\ \A k \in star + 2 .. pi : pat[k] # Star

Left ==
    StarFree /\ Matches =>
        /\ at = "loop" /\ star = NoStar => Rest(pi, ti)
        /\ at = "loop" /\ star # NoStar => \E t \in star_text .. Len(text) : Rest(star + 1, t)
        /\ at = "trailing" => Rest(pi, Len(text))

Complete == (StarFree => InStep) /\ Left /\ GlobComplete

-----------------------------------------------------------------------------
\* Sequences of bytes have bytes at their positions.
LEMMA SeqFacts ==
    ASSUME NEW s \in Seq(Bytes)
    PROVE  Len(s) \in Nat /\ DOMAIN s = 1 .. Len(s) /\ \A i \in 1 .. Len(s) : s[i] \in Bytes
OBVIOUS

\* The first step of the proofs: types and positions.
LEMMA InitBase == Init => TypeOK /\ Positions
<1> SUFFICES ASSUME Init PROVE TypeOK /\ Positions
  OBVIOUS
<1>1. pat \in Seq(Bytes)
  <2>1. PICK line \in Lines : pat \in Stripped(line)
    BY DEF Init
  <2>2. PICK k \in 0 .. Len(line) : pat = SubSeq(line, k + 1, Len(line))
    BY <2>1 DEF Stripped
  <2>3. line \in Seq(Bytes)
    BY InputAssumption
  <2> QED BY <2>2, <2>3, SeqFacts
<1>2. text \in Seq(Bytes)
  BY InputAssumption DEF Init
<1>3. Len(pat) \in Nat /\ Len(text) \in Nat
  BY <1>1, <1>2, SeqFacts
<1>4. pi = 0 /\ ti = 0 /\ star = NoStar /\ star_text = 0 /\ at = "rule"
  BY DEF Init
<1>5. TypeOK
  <2>1. ignored \in BOOLEAN
    BY Zenon DEF Init
  <2> QED BY <1>1, <1>2, <1>3, <1>4, <2>1 DEF TypeOK
<1>6. Positions
  BY <1>4 DEF Positions
<1> QED BY <1>5, <1>6

LEMMA NextBase == TypeOK /\ Positions /\ [Next]_vars => TypeOK' /\ Positions'
<1> SUFFICES ASSUME TypeOK, Positions, [Next]_vars PROVE TypeOK' /\ Positions'
  OBVIOUS
<1> USE DEF TypeOK, Positions, NoStar
<1>0. Len(pat) \in Nat /\ Len(text) \in Nat
  BY SeqFacts
<1>1. CASE Plain
  BY <1>0, <1>1, Zenon DEF Plain, PlainCovers, IsPrefix
<1>2. CASE Glob
  BY <1>0, <1>2 DEF Glob
<1>3. CASE Consume
  BY <1>0, <1>3 DEF Consume, Scanning, Literal
<1>4. CASE MeetStar
  BY <1>0, <1>4 DEF MeetStar, Scanning, AtStar
<1>5. CASE Backtrack
  BY <1>0, <1>5 DEF Backtrack, Scanning
<1>6. CASE Fail
  BY <1>0, <1>6 DEF Fail
<1>7. CASE Exhaust
  BY <1>0, <1>7 DEF Exhaust
<1>8. CASE SkipStar
  BY <1>0, <1>8 DEF SkipStar, AtStar
<1>9. CASE Verdict
  BY <1>0, <1>9 DEF Verdict
<1>10. CASE UNCHANGED vars
  BY <1>0, <1>10 DEF vars
<1> QED
  BY <1>1, <1>2, <1>3, <1>4, <1>5, <1>6, <1>7, <1>8, <1>9, <1>10 DEF Next

\* Positions stay within the rule and the path, for every rule and path: is_match indexes
\* both without a check of its own.
THEOREM TypeCorrect == Spec => []TypeOK
<1>1. Spec => [](TypeOK /\ Positions)
  BY InitBase, NextBase, PTL DEF Spec
<1> QED BY <1>1, PTL

-----------------------------------------------------------------------------
\* The empty text is matched by none of the pattern.
LEMMA PrefixEmpty == ASSUME TypeOK PROVE Prefix(0, 0)
<1> DEFINE cut == [i \in 0 .. Len(pat) |-> 0]
<1>1. Len(pat) \in Nat /\ Len(text) \in Nat
  BY SeqFacts DEF TypeOK
<1>2. cut \in Cuts /\ cut[0] = 0
  BY <1>1 DEF Cuts
<1>3. Fits(cut, 0, 0)
  BY <1>1 DEF Fits
<1> QED BY <1>2, <1>3 DEF Prefix

\* A byte or a query that fits is one more byte of both.
LEMMA PrefixByte ==
    ASSUME TypeOK, NEW p \in 0 .. Len(pat), NEW t \in 0 .. Len(text),
           p < Len(pat), t < Len(text), Prefix(p, t), pat[p + 1] \in {text[t + 1], Query}
    PROVE  Prefix(p + 1, t + 1)
<1> USE DEF Cuts
<1>1. Len(pat) \in Nat /\ Len(text) \in Nat
  BY SeqFacts DEF TypeOK
<1>2. PICK cut \in Cuts : cut[0] = 0 /\ cut[p] = t /\ Fits(cut, 0, p)
  BY DEF Prefix
<1> DEFINE new == [cut EXCEPT ![p + 1] = t + 1]
<1>3. new \in Cuts /\ new[0] = 0 /\ new[p + 1] = t + 1 /\ \A i \in 0 .. p : new[i] = cut[i]
  BY <1>1, <1>2
<1>4. \A i \in 0 .. p : cut[i] \in 0 .. Len(text)
  BY <1>1
<1> HIDE DEF new
<1>5. ASSUME NEW i \in 0 .. p + 1, NEW j \in 0 .. p + 1, i <= j
      PROVE  /\ new[i] <= new[j]
             /\ (\A k \in i + 1 .. j : pat[k] # Star) => new[j] = new[i] + (j - i)
  <2>1. CASE j <= p
    BY <1>1, <1>2, <1>3, <1>5, <2>1 DEF Fits
  <2>2. CASE j = p + 1 /\ i = p + 1
    BY <1>1, <1>3, <2>2
  <2>3. CASE j = p + 1 /\ i <= p
    <3>1. cut[i] <= t /\ ((\A k \in i + 1 .. p : pat[k] # Star) => t = cut[i] + (p - i))
      BY <1>1, <1>2, <2>3 DEF Fits
    <3> QED BY <1>1, <1>3, <1>4, <2>3, <3>1
  <2> QED BY <1>1, <1>5, <2>1, <2>2, <2>3
<1>6. ASSUME NEW i \in 1 .. p + 1
      PROVE  pat[i] \in {Star, Query} \/ pat[i] = text[new[i]]
  <2>1. CASE i <= p
    BY <1>1, <1>2, <1>3, <1>6, <2>1 DEF Fits
  <2>2. CASE i = p + 1
    BY <1>1, <1>3, <2>2
  <2> QED BY <1>1, <2>1, <2>2
<1>7. Fits(new, 0, p + 1)
  BY <1>1, <1>5, <1>6 DEF Fits
<1> QED BY <1>3, <1>7 DEF Prefix

\* A star takes as much of the text as one likes.
LEMMA PrefixStar ==
    ASSUME TypeOK, NEW p \in 0 .. Len(pat), NEW s \in 0 .. Len(text), NEW t \in 0 .. Len(text),
           p < Len(pat), s <= t, Prefix(p, s), pat[p + 1] = Star
    PROVE  Prefix(p + 1, t)
<1> USE DEF Cuts
<1>1. Len(pat) \in Nat /\ Len(text) \in Nat
  BY SeqFacts DEF TypeOK
<1>2. PICK cut \in Cuts : cut[0] = 0 /\ cut[p] = s /\ Fits(cut, 0, p)
  BY DEF Prefix
<1> DEFINE new == [cut EXCEPT ![p + 1] = t]
<1>3. new \in Cuts /\ new[0] = 0 /\ new[p + 1] = t /\ \A i \in 0 .. p : new[i] = cut[i]
  BY <1>1, <1>2
<1>4. \A i \in 0 .. p : cut[i] \in 0 .. Len(text)
  BY <1>1
<1> HIDE DEF new
<1>5. ASSUME NEW i \in 0 .. p + 1, NEW j \in 0 .. p + 1, i <= j
      PROVE  /\ new[i] <= new[j]
             /\ (\A k \in i + 1 .. j : pat[k] # Star) => new[j] = new[i] + (j - i)
  <2>1. CASE j <= p
    BY <1>1, <1>2, <1>3, <1>5, <2>1 DEF Fits
  <2>2. CASE j = p + 1 /\ i = p + 1
    BY <1>1, <1>3, <2>2
  <2>3. CASE j = p + 1 /\ i <= p
    <3>1. cut[i] <= s
      BY <1>1, <1>2, <2>3 DEF Fits
    <3>2. ~ \A k \in i + 1 .. j : pat[k] # Star
      BY <1>1, <2>3
    <3> QED BY <1>1, <1>3, <1>4, <2>3, <3>1, <3>2
  <2> QED BY <1>1, <1>5, <2>1, <2>2, <2>3
<1>6. \A i \in 1 .. p + 1 : pat[i] \in {Star, Query} \/ pat[i] = text[new[i]]
  BY <1>1, <1>2, <1>3 DEF Fits
<1>7. Fits(new, 0, p + 1)
  BY <1>1, <1>5, <1>6 DEF Fits
<1> QED BY <1>3, <1>7 DEF Prefix

\* What has been consumed has been matched.
LEMMA InitSound == Init => Sound
  BY InitBase DEF Init, Sound, Consumed, Busy, GlobSound, Positions

LEMMA NextSound == TypeOK /\ Sound /\ [Next]_vars => Sound'
<1> SUFFICES ASSUME TypeOK, Sound, [Next]_vars PROVE Sound'
  OBVIOUS
<1>0. Len(pat) \in Nat /\ Len(text) \in Nat
  BY SeqFacts DEF TypeOK
<1>a. TypeOK' /\ Positions' /\ Positions
  BY NextBase DEF Sound
<1>b. pat' = pat /\ text' = text
  BY DEF Next, vars, Plain, Glob, Consume, MeetStar, Backtrack, Fail, Exhaust, SkipStar, Verdict
<1>c. \A p, t : Prefix(p, t)' = Prefix(p, t)
  BY <1>b DEF Prefix, Fits, Cuts
<1>d. IsGlob(pat') = IsGlob(pat) /\ Matches' = Matches
  BY <1>b DEF IsGlob, IsDirRule, Matches, Fits
<1> SUFFICES Consumed' /\ GlobSound'
  BY <1>a DEF Sound
<1>1. CASE Plain
  BY <1>1, <1>b, <1>d DEF Plain, Consumed, GlobSound, Busy
<1>2. CASE Glob
  <2>1. pi' = 0 /\ ti' = 0 /\ star' = NoStar /\ at' = "loop"
    BY <1>2, <1>a DEF Glob, Positions
  <2>2. Prefix(0, 0)
    BY PrefixEmpty
  <2> QED BY <2>1, <2>2, <1>c DEF Consumed, GlobSound, Busy
<1>3. CASE Consume
  <2>1. /\ Busy /\ Prefix(pi, ti) /\ pi < Len(pat) /\ ti < Len(text)
        /\ pat[pi + 1] \in {text[ti + 1], Query}
    BY <1>3 DEF Consume, Scanning, Literal, Sound, Consumed, Busy
  <2>2. Prefix(pi + 1, ti + 1)
    BY <2>1, PrefixByte DEF TypeOK
  <2> QED BY <1>3, <1>c, <2>1, <2>2 DEF Consume, Scanning, Sound, Consumed, GlobSound, Busy
<1>4. CASE MeetStar
  <2>1. Busy /\ Prefix(pi, ti) /\ pi < Len(pat) /\ pat[pi + 1] = Star
    BY <1>4 DEF MeetStar, Scanning, AtStar, Sound, Consumed, Busy
  <2>2. Prefix(pi + 1, ti)
    BY <1>0, <2>1, PrefixStar DEF TypeOK
  <2>3. /\ pi' = pi + 1 /\ ti' = ti /\ star' = pi /\ star_text' = ti /\ at' = "loop"
    BY <1>4 DEF MeetStar, Scanning
  <2>4. ti \in 0 .. ti
    BY <1>0 DEF TypeOK
  <2> QED BY <1>c, <2>1, <2>2, <2>3, <2>4 DEF Consumed, GlobSound, Busy
<1>5. CASE Backtrack
  <2>1. /\ Busy /\ star # NoStar /\ at' = "loop" /\ ti < Len(text)
        /\ pi' = star + 1 /\ ti' = star_text + 1 /\ star_text' = star_text + 1 /\ star' = star
    BY <1>5 DEF Backtrack, Scanning, Busy
  <2>2. star \in 0 .. Len(pat) /\ star < Len(pat) /\ pat[star + 1] = Star /\ star_text <= ti
    BY <1>0, <1>a, <2>1 DEF Positions, TypeOK
  <2>3. PICK s \in 0 .. star_text : Prefix(star, s)
    BY <2>1 DEF Sound, Consumed
  <2>4. s \in 0 .. Len(text) /\ star_text + 1 \in 0 .. Len(text) /\ s <= star_text + 1
    BY <1>0, <2>1, <2>2 DEF TypeOK
  <2>5. Prefix(star + 1, star_text + 1)
    BY <2>2, <2>3, <2>4, PrefixStar
  <2>6. s \in 0 .. star_text'
    BY <2>1, <2>4 DEF TypeOK
  <2> QED BY <1>c, <2>1, <2>3, <2>5, <2>6 DEF Consumed, GlobSound, Busy
<1>6. CASE Fail
  BY <1>6 DEF Fail, Consumed, GlobSound, Busy
<1>7. CASE Exhaust
  BY <1>7, <1>c DEF Exhaust, Sound, Consumed, GlobSound, Busy
<1>8. CASE SkipStar
  <2>1. Busy /\ Prefix(pi, ti) /\ pi < Len(pat) /\ pat[pi + 1] = Star
    BY <1>8 DEF SkipStar, AtStar, Sound, Consumed, Busy
  <2>2. Prefix(pi + 1, ti)
    BY <1>0, <2>1, PrefixStar DEF TypeOK
  <2> QED BY <1>8, <1>c, <2>1, <2>2 DEF SkipStar, Sound, Consumed, GlobSound, Busy
<1>9. CASE Verdict
  <2>1. at' = "done" /\ ti = Len(text) /\ Prefix(pi, ti) /\ ignored' = (pi = Len(pat))
    BY <1>9, <1>a DEF Verdict, Positions, Sound, Consumed, Busy
  <2>2. pi = Len(pat) => Matches
    BY <2>1 DEF Prefix, Matches, Cuts
  <2> QED BY <1>d, <2>1, <2>2 DEF Consumed, GlobSound, Busy
<1>10. CASE UNCHANGED vars
  BY <1>10, <1>c, <1>d DEF vars, Sound, Consumed, GlobSound, Busy
<1> QED
  BY <1>1, <1>2, <1>3, <1>4, <1>5, <1>6, <1>7, <1>8, <1>9, <1>10 DEF Next

\* A rule hides no path that it does not match, however often the loop goes back to its
\* last star.
THEOREM GlobIsSound == Spec => []GlobSound
<1>1. Spec => [](TypeOK /\ Sound)
  <2>1. TypeOK /\ Sound /\ [Next]_vars => TypeOK' /\ Sound'
    BY NextBase, NextSound DEF Sound
  <2> QED BY InitBase, InitSound, <2>1, PTL DEF Spec
<1>2. Sound => GlobSound
  BY DEF Sound
<1> QED BY <1>1, <1>2, PTL

-----------------------------------------------------------------------------
\* A part of a fitted pattern is fitted.
LEMMA FitsPart ==
    ASSUME TypeOK, NEW cut \in Cuts, NEW p \in 0 .. Len(pat), NEW q \in p .. Len(pat),
           Fits(cut, p, Len(pat))
    PROVE  /\ Fits(cut, q, Len(pat))
           /\ cut[p] <= cut[q]
           /\ (\A k \in p + 1 .. q : pat[k] # Star) => cut[q] = cut[p] + (q - p)
<1>1. Len(pat) \in Nat
  BY SeqFacts DEF TypeOK
<1>2. p \in p .. Len(pat) /\ q \in p .. Len(pat) /\ p <= q
  BY <1>1
<1>3. q .. Len(pat) \subseteq p .. Len(pat) /\ q + 1 .. Len(pat) \subseteq p + 1 .. Len(pat)
  BY <1>1
<1> QED BY <1>2, <1>3 DEF Fits

\* What is left begins with a byte of the text, unless it begins with a star.
LEMMA RestByte ==
    ASSUME TypeOK, NEW p \in 0 .. Len(pat), NEW t \in 0 .. Len(text),
           Rest(p, t), ~(p < Len(pat) /\ pat[p + 1] = Star)
    PROVE  \/ p = Len(pat) /\ t = Len(text)
           \/ /\ p < Len(pat) /\ t < Len(text)
              /\ pat[p + 1] \in {text[t + 1], Query}
              /\ Rest(p + 1, t + 1)
<1>1. Len(pat) \in Nat /\ Len(text) \in Nat
  BY SeqFacts DEF TypeOK
<1>2. PICK cut \in Cuts : cut[p] = t /\ cut[Len(pat)] = Len(text) /\ Fits(cut, p, Len(pat))
  BY DEF Rest
<1>3. CASE p = Len(pat)
  BY <1>2, <1>3
<1>4. CASE p < Len(pat)
  <2>1. p + 1 \in p .. Len(pat) /\ p + 1 \in p + 1 .. Len(pat) /\ p + 1 \in 0 .. Len(pat)
    BY <1>1, <1>4
  <2>2. \A k \in p + 1 .. p + 1 : pat[k] # Star
    BY <1>4
  <2>3. cut[p + 1] = t + 1 /\ Fits(cut, p + 1, Len(pat))
    BY <1>1, <1>2, <2>1, <2>2, FitsPart
  <2>4. cut[p + 1] \in 0 .. Len(text)
    BY <2>1 DEF Cuts
  <2>5. pat[p + 1] = Query \/ pat[p + 1] = text[cut[p + 1]]
    BY <1>2, <1>4, <2>1 DEF Fits
  <2>6. Rest(p + 1, t + 1)
    BY <1>2, <2>3 DEF Rest
  <2> QED BY <1>1, <1>4, <2>3, <2>4, <2>5, <2>6
<1> QED BY <1>1, <1>3, <1>4

\* After a star what is left begins no earlier in the text.
LEMMA RestStar ==
    ASSUME TypeOK, NEW p \in 0 .. Len(pat), NEW t \in 0 .. Len(text), p < Len(pat), Rest(p, t)
    PROVE  \E u \in t .. Len(text) : Rest(p + 1, u)
<1>1. Len(pat) \in Nat /\ Len(text) \in Nat
  BY SeqFacts DEF TypeOK
<1>2. PICK cut \in Cuts : cut[p] = t /\ cut[Len(pat)] = Len(text) /\ Fits(cut, p, Len(pat))
  BY DEF Rest
<1>3. p + 1 \in p .. Len(pat) /\ p + 1 \in 0 .. Len(pat)
  BY <1>1
<1>4. t <= cut[p + 1] /\ Fits(cut, p + 1, Len(pat))
  BY <1>2, <1>3, FitsPart
<1>5. cut[p + 1] \in t .. Len(text)
  BY <1>1, <1>3, <1>4 DEF Cuts
<1>6. Rest(p + 1, cut[p + 1])
  BY <1>2, <1>4 DEF Rest
<1> QED BY <1>5, <1>6

\* As long as no star is met, the positions of a match advance together.
LEMMA RestStep ==
    ASSUME TypeOK, NEW p \in 0 .. Len(pat), NEW t \in 0 .. Len(text), NEW q \in p .. Len(pat),
           Rest(p, t), \A k \in p + 1 .. q : pat[k] # Star
    PROVE  t + (q - p) <= Len(text) /\ Rest(q, t + (q - p))
<1>1. Len(pat) \in Nat /\ Len(text) \in Nat
  BY SeqFacts DEF TypeOK
<1>2. PICK cut \in Cuts : cut[p] = t /\ cut[Len(pat)] = Len(text) /\ Fits(cut, p, Len(pat))
  BY DEF Rest
<1>3. cut[q] = t + (q - p) /\ Fits(cut, q, Len(pat))
  BY <1>2, FitsPart
<1>4. cut[q] \in 0 .. Len(text)
  BY <1>1 DEF Cuts
<1> QED BY <1>1, <1>2, <1>3, <1>4 DEF Rest

\* In the loop the pattern from pi on matches the text from ti on, or from further on if the
\* last star can be given more.
LEMMA Ahead ==
    ASSUME TypeOK, Positions, Complete, StarFree, Matches, at = "loop"
    PROVE  \/ Rest(pi, ti)
           \/ /\ star # NoStar
              /\ \E t \in star_text + 1 .. Len(text) : Rest(star + 1, t)
              /\ \E u \in ti .. Len(text) : Rest(pi, u)
<1>1. Len(pat) \in Nat /\ Len(text) \in Nat
  BY SeqFacts DEF TypeOK
<1>2. CASE star = NoStar
  BY <1>2 DEF Complete, Left
<1>3. CASE star # NoStar
  <2>1. PICK t \in star_text .. Len(text) : Rest(star + 1, t)
    BY <1>3 DEF Complete, Left
  <2>2. /\ star + 1 <= pi
        /\ ti - star_text = pi - (star + 1)
        /\ \A k \in star + 2 .. pi : pat[k] # Star
    BY <1>3 DEF Complete, InStep
  <2>3. star + 1 \in 0 .. Len(pat) /\ t \in 0 .. Len(text) /\ pi \in star + 1 .. Len(pat)
    BY <1>1, <1>3, <2>1, <2>2 DEF TypeOK
  <2>4. (star + 1) + 1 = star + 2
    BY <1>1, <1>3 DEF TypeOK
  <2>5. t + (pi - (star + 1)) <= Len(text) /\ Rest(pi, t + (pi - (star + 1)))
    BY <2>1, <2>2, <2>3, <2>4, RestStep
  <2>6. ti \in Nat /\ star_text \in Nat /\ pi \in Nat /\ star \in Int
    BY <1>1 DEF TypeOK, NoStar
  <2>7. CASE t = star_text
    <3>1. t + (pi - (star + 1)) = ti
      BY <2>2, <2>6, <2>7
    <3> QED BY <2>5, <3>1
  <2>8. CASE t > star_text
    <3>1. t + (pi - (star + 1)) \in ti .. Len(text) /\ t \in star_text + 1 .. Len(text)
      BY <1>1, <2>1, <2>2, <2>5, <2>6, <2>8
    <3> QED BY <1>3, <2>1, <2>5, <3>1
  <2> QED BY <2>1, <2>6, <2>7, <2>8
<1> QED BY <1>2, <1>3

LEMMA InitComplete == Init => Complete
  BY DEF Init, Complete, InStep, Left, GlobComplete

LEMMA NextComplete ==
    TypeOK /\ Positions /\ Complete /\ [Next]_vars => Complete'
<1> SUFFICES ASSUME TypeOK, Positions, Complete, [Next]_vars PROVE Complete'
  OBVIOUS
<1>0. Len(pat) \in Nat /\ Len(text) \in Nat
  BY SeqFacts DEF TypeOK
<1>a. TypeOK' /\ Positions'
  BY NextBase
<1>b. pat' = pat /\ text' = text
  BY DEF Next, vars, Plain, Glob, Consume, MeetStar, Backtrack, Fail, Exhaust, SkipStar, Verdict
<1>c. \A p, t : Rest(p, t)' = Rest(p, t)
  BY <1>b DEF Rest, Fits, Cuts
<1>d. IsGlob(pat') = IsGlob(pat) /\ Matches' = Matches /\ StarFree' = StarFree
  BY <1>b DEF IsGlob, IsDirRule, Matches, Fits, StarFree
<1>1. CASE Plain
  BY <1>1, <1>b, <1>d DEF Plain, Complete, InStep, Left, GlobComplete
<1>2. CASE Glob
  <2>1. pi' = 0 /\ ti' = 0 /\ star' = NoStar /\ at' = "loop"
    BY <1>2 DEF Glob, Positions
  <2>2. Matches => Rest(0, 0)
    BY <1>0 DEF Matches, Rest, Cuts
  <2> QED BY <1>c, <1>d, <2>1, <2>2 DEF Complete, InStep, Left, GlobComplete
<1>3. CASE Consume
  <2>1. /\ at = "loop" /\ at' = "loop" /\ pi' = pi + 1 /\ ti' = ti + 1
        /\ star' = star /\ star_text' = star_text
        /\ pi < Len(pat) /\ ti < Len(text) /\ pat[pi + 1] \in {text[ti + 1], Query}
    BY <1>3 DEF Consume, Scanning, Literal
  <2>2. StarFree => pat[pi + 1] # Star
    BY <1>0, <2>1, BytesAssumption, SeqFacts DEF StarFree, TypeOK
  <2>3. StarFree => InStep'
    BY <1>0, <1>b, <2>1, <2>2 DEF Complete, InStep, TypeOK, NoStar
  <2>4. ASSUME StarFree, Matches, star = NoStar
        PROVE  Rest(pi + 1, ti + 1)
    <3>1. Rest(pi, ti)
      BY <2>1, <2>4 DEF Complete, Left
    <3> QED BY <2>1, <2>2, <2>4, <3>1, RestByte DEF TypeOK
  <2>5. Left'
    BY <1>b, <1>c, <1>d, <2>1, <2>4 DEF Complete, Left
  <2> QED BY <1>d, <2>1, <2>3, <2>5 DEF Complete, GlobComplete
<1>4. CASE MeetStar
  <2>1. /\ at = "loop" /\ at' = "loop" /\ pi' = pi + 1 /\ ti' = ti /\ star' = pi /\ star_text' = ti
        /\ pi < Len(pat)
    BY <1>4 DEF MeetStar, Scanning, AtStar
  <2>2. InStep'
    BY <1>0, <2>1 DEF InStep, TypeOK
  <2>3. ASSUME StarFree, Matches
        PROVE  \E t \in ti .. Len(text) : Rest(pi + 1, t)
    <3>1. PICK u \in ti .. Len(text) : Rest(pi, u)
      BY <1>0, <2>1, <2>3, Ahead DEF TypeOK
    <3>2. u \in 0 .. Len(text)
      BY <1>0 DEF TypeOK
    <3>3. PICK t \in u .. Len(text) : Rest(pi + 1, t)
      BY <2>1, <3>1, <3>2, RestStar DEF TypeOK
    <3> QED BY <1>0, <3>2, <3>3 DEF TypeOK
  <2>4. Left'
    BY <1>0, <1>b, <1>c, <1>d, <2>1, <2>3 DEF Left, TypeOK, NoStar
  <2> QED BY <2>1, <2>2, <2>4 DEF Complete, GlobComplete
<1>5. CASE Backtrack
  <2>1. /\ at = "loop" /\ at' = "loop" /\ star # NoStar /\ star' = star /\ ti < Len(text)
        /\ pi' = star + 1 /\ ti' = star_text + 1 /\ star_text' = star_text + 1
        /\ ~Literal /\ ~AtStar
    BY <1>5 DEF Backtrack, Scanning
  <2>2. InStep'
    BY <1>0, <2>1 DEF InStep, TypeOK, NoStar
  <2>3. ASSUME StarFree, Matches
        PROVE  \E t \in star_text + 1 .. Len(text) : Rest(star + 1, t)
    <3>1. ~Rest(pi, ti)
      BY <1>0, <2>1, RestByte DEF TypeOK, Literal, AtStar
    <3> QED BY <2>1, <2>3, <3>1, Ahead
  <2>4. Left'
    BY <1>b, <1>c, <1>d, <2>1, <2>3 DEF Left
  <2> QED BY <2>1, <2>2, <2>4 DEF Complete, GlobComplete
<1>6. CASE Fail
  <2>1. at = "loop" /\ at' = "done" /\ star = NoStar /\ ti < Len(text) /\ ~Literal /\ ~AtStar
    BY <1>6 DEF Fail, Scanning
  <2>2. ~Rest(pi, ti)
    BY <1>0, <2>1, RestByte DEF TypeOK, Literal, AtStar
  <2>3. ~(StarFree /\ Matches)
    BY <2>1, <2>2 DEF Complete, Left
  <2> QED BY <1>d, <2>1, <2>3 DEF Complete, InStep, Left, GlobComplete, StarFree
<1>7. CASE Exhaust
  <2>1. at = "loop" /\ at' = "trailing" /\ ti = Len(text) /\ pi' = pi
    BY <1>7 DEF Exhaust
  <2>2. ASSUME StarFree, Matches PROVE Rest(pi, Len(text))
    <3>1. PICK u \in ti .. Len(text) : Rest(pi, u)
      BY <1>0, <2>1, <2>2, Ahead DEF TypeOK
    <3>2. u = Len(text)
      BY <1>0, <2>1
    <3> QED BY <3>1, <3>2
  <2> QED BY <1>b, <1>c, <1>d, <2>1, <2>2 DEF Complete, InStep, Left, GlobComplete
<1>8. CASE SkipStar
  <2>1. at = "trailing" /\ at' = "trailing" /\ pi < Len(pat) /\ pi' = pi + 1
    BY <1>8 DEF SkipStar, AtStar
  <2>2. ASSUME StarFree, Matches PROVE Rest(pi + 1, Len(text))
    <3>1. Rest(pi, Len(text))
      BY <2>1, <2>2 DEF Complete, Left
    <3>2. PICK u \in Len(text) .. Len(text) : Rest(pi + 1, u)
      BY <1>0, <2>1, <3>1, RestStar DEF TypeOK
    <3> QED BY <1>0, <3>2
  <2> QED BY <1>b, <1>c, <1>d, <2>1, <2>2 DEF Complete, InStep, Left, GlobComplete
<1>9. CASE Verdict
  <2>1. at = "trailing" /\ at' = "done" /\ ~AtStar /\ ignored' = (pi = Len(pat))
    BY <1>9 DEF Verdict
  <2>2. ASSUME StarFree, Matches PROVE pi = Len(pat)
    <3>1. Rest(pi, Len(text))
      BY <2>1, <2>2 DEF Complete, Left
    <3> QED BY <1>0, <2>1, <3>1, RestByte DEF TypeOK, AtStar
  <2> QED BY <1>d, <2>1, <2>2 DEF Complete, InStep, Left, GlobComplete, StarFree
<1>10. CASE UNCHANGED vars
  BY <1>10, <1>c, <1>d DEF vars, Complete, InStep, Left, GlobComplete, StarFree
<1> QED
  BY <1>1, <1>2, <1>3, <1>4, <1>5, <1>6, <1>7, <1>8, <1>9, <1>10 DEF Next

\* A rule hides every path that it matches, unless a byte of the path is a star, although
\* the loop never goes back beyond its last star.
THEOREM GlobIsComplete == Spec => []GlobComplete
<1>1. Spec => [](TypeOK /\ Positions /\ Complete)
  BY InitBase, NextBase, InitComplete, NextComplete, PTL DEF Spec
<1>2. Complete => GlobComplete
  BY DEF Complete
<1> QED BY <1>1, <1>2, PTL

-----------------------------------------------------------------------------
\* A prefix, byte by byte.
LEMMA PrefixBytes ==
    ASSUME NEW s \in Seq(Bytes), NEW t \in Seq(Bytes)
    PROVE  IsPrefix(s, t) <=> Len(s) <= Len(t) /\ \A i \in 1 .. Len(s) : s[i] = t[i]
<1>1. Len(s) \in Nat /\ Len(t) \in Nat
  BY SeqFacts
<1>2. ASSUME Len(s) <= Len(t)
      PROVE  SubSeq(s, 1, Len(s)) = SubSeq(t, 1, Len(s)) <=> \A i \in 1 .. Len(s) : s[i] = t[i]
  BY <1>1, <1>2
<1> QED BY <1>1, <1>2 DEF IsPrefix

\* A rule that covers a directory covers the files below it.
LEMMA CoverDown ==
    ASSUME NEW p \in Seq(Bytes), NEW t \in Seq(Bytes), NEW d \in Above(t), p # <<>>,
           PlainCovers(p, d)
    PROVE  PlainCovers(p, t)
<1>1. Len(p) \in Nat /\ Len(t) \in Nat
  BY SeqFacts
<1>2. PICK i \in 2 .. Len(t) : t[i] = Slash /\ d = SubSeq(t, 1, i - 1)
  BY DEF Above
<1>3. d \in Seq(Bytes) /\ Len(d) = i - 1 /\ \A k \in 1 .. i - 1 : d[k] = t[k]
  BY <1>1, <1>2
<1>4. ASSUME NEW s \in Seq(Bytes), IsPrefix(s, d)
      PROVE  IsPrefix(s, t)
  <2>1. Len(s) \in Nat
    BY SeqFacts
  <2>2. Len(s) <= i - 1 /\ \A k \in 1 .. Len(s) : s[k] = d[k]
    BY <1>3, <1>4, PrefixBytes
  <2>3. \A k \in 1 .. Len(s) : k \in 1 .. i - 1
    BY <1>2, <2>1, <2>2
  <2>4. Len(s) <= Len(t) /\ \A k \in 1 .. Len(s) : s[k] = t[k]
    BY <1>1, <1>2, <1>3, <2>1, <2>2, <2>3
  <2> QED BY <2>4, PrefixBytes
<1>5. Slash \in Bytes /\ Append(p, Slash) \in Seq(Bytes)
  BY BytesAssumption
<1>6. CASE IsDirRule(p)
  BY <1>4, <1>6 DEF PlainCovers
<1>7. CASE ~IsDirRule(p) /\ d = p
  <2>1. Len(Append(p, Slash)) = i /\ \A k \in 1 .. i : Append(p, Slash)[k] = t[k]
    BY <1>1, <1>2, <1>3, <1>5, <1>7
  <2>2. Len(Append(p, Slash)) <= Len(t)
    BY <1>1, <1>2, <2>1
  <2>3. IsPrefix(Append(p, Slash), t)
    BY <1>5, <2>1, <2>2, PrefixBytes
  <2> QED BY <1>7, <2>3 DEF PlainCovers
<1>8. CASE ~IsDirRule(p) /\ IsPrefix(Append(p, Slash), d)
  BY <1>4, <1>5, <1>8 DEF PlainCovers
<1> QED BY <1>6, <1>7, <1>8 DEF PlainCovers

\* Hiding an ignored directory and asking for each of its files hide the same files, for
\* rules that are no globs.
THEOREM PruningAgrees == Spec => []PruneAgrees
<1> DEFINE Inv == /\ pat # <<>>
                  /\ at \in {"loop", "trailing"} => IsGlob(pat)
                  /\ at = "done" /\ ~IsGlob(pat) => ignored = PlainCovers(pat, text)
<1>1. Init => Inv
  BY DEF Init
<1>2. TypeOK /\ Positions /\ Inv /\ [Next]_vars => Inv'
  <2> SUFFICES ASSUME TypeOK, Positions, Inv, [Next]_vars PROVE Inv'
    OBVIOUS
  <2>1. pat' = pat /\ text' = text
    BY DEF Next, vars, Plain, Glob, Consume, MeetStar, Backtrack, Fail, Exhaust, SkipStar, Verdict
  <2>2. IsGlob(pat') = IsGlob(pat) /\ PlainCovers(pat', text') = PlainCovers(pat, text)
    BY <2>1
  <2>3. \/ at' = "done" /\ ~IsGlob(pat) /\ ignored' = PlainCovers(pat, text)
        \/ IsGlob(pat)
        \/ UNCHANGED vars
    BY DEF Next, Plain, Glob, Consume, MeetStar, Backtrack, Fail, Exhaust, SkipStar, Verdict,
           Scanning
  <2>4. CASE at' = "done" /\ ~IsGlob(pat) /\ ignored' = PlainCovers(pat, text)
    BY <2>1, <2>2, <2>4
  <2>5. CASE IsGlob(pat)
    BY <2>1, <2>2, <2>5
  <2>6. CASE UNCHANGED vars
    BY <2>2, <2>6 DEF vars
  <2> QED BY <2>3, <2>4, <2>5, <2>6
<1>3. TypeOK /\ Inv => PruneAgrees
  <2> SUFFICES ASSUME TypeOK, Inv, at = "done", ~IsGlob(pat)
               PROVE  (\E d \in Above(text) \cup {text} : PlainCovers(pat, d)) <=> ignored
    BY DEF PruneAgrees
  <2>1. ignored = PlainCovers(pat, text)
    OBVIOUS
  <2>2. \A d \in Above(text) : PlainCovers(pat, d) => PlainCovers(pat, text)
    BY CoverDown DEF TypeOK
  <2> QED BY <2>1, <2>2
<1>4. Spec => [](TypeOK /\ Positions /\ Inv)
  BY InitBase, NextBase, <1>1, <1>2, PTL DEF Spec
<1> QED BY <1>3, <1>4, PTL

-----------------------------------------------------------------------------
\* How far a call is.
Phases == <<"rule", "loop", "trailing", "done">>
Phase(a) == CHOOSE i \in DOMAIN Phases : Phases[i] = a

\* A step ends a loop, or gives a star more of the text, or meets a later star, or consumes
\* more of the pattern with the text of the stars as it was.
Further ==
    \/ Phase(at) < Phase(at')
    \/ /\ at' = at
       /\ \/ star_text < star_text'
          \/ star_text' = star_text /\ star < star'
          \/ star_text' = star_text /\ star' = star /\ pi < pi'

LEMMA PhaseIs == Phase("rule") = 1 /\ Phase("loop") = 2 /\ Phase("trailing") = 3 /\ Phase("done") = 4
<1>1. DOMAIN Phases = 1 .. 4
  BY DEF Phases
<1>2. Phases[1] = "rule" /\ Phases[2] = "loop" /\ Phases[3] = "trailing" /\ Phases[4] = "done"
  BY DEF Phases
<1>3. ASSUME NEW i \in 1 .. 4 PROVE Phase(Phases[i]) = i
  <2>1. \A j \in DOMAIN Phases : Phases[j] = Phases[i] <=> j = i
    <3>1. \A j \in 1 .. 4 : j = 1 \/ j = 2 \/ j = 3 \/ j = 4
      OBVIOUS
    <3> QED BY <1>1, <1>2, <3>1
  <2> QED BY <1>1, <2>1 DEF Phase
<1> QED BY <1>2, <1>3

\* Both positions move back when a star is extended, and yet no step of a call undoes
\* another: the triple of phases, star_text, star and pi grows with every step, in the
\* order of dictionaries, and TypeOK bounds each part of it.  A call that goes on taking
\* steps therefore returns.
THEOREM EveryStepGoesFurther == Spec => [][Further]_vars
<1> DEFINE Inv == star < pi
<1>1. Init => Inv
  BY DEF Init, NoStar
<1>2. TypeOK /\ Positions /\ Inv /\ [Next]_vars => Inv' /\ [Further]_vars
  <2> SUFFICES ASSUME TypeOK, Positions, Inv, [Next]_vars PROVE Inv' /\ [Further]_vars
    OBVIOUS
  <2>0. pi \in Int /\ star \in Int /\ star_text \in Int /\ ti \in Int /\ star_text <= ti
    BY DEF TypeOK, Positions, NoStar
  <2>1. CASE Plain
    BY <2>1, PhaseIs DEF Plain, Further
  <2>2. CASE Glob
    BY <2>2, PhaseIs DEF Glob, Further
  <2>3. CASE Consume
    BY <2>0, <2>3 DEF Consume, Scanning, Further
  <2>4. CASE MeetStar
    BY <2>0, <2>4 DEF MeetStar, Scanning, Further
  <2>5. CASE Backtrack
    BY <2>0, <2>5 DEF Backtrack, Scanning, Further
  <2>6. CASE Fail
    BY <2>6, PhaseIs DEF Fail, Scanning, Further
  <2>7. CASE Exhaust
    BY <2>7, PhaseIs DEF Exhaust, Further
  <2>8. CASE SkipStar
    BY <2>0, <2>8 DEF SkipStar, Further
  <2>9. CASE Verdict
    BY <2>9, PhaseIs DEF Verdict, Further
  <2>10. CASE UNCHANGED vars
    BY <2>10 DEF vars
  <2> QED
    BY <2>1, <2>2, <2>3, <2>4, <2>5, <2>6, <2>7, <2>8, <2>9, <2>10 DEF Next
<1>3. Spec => [](TypeOK /\ Positions)
  BY InitBase, NextBase, PTL DEF Spec
<1> QED BY <1>1, <1>2, <1>3, PTL DEF Spec
=============================================================================
