------------------------------- MODULE Ignore -------------------------------
(***************************************************************************)
(* The ignore rules of .mogged: src/src/ignore.rs.                         *)
(*                                                                         *)
(* A path is ignored when some rule covers it, so that one rule and one    *)
(* path are enough to say what a list of rules does; the built-in rules    *)
(* for .mog and .git are rules like any other.  Load classifies the rule,  *)
(* and a glob is matched by a loop over two positions that goes back to    *)
(* the last star it met.  Lines and paths are sequences of bytes.          *)
(***************************************************************************)
EXTENDS Integers, Sequences, SequencesExt

CONSTANTS
    Bytes,    \* bytes of lines and paths
    Slash, Star, Query,
    Brackets, \* bytes that make a rule a glob but stand for themselves in it
    Lines,    \* lines of .mogged, trimmed, that are no comments
    Paths     \* repository-relative paths of files and directories

ASSUME BytesAssumption ==
    /\ {Slash, Star, Query} \cup Brackets \subseteq Bytes
    /\ Star # Query /\ Slash \notin {Star, Query}
ASSUME InputAssumption == Lines \subseteq Seq(Bytes) /\ Paths \subseteq Seq(Bytes)

VARIABLES
    pat,       \* the rule
    text,      \* the path it is tried on
    pi, ti,    \* bytes of the pattern and of the text consumed
    star,      \* position of the last star met, NoStar before one
    star_text, \* bytes of the text consumed up to the end of what it stands for
    at,        \* where is_ignored_rel is
    ignored    \* what it returns

vars == <<pat, text, pi, ti, star, star_text, at, ignored>>

NoStar == -1

TypeOK ==
    /\ pat \in Seq(Bytes) /\ text \in Seq(Bytes)
    /\ pi \in 0 .. Len(pat)
    /\ ti \in 0 .. Len(text)
    /\ star \in {NoStar} \cup 0 .. Len(pat) - 1
    /\ star_text \in 0 .. Len(text)
    /\ at \in {"rule", "loop", "trailing", "done"}
    /\ ignored \in BOOLEAN

----------------------------------------------------------------------------
\* Ignore::load: what is left, as a set of one, when the leading slashes are dropped.
Stripped(line) ==
    {SubSeq(line, k + 1, Len(line)) :
        k \in {k \in 0 .. Len(line) : /\ \A i \in 1 .. k : line[i] = Slash
                                     /\ k < Len(line) => line[k + 1] # Slash}}

\* The kinds of rules, in the order they are told apart.
IsDirRule(p) == p # <<>> /\ p[Len(p)] = Slash
IsGlob(p)    == ~IsDirRule(p) /\ \E i \in DOMAIN p : p[i] \in {Star, Query} \cup Brackets

\* Mutant: an exact rule is no directory rule.
PlainOnlyItself(p, t) == IF IsDirRule(p) THEN IsPrefix(p, t) ELSE t = p

\* A directory rule is a prefix; an exact rule is the path and the prefix of its files.
PlainCovers(p, t) ==
    IF IsDirRule(p) THEN IsPrefix(p, t) ELSE t = p \/ IsPrefix(Append(p, Slash), t)

----------------------------------------------------------------------------
\* is_ignored_rel with a rule that is no glob: exact and prefixes.
Plain ==
    /\ at = "rule"
    /\ ~IsGlob(pat)
    /\ ignored' = PlainCovers(pat, text)
    /\ at' = "done"
    /\ UNCHANGED <<pat, text, pi, ti, star, star_text>>

\* SimpleGlob::is_match: the loop over the text.
Glob ==
    /\ at = "rule"
    /\ IsGlob(pat)
    /\ at' = "loop"
    /\ UNCHANGED <<pat, text, pi, ti, star, star_text, ignored>>

Scanning == at = "loop" /\ ti < Len(text)

\* The next byte of the pattern is the next of the text, or any.
Literal == pi < Len(pat) /\ pat[pi + 1] \in {text[ti + 1], Query}

Consume ==
    /\ Scanning /\ Literal
    /\ pi' = pi + 1
    /\ ti' = ti + 1
    /\ UNCHANGED <<pat, text, star, star_text, at, ignored>>

\* The star is left to stand for nothing.
AtStar == pi < Len(pat) /\ pat[pi + 1] = Star

MeetStar ==
    /\ Scanning /\ ~Literal /\ AtStar
    /\ star' = pi
    /\ pi' = pi + 1
    /\ star_text' = ti
    /\ UNCHANGED <<pat, text, ti, at, ignored>>

\* Mutant: the star is given the byte that failed, not one more than before.
BacktrackFromHere ==
    /\ Scanning /\ ~Literal /\ ~AtStar /\ star # NoStar
    /\ pi' = star + 1
    /\ star_text' = ti + 1
    /\ ti' = ti + 1
    /\ UNCHANGED <<pat, text, star, at, ignored>>

\* Mutant: the star is given the same bytes again.
BacktrackSame ==
    /\ Scanning /\ ~Literal /\ ~AtStar /\ star # NoStar
    /\ pi' = star + 1
    /\ ti' = star_text
    /\ UNCHANGED <<pat, text, star, star_text, at, ignored>>

\* Mutant: the pattern is not taken back to the star.
BacktrackTextOnly ==
    /\ Scanning /\ ~Literal /\ ~AtStar /\ star # NoStar
    /\ star_text' = star_text + 1
    /\ ti' = star_text + 1
    /\ UNCHANGED <<pat, text, pi, star, at, ignored>>

\* The last star stands for one byte more.
Backtrack ==
    /\ Scanning /\ ~Literal /\ ~AtStar /\ star # NoStar
    /\ pi' = star + 1
    /\ star_text' = star_text + 1
    /\ ti' = star_text + 1
    /\ UNCHANGED <<pat, text, star, at, ignored>>

Fail ==
    /\ Scanning /\ ~Literal /\ ~AtStar /\ star = NoStar
    /\ ignored' = FALSE
    /\ at' = "done"
    /\ UNCHANGED <<pat, text, pi, ti, star, star_text>>

\* The end of the text.
Exhaust ==
    /\ at = "loop" /\ ti = Len(text)
    /\ at' = "trailing"
    /\ UNCHANGED <<pat, text, pi, ti, star, star_text, ignored>>

SkipStar ==
    /\ at = "trailing" /\ AtStar
    /\ pi' = pi + 1
    /\ UNCHANGED <<pat, text, ti, star, star_text, at, ignored>>

\* Mutant: positions one past the last byte are written.
VerdictPast ==
    /\ at = "trailing" /\ ~AtStar
    /\ ignored' = (pi = Len(pat))
    /\ at' = "done"
    /\ pi' = pi + 1
    /\ UNCHANGED <<pat, text, ti, star, star_text>>

Verdict ==
    /\ at = "trailing" /\ ~AtStar
    /\ ignored' = (pi = Len(pat))
    /\ at' = "done"
    /\ UNCHANGED <<pat, text, pi, ti, star, star_text>>

----------------------------------------------------------------------------
\* A rule of the file and a path; an empty rule is skipped.
Init ==
    /\ \E line \in Lines : pat \in Stripped(line)
    /\ pat # <<>>
    /\ text \in Paths \ {<<>>}
    /\ pi = 0 /\ ti = 0
    /\ star = NoStar /\ star_text = 0
    /\ at = "rule" /\ ignored = FALSE

Next ==
    \/ Plain \/ Glob
    \/ Consume \/ MeetStar \/ Backtrack \/ Fail
    \/ Exhaust \/ SkipStar \/ Verdict

Spec == Init /\ [][Next]_vars

\* A call runs to its end: one thread in a loop without waiting.
FairSpec == Spec /\ WF_vars(Next)

----------------------------------------------------------------------------
\* Properties.

\* cut[i] bytes of the text are matched by the first i of the pattern: the positions grow,
\* by one over every byte but a star, which gives every run of bytes between two stars
\* its place in the text.
Fits(cut, lo, hi) ==
    /\ \A i \in lo .. hi, j \in lo .. hi : i <= j =>
          /\ cut[i] <= cut[j]
          /\ (\A k \in i + 1 .. j : pat[k] # Star) => cut[j] = cut[i] + (j - i)
    /\ \A i \in lo + 1 .. hi : pat[i] \in {Star, Query} \/ pat[i] = text[cut[i]]

\* What a glob means: * stands for any bytes, ? for one, any other byte for itself.
Matches ==
    \E cut \in [0 .. Len(pat) -> 0 .. Len(text)] :
        cut[0] = 0 /\ cut[Len(pat)] = Len(text) /\ Fits(cut, 0, Len(pat))

\* "Minimal glob matcher for `*` and `?`" (ignore.rs): a glob is only found to match a
\* path that it matches, however often the loop went back to a star.
GlobSound == at = "done" /\ IsGlob(pat) /\ ignored => Matches

\* A path that the glob matches is found, although only the last star is ever
\* reconsidered.  A star in the path itself is consumed by one in the pattern
\* as a plain byte, after which the match may be missed.
GlobComplete ==
    at = "done" /\ IsGlob(pat) /\ (\A i \in DOMAIN text : text[i] # Star) /\ Matches => ignored

\* The directories above a path.
Above(t) == {SubSeq(t, 1, i - 1) : i \in {k \in 2 .. Len(t) : t[k] = Slash}}

\* stage, status and discard do not enter an ignored directory; diff asks for each tracked
\* file only.  With rules that are no globs both hide the same files.
PruneAgrees ==
    at = "done" /\ ~IsGlob(pat) =>
        ((\E d \in Above(text) \cup {text} : PlainCovers(pat, d)) <=> ignored)

\* Every call returns: a star is extended one byte at a time, to the end of the text.
Returns == <>(at = "done")
=============================================================================
