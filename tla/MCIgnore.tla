------------------------------ MODULE MCIgnore ------------------------------
\* The instance of Ignore for TLC: every line and path of bounded length over a letter,
\* the slash and the bytes that have a meaning in a rule.
EXTENDS Ignore

CONSTANTS a, MaxLine, MaxPath

MCSlash == "/"
MCStar  == "*"
MCQuery == "?"
MCBrackets == {"["}
MCBytes == {a, MCSlash, MCStar, MCQuery} \cup MCBrackets

UpTo(n, bytes) == UNION {[1 .. k -> bytes] : k \in 0 .. n}
MCLines == UpTo(MaxLine, MCBytes)

\* Paths that a walk of the directory yields: names between single slashes.
MCPaths ==
    {p \in UpTo(MaxPath, {a, MCSlash, MCStar}) :
        /\ p # <<>> => MCSlash \notin {p[1], p[Len(p)]}
        /\ \A i \in 1 .. Len(p) - 1 : <<p[i], p[i + 1]>> # <<MCSlash, MCSlash>>}
=============================================================================
