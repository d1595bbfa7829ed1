---------------------------- MODULE MCIndexTree ----------------------------
\* The instance of IndexTree for TLC: a name that sorts before the slash, one that is a
\* prefix of others without a slash after it, files two directories deep, a file and a
\* directory of one name, and two path hashes for five paths.  A cache of 160 bytes holds
\* one tree of three entries, or two objects with fewer.
EXTENDS IndexTree

dash == 1
MCSlash == 2
a == 3

MCPaths ==
    {<<a>>, <<a, dash, MCSlash, a>>, <<a, MCSlash, a>>, <<a, MCSlash, dash, MCSlash, a>>,
     <<a, a>>}
MCCode == [p \in MCPaths |-> IF Len(p) <= 3 THEN 0 ELSE 1]
MCStarts ==
    {<<<<a, MCSlash, a>>, <<a, dash, MCSlash, a>>, <<a, MCSlash, dash, MCSlash, a>>>>,
     <<<<a, a>>, <<a, MCSlash, a>>, <<a>>>>}
MCBytes == [d \in Data |-> IF d = CHOOSE e \in Data : TRUE THEN <<a>> ELSE <<a, a>>]
MCAuthor == <<a>>
MCMessages == <<<<dash>>, <<a, dash>>>>
============================================================================
