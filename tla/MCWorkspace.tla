---------------------------- MODULE MCWorkspace ----------------------------
\* Instances of Workspace and its Views for TLC: one or two paths, contents of
\* equal or different length, and one of them over the staging limit.
EXTENDS Views, TLC

CONSTANTS f, g, x, y, z

\* x and y are told apart by the mtime only; z is over the limit.
SameLength == [c \in Data |-> IF c = z THEN 3 ELSE 1]
\* x and y can be exchanged.
EqualLength == Permutations({x, y})

\* Every edit changes the length.
OtherLength == [c \in Data |-> IF c = x THEN 1 ELSE 2]
============================================================================
