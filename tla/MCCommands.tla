----------------------------- MODULE MCCommands -----------------------------
\* The instance of Commands for TLC.
EXTENDS Commands

CONSTANTS f, g, x, y, z

\* x and y are told apart by the mtime only; z is over the limit.
SameLength == [c \in Data |-> IF c = z THEN 3 ELSE 1]
=============================================================================
