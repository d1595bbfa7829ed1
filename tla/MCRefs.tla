------------------------------- MODULE MCRefs -------------------------------
\* Instances of Refs for TLC.
EXTENDS Refs, TLC

CONSTANTS main, dev, topic, c1, c2, c3, c4, p1, p2

Symmetric == Permutations(Commits)
=============================================================================
