---------------------------- MODULE MCStashRefs ----------------------------
\* The instance of StashRefs for TLC: the bound is in the configuration.
EXTENDS StashRefs
============================================================================
