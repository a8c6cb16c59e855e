----------------------------- MODULE MCFailover -----------------------------
\* Backends and runs are interchangeable names.
EXTENDS Failover, TLC

MCSymmetry == Permutations(Backends) \union Permutations(Runs)
=============================================================================
