----------------------------- MODULE MCRegistry -----------------------------
\* Runs of one machine for TLC: runs and process numbers are interchangeable.
EXTENDS Registry, TLC

Symmetry == Permutations(Runs) \cup Permutations(Pids)
=============================================================================
