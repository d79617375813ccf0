--------------------------- MODULE MCRollbackLoop ---------------------------
\* Remote players are interchangeable.
EXTENDS RollbackLoop, TLC

Symmetry == Permutations(Remotes)
=============================================================================
