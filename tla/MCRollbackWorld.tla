-------------------------- MODULE MCRollbackWorld ---------------------------
\* Values of the plain component are interchangeable.
EXTENDS RollbackWorld, TLC

Symmetry == Permutations(Components)
=============================================================================
