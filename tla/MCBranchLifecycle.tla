-------------------------- MODULE MCBranchLifecycle --------------------------
EXTENDS BranchLifecycle, TLC

Symmetry == Permutations(Branches)
=============================================================================
