------------------------------- MODULE MCNet -------------------------------
EXTENDS Net, TLC
ContextSymmetry == Permutations(Contexts)
=============================================================================
