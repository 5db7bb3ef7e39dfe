------------------------------ MODULE MCRecords -------------------------------
EXTENDS Records, TLC

CallerSymmetry == Permutations(Callers)
=============================================================================
