--------------------------- MODULE MCProcessKernel ---------------------------
EXTENDS ProcessKernel, TLC

Symmetry == Permutations(Proc)
==============================================================================
