------------------------------ MODULE MCKernels ------------------------------
EXTENDS Kernels, TLC

Symmetry == Permutations(Process)
=============================================================================
