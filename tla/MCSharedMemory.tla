--------------------------- MODULE MCSharedMemory ---------------------------
EXTENDS SharedMemory, TLC
Symmetry == Permutations(Env)
=============================================================================
