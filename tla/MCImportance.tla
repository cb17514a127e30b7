---------------------------- MODULE MCImportance ----------------------------
EXTENDS Importance

MemorySymmetry == Permutations(Memories)
=============================================================================
