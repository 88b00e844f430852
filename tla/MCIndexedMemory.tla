-------------------------- MODULE MCIndexedMemory --------------------------
EXTENDS IndexedMemory, TLC

\* The bytes are only ever compared for equality.
Symmetry == Permutations(Byte)
=============================================================================
