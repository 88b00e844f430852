-------------------------- MODULE MCNormalizePass --------------------------
EXTENDS NormalizePass

\* Bytes, words and register names are only ever compared for equality.
Symmetry == Permutations(Byte) \cup Permutations(Word) \cup Permutations(Reg)
=============================================================================
