---------------------------- MODULE MCRepositoryKeys ----------------------------
EXTENDS RepositoryKeys, TLC

CONSTANTS p1, p2, w1, w2

Symmetry == Permutations(Passphrases)
=================================================================================
