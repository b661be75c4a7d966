---------------------------- MODULE MCPasswordDialog ----------------------------
\* Repositories are interchangeable.
EXTENDS PasswordDialog, TLC

Symmetry == Permutations(Repos)
===============================================================================
