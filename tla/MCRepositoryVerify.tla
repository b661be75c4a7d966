-------------------------- MODULE MCRepositoryVerify --------------------------
\* Instances of RepositoryVerify for TLC.
EXTENDS RepositoryVerify, TLC

\* borg verify, and borg verify --repository-only --archives-only --test-restore,
\* which leaves the restore test alone: its reports only add to the others'.
MCCommands == {{"chunks", "archives"}, {"restore"}}

\* Data chunks, runs and names are interchangeable in the specification.
Symmetry == Permutations(Data) \cup Permutations(Runs) \cup Permutations(Names)
===============================================================================
