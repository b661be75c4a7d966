--------------------------- MODULE MCRepositoryGC ---------------------------
\* Instances of RepositoryGC for TLC.
EXTENDS RepositoryGC, TLC

\* Runs that store their root the same way are interchangeable.
Symmetry ==
  Permutations(Data) \cup Permutations(Names) \cup Permutations(TreeRuns)
    \cup Permutations(Runs \ TreeRuns)
=============================================================================
