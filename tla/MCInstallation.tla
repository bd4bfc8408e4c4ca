--------------------------- MODULE MCInstallation ---------------------------
\* Instance of Installation: commands started at once.
EXTENDS Installation, TLC
Symmetry == Permutations(Creators)
=============================================================================
