----------------------------- MODULE MCNucleus -----------------------------
EXTENDS NucleusRefinement, TLC

\* The pcbs are interchangeable, and so are the user semaphores.
Symmetry == Permutations(PCB) \cup Permutations(USERSEM)
=============================================================================
