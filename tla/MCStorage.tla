------------------------------ MODULE MCStorage ------------------------------
EXTENDS Storage
Perms == Permutations(Names)
=============================================================================
