-------------------------- MODULE MCWorkspaceLedger --------------------------
EXTENDS WorkspaceLedger, TLC

Symmetry == Permutations(Scopes) \cup Permutations(Charges)
=============================================================================
