---------------------------- MODULE MCTenantAdmin ----------------------------
EXTENDS TenantAdmin, TLC

Symmetry == Permutations(Window) \cup Permutations(Url)
=============================================================================
