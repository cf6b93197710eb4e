------------------------------ MODULE MCVault ------------------------------
EXTENDS Vault, TLC

\* The processes are alike, and every property checked is an invariant.
ProcSymmetry == Permutations(Procs)
=============================================================================
