---------------------------- MODULE MCVaultStore ----------------------------
(***************************************************************************)
(* VaultStore on three processes.                                          *)
(***************************************************************************)
EXTENDS VaultStore, TLC

MCSymmetry == Permutations(Procs)

=============================================================================
