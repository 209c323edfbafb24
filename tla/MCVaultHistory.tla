--------------------------- MODULE MCVaultHistory ---------------------------
(***************************************************************************)
(* VaultHistory on two keys with one value.                                *)
(***************************************************************************)
EXTENDS VaultHistory, TLC

MCSymmetry == Permutations(Keys)
=============================================================================
