------------------------------ MODULE MCUnlock ------------------------------
(***************************************************************************)
(* Unlock on small instances.                                              *)
(***************************************************************************)
EXTENDS Unlock, TLC

MCSymmetry == Permutations(Passphrases)

=============================================================================
