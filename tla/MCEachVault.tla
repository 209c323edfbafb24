----------------------------- MODULE MCEachVault -----------------------------
(***************************************************************************)
(* EachVault on three vaults, two passphrases and two cores.               *)
(***************************************************************************)
EXTENDS EachVault
=============================================================================
