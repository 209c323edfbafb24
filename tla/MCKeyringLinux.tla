--------------------------- MODULE MCKeyringLinux ---------------------------
(***************************************************************************)
(* KeyringLinux on small instances.                                        *)
(***************************************************************************)
EXTENDS KeyringLinux, TLC

MCSymmetry == Permutations(Procs)

=============================================================================
