-------------------------- MODULE MCKeychainDarwin --------------------------
(***************************************************************************)
(* KeychainDarwin on small instances.                                      *)
(***************************************************************************)
EXTENDS KeychainDarwin
=============================================================================
