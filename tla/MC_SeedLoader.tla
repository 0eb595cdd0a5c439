---------------------------- MODULE MC_SeedLoader ----------------------------
(***************************************************************************)
(* Small instances of SeedLoader.                                          *)
(***************************************************************************)
EXTENDS SeedLoader, TLC
=============================================================================
