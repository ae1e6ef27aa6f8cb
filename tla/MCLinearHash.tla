---------------------------- MODULE MCLinearHash ----------------------------
(***************************************************************************)
(* Small instances of LinearHash.                                          *)
(***************************************************************************)
EXTENDS LinearHash

MCKeyHashes == 0 .. 7
=============================================================================
