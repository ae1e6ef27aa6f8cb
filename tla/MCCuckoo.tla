------------------------------ MODULE MCCuckoo ------------------------------
(***************************************************************************)
(* Small instances of Cuckoo, with the history of its undo loop and its    *)
(* refinement of PutStore.  The hash is injective on the keys, so that an  *)
(* entry tells which key it came from.                                     *)
(***************************************************************************)
EXTENDS CuckooStore, CuckooUndo

MCHash == [key \in Keys |-> key + 100]
=============================================================================
