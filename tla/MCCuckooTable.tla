--------------------------- MODULE MCCuckooTable ----------------------------
(***************************************************************************)
(* Small instances of CuckooTable.                                         *)
(***************************************************************************)
EXTENDS CuckooTable

MCHash == [key \in Keys |-> key + 100]
=============================================================================
