----------------------------- MODULE MCLhTable ------------------------------
(***************************************************************************)
(* Small instances of LhTable and of its refinement of KeyMap.  The keys   *)
(* are strings of two characters: "ab" and "bA" have one hash, and "a`"    *)
(* meets them in a table of one or two slots.                              *)
(***************************************************************************)
EXTENDS LhStore, LhHash, TLC

CONSTANTS k1, k2, k3, d1

MCKeys == {k1, k2, k3}
MCData == {d1, NULL}

\* The hashes of the strings with these character codes.
MCHash == (k1 :> 3297) @@ (k2 :> 3299) @@ (k3 :> 3299)

ASSUME MCHashAssumption ==
  /\ MCHash[k1] = lh_hash(<<97, 96>>)
  /\ MCHash[k2] = lh_hash(<<97, 98>>)
  /\ MCHash[k3] = lh_hash(<<98, 65>>)
=============================================================================
