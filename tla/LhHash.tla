------------------------------- MODULE LhHash -------------------------------
(***************************************************************************)
(* The hash of a key (lh_hash of trash/linear_hash.c): djb2, computed in   *)
(* an unsigned long, whose overflow is its remainder.  The tables of       *)
(* LhTable take the hashes of their keys from it.                          *)
(***************************************************************************)
EXTENDS Integers
LOCAL INSTANCE SequencesExt

CONSTANT ULongRange   \* the number of values of an unsigned long: 2^64 in the
                      \* program, fewer where TLC computes with it

\* A round of the loop: (hash << 5) + hash + key[i].
WithCharacter(hash, character) == (hash * 2^5 + hash + character) % ULongRange

\* A key is the sequence of its characters.  A key_len of 0 is computed anew,
\* so it is always the length of the key.
lh_hash(key) == FoldLeft(WithCharacter, 0, key)
=============================================================================
