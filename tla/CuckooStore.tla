---------------------------- MODULE CuckooStore -----------------------------
(***************************************************************************)
(* librekv_cuckoo_put implements PutStore: its evictions are invisible.    *)
(*                                                                         *)
(* While put runs, the table holds the pair it was called with in place of *)
(* the pair that put carries, so the bag it stands for is the table's with *)
(* the carried pair added and the caller's removed.                        *)
(***************************************************************************)
EXTENDS Cuckoo

Pair(x) == [keyHash |-> x.keyHash, offset |-> x.offset]

\* The pair that the running put was called with.
Requested ==
  IF pc = "idle" THEN {}
  ELSE {[keyHash |-> hash(args.key), offset |-> args.value]}

\* The pair that the running put has in its hands.
Carried == IF pc = "idle" THEN {} ELSE {Pair(current)}

Pairs == {[keyHash |-> hash(key), offset |-> value] : key \in Keys, value \in Values}

Stored(p) == Cardinality({slot \in Occupied : Pair(EntryAt(slot)) = p})

StoredPairs ==
  [p \in Pairs |-> Stored(p) + Cardinality(Carried \cap {p})
                             - Cardinality(Requested \cap {p})]

Abstract == INSTANCE PutStore WITH pairs <- StoredPairs, request <- Requested

\* Whatever evictions a put makes, and whether or not it undoes them, its
\* caller sees a put that adds its pair once and returns 1, or one that
\* changes nothing and returns -1, and sees it return.
ImplementsPutStore == Abstract!Spec
=============================================================================
