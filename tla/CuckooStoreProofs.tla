------------------------- MODULE CuckooStoreProofs --------------------------
(***************************************************************************)
(* librekv_cuckoo_put implements PutStore, for tables of any size.         *)
(*                                                                         *)
(* An eviction swaps two pairs between the table and put's hands, so the   *)
(* bag that the table stands for does not change until put stores the pair *)
(* it carries.  That a put which fails carries its caller's pair again is  *)
(* what the undo loop is for: the proof uses the trace of CuckooUndo, a    *)
(* history variable that only watches.                                     *)
(***************************************************************************)
EXTENDS CuckooStore, CuckooUndoProofs

\* The running put was called with a key and a value, and started with them
\* in its hands.
Answering ==
  pc # "idle" => /\ args \in [key : Keys, value : Values]
                 /\ Requested = {Pair(trace[1].hand)}

StoreInv == UndoInv /\ CountInv /\ Answering

One(x, p) == IF x = p THEN 1 ELSE 0

Holders(p) == {slot \in Occupied : Pair(EntryAt(slot)) = p}

LEMMA SlotsFinite == \A p : IsFiniteSet(Holders(p)) /\ Stored(p) \in Nat
BY OccupiedFinite, FS_Subset, FS_CardinalityType DEF Holders, Stored

LEMMA OneMember ==
  ASSUME NEW x, NEW p
  PROVE  Cardinality({x} \cap {p}) = One(x, p)
<1>1. CASE x = p
  BY <1>1, FS_Singleton, {x} \cap {p} = {p} DEF One
<1>2. CASE x # p
  BY <1>2, FS_EmptySet, {x} \cap {p} = {} DEF One
<1> QED
  BY <1>1, <1>2

\* The pair that the running put was called with.
Asked == [keyHash |-> hash(args.key), offset |-> args.value]

\* The abstract bag, between puts and during one.
BagBalanced ==
  StoredPairs =
    IF pc = "idle" THEN [p \in Pairs |-> Stored(p)]
    ELSE [p \in Pairs |-> Stored(p) + One(Pair(current), p) - One(Asked, p)]

LEMMA BagBalances == BagBalanced
<1>1. CASE pc = "idle"
  <2>1. ASSUME NEW p \in Pairs
        PROVE  Stored(p) + Cardinality(Carried \cap {p})
                         - Cardinality(Requested \cap {p}) = Stored(p)
    <3>1. Carried \cap {p} = {} /\ Requested \cap {p} = {}
      BY <1>1 DEF Carried, Requested
    <3>2. Cardinality(Carried \cap {p}) = 0 /\ Cardinality(Requested \cap {p}) = 0
      BY <3>1, FS_EmptySet
    <3>3. Stored(p) \in Nat
      BY SlotsFinite
    <3> QED
      BY <3>2, <3>3
  <2> QED
    BY <1>1, <2>1 DEF StoredPairs, BagBalanced
<1>2. CASE pc # "idle"
  <2>1. Carried = {Pair(current)} /\ Requested = {Asked}
    BY <1>2 DEF Requested, Carried, Asked
  <2> QED
    BY <1>2, <2>1, OneMember DEF StoredPairs, BagBalanced
<1> QED
  BY <1>1, <1>2

LEMMA BagBalancesNext == BagBalanced'
BY BagBalances, PTL
-----------------------------------------------------------------------------
\* What a slot holds after an entry is stored in some slot.
LEMMA StoreWrites ==
  ASSUME TypeOK, NEW slot \in Slots, NEW entry,
         store(slot.index, slot.way, entry)
  PROVE  \A other \in Slots :
           EntryAt(other)' = IF other = slot THEN entry ELSE EntryAt(other)
<1> SUFFICES ASSUME NEW other \in Slots
             PROVE  EntryAt(other)' = IF other = slot THEN entry ELSE EntryAt(other)
  OBVIOUS
<1>1. /\ slot.index \in Index /\ slot.way \in Way
      /\ other.index \in Index /\ other.way \in Way
      /\ (other = slot <=> other.index = slot.index /\ other.way = slot.way)
  BY DEF Slots
<1> QED
  BY <1>1 DEF TypeOK, store, EntryAt

\* Storing an entry adds its pair, and takes away the one that was there.
LEMMA StoreSwaps ==
  ASSUME TypeOK, NEW slot \in Slots, NEW c \in Current,
         store(slot.index, slot.way, Entry(c)), NEW p
  PROVE  Stored(p)' = Stored(p) + One(Pair(c), p)
           - (IF slot \in Occupied THEN One(Pair(EntryAt(slot)), p) ELSE 0)
<1> DEFINE others == Holders(p) \ {slot}
<1>1. Entry(c) \in HashEntry /\ valid(Entry(c)) /\ Pair(Entry(c)) = Pair(c)
  BY EntryType DEF Entry, Pair
<1>2. Occupied' = Occupied \cup {slot}
  BY <1>1, StoreOccupies
<1>3. \A other \in Slots :
        EntryAt(other)' = IF other = slot THEN Entry(c) ELSE EntryAt(other)
  BY StoreWrites
<1>4. Holders(p)' = IF Pair(c) = p THEN others \cup {slot} ELSE others
  <2>1. Occupied \subseteq Slots
    BY DEF Occupied
  <2>2. ASSUME NEW other \in Slots
        PROVE  other \in Holders(p)' <=>
                 \/ other \in others
                 \/ other = slot /\ Pair(c) = p
    BY <1>1, <1>2, <1>3, <2>2 DEF Holders, Pair
  <2>3. Holders(p)' \subseteq Slots /\ others \subseteq Slots
    BY <1>2, <2>1 DEF Holders
  <2> QED
    BY <2>2, <2>3
<1>5. Holders(p) = IF slot \in Occupied /\ Pair(EntryAt(slot)) = p
                   THEN others \cup {slot} ELSE others
  BY DEF Holders
<1>6. IsFiniteSet(others) /\ Cardinality(others) \in Nat /\ slot \notin others
  BY SlotsFinite, FS_Subset, FS_CardinalityType
<1>7. Cardinality(others \cup {slot}) = Cardinality(others) + 1
  BY <1>6, FS_AddElement
<1>8. Stored(p)' = Cardinality(others) + One(Pair(c), p)
  BY <1>4, <1>6, <1>7 DEF Stored, Holders, One
<1>9. Stored(p) = Cardinality(others)
        + (IF slot \in Occupied THEN One(Pair(EntryAt(slot)), p) ELSE 0)
  <2>1. Stored(p) = Cardinality(Holders(p))
    BY DEF Stored, Holders
  <2> HIDE DEF others
  <2>2. CASE slot \in Occupied /\ Pair(EntryAt(slot)) = p
    BY <1>5, <1>7, <2>1, <2>2 DEF One
  <2>3. CASE ~ (slot \in Occupied /\ Pair(EntryAt(slot)) = p)
    <3>1. Holders(p) = others
      BY <1>5, <2>3
    <3> QED
      BY <1>6, <2>1, <2>3, <3>1 DEF One
  <2> QED
    BY <2>2, <2>3
<1> HIDE DEF others
<1> QED
  BY <1>6, <1>8, <1>9 DEF One

\* The slot of a free way is not occupied.
LEMMA FreeslotVacant ==
  ASSUME NEW c \in Current, FreeWays(c.index) # {}
  PROVE  /\ [index |-> c.index, way |-> freeslot(c.index)] \in Slots
         /\ [index |-> c.index, way |-> freeslot(c.index)] \notin Occupied
<1>1. freeslot(c.index) \in FreeWays(c.index)
  BY FreeslotIsFree
<1> QED
  BY <1>1 DEF FreeWays, Slots, Occupied, EntryAt, Current

\* Storing an entry in a free way adds its pair.
LEMMA StoreAdds ==
  ASSUME TypeOK, NEW c \in Current, FreeWays(c.index) # {},
         store(c.index, freeslot(c.index), Entry(c)), NEW p
  PROVE  Stored(p)' = Stored(p) + One(Pair(c), p)
<1> DEFINE slot == [index |-> c.index, way |-> freeslot(c.index)]
<1>1. slot \in Slots /\ slot \notin Occupied
  BY FreeslotVacant
<1>2. store(slot.index, slot.way, Entry(c))
  OBVIOUS
<1> HIDE DEF slot
<1>3. Stored(p)' = Stored(p) + One(Pair(c), p)
        - (IF slot \in Occupied THEN One(Pair(EntryAt(slot)), p) ELSE 0)
  BY <1>1, <1>2, StoreSwaps
<1> QED
  BY <1>1, <1>3, SlotsFinite DEF One
-----------------------------------------------------------------------------
LEMMA StoreInvInit == UInit => StoreInv
BY UndoInit, CountInit DEF StoreInv, UInit, Init, Answering

LEMMA StoreInvNext == StoreInv /\ [UNext]_uvars => StoreInv'
<1> SUFFICES ASSUME StoreInv, [UNext]_uvars PROVE StoreInv'
  OBVIOUS
<1>1. UndoInv' /\ TypeInv /\ TraceType /\ TraceType'
  BY UndoNext DEF StoreInv, UndoInv
<1>2. CountInv'
  BY UNextIsNext, CountNext DEF StoreInv
<1>3. Answering'
  <2>1. CASE pc' = "idle"
    BY <2>1 DEF Answering
  <2>2. ASSUME NEW key \in Keys, NEW value \in Values, NEW fn \in {0, 1},
               PutOtherBucket(key, value, fn), trace' = <<Snapshot'>>
        PROVE  Answering'
    <3>1. /\ pc' = "evict" /\ args' = [key |-> key, value |-> value]
          /\ current' = Fresh(key, value, 1 - fn)
          /\ trace'[1].hand = current'
      BY <2>2 DEF PutOtherBucket, Snapshot
    <3>2. Pair(trace'[1].hand) = [keyHash |-> hash(key), offset |-> value]
      BY <3>1 DEF Pair, Fresh
    <3> QED
      BY <3>1, <3>2 DEF Answering, Requested
  <2>3. ASSUME NEW way \in Way, Evict(way), trace' = Append(trace, Snapshot')
        PROVE  Answering'
    <3>1. pc = "evict" /\ pc' = "evict" /\ args' = args
      BY <2>3 DEF Evict
    <3>2. trace \in Seq(State) /\ Len(trace) >= 1
      BY <1>1, <3>1 DEF TraceType, TypeInv, TypeOK
    <3>3. trace'[1] = trace[1]
      BY <2>3, <3>2
    <3> QED
      BY <3>1, <3>3 DEF StoreInv, Answering, Requested
  <2>4. CASE pc # "idle" /\ UNCHANGED <<args, trace>>
    BY <2>4 DEF StoreInv, Answering, Requested
  <2> QED
    BY <2>1, <2>2, <2>3, <2>4
    DEF UNext, uvars, vars, PutNull, PutFirstBucket, StoreCurrent, StartUndo, UndoEviction,
        ReturnFailure, Return
<1> QED
  BY <1>1, <1>2, <1>3 DEF StoreInv
-----------------------------------------------------------------------------
\* A put that is answered at once.
LEMMA AtOnceStep ==
  ASSUME TypeOK, NEW key \in Keys, NEW value \in Values, NEW fn \in {0, 1},
         PutFirstBucket(key, value, fn)
  PROVE  \E p \in Pairs : Abstract!PutAtOnce(p)
<1> DEFINE c == Fresh(key, value, fn)
<1>1. c \in Current /\ Pair(c) \in Pairs
  <2>1. Pair(c) = [keyHash |-> hash(key), offset |-> value]
    BY DEF Fresh, Pair
  <2> QED
    BY <2>1, FreshType DEF Pairs
<1>2. /\ pc = "idle" /\ pc' = "idle" /\ ret' = 1 /\ FreeWays(c.index) # {}
      /\ store(c.index, freeslot(c.index), Entry(c))
  BY DEF PutFirstBucket, Return
<1> HIDE DEF c
<1>3. \A p : Stored(p)' = Stored(p) + One(Pair(c), p)
  BY <1>1, <1>2, StoreAdds
<1>4. StoredPairs = [p \in Pairs |-> Stored(p)]
  BY <1>2, BagBalances DEF BagBalanced
<1>5. StoredPairs' = [p \in Pairs |-> Stored(p)']
  BY <1>2, BagBalancesNext DEF BagBalanced
<1>6. StoredPairs' = Abstract!Added(Pair(c))
  BY <1>1, <1>3, <1>4, <1>5, SlotsFinite DEF Abstract!Added, One
<1>7. Requested = {} /\ Requested' = {}
  BY <1>2 DEF Requested
<1> QED
  BY <1>1, <1>2, <1>6, <1>7 DEF Abstract!PutAtOnce

\* A put enters its loop.
LEMMA BeginStep ==
  ASSUME TypeOK, NEW key \in Keys, NEW value \in Values, NEW fn \in {0, 1},
         PutOtherBucket(key, value, fn)
  PROVE  \E p \in Pairs : Abstract!Begin(p)
<1> DEFINE asked == [keyHash |-> hash(key), offset |-> value]
<1>1. /\ pc = "idle" /\ pc' = "evict" /\ args' = [key |-> key, value |-> value]
      /\ Pair(current') = asked /\ Asked' = asked /\ ret' = ret /\ bucketArray' = bucketArray
  BY DEF PutOtherBucket, Fresh, Pair, Asked
<1>2. asked \in Pairs
  BY DEF Pairs
<1>3. Requested = {} /\ Requested' = {asked}
  BY <1>1 DEF Requested
<1> HIDE DEF asked
<1>4. \A p : Stored(p)' = Stored(p)
  BY <1>1 DEF Stored, Occupied, EntryAt
<1>5. StoredPairs = [p \in Pairs |-> Stored(p)]
  BY <1>1, BagBalances DEF BagBalanced
<1>6. StoredPairs' = [p \in Pairs |-> Stored(p)' + One(Pair(current'), p) - One(Asked', p)]
  BY <1>1, BagBalancesNext DEF BagBalanced
<1>7. StoredPairs' = StoredPairs
  BY <1>1, <1>4, <1>5, <1>6, SlotsFinite DEF One
<1> QED
  BY <1>1, <1>2, <1>3, <1>7 DEF Abstract!Begin

\* The table a step of a running put leaves holds the same bag.
LEMMA SwapKeepsBag ==
  ASSUME TypeOK, pc # "idle", pc' # "idle", args' = args,
         NEW slot \in Occupied, store(slot.index, slot.way, Entry(current)),
         Pair(current') = Pair(EntryAt(slot))
  PROVE  StoredPairs' = StoredPairs
<1>1. current \in Current /\ slot \in Slots
  BY DEF TypeOK, Occupied
<1>2. \A p : Stored(p)' = Stored(p) + One(Pair(current), p) - One(Pair(current'), p)
  BY <1>1, StoreSwaps
<1>3. Asked' = Asked
  BY DEF Asked
<1>4. StoredPairs = [p \in Pairs |-> Stored(p) + One(Pair(current), p) - One(Asked, p)]
  BY BagBalances DEF BagBalanced
<1>5. StoredPairs' = [p \in Pairs |-> Stored(p)' + One(Pair(current'), p) - One(Asked', p)]
  BY BagBalancesNext DEF BagBalanced
<1>6. ASSUME NEW p
      PROVE  Stored(p)' + One(Pair(current'), p) - One(Asked', p)
               = Stored(p) + One(Pair(current), p) - One(Asked, p)
  BY <1>2, <1>3, SlotsFinite DEF One
<1> QED
  BY <1>4, <1>5, <1>6

LEMMA EvictStep ==
  ASSUME TypeInv, NEW way \in Way, Evict(way)
  PROVE  UNCHANGED <<StoredPairs, Requested, ret>>
<1> DEFINE victim == [index |-> current.index, way |-> way]
<1>1. /\ pc = "evict" /\ pc' = "evict" /\ args' = args /\ ret' = ret
      /\ store(victim.index, victim.way, Entry(current))
      /\ Pair(current') = Pair(EntryAt(victim))
  BY DEF Evict, Evicted, Pair
<1>2. victim \in Occupied
  BY FullBucket DEF Evict, TypeInv, TypeOK, Current
<1> HIDE DEF victim
<1>3. StoredPairs' = StoredPairs
  BY <1>1, <1>2, SwapKeepsBag DEF TypeInv
<1> QED
  BY <1>1, <1>3 DEF Requested

LEMMA UndoEvictionStep ==
  ASSUME TypeInv, UndoOccupied, UndoEviction
  PROVE  UNCHANGED <<StoredPairs, Requested, ret>>
<1> DEFINE victim == UndoSlot
<1>1. /\ pc = "undo" /\ pc' = "undo" /\ args' = args /\ ret' = ret
      /\ store(victim.index, victim.way, Entry(current))
      /\ current' = Replaced(victim)
  BY DEF UndoEviction
<1>2. MAX_CUCKOO_COUNT - n \in 1 .. Len(undo)
  BY CuckooAssumption DEF UndoEviction, TypeInv, TypeOK, UndoLength
<1>3. victim \in Occupied
  BY <1>2 DEF UndoOccupied, UndoSlot
<1> HIDE DEF victim
<1>4. Pair(current') = Pair(EntryAt(victim))
  BY <1>1 DEF Replaced, Pair, TypeInv, TypeOK, Current
<1>5. StoredPairs' = StoredPairs
  BY <1>1, <1>3, <1>4, SwapKeepsBag DEF TypeInv
<1> QED
  BY <1>1, <1>5 DEF Requested

LEMMA StartUndoStep ==
  ASSUME TypeOK, StartUndo
  PROVE  UNCHANGED <<StoredPairs, Requested, ret>>
<1>1. /\ pc = "evict" /\ pc' = "undo" /\ args' = args /\ ret' = ret
      /\ bucketArray' = bucketArray
  BY DEF StartUndo
<1>2. Pair(current') = Pair(current)
  BY DEF StartUndo, Turned, Pair, TypeOK, Current
<1>3. Requested' = Requested /\ Carried' = Carried
  BY <1>1, <1>2 DEF Requested, Carried
<1>4. \A p : Stored(p)' = Stored(p)
  BY <1>1 DEF Stored, Occupied, EntryAt
<1> QED
  BY <1>1, <1>3, <1>4 DEF StoredPairs

\* A round that finds room answers the put, and its pair is in the bag.
LEMMA SucceedStep ==
  ASSUME TypeOK, Answering, StoreCurrent
  PROVE  \E p \in Pairs : Abstract!Succeed(p)
<1>1. /\ pc = "evict" /\ pc' = "idle" /\ ret' = 1 /\ FreeWays(current.index) # {}
      /\ store(current.index, freeslot(current.index), Entry(current))
  BY DEF StoreCurrent, Return
<1>2. Asked \in Pairs
  BY <1>1 DEF Answering, Asked, Pairs
<1>3. \A p : Stored(p)' = Stored(p) + One(Pair(current), p)
  BY <1>1, StoreAdds DEF TypeOK
<1>4. StoredPairs = [p \in Pairs |-> Stored(p) + One(Pair(current), p) - One(Asked, p)]
  BY <1>1, BagBalances DEF BagBalanced
<1>5. StoredPairs' = [p \in Pairs |-> Stored(p)']
  BY <1>1, BagBalancesNext DEF BagBalanced
<1>6. ASSUME NEW p \in Pairs
      PROVE  Stored(p)' = IF p = Asked THEN StoredPairs[p] + 1 ELSE StoredPairs[p]
  BY <1>3, <1>4, SlotsFinite DEF One
<1>7. StoredPairs' = Abstract!Added(Asked)
  BY <1>4, <1>5, <1>6 DEF Abstract!Added
<1>8. Requested = {Asked} /\ Requested' = {}
  BY <1>1 DEF Requested, Asked
<1> QED
  BY <1>1, <1>2, <1>7, <1>8 DEF Abstract!Succeed

\* After the last round of the undo loop, put carries its caller's pair.
LEMMA FailStep ==
  ASSUME StoreInv, ReturnFailure
  PROVE  Abstract!Fail
<1>1. /\ pc = "undo" /\ pc' = "idle" /\ n = MAX_CUCKOO_COUNT /\ ret' = -1
      /\ bucketArray' = bucketArray
  BY DEF ReturnFailure, Return
<1>2. Undone = trace[1]
  BY <1>1, CuckooAssumption DEF Undone
<1>3. Pair(current) = Pair(trace[1].hand)
  BY <1>1, <1>2 DEF StoreInv, UndoInv, UndoRetraces, Pair
<1>4. Requested = {Asked} /\ Requested' = {}
  BY <1>1 DEF Requested, Asked
<1>5. Pair(current) = Asked
  BY <1>1, <1>3, <1>4 DEF StoreInv, Answering
<1>6. \A p : Stored(p)' = Stored(p)
  BY <1>1 DEF Stored, Occupied, EntryAt
<1>7. StoredPairs = [p \in Pairs |-> Stored(p) + One(Pair(current), p) - One(Asked, p)]
  BY <1>1, BagBalances DEF BagBalanced
<1>8. StoredPairs' = [p \in Pairs |-> Stored(p)']
  BY <1>1, BagBalancesNext DEF BagBalanced
<1>9. StoredPairs' = StoredPairs
  BY <1>5, <1>6, <1>7, <1>8, SlotsFinite DEF One
<1> QED
  BY <1>1, <1>4, <1>9 DEF Abstract!Fail

LEMMA RefuseStep ==
  ASSUME PutNull
  PROVE  Abstract!RefuseAtOnce
<1>1. /\ pc = "idle" /\ pc' = "idle" /\ args' = args /\ current' = current
      /\ bucketArray' = bucketArray /\ ret' = -1
  BY DEF PutNull
<1>2. \A p : Stored(p)' = Stored(p)
  BY <1>1 DEF Stored, Occupied, EntryAt
<1>3. Requested = {} /\ Requested' = {} /\ Carried' = Carried
  BY <1>1 DEF Requested, Carried
<1>4. StoredPairs' = StoredPairs
  BY <1>2, <1>3 DEF StoredPairs
<1> QED
  BY <1>1, <1>3, <1>4 DEF Abstract!RefuseAtOnce
-----------------------------------------------------------------------------
LEMMA InitImplements == UInit => Abstract!Init
<1> SUFFICES ASSUME UInit PROVE Abstract!Init
  OBVIOUS
<1>1. pc = "idle" /\ ret = 0 /\ Requested = {}
  BY DEF UInit, Init, Requested
<1>2. Occupied = {}
  BY CuckooAssumption DEF UInit, Init, Occupied, Slots, EntryAt, valid, ZeroEntry
<1>3. \A p : Stored(p) = 0
  BY <1>2, FS_EmptySet, {slot \in {} : TRUE} = {} DEF Stored
<1>4. StoredPairs = [p \in Pairs |-> 0]
  BY <1>1, <1>3, BagBalances DEF BagBalanced
<1> QED
  BY <1>1, <1>4 DEF Abstract!Init

\* Every step of put is a step of the abstract put or leaves it alone.
LEMMA NextImplements ==
  StoreInv /\ [UNext]_uvars => [Abstract!Next]_(Abstract!vars)
<1> SUFFICES ASSUME StoreInv, [UNext]_uvars
             PROVE  Abstract!Next \/ UNCHANGED <<StoredPairs, Requested, ret>>
  BY DEF Abstract!vars
<1>0. TypeInv /\ TypeOK /\ UndoOccupied /\ Answering
  BY DEF StoreInv, UndoInv, TypeInv, CountInv
<1>1. CASE PutNull
  BY <1>1, RefuseStep DEF Abstract!Next
<1>2. ASSUME NEW key \in Keys, NEW value \in Values, NEW fn \in {0, 1},
             PutFirstBucket(key, value, fn)
      PROVE  Abstract!Next
  BY <1>0, <1>2, AtOnceStep DEF Abstract!Next
<1>3. ASSUME NEW key \in Keys, NEW value \in Values, NEW fn \in {0, 1},
             PutOtherBucket(key, value, fn)
      PROVE  Abstract!Next
  BY <1>0, <1>3, BeginStep DEF Abstract!Next
<1>4. CASE StoreCurrent
  BY <1>0, <1>4, SucceedStep DEF Abstract!Next, Abstract!Answer
<1>5. ASSUME NEW way \in Way, Evict(way)
      PROVE  UNCHANGED <<StoredPairs, Requested, ret>>
  BY <1>0, <1>5, EvictStep
<1>6. CASE StartUndo
  BY <1>0, <1>6, StartUndoStep
<1>7. CASE UndoEviction
  BY <1>0, <1>7, UndoEvictionStep
<1>8. CASE ReturnFailure
  BY <1>8, FailStep DEF Abstract!Next, Abstract!Answer
<1>9. CASE UNCHANGED vars
  BY <1>9 DEF vars, StoredPairs, Requested, Carried, Stored, Occupied, EntryAt
<1> QED
  BY <1>1, <1>2, <1>3, <1>4, <1>5, <1>6, <1>7, <1>8, <1>9 DEF UNext, uvars

\* Whatever evictions a put makes, and whether or not it undoes them, its
\* caller sees a put that adds its pair once and returns 1, or one that
\* changes nothing and returns -1.
THEOREM StoreImplemented == USpec => Abstract!Safety
<1>1. USpec => []StoreInv
  BY StoreInvInit, StoreInvNext, PTL DEF USpec
<1> QED
  BY <1>1, InitImplements, NextImplements, PTL DEF USpec, Abstract!Safety
=============================================================================
