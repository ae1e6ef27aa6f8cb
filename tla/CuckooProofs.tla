---------------------------- MODULE CuckooProofs ----------------------------
(***************************************************************************)
(* Safety of librekv_cuckoo_put, for tables of any size, any hash and any  *)
(* sequence of calls.                                                      *)
(***************************************************************************)
EXTENDS Cuckoo, FiniteSetTheorems, WellFoundedInduction, TLAPS

\* The fragments of a key are bucket indexes.
LEMMA KeyfragType ==
  ASSUME NEW key \in Keys, NEW fn \in {0, 1}
  PROVE  keyfrag(key, fn) \in Index
<1>1. key \in Nat /\ BUCKETS_PER_TABLE \in Nat \ {0}
  BY CuckooAssumption
<1>2. \A m \in Nat, d \in Nat \ {0} : m % d \in 0 .. d - 1
  OBVIOUS
<1>3. \A m \in Nat, d \in Nat \ {0} : m \div d \in Nat
  OBVIOUS
<1> QED
  BY <1>1, <1>2, <1>3 DEF keyfrag, Index

\* Setting the valid bit of a tag gives a key tag, and masking it off gives
\* the tag back.
LEMMA TagRoundTrip ==
  ASSUME NEW tag \in Index
  PROVE  /\ WithValidBit(tag) \in BUCKETS_PER_TABLE .. 2 * BUCKETS_PER_TABLE - 1
         /\ Masked(WithValidBit(tag)) = tag
<1>1. BUCKETS_PER_TABLE \in Nat \ {0} /\ tag < BUCKETS_PER_TABLE /\ tag \in Nat
  BY CuckooAssumption DEF Index
<1>2. WithValidBit(tag) = tag + BUCKETS_PER_TABLE
  BY <1>1 DEF WithValidBit
<1>3. \A t \in Nat, d \in Nat \ {0} : t < d => (t + d) % d = t
  OBVIOUS
<1> QED
  BY <1>1, <1>2, <1>3 DEF Masked

\* Masking off the valid bit of a key tag and setting it again gives the key
\* tag back when the bit was set.
LEMMA KeyTagRoundTrip ==
  ASSUME NEW entry \in HashEntry
  PROVE  /\ Masked(entry.keyTag) \in Index
         /\ valid(entry) => WithValidBit(Masked(entry.keyTag)) = entry.keyTag
<1> DEFINE t == entry.keyTag
<1>1. BUCKETS_PER_TABLE \in Nat \ {0} /\ t \in Nat /\ t < 2 * BUCKETS_PER_TABLE
  BY CuckooAssumption DEF HashEntry
<1>2. \A i \in Nat, d \in Nat \ {0} : i % d \in 0 .. d - 1
  OBVIOUS
<1>3. \A i \in Nat, d \in Nat \ {0} : d <= i /\ i < 2 * d => i % d = i - d
  OBVIOUS
<1> HIDE DEF t
<1>4. t % BUCKETS_PER_TABLE \in Index
  BY <1>1, <1>2 DEF Index
<1>5. ASSUME t >= BUCKETS_PER_TABLE PROVE WithValidBit(t % BUCKETS_PER_TABLE) = t
  <2>1. t % BUCKETS_PER_TABLE = t - BUCKETS_PER_TABLE
    BY <1>1, <1>3, <1>5
  <2> QED
    BY <2>1, <1>1 DEF WithValidBit
<1> QED
  BY <1>4, <1>5 DEF Masked, valid, t

\* freeslot returns a way that is free, if there is one.
LEMMA FreeslotIsFree ==
  ASSUME NEW index, FreeWays(index) # {}
  PROVE  freeslot(index) \in FreeWays(index)
<1>1. FreeWays(index) \subseteq Nat
  BY CuckooAssumption DEF FreeWays, Way
<1>2. PICK way \in FreeWays(index) :
        \A other \in FreeWays(index) : ~ (<<other, way>> \in OpToRel(<, Nat))
  BY <1>1, NatLessThanWellFounded, WFMin
<1>3. \A other \in FreeWays(index) : way <= other
  <2>1. SUFFICES ASSUME NEW other \in FreeWays(index) PROVE way <= other
    OBVIOUS
  <2>2. way \in Nat /\ other \in Nat
    BY <1>1
  <2>3. ~ (other < way)
    BY <1>2, <2>2 DEF OpToRel
  <2> QED
    BY <2>2, <2>3
<1> QED
  BY <1>2, <1>3 DEF freeslot

\* What current becomes in the table is a valid entry.
LEMMA EntryType ==
  ASSUME NEW c \in Current
  PROVE  Entry(c) \in HashEntry /\ valid(Entry(c))
<1>1. c.tag \in Index /\ c.keyHash \in Nat /\ c.offset \in Nat
  BY DEF Current
<1>2. WithValidBit(c.tag) \in BUCKETS_PER_TABLE .. 2 * BUCKETS_PER_TABLE - 1
  BY <1>1, TagRoundTrip
<1>3. WithValidBit(c.tag) \in 0 .. 2 * BUCKETS_PER_TABLE - 1
      /\ WithValidBit(c.tag) >= BUCKETS_PER_TABLE
  BY <1>2, CuckooAssumption
<1> QED
  BY <1>1, <1>3 DEF Entry, HashEntry, valid

\* A fresh key has its two fragments as index and tag.
LEMMA FreshType ==
  ASSUME NEW key \in Keys, NEW value \in Values, NEW fn \in {0, 1}
  PROVE  Fresh(key, value, fn) \in Current
<1>1. keyfrag(key, fn) \in Index
  BY KeyfragType
<1>2. keyfrag(key, 1 - fn) \in Index
  <2>1. 1 - fn \in {0, 1}
    OBVIOUS
  <2> QED
    BY <2>1, KeyfragType
<1>3. hash(key) \in Nat /\ value \in Nat
  BY CuckooAssumption DEF hash
<1> QED
  BY <1>1, <1>2, <1>3 DEF Fresh, Current

\* The table stays a table when an entry is stored in it.
LEMMA StoreType ==
  ASSUME TypeOK, NEW index, NEW way, NEW entry \in HashEntry,
         store(index, way, entry)
  PROVE  bucketArray' \in [Index -> [Way -> HashEntry]]
BY DEF TypeOK, store

\* The evicted entry goes to a bucket of the table.
LEMMA EvictedType ==
  ASSUME TypeOK, NEW slot \in Slots
  PROVE  Evicted(slot) \in Current
<1>1. EntryAt(slot) \in HashEntry /\ slot.index \in Index
  BY DEF TypeOK, EntryAt, Slots
<1>2. Masked(EntryAt(slot).keyTag) \in Index
  BY <1>1, KeyTagRoundTrip
<1> QED
  BY <1>1, <1>2 DEF Evicted, Current, HashEntry

\* While put evicts, it remembers each eviction; when it undoes them, there
\* are as many as the undo loop has rounds.
UndoLength ==
  /\ pc = "evict" => Len(undo) = n
  /\ pc = "undo" => Len(undo) = MAX_CUCKOO_COUNT

TypeInv == TypeOK /\ UndoLength

\* The locals of a put that returns are reset to values of their types.
LEMMA ReturnType ==
  ASSUME NEW code \in {-1, 0, 1}, Return(code),
         bucketArray' \in [Index -> [Way -> HashEntry]], current_entries' \in Nat
  PROVE  TypeInv'
<1>1. 0 \in Index /\ 0 \in 0 .. MAX_CUCKOO_COUNT /\ << >> \in Seq(Slots)
  BY CuckooAssumption DEF Index
<1> QED
  BY <1>1 DEF Return, TypeInv, TypeOK, UndoLength, NoArgs, NoCurrent, Current, Slots

LEMMA TypeInit == Init => TypeInv
<1>1. 0 \in Index /\ 0 \in 0 .. MAX_CUCKOO_COUNT /\ << >> \in Seq(Slots)
      /\ 0 \in 0 .. 2 * BUCKETS_PER_TABLE - 1
  BY CuckooAssumption DEF Index
<1> QED
  BY <1>1 DEF Init, TypeInv, TypeOK, UndoLength, NoArgs, NoCurrent, Current,
              ZeroEntry, HashEntry, Slots

LEMMA TypeNext == TypeInv /\ [Next]_vars => TypeInv'
<1> SUFFICES ASSUME TypeInv, [Next]_vars PROVE TypeInv'
  OBVIOUS
<1> USE DEF TypeInv
<1>1. CASE PutNull
  BY <1>1 DEF PutNull, TypeOK, UndoLength
<1>2. ASSUME NEW key \in Keys, NEW value \in Values, NEW fn \in {0, 1},
             PutFirstBucket(key, value, fn)
      PROVE  TypeInv'
  <2> DEFINE c == Fresh(key, value, fn)
  <2>1. Entry(c) \in HashEntry
    BY FreshType, EntryType
  <2>2. bucketArray' \in [Index -> [Way -> HashEntry]]
    BY <1>2, <2>1, StoreType DEF PutFirstBucket
  <2>3. current_entries' \in Nat
    BY <1>2 DEF PutFirstBucket, TypeOK
  <2> QED
    BY <1>2, <2>2, <2>3, ReturnType DEF PutFirstBucket
<1>3. ASSUME NEW key \in Keys, NEW value \in Values, NEW fn \in {0, 1},
             PutOtherBucket(key, value, fn)
      PROVE  TypeInv'
  <2>1. 1 - fn \in {0, 1}
    OBVIOUS
  <2>2. current' \in Current
    BY <1>3, <2>1, FreshType DEF PutOtherBucket
  <2>3. n' \in 0 .. MAX_CUCKOO_COUNT /\ undo' \in Seq(Slots) /\ Len(undo') = n'
    BY <1>3, CuckooAssumption DEF PutOtherBucket
  <2> QED
    BY <1>3, <2>2, <2>3 DEF PutOtherBucket, TypeOK, UndoLength, Slots
<1>4. CASE StoreCurrent
  <2>1. Entry(current) \in HashEntry
    BY EntryType DEF TypeOK
  <2>2. bucketArray' \in [Index -> [Way -> HashEntry]]
    BY <1>4, <2>1, StoreType DEF StoreCurrent
  <2>3. current_entries' \in Nat
    BY <1>4 DEF StoreCurrent, TypeOK
  <2> QED
    BY <1>4, <2>2, <2>3, ReturnType DEF StoreCurrent
<1>5. ASSUME NEW way \in Way, Evict(way)
      PROVE  TypeInv'
  <2> DEFINE victim == [index |-> current.index, way |-> way]
  <2>1. victim \in Slots
    BY DEF TypeOK, Current, Slots
  <2>2. Entry(current) \in HashEntry
    BY EntryType DEF TypeOK
  <2>3. bucketArray' \in [Index -> [Way -> HashEntry]]
    BY <1>5, <2>2, StoreType DEF Evict
  <2>4. current' \in Current
    BY <1>5, <2>1, EvictedType DEF Evict
  <2>5. undo' \in Seq(Slots) /\ Len(undo') = n' /\ n' \in 0 .. MAX_CUCKOO_COUNT
    BY <1>5, <2>1, CuckooAssumption DEF Evict, TypeOK, UndoLength, Slots
  <2> QED
    BY <1>5, <2>3, <2>4, <2>5 DEF Evict, TypeOK, UndoLength, Slots
<1>6. CASE StartUndo
  <2>1. current' \in Current
    BY <1>6 DEF StartUndo, Turned, TypeOK, Current
  <2>2. n' \in 0 .. MAX_CUCKOO_COUNT
    BY <1>6, CuckooAssumption DEF StartUndo
  <2> QED
    BY <1>6, <2>1, <2>2 DEF StartUndo, TypeOK, UndoLength
<1>7. CASE UndoEviction
  <2> DEFINE victim == UndoSlot
  <2>1. MAX_CUCKOO_COUNT - n \in 1 .. Len(undo) /\ n + 1 \in 0 .. MAX_CUCKOO_COUNT
    BY <1>7, CuckooAssumption DEF UndoEviction, TypeOK, UndoLength
  <2>2. victim \in Slots
    <3>1. undo \in Seq(Slots)
      BY DEF TypeOK, Slots
    <3> QED
      BY <2>1, <3>1 DEF UndoSlot
  <2>3. EntryAt(victim) \in HashEntry /\ victim.index \in Index
    BY <2>2 DEF TypeOK, EntryAt, Slots
  <2>4. Entry(current) \in HashEntry
    BY EntryType DEF TypeOK
  <2>5. bucketArray' \in [Index -> [Way -> HashEntry]]
    BY <1>7, <2>4, StoreType DEF UndoEviction
  <2>6. current' \in Current
    BY <1>7, <2>3 DEF UndoEviction, Replaced, TypeOK, Current, HashEntry
  <2> QED
    BY <1>7, <2>1, <2>5, <2>6 DEF UndoEviction, TypeOK, UndoLength
<1>8. CASE ReturnFailure
  BY <1>8, ReturnType DEF ReturnFailure, TypeOK
<1>9. CASE UNCHANGED vars
  BY <1>9 DEF vars, TypeOK, UndoLength
<1> QED
  BY <1>1, <1>2, <1>3, <1>4, <1>5, <1>6, <1>7, <1>8, <1>9 DEF Next, PutStep

\* The type invariant holds for tables of any size: no eviction and no undo
\* step computes a bucket outside the table.
THEOREM TypeCorrect == Spec => []TypeOK
<1>1. Spec => []TypeInv
  BY TypeInit, TypeNext, PTL DEF Spec
<1> QED
  BY <1>1, PTL DEF TypeInv
-----------------------------------------------------------------------------
\* The slots of the table, and with them the occupied ones, are finitely many.
LEMMA OccupiedFinite == IsFiniteSet(Occupied) /\ Cardinality(Occupied) \in Nat
<1>1. IsFiniteSet(Index) /\ IsFiniteSet(Way)
  BY FS_Interval, CuckooAssumption DEF Index, Way
<1>2. IsFiniteSet(Index \X Way)
  BY <1>1, FS_Product
<1> DEFINE f == [p \in Index \X Way |-> [index |-> p[1], way |-> p[2]]]
<1>3. f \in Surjection(Index \X Way, Slots)
  <2>1. f \in [Index \X Way -> Slots]
    BY DEF Slots
  <2>2. ASSUME NEW slot \in Slots
        PROVE  \E p \in Index \X Way : f[p] = slot
    <3>1. <<slot.index, slot.way>> \in Index \X Way
      BY DEF Slots
    <3>2. f[<<slot.index, slot.way>>] = slot
      BY <3>1 DEF Slots
    <3> QED
      BY <3>1, <3>2
  <2> QED
    BY <2>1, <2>2 DEF Surjection
<1>4. IsFiniteSet(Slots)
  BY <1>2, <1>3, FS_Surjection
<1>5. Occupied \in SUBSET Slots
  BY DEF Occupied
<1>6. IsFiniteSet(Occupied)
  BY <1>4, <1>5, FS_Subset
<1> QED
  BY <1>6, FS_CardinalityType

\* Storing a valid entry occupies its slot and no other.
LEMMA StoreOccupies ==
  ASSUME TypeOK, NEW slot \in Slots, NEW entry \in HashEntry, valid(entry),
         store(slot.index, slot.way, entry)
  PROVE  Occupied' = Occupied \cup {slot}
<1>1. slot.index \in Index /\ slot.way \in Way
  BY DEF Slots
<1>2. ASSUME NEW other \in Slots
      PROVE  EntryAt(other)' = IF other = slot THEN entry ELSE EntryAt(other)
  <2>1. other.index \in Index /\ other.way \in Way
    BY DEF Slots
  <2>2. other = slot <=> other.index = slot.index /\ other.way = slot.way
    BY DEF Slots
  <2> QED
    BY <1>1, <2>1, <2>2 DEF TypeOK, store, EntryAt
<1> QED
  BY <1>2 DEF Occupied

\* A bucket with no free way is occupied in every way.
LEMMA FullBucket ==
  ASSUME NEW index \in Index, NEW way \in Way, FreeWays(index) = {}
  PROVE  [index |-> index, way |-> way] \in Occupied
BY DEF FreeWays, Occupied, Slots, EntryAt

\* Storing in a free way adds one to the number of occupied slots.
LEMMA StoreCounts ==
  ASSUME TypeOK, NEW c \in Current, FreeWays(c.index) # {},
         store(c.index, freeslot(c.index), Entry(c))
  PROVE  Cardinality(Occupied') = Cardinality(Occupied) + 1
<1> DEFINE slot == [index |-> c.index, way |-> freeslot(c.index)]
<1>1. freeslot(c.index) \in FreeWays(c.index)
  BY FreeslotIsFree
<1>2. c.index \in Index /\ freeslot(c.index) \in Way
  BY <1>1 DEF Current, FreeWays
<1>3. slot \in Slots /\ slot \notin Occupied
  BY <1>1, <1>2 DEF FreeWays, Slots, Occupied, EntryAt
<1>4. Entry(c) \in HashEntry /\ valid(Entry(c))
  BY EntryType
<1>5. Occupied' = Occupied \cup {slot}
  BY <1>3, <1>4, StoreOccupies
<1> QED
  BY <1>3, <1>5, OccupiedFinite, FS_AddElement

\* The slots that put may have to restore are occupied.
UndoOccupied == \A i \in 1 .. Len(undo) : undo[i] \in Occupied

\* Neither loop changes which slots are occupied: an eviction stores its
\* entry in a slot of a full bucket, an undo step in one that was.
LEMMA EvictOccupied ==
  ASSUME TypeInv, NEW way \in Way, Evict(way)
  PROVE  Occupied' = Occupied
<1> DEFINE victim == [index |-> current.index, way |-> way]
<1>1. current.index \in Index /\ FreeWays(current.index) = {}
  BY DEF TypeInv, TypeOK, Current, Evict
<1>2. victim \in Occupied /\ victim \in Slots
  BY <1>1, FullBucket DEF Occupied
<1>3. Entry(current) \in HashEntry /\ valid(Entry(current))
  BY EntryType DEF TypeInv, TypeOK
<1> QED
  BY <1>2, <1>3, StoreOccupies DEF Evict, TypeInv

LEMMA UndoEvictionOccupied ==
  ASSUME TypeInv, UndoOccupied, UndoEviction
  PROVE  Occupied' = Occupied
<1> DEFINE victim == UndoSlot
<1>1. MAX_CUCKOO_COUNT - n \in 1 .. Len(undo)
  BY CuckooAssumption DEF UndoEviction, TypeInv, TypeOK, UndoLength
<1>2. victim \in Occupied /\ victim \in Slots
  BY <1>1 DEF UndoOccupied, Occupied, UndoSlot
<1>3. Entry(current) \in HashEntry /\ valid(Entry(current))
  BY EntryType DEF TypeInv, TypeOK
<1> QED
  BY <1>2, <1>3, StoreOccupies DEF UndoEviction, TypeInv

CountInv == TypeInv /\ UndoOccupied /\ CountMatches

LEMMA CountInit == Init => CountInv
<1> SUFFICES ASSUME Init PROVE UndoOccupied /\ CountMatches
  BY TypeInit DEF CountInv
<1>1. UndoOccupied
  BY DEF Init, UndoOccupied
<1>2. Occupied = {}
  BY CuckooAssumption DEF Init, Occupied, Slots, EntryAt, valid, ZeroEntry
<1>3. CountMatches
  BY <1>2, FS_EmptySet DEF CountMatches, Init
<1> QED
  BY <1>1, <1>3

LEMMA CountNext == CountInv /\ [Next]_vars => CountInv'
<1> SUFFICES ASSUME CountInv, [Next]_vars PROVE (UndoOccupied /\ CountMatches)'
  BY TypeNext DEF CountInv
<1> USE DEF CountInv, TypeInv
<1>1. CASE PutNull
  BY <1>1 DEF PutNull, UndoOccupied, CountMatches, Occupied, EntryAt
<1>2. ASSUME NEW key \in Keys, NEW value \in Values, NEW fn \in {0, 1},
             PutFirstBucket(key, value, fn)
      PROVE  (UndoOccupied /\ CountMatches)'
  <2>1. Cardinality(Occupied') = Cardinality(Occupied) + 1
    BY <1>2, FreshType, StoreCounts DEF PutFirstBucket
  <2>2. undo' = << >>
    BY <1>2 DEF PutFirstBucket, Return
  <2> QED
    BY <1>2, <2>1, <2>2 DEF PutFirstBucket, UndoOccupied, CountMatches
<1>3. ASSUME NEW key \in Keys, NEW value \in Values, NEW fn \in {0, 1},
             PutOtherBucket(key, value, fn)
      PROVE  (UndoOccupied /\ CountMatches)'
  BY <1>3 DEF PutOtherBucket, UndoOccupied, CountMatches, Occupied, EntryAt
<1>4. CASE StoreCurrent
  <2>1. Cardinality(Occupied') = Cardinality(Occupied) + 1
    BY <1>4, StoreCounts DEF StoreCurrent, TypeOK
  <2>2. undo' = << >>
    BY <1>4 DEF StoreCurrent, Return
  <2> QED
    BY <1>4, <2>1, <2>2 DEF StoreCurrent, UndoOccupied, CountMatches
<1>5. ASSUME NEW way \in Way, Evict(way)
      PROVE  (UndoOccupied /\ CountMatches)'
  <2> DEFINE victim == [index |-> current.index, way |-> way]
  <2>1. victim \in Occupied
    BY <1>5, FullBucket DEF Evict, TypeOK, Current
  <2>2. Occupied' = Occupied
    BY <1>5, EvictOccupied
  <2>3. undo \in Seq(Slots) /\ undo' = Append(undo, victim)
    BY <1>5 DEF Evict, TypeOK, Slots
  <2>4. UndoOccupied'
    BY <2>1, <2>2, <2>3 DEF UndoOccupied
  <2> QED
    BY <1>5, <2>2, <2>4 DEF Evict, CountMatches
<1>6. CASE StartUndo
  BY <1>6 DEF StartUndo, UndoOccupied, CountMatches, Occupied, EntryAt
<1>7. CASE UndoEviction
  <2>1. Occupied' = Occupied
    BY <1>7, UndoEvictionOccupied
  <2> QED
    BY <1>7, <2>1 DEF UndoEviction, UndoOccupied, CountMatches
<1>8. CASE ReturnFailure
  BY <1>8 DEF ReturnFailure, Return, UndoOccupied, CountMatches, Occupied, EntryAt
<1>9. CASE UNCHANGED vars
  BY <1>9 DEF vars, UndoOccupied, CountMatches, Occupied, EntryAt
<1> QED
  BY <1>1, <1>2, <1>3, <1>4, <1>5, <1>6, <1>7, <1>8, <1>9 DEF Next, PutStep

\* current_entries counts the occupied slots, also while put evicts and
\* while it undoes its evictions.
THEOREM CountCorrect == Spec => []CountMatches
<1>1. Spec => []CountInv
  BY CountInit, CountNext, PTL DEF Spec
<1> QED
  BY <1>1, PTL DEF CountInv
-----------------------------------------------------------------------------
Full(index) == FreeWays(index) = {}

\* A full bucket stays full as long as no slot is given up.
LEMMA FullStays ==
  ASSUME NEW index \in Index, Full(index), Occupied \subseteq Occupied'
  PROVE  Full(index)'
<1> SUFFICES ASSUME NEW way \in Way PROVE valid(bucketArray[index][way])'
  BY DEF Full, FreeWays
<1>1. [index |-> index, way |-> way] \in Occupied
  BY FullBucket DEF Full
<1> QED
  BY <1>1 DEF Occupied, EntryAt

\* A put that has entered its loop found the first bucket of its key full;
\* after a round it has found the second one full too.
BucketsFull ==
  pc # "idle" =>
    /\ args.key \in Keys
    /\ \E fn \in {0, 1} :
         /\ Full(keyfrag(args.key, fn))
         /\ \/ pc = "evict" /\ n = 0 /\ current.index = keyfrag(args.key, 1 - fn)
            \/ Full(keyfrag(args.key, 1 - fn))

FullInv == CountInv /\ BucketsFull

LEMMA FullNext == FullInv /\ [Next]_vars => FullInv'
<1> SUFFICES ASSUME FullInv, [Next]_vars PROVE BucketsFull'
  BY CountNext DEF FullInv
<1>0. CountInv /\ TypeInv /\ TypeOK /\ UndoOccupied /\ BucketsFull
  BY DEF FullInv, CountInv, TypeInv
<1>1. CASE PutNull
  BY <1>0, <1>1 DEF PutNull, BucketsFull, Full, FreeWays
<1>2. ASSUME NEW key \in Keys, NEW value \in Values, NEW fn \in {0, 1},
             PutFirstBucket(key, value, fn)
      PROVE  BucketsFull'
  BY <1>2 DEF PutFirstBucket, Return, BucketsFull
<1>3. ASSUME NEW key \in Keys, NEW value \in Values, NEW fn \in {0, 1},
             PutOtherBucket(key, value, fn)
      PROVE  BucketsFull'
  <2>1. args'.key = key /\ pc' = "evict" /\ n' = 0 /\ current'.index = keyfrag(key, 1 - fn)
    BY <1>3 DEF PutOtherBucket, Fresh
  <2>2. Full(keyfrag(key, fn))'
    BY <1>3 DEF PutOtherBucket, Full, FreeWays
  <2> QED
    BY <2>1, <2>2 DEF BucketsFull
<1>4. CASE StoreCurrent
  BY <1>4 DEF StoreCurrent, Return, BucketsFull
<1>5. ASSUME NEW way \in Way, Evict(way)
      PROVE  BucketsFull'
  <2>1. pc = "evict" /\ args' = args /\ Full(current.index)
    BY <1>5 DEF Evict, Full
  <2>2. PICK fn \in {0, 1} :
          /\ Full(keyfrag(args.key, fn))
          /\ current.index = keyfrag(args.key, 1 - fn) \/ Full(keyfrag(args.key, 1 - fn))
    BY <1>0, <2>1 DEF BucketsFull
  <2>3. args.key \in Keys /\ 1 - fn \in {0, 1}
    BY <1>0, <2>1 DEF BucketsFull
  <2>4. keyfrag(args.key, fn) \in Index /\ keyfrag(args.key, 1 - fn) \in Index
    BY <2>3, KeyfragType
  <2>5. Full(keyfrag(args.key, fn)) /\ Full(keyfrag(args.key, 1 - fn))
    BY <2>1, <2>2
  <2>6. Occupied' = Occupied
    BY <1>0, <1>5, EvictOccupied
  <2>7. Full(keyfrag(args.key, fn))' /\ Full(keyfrag(args.key, 1 - fn))'
    BY <2>1, <2>4, <2>5, <2>6, FullStays
  <2> QED
    BY <2>1, <2>3, <2>7 DEF BucketsFull
<1>6. CASE StartUndo
  BY <1>0, <1>6, CuckooAssumption DEF StartUndo, BucketsFull, Full, FreeWays
<1>7. CASE UndoEviction
  <2>1. pc = "undo" /\ args' = args
    BY <1>7 DEF UndoEviction
  <2>2. PICK fn \in {0, 1} :
          Full(keyfrag(args.key, fn)) /\ Full(keyfrag(args.key, 1 - fn))
    BY <1>0, <2>1 DEF BucketsFull
  <2>3. args.key \in Keys /\ 1 - fn \in {0, 1}
    BY <1>0, <2>1 DEF BucketsFull
  <2>4. keyfrag(args.key, fn) \in Index /\ keyfrag(args.key, 1 - fn) \in Index
    BY <2>3, KeyfragType
  <2>5. Occupied' = Occupied
    BY <1>0, <1>7, UndoEvictionOccupied
  <2>6. Full(keyfrag(args.key, fn))' /\ Full(keyfrag(args.key, 1 - fn))'
    BY <2>1, <2>2, <2>4, <2>5, FullStays
  <2> QED
    BY <2>1, <2>3, <2>6 DEF BucketsFull
<1>8. CASE ReturnFailure
  BY <1>8 DEF ReturnFailure, Return, BucketsFull
<1>9. CASE UNCHANGED vars
  BY <1>0, <1>9 DEF vars, BucketsFull, Full, FreeWays
<1> QED
  BY <1>1, <1>2, <1>3, <1>4, <1>5, <1>6, <1>7, <1>8, <1>9 DEF Next, PutStep

\* A put is refused only for want of room: the table it leaves has no free
\* way in either bucket of its key.
THEOREM RefusalCorrect == Spec => RefusedOnlyWhenFull
<1>1. Init => FullInv
  BY CountInit DEF FullInv, BucketsFull, Init
<1>2. FullInv /\ [Next]_vars =>
        [(pc = "undo" /\ pc' = "idle") =>
           \A fn \in {0, 1} : FreeWays(keyfrag(args.key, fn)) = {}]_vars
  <2> SUFFICES ASSUME FullInv, pc = "undo", NEW fn \in {0, 1}
               PROVE  FreeWays(keyfrag(args.key, fn)) = {}
    OBVIOUS
  <2>1. PICK f \in {0, 1} : Full(keyfrag(args.key, f)) /\ Full(keyfrag(args.key, 1 - f))
    BY DEF FullInv, BucketsFull
  <2>2. fn = f \/ fn = 1 - f
    OBVIOUS
  <2> QED
    BY <2>1, <2>2 DEF Full
<1> QED
  BY <1>1, <1>2, FullNext, PTL DEF Spec, RefusedOnlyWhenFull
=============================================================================
