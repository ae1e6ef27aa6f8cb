-------------------------- MODULE CuckooUndoProofs --------------------------
(***************************************************************************)
(* librekv_cuckoo_put undoes its evictions exactly, for tables of any      *)
(* size, any number of rounds and any choice of victims.                   *)
(*                                                                         *)
(* The inductive invariant relates neighbours in the trace: each state of  *)
(* the eviction loop is the one before it with one slot overwritten.  A    *)
(* round of the undo loop inverts that relation, because masking a key tag *)
(* and setting its valid bit again gives the same key tag when the slot    *)
(* was occupied, which it was: put only evicts from full buckets.          *)
(***************************************************************************)
EXTENDS CuckooUndo, CuckooProofs

Table == [Index -> [Way -> HashEntry]]
State == [table : Table, hand : Current]

\* after is before with the entry of slot evicted.
IsEviction(before, slot, after) ==
  LET entry == before.table[slot.index][slot.way]
  IN  /\ slot.index = before.hand.index
      /\ valid(entry)
      /\ after.table = [before.table EXCEPT ![slot.index][slot.way] = Entry(before.hand)]
      /\ after.hand.index = Masked(entry.keyTag)
      /\ after.hand.tag = slot.index
      /\ after.hand.keyHash = entry.keyHash
      /\ after.hand.offset = entry.offset

TraceType ==
  /\ trace \in Seq(State)
  /\ pc = "evict" => Len(trace) = n + 1 /\ trace[n + 1] = Snapshot
  /\ pc = "undo" => Len(trace) = MAX_CUCKOO_COUNT + 1
  /\ pc = "idle" => trace = << >>

TraceChain ==
  pc # "idle" => \A i \in 1 .. Len(undo) : IsEviction(trace[i], undo[i], trace[i + 1])

UndoInv == TypeInv /\ TraceType /\ TraceChain /\ UndoRetraces

\* The history variable only watches: it neither enables nor forbids a step.
LEMMA UNextIsNext == [UNext]_uvars => [Next]_vars
BY DEF UNext, uvars, Next, PutStep

LEMMA UndoInit == UInit => UndoInv
<1> SUFFICES ASSUME UInit PROVE UndoInv
  OBVIOUS
<1>1. TypeInv
  BY TypeInit DEF UInit
<1>2. TraceType
  BY DEF UInit, Init, TraceType
<1>3. TraceChain /\ UndoRetraces
  BY DEF UInit, Init, TraceChain, UndoRetraces
<1> QED
  BY <1>1, <1>2, <1>3 DEF UndoInv

\* A round of the eviction loop adds a state that is an eviction from the
\* last one.
LEMMA EvictExtends ==
  ASSUME UndoInv, NEW way \in Way, Evict(way)
  PROVE  IsEviction(Snapshot, [index |-> current.index, way |-> way], Snapshot')
<1> DEFINE victim == [index |-> current.index, way |-> way]
<1>1. victim.index = Snapshot.hand.index
  BY DEF Snapshot
<1>2. current.index \in Index /\ FreeWays(current.index) = {}
  BY DEF UndoInv, TypeInv, TypeOK, Current, Evict
<1>3. valid(bucketArray[victim.index][victim.way])
  BY <1>2 DEF FreeWays
<1> QED
  BY <1>1, <1>3 DEF IsEviction, Snapshot, Evict, store, Evicted, EntryAt

\* Storing an evicted entry back where it was, with the bucket it was to
\* move to as its tag, gives the table it was evicted from.
LEMMA EvictionUndone ==
  ASSUME NEW before \in State, NEW after \in State, NEW slot \in Slots,
         IsEviction(before, slot, after),
         NEW c \in Current, c.tag = after.hand.index,
         c.keyHash = after.hand.keyHash, c.offset = after.hand.offset
  PROVE  [after.table EXCEPT ![slot.index][slot.way] = Entry(c)] = before.table
<1> DEFINE entry == before.table[slot.index][slot.way]
<1>1. slot.index \in Index /\ slot.way \in Way
      /\ before.table \in Table /\ after.table \in Table
  BY DEF Slots, State
<1>2. entry \in HashEntry /\ valid(entry)
  <2>1. entry \in HashEntry
    BY <1>1 DEF Table
  <2>2. valid(entry)
    BY Zenon DEF IsEviction
  <2> QED
    BY <2>1, <2>2
<1>3. WithValidBit(c.tag) = entry.keyTag
  BY <1>2, KeyTagRoundTrip DEF IsEviction
<1>4. Entry(c) = entry
  BY <1>2, <1>3 DEF IsEviction, Entry, HashEntry
<1>5. after.table = [before.table EXCEPT ![slot.index][slot.way] = Entry(before.hand)]
  BY DEF IsEviction
<1> HIDE DEF entry
<1> QED
  BY <1>1, <1>4, <1>5 DEF Table, entry

LEMMA UndoNext == UndoInv /\ [UNext]_uvars => UndoInv'
<1> SUFFICES ASSUME UndoInv, [UNext]_uvars
             PROVE  (TraceType /\ TraceChain /\ UndoRetraces)'
  BY UNextIsNext, TypeNext DEF UndoInv
<1>0. TypeInv /\ TypeInv'
  BY UNextIsNext, TypeNext DEF UndoInv
<1>1. CASE PutNull /\ UNCHANGED trace
  BY <1>1 DEF PutNull, UndoInv, TraceType, TraceChain, UndoRetraces
<1>2. ASSUME NEW key \in Keys, NEW value \in Values, NEW fn \in {0, 1},
             PutFirstBucket(key, value, fn) /\ UNCHANGED trace
      PROVE  (TraceType /\ TraceChain /\ UndoRetraces)'
  BY <1>2 DEF PutFirstBucket, Return, UndoInv, TraceType, TraceChain, UndoRetraces
<1>3. ASSUME NEW key \in Keys, NEW value \in Values, NEW fn \in {0, 1},
             PutOtherBucket(key, value, fn) /\ trace' = <<Snapshot'>>
      PROVE  (TraceType /\ TraceChain /\ UndoRetraces)'
  <2>1. Snapshot' \in State
    BY <1>0 DEF TypeInv, TypeOK, Snapshot, State, Table
  <2>2. pc' = "evict" /\ n' = 0 /\ undo' = << >>
    BY <1>3 DEF PutOtherBucket
  <2>3. trace' \in Seq(State) /\ Len(trace') = 1 /\ trace'[1] = Snapshot'
    BY <1>3, <2>1
  <2> QED
    BY <2>2, <2>3 DEF TraceType, TraceChain, UndoRetraces
<1>4. CASE StoreCurrent /\ trace' = << >>
  BY <1>4 DEF StoreCurrent, Return, TraceType, TraceChain, UndoRetraces
<1>5. ASSUME NEW way \in Way, Evict(way), trace' = Append(trace, Snapshot')
      PROVE  (TraceType /\ TraceChain /\ UndoRetraces)'
  <2> DEFINE victim == [index |-> current.index, way |-> way]
  <2>1. pc = "evict" /\ pc' = "evict" /\ n' = n + 1 /\ undo' = Append(undo, victim)
    BY <1>5 DEF Evict
  <2>2. n \in Nat /\ undo \in Seq(Slots) /\ Len(undo) = n
    BY <1>0, <2>1, CuckooAssumption DEF TypeInv, TypeOK, UndoLength, Slots
  <2>3. trace \in Seq(State) /\ Len(trace) = n + 1 /\ trace[n + 1] = Snapshot
    BY <2>1 DEF UndoInv, TraceType
  <2>4. Snapshot' \in State
    BY <1>0 DEF TypeInv, TypeOK, Snapshot, State, Table
  <2>5. trace' \in Seq(State) /\ Len(trace') = n + 2 /\ trace'[n + 2] = Snapshot'
        /\ \A i \in 1 .. n + 1 : trace'[i] = trace[i]
    BY <1>5, <2>2, <2>3, <2>4
  <2>6. TraceType'
    BY <2>1, <2>2, <2>5 DEF TraceType
  <2>7. ASSUME NEW i \in 1 .. Len(undo')
        PROVE  IsEviction(trace'[i], undo'[i], trace'[i + 1])
    <3>1. CASE i = n + 1
      <4>1. undo'[i] = victim
        BY <2>1, <2>2, <3>1
      <4>2. trace'[i] = Snapshot /\ trace'[i + 1] = Snapshot'
        BY <2>2, <2>3, <2>5, <3>1
      <4> QED
        BY <1>5, <4>1, <4>2, EvictExtends
    <3>2. CASE i \in 1 .. n
      <4>1. undo'[i] = undo[i]
        BY <2>1, <2>2, <3>2
      <4>2. trace'[i] = trace[i] /\ trace'[i + 1] = trace[i + 1]
        BY <2>2, <2>5, <3>2
      <4>3. IsEviction(trace[i], undo[i], trace[i + 1])
        BY <2>1, <2>2, <3>2 DEF UndoInv, TraceChain
      <4> QED
        BY <4>1, <4>2, <4>3
    <3> QED
      BY <2>1, <2>2, <3>1, <3>2
  <2> QED
    BY <2>1, <2>6, <2>7 DEF TraceChain, UndoRetraces
<1>6. CASE StartUndo /\ UNCHANGED trace
  <2>1. pc = "evict" /\ pc' = "undo" /\ n = MAX_CUCKOO_COUNT /\ n' = 0
        /\ UNCHANGED <<undo, trace, bucketArray>>
    BY <1>6 DEF StartUndo
  <2>2. trace \in Seq(State) /\ Len(trace) = MAX_CUCKOO_COUNT + 1
        /\ trace[MAX_CUCKOO_COUNT + 1] = Snapshot
    BY <2>1 DEF UndoInv, TraceType
  <2>3. TraceType' /\ TraceChain'
    BY <2>1, <2>2 DEF UndoInv, TraceType, TraceChain
  <2>4. current' = [current EXCEPT !.tag = current.index] /\ current \in Current
    BY <1>0, <1>6 DEF StartUndo, Turned, TypeInv, TypeOK
  <2>5. Undone' = Snapshot
    BY <2>1, <2>2, CuckooAssumption DEF Undone
  <2> QED
    BY <2>1, <2>3, <2>4, <2>5 DEF UndoRetraces, Snapshot, Current
<1>7. CASE UndoEviction /\ UNCHANGED trace
  <2> DEFINE k == MAX_CUCKOO_COUNT - n
             victim == undo[k]
  <2>1. pc = "undo" /\ pc' = "undo" /\ n' = n + 1 /\ UNCHANGED <<undo, trace>>
    BY <1>7 DEF UndoEviction
  <2>2. n \in Nat /\ k \in 1 .. Len(undo) /\ undo \in Seq(Slots)
    BY <1>0, <1>7, CuckooAssumption DEF UndoEviction, TypeInv, TypeOK, UndoLength, Slots
  <2>3. trace \in Seq(State) /\ Len(trace) = MAX_CUCKOO_COUNT + 1
        /\ Len(undo) = MAX_CUCKOO_COUNT
    BY <1>0, <2>1 DEF UndoInv, TraceType, TypeInv, UndoLength
  <2> HIDE DEF k
  <2>4. k + 1 \in 1 .. Len(trace) /\ k \in 1 .. Len(trace)
    BY <2>2, <2>3, CuckooAssumption
  <2>5. trace[k] \in State /\ trace[k + 1] \in State /\ victim \in Slots
    BY <2>2, <2>3, <2>4
  <2>6. IsEviction(trace[k], victim, trace[k + 1])
    BY <2>1, <2>2 DEF UndoInv, TraceChain
  <2>7. Undone = trace[k + 1] /\ Undone' = trace[k]
    <3>1. MAX_CUCKOO_COUNT - n' + 1 = k
      BY <2>1, <2>2, CuckooAssumption DEF k
    <3> QED
      BY <2>1, <3>1 DEF Undone, k
  <2>8. bucketArray = trace[k + 1].table /\ current.tag = trace[k + 1].hand.index
        /\ current.keyHash = trace[k + 1].hand.keyHash
        /\ current.offset = trace[k + 1].hand.offset
    BY <2>1, <2>7 DEF UndoInv, UndoRetraces
  <2>9. current \in Current
    BY <1>0 DEF TypeInv, TypeOK
  <2> HIDE DEF victim
  <2>10. bucketArray' = trace[k].table
    <3>1. bucketArray' = [bucketArray EXCEPT ![victim.index][victim.way] = Entry(current)]
      BY <1>7 DEF UndoEviction, UndoSlot, store, k, victim
    <3>2. [trace[k + 1].table EXCEPT ![victim.index][victim.way] = Entry(current)]
            = trace[k].table
      BY <2>5, <2>6, <2>8, <2>9, EvictionUndone
    <3> QED
      BY <3>1, <3>2, <2>8
  <2>11. current'.tag = victim.index /\ current'.keyHash = EntryAt(victim).keyHash
         /\ current'.offset = EntryAt(victim).offset
    BY <1>7, <2>9 DEF UndoEviction, UndoSlot, Replaced, Current, k, victim
  <2>12. EntryAt(victim) = Entry(trace[k].hand)
    <3>1. victim.index \in Index /\ victim.way \in Way /\ trace[k].table \in Table
      BY <2>5 DEF Slots, State
    <3> QED
      BY <3>1, <2>6, <2>8 DEF EntryAt, IsEviction, Table
  <2>13. UndoRetraces'
    <3>1. victim.index = trace[k].hand.index
      BY <2>6 DEF IsEviction
    <3>2. EntryAt(victim).keyHash = trace[k].hand.keyHash
          /\ EntryAt(victim).offset = trace[k].hand.offset
      BY <2>12 DEF Entry
    <3> QED
      BY <2>7, <2>10, <2>11, <3>1, <3>2 DEF UndoRetraces
  <2>14. TraceType' /\ TraceChain'
    BY <2>1, <2>3 DEF UndoInv, TraceType, TraceChain
  <2> QED
    BY <2>13, <2>14
<1>8. CASE ReturnFailure /\ trace' = << >>
  BY <1>8 DEF ReturnFailure, Return, TraceType, TraceChain, UndoRetraces
<1>9. CASE UNCHANGED uvars
  BY <1>9 DEF uvars, vars, UndoInv, TraceType, TraceChain, UndoRetraces, Snapshot, Undone
<1> QED
  BY <1>1, <1>2, <1>3, <1>4, <1>5, <1>6, <1>7, <1>8, <1>9 DEF UNext

\* The recorded states are always linked by the evictions of the running put,
\* and the undo loop is always at the recorded state it has to be at.
LEMMA UndoInvariant == USpec => []UndoInv
BY UndoInit, UndoNext, PTL DEF USpec

\* Each round of the undo loop is back at the state that the eviction it takes
\* back started from, however often the evictions went through one slot.
THEOREM RetraceCorrect == USpec => []UndoRetraces
<1>1. UndoInv => UndoRetraces
  BY DEF UndoInv
<1> QED
  BY <1>1, UndoInvariant, PTL

\* Whatever was evicted, a put that fails leaves the table it found.
THEOREM UndoCorrect == USpec => FailedPutRestores
<1>1. UndoInv /\ [UNext]_uvars =>
        [pc = "undo" /\ pc' = "idle" => bucketArray' = trace[1].table]_uvars
  <2> SUFFICES ASSUME UndoInv, UNext, pc = "undo", pc' = "idle"
               PROVE  bucketArray' = trace[1].table
    OBVIOUS
  <2>1. ReturnFailure
    BY DEF UNext, PutNull, PutFirstBucket, PutOtherBucket, StoreCurrent, Evict,
           StartUndo, UndoEviction
  <2>2. Undone = trace[1]
    BY <2>1, CuckooAssumption DEF ReturnFailure, Undone
  <2> QED
    BY <2>1, <2>2 DEF ReturnFailure, UndoInv, UndoRetraces
<1> QED
  BY <1>1, UndoInvariant, PTL DEF USpec, FailedPutRestores
-----------------------------------------------------------------------------
\* Every entry of a table can be found by its key.
Placed(table) ==
  \A slot \in Slots :
    LET entry == table[slot.index][slot.way]
    IN  valid(entry) => Findable(slot.index, Masked(entry.keyTag), entry.keyHash)

Held(c) == Findable(c.index, c.tag, c.keyHash)

\* Placement is not inductive: the undo loop relies on the tables it returns
\* to having been right when the evictions left them.
PlacementInv ==
  /\ Placed(bucketArray)
  /\ pc = "evict" => Held(current)
  /\ \A i \in 1 .. Len(trace) : Placed(trace[i].table)

\* Bucket and tag name the two fragments of a key in either order.
LEMMA FindableSymmetric ==
  ASSUME NEW index, NEW tag, NEW keyHash, Findable(index, tag, keyHash)
  PROVE  Findable(tag, index, keyHash)
<1>1. PICK key \in Keys, fn \in {0, 1} :
        hash(key) = keyHash /\ index = keyfrag(key, fn) /\ tag = keyfrag(key, 1 - fn)
  BY DEF Findable
<1>2. 1 - fn \in {0, 1} /\ 1 - (1 - fn) = fn
  OBVIOUS
<1>3. tag = keyfrag(key, 1 - fn) /\ index = keyfrag(key, 1 - (1 - fn))
  BY <1>1, <1>2
<1> QED
  BY <1>1, <1>2, <1>3 DEF Findable

LEMMA FreshHeld ==
  ASSUME NEW key \in Keys, NEW value \in Values, NEW fn \in {0, 1}
  PROVE  Held(Fresh(key, value, fn))
BY DEF Held, Fresh, Findable

\* Storing an entry that is on its way to the right bucket keeps a table
\* placed.
LEMMA StorePlaced ==
  ASSUME NEW table \in Table, Placed(table), NEW c \in Current, Held(c), NEW way
  PROVE  Placed([table EXCEPT ![c.index][way] = Entry(c)])
<1> DEFINE after == [table EXCEPT ![c.index][way] = Entry(c)]
<1> SUFFICES ASSUME NEW slot \in Slots, valid(after[slot.index][slot.way])
             PROVE  Findable(slot.index, Masked(after[slot.index][slot.way].keyTag),
                             after[slot.index][slot.way].keyHash)
  BY DEF Placed
<1>1. slot.index \in Index /\ slot.way \in Way
  BY DEF Slots
<1>2. CASE slot.index = c.index /\ slot.way = way
  <2>1. after[slot.index][slot.way] = Entry(c)
    BY <1>1, <1>2 DEF Table
  <2>2. Masked(Entry(c).keyTag) = c.tag /\ Entry(c).keyHash = c.keyHash
    BY TagRoundTrip DEF Entry, Current
  <2> QED
    BY <1>2, <2>1, <2>2 DEF Held
<1>3. CASE ~ (slot.index = c.index /\ slot.way = way)
  <2>1. after[slot.index][slot.way] = table[slot.index][slot.way]
    BY <1>1, <1>3 DEF Table
  <2> QED
    BY <2>1 DEF Placed
<1> QED
  BY <1>2, <1>3

LEMMA PlacementInit == UInit => PlacementInv
<1> SUFFICES ASSUME UInit PROVE PlacementInv
  OBVIOUS
<1>1. Placed(bucketArray)
  BY CuckooAssumption DEF UInit, Init, Placed, Slots, valid, ZeroEntry
<1> QED
  BY <1>1 DEF UInit, Init, PlacementInv

LEMMA PlacementNext ==
  UndoInv /\ UndoInv' /\ PlacementInv /\ [UNext]_uvars => PlacementInv'
<1> SUFFICES ASSUME UndoInv, UndoInv', PlacementInv, [UNext]_uvars
             PROVE  PlacementInv'
  OBVIOUS
<1>0. bucketArray \in Table /\ current \in Current
  BY DEF UndoInv, TypeInv, TypeOK, Table
<1>1. CASE PutNull /\ UNCHANGED trace
  BY <1>1 DEF PutNull, PlacementInv, Placed, Held
<1>2. ASSUME NEW key \in Keys, NEW value \in Values, NEW fn \in {0, 1},
             PutFirstBucket(key, value, fn) /\ UNCHANGED trace
      PROVE  PlacementInv'
  <2> DEFINE c == Fresh(key, value, fn)
  <2>1. c \in Current /\ Held(c)
    BY FreshType, FreshHeld
  <2>2. bucketArray' = [bucketArray EXCEPT ![c.index][freeslot(c.index)] = Entry(c)]
    BY <1>2 DEF PutFirstBucket, store
  <2> HIDE DEF c
  <2>3. Placed(bucketArray')
    BY <1>0, <2>1, <2>2, StorePlaced DEF PlacementInv
  <2> QED
    BY <1>2, <2>3 DEF PlacementInv, PutFirstBucket, Return
<1>3. ASSUME NEW key \in Keys, NEW value \in Values, NEW fn \in {0, 1},
             PutOtherBucket(key, value, fn) /\ trace' = <<Snapshot'>>
      PROVE  PlacementInv'
  <2>1. 1 - fn \in {0, 1}
    OBVIOUS
  <2>2. Held(current')
    BY <1>3, <2>1, FreshHeld DEF PutOtherBucket
  <2>3. bucketArray' = bucketArray /\ trace'[1].table = bucketArray /\ Len(trace') = 1
    BY <1>3 DEF PutOtherBucket, Snapshot
  <2> QED
    BY <2>2, <2>3 DEF PlacementInv
<1>4. CASE StoreCurrent /\ trace' = << >>
  <2>1. Held(current)
    BY <1>4 DEF StoreCurrent, PlacementInv
  <2>2. Placed(bucketArray')
    BY <1>0, <1>4, <2>1, StorePlaced DEF StoreCurrent, store, PlacementInv
  <2> QED
    BY <1>4, <2>2 DEF PlacementInv, StoreCurrent, Return
<1>5. ASSUME NEW way \in Way, Evict(way), trace' = Append(trace, Snapshot')
      PROVE  PlacementInv'
  <2> DEFINE victim == [index |-> current.index, way |-> way]
  <2>1. Held(current) /\ Placed(bucketArray)
    BY <1>5 DEF Evict, PlacementInv
  <2>2. Placed(bucketArray')
    BY <1>0, <1>5, <2>1, StorePlaced DEF Evict, store
  <2>3. victim \in Slots /\ valid(EntryAt(victim))
    BY <1>0, <1>5 DEF Evict, FreeWays, EntryAt, Current, Slots
  <2>4. Findable(victim.index, Masked(EntryAt(victim).keyTag), EntryAt(victim).keyHash)
    BY <2>1, <2>3 DEF Placed, EntryAt
  <2>5. Findable(Masked(EntryAt(victim).keyTag), victim.index, EntryAt(victim).keyHash)
    BY <2>4, FindableSymmetric
  <2>6. Held(current')
    BY <1>5, <2>5 DEF Evict, Evicted, Held
  <2>7. trace \in Seq(State) /\ Snapshot'.table = bucketArray'
    BY DEF UndoInv, TraceType, Snapshot
  <2>8. \A i \in 1 .. Len(trace') : Placed(trace'[i].table)
    <3>1. ASSUME NEW i \in 1 .. Len(trace')
          PROVE  Placed(trace'[i].table)
      <4>1. CASE i = Len(trace) + 1
        BY <1>5, <2>2, <2>7, <4>1
      <4>2. CASE i \in 1 .. Len(trace)
        <5>1. trace'[i] = trace[i]
          BY <1>5, <2>7, <4>2
        <5> QED
          BY <4>2, <5>1 DEF PlacementInv
      <4> QED
        BY <1>5, <2>7, <4>1, <4>2
    <3> QED
      BY <3>1
  <2> QED
    BY <2>2, <2>6, <2>8 DEF PlacementInv
<1>6. CASE StartUndo /\ UNCHANGED trace
  BY <1>6 DEF StartUndo, PlacementInv
<1>7. CASE UndoEviction /\ UNCHANGED trace
  <2>1. pc' = "undo" /\ n' \in 0 .. MAX_CUCKOO_COUNT /\ trace' = trace
    BY <1>7 DEF UndoEviction, UndoInv, TypeInv, TypeOK
  <2>2. Len(trace) = MAX_CUCKOO_COUNT + 1
    BY <2>1 DEF UndoInv, TraceType
  <2>3. MAX_CUCKOO_COUNT - n' + 1 \in 1 .. Len(trace)
    <3>1. \A max \in Nat : \A i \in 0 .. max : max - i + 1 \in 1 .. max + 1
      OBVIOUS
    <3> QED
      BY <2>1, <2>2, <3>1, CuckooAssumption
  <2>4. bucketArray' = trace[MAX_CUCKOO_COUNT - n' + 1].table
    BY <2>1 DEF UndoInv, UndoRetraces, Undone
  <2> QED
    BY <2>1, <2>3, <2>4 DEF PlacementInv
<1>8. CASE ReturnFailure /\ trace' = << >>
  BY <1>8 DEF ReturnFailure, Return, PlacementInv
<1>9. CASE UNCHANGED uvars
  BY <1>9 DEF uvars, vars, PlacementInv
<1> QED
  BY <1>1, <1>2, <1>3, <1>4, <1>5, <1>6, <1>7, <1>8, <1>9 DEF UNext

\* However long the evictions, and also while they are undone, every entry is
\* in a bucket where a lookup of its key looks.
THEOREM PlacementCorrect == USpec => []Placement
<1>1. UndoInv /\ PlacementInv => Placement
  BY DEF PlacementInv, Placement, Placed, Held, Occupied, EntryAt
<1> QED
  BY <1>1, UndoInvariant, PlacementInit, PlacementNext, PTL DEF USpec
=============================================================================
