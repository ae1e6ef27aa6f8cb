------------------------- MODULE CuckooTableProofs --------------------------
(***************************************************************************)
(* The life cycle calls and put keep the live table and its count, for     *)
(* tables of any size and any sequence of calls.                           *)
(***************************************************************************)
EXTENDS CuckooTable, CuckooProofs

\* What the calls keep: Cuckoo's own invariant, also for the memory that is no
\* table (yet); a caller's table is the live one; and between two calls no
\* locals of put are left.
TableInv ==
  /\ CountInv
  /\ handle \in BOOLEAN /\ (handle => cuckoo_hash_table = "live")
  /\ cuckoo_hash_table \in {"null", "live", "dropped"}
  /\ fixFlag \in BOOLEAN
  /\ crashed \in BOOLEAN
  /\ pc = "idle" => undo = << >>

LEMMA TableInvInit == TableInit => TableInv
BY CountInit DEF TableInit, TableInv, Init

\* A new table is empty, and so is its count.
LEMMA MakeTableCounts ==
  ASSUME CountInv, pc = "idle", undo = << >>, MakeTable
  PROVE  CountInv'
<1>1. ZeroEntry \in HashEntry /\ ~ valid(ZeroEntry)
  BY CuckooAssumption DEF ZeroEntry, HashEntry, valid
<1>2. TypeOK' /\ UndoLength'
  BY <1>1, CuckooAssumption DEF MakeTable, CountInv, TypeInv, TypeOK, UndoLength
<1>3. Occupied' = {}
  BY <1>1 DEF MakeTable, Occupied, Slots, EntryAt
<1>4. CountMatches'
  BY <1>3, FS_EmptySet DEF MakeTable, CountMatches
<1>5. UndoOccupied'
  BY DEF MakeTable, UndoOccupied
<1> QED
  BY <1>2, <1>4, <1>5 DEF CountInv, TypeInv

\* The calls that leave Cuckoo's variables alone but for ret keep its invariant.
LEMMA CountKept ==
  ASSUME CountInv, UNCHANGED vars
  PROVE  CountInv'
BY CountNext

\* After a step of put, no locals are left if it has returned.
LEMMA PutClears ==
  ASSUME pc = "idle" => undo = << >>, Next
  PROVE  (pc = "idle" => undo = << >>)'
BY DEF Next, PutStep, PutNull, PutFirstBucket, PutOtherBucket, StoreCurrent,
       Evict, StartUndo, UndoEviction, ReturnFailure, Return

LEMMA TableInvNext == TableInv /\ [TableNext]_tableVars => TableInv'
<1> SUFFICES ASSUME TableInv, [TableNext]_tableVars PROVE TableInv'
  OBVIOUS
<1> USE DEF TableInv
<1>1. ASSUME Ready, MakeTable, handle' \in BOOLEAN PROVE TableInv'
  BY <1>1, MakeTableCounts DEF Ready, MakeTable
<1>2. ASSUME Ready, RefuseTable, handle' = handle PROVE TableInv'
  <2>1. UNCHANGED vars
    BY <1>2 DEF RefuseTable, CreateKeeps, vars
  <2> QED
    BY <1>2, <2>1, CountKept DEF RefuseTable
<1>3. CASE Create
  BY <1>1, <1>2, <1>3 DEF Create
<1>4. CASE Fix
  BY <1>4, CountKept DEF Fix, vars
<1>5. CASE Drop
  BY <1>5, CountKept DEF Drop, vars
<1>6. CASE ImmutableRefused
  BY <1>1, <1>2, <1>6 DEF ImmutableRefused
<1>7. CASE ImmutableUsesInvalid
  BY <1>7, CountKept DEF ImmutableUsesInvalid, vars
<1>8. CASE Put
  <2>1. CountInv'
    BY <1>8, CountNext DEF Put
  <2>2. (pc = "idle" => undo = << >>)'
    BY <1>8, PutClears DEF Put
  <2> QED
    BY <1>8, <2>1, <2>2 DEF Put, tvars
<1>9. CASE UNCHANGED tableVars
  <2>1. UNCHANGED vars /\ UNCHANGED tvars
    BY <1>9 DEF tableVars
  <2> QED
    BY <2>1, CountKept DEF tvars, vars
<1> QED
  BY <1>3, <1>4, <1>5, <1>6, <1>7, <1>8, <1>9 DEF TableNext

LEMMA TableInvariant == TableSpec => []TableInv
BY TableInvInit, TableInvNext, PTL DEF TableSpec

\* The global, the handles given out and put's variables have their types, and
\* a handle is always one of the live table.
THEOREM TableTypeCorrect == TableSpec => []TableTypeOK
<1>1. TableInv => TableTypeOK
  BY DEF TableInv, TableTypeOK, CountInv, TypeInv
<1> QED
  BY <1>1, TableInvariant, PTL

\* However create, fix, immutable, drop and put follow one another, the count
\* of the file is the number of entries of the live table.
THEOREM LiveCountCorrect == TableSpec => []LiveTableCounts
<1>1. TableInv => LiveTableCounts
  BY DEF TableInv, LiveTableCounts, CountInv
<1> QED
  BY <1>1, TableInvariant, PTL
-----------------------------------------------------------------------------
\* No step of put gives an occupied slot up.
LEMMA PutKeepsOccupied ==
  ASSUME CountInv, Next
  PROVE  Occupied \subseteq Occupied'
<1> USE DEF CountInv, TypeInv
<1>1. ASSUME NEW c \in Current, FreeWays(c.index) # {},
             store(c.index, freeslot(c.index), Entry(c))
      PROVE  Occupied \subseteq Occupied'
  <2> DEFINE slot == [index |-> c.index, way |-> freeslot(c.index)]
  <2>1. slot \in Slots
    BY <1>1, FreeslotIsFree DEF FreeWays, Current, Slots
  <2>2. Occupied' = Occupied \cup {slot}
    BY <1>1, <2>1, EntryType, StoreOccupies
  <2> QED
    BY <2>2
<1>2. ASSUME UNCHANGED bucketArray
      PROVE  Occupied \subseteq Occupied'
  BY <1>2 DEF Occupied, EntryAt
<1>3. CASE PutNull
  BY <1>2, <1>3 DEF PutNull
<1>4. ASSUME NEW key \in Keys, NEW value \in Values, NEW fn \in {0, 1},
             PutFirstBucket(key, value, fn)
      PROVE  Occupied \subseteq Occupied'
  BY <1>1, <1>4, FreshType DEF PutFirstBucket
<1>5. ASSUME NEW key \in Keys, NEW value \in Values, NEW fn \in {0, 1},
             PutOtherBucket(key, value, fn)
      PROVE  Occupied \subseteq Occupied'
  BY <1>2, <1>5 DEF PutOtherBucket
<1>6. CASE StoreCurrent
  BY <1>1, <1>6 DEF StoreCurrent, TypeOK
<1>7. ASSUME NEW way \in Way, Evict(way)
      PROVE  Occupied \subseteq Occupied'
  BY <1>7, EvictOccupied
<1>8. CASE StartUndo
  BY <1>2, <1>8 DEF StartUndo
<1>9. CASE UndoEviction
  BY <1>9, UndoEvictionOccupied
<1>10. CASE ReturnFailure
  BY <1>2, <1>10 DEF ReturnFailure
<1> QED
  BY <1>3, <1>4, <1>5, <1>6, <1>7, <1>8, <1>9, <1>10 DEF Next, PutStep

\* As long as a caller's table lives, what is occupied in it stays occupied:
\* no create, direct or by immutable, clears or replaces it.
THEOREM LiveTableCorrect == TableSpec => LiveTableKeepsEntries
<1>1. TableInv /\ [TableNext]_tableVars =>
        [(handle /\ cuckoo_hash_table' = "live") => Occupied \subseteq Occupied']_tableVars
  <2> SUFFICES ASSUME TableInv, TableNext, handle
               PROVE  Occupied \subseteq Occupied'
    OBVIOUS
  <2>1. ~ MakeTable
    BY DEF TableInv, MakeTable
  <2>2. CASE UNCHANGED bucketArray
    BY <2>2 DEF Occupied, EntryAt
  <2>3. CASE Put
    BY <2>3, PutKeepsOccupied DEF Put, TableInv
  <2> QED
    BY <2>1, <2>2, <2>3 DEF TableNext, Create, RefuseTable, CreateKeeps, Fix, Drop,
        ImmutableRefused, ImmutableUsesInvalid, vars
<1> QED
  BY <1>1, TableInvariant, PTL DEF TableSpec, LiveTableKeepsEntries
=============================================================================
