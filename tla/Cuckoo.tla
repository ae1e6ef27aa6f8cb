------------------------------- MODULE Cuckoo -------------------------------
(***************************************************************************)
(* librekv_cuckoo_put (cuckoo.c), the insertion of the DRAM cuckoo table.  *)
(*                                                                         *)
(* The table has BUCKETS_PER_TABLE buckets of ASSOCIATIVITY entries.  A    *)
(* key has two buckets, its two key fragments; an entry stored in one of   *)
(* them keeps the other one as its tag, so that it can be moved without    *)
(* its key.  When both buckets are full, put evicts a random entry of the  *)
(* second one, stores the new entry in its place, and goes on with the     *)
(* evicted entry in its other bucket, MAX_CUCKOO_COUNT times at most; then *)
(* it undoes every eviction, last one first, and reports a failure.        *)
(*                                                                         *)
(* The function runs in one thread.  Its fast path, each round of its      *)
(* eviction loop and each round of its undo loop are one action each; the  *)
(* locals the rounds share are variables here, and are reset when the      *)
(* function returns, as locals die.                                        *)
(***************************************************************************)
EXTENDS Integers, FiniteSets, Sequences

CONSTANTS
  BUCKETS_PER_TABLE,  \* 1 << KEYFRAGBITS; also VALIDBITMASK and max_index
  ASSOCIATIVITY,      \* entries per bucket
  MAX_CUCKOO_COUNT,   \* evictions before put gives up
  Keys,               \* addresses of the keys that callers pass
  Values,             \* addresses of the values that callers pass
  Hash                \* CityHash64 of a key's eight address bytes

NULL == 0

\* keyfrag asserts key >= sizeof(uint64_t); no value is at the null address.
ASSUME CuckooAssumption ==
  /\ BUCKETS_PER_TABLE \in Nat \ {0}
  /\ ASSOCIATIVITY \in Nat \ {0}
  /\ MAX_CUCKOO_COUNT \in Nat \ {0}
  /\ Keys \subseteq Nat /\ \A key \in Keys : key >= 8
  /\ Values \subseteq Nat \ {NULL}
  /\ Hash \in [Keys -> Nat]

VARIABLES
  bucketArray,      \* the table: an entry for every bucket and way
  current_entries,  \* entries stored so far
  pc,               \* where put is: "idle", "evict" loop, "undo" loop
  args,             \* put's parameters key and value
  current,          \* current_index, current_tag, current_hash, current_offset
  n,                \* the loop counter
  undo,             \* undo_index[0..n-1] and undo_way[0..n-1]
  ret               \* what the last put returned; 0 before the first one

vars == <<bucketArray, current_entries, pc, args, current, n, undo, ret>>
-----------------------------------------------------------------------------
Index == 0 .. BUCKETS_PER_TABLE - 1
Way == 0 .. ASSOCIATIVITY - 1

\* A table entry; keyTag holds the valid bit above the tag's own bits.
HashEntry == [keyTag : 0 .. 2 * BUCKETS_PER_TABLE - 1, keyHash : Nat, offset : Nat]

\* The entry put is about to place, and the bucket it tries.
Current == [index : Index, tag : Index, keyHash : Nat, offset : Nat]

ZeroEntry == [keyTag |-> 0, keyHash |-> 0, offset |-> 0]
NoCurrent == [index |-> 0, tag |-> 0, keyHash |-> 0, offset |-> 0]
NoArgs == [key |-> NULL, value |-> NULL]

\* keyfrag(key, fn): KEYFRAGBITS bits of the address, from bit fn * KEYFRAGBITS.
keyfrag(key, fn) ==
  (IF fn = 0 THEN key ELSE key \div BUCKETS_PER_TABLE) % BUCKETS_PER_TABLE

hash(key) == Hash[key]

\* Mutants: the valid bit is not set, not masked off.
WithoutValidBit(tag) == tag
Unmasked(keyTag) == keyTag

\* tag | VALIDBITMASK, and its inverse keyTag & KEYFRAGMASK.
WithValidBit(tag) ==
  IF tag < BUCKETS_PER_TABLE THEN tag + BUCKETS_PER_TABLE ELSE tag
Masked(keyTag) == keyTag % BUCKETS_PER_TABLE

valid(entry) == entry.keyTag >= BUCKETS_PER_TABLE

\* The ways of a bucket that hold nothing; freeslot takes the first of them.
FreeWays(index) == {way \in Way : ~ valid(bucketArray[index][way])}
freeslot(index) == CHOOSE way \in FreeWays(index) :
                     \A other \in FreeWays(index) : way <= other

EntryAt(slot) == bucketArray[slot.index][slot.way]

\* The entry that current becomes in the table.
Entry(c) == [keyTag  |-> WithValidBit(c.tag),
             keyHash |-> c.keyHash,
             offset  |-> c.offset]

store(index, way, entry) ==
  bucketArray' = [bucketArray EXCEPT ![index][way] = entry]

\* current for a key tried in the bucket of its fragment fn.
Fresh(key, value, fn) ==
  [index |-> keyfrag(key, fn), tag |-> keyfrag(key, 1 - fn),
   keyHash |-> hash(key), offset |-> value]
-----------------------------------------------------------------------------
\* What librekv_cuckoo_create leaves behind: a zeroed table and no entries.
Init ==
  /\ bucketArray = [index \in Index |-> [way \in Way |-> ZeroEntry]]
  /\ current_entries = 0
  /\ pc = "idle"
  /\ args = NoArgs
  /\ current = NoCurrent
  /\ n = 0
  /\ undo = << >>
  /\ ret = 0

Return(code) ==
  /\ pc' = "idle"
  /\ args' = NoArgs
  /\ current' = NoCurrent
  /\ n' = 0
  /\ undo' = << >>
  /\ ret' = code

\* A null key or value is refused at once.
PutNull ==
  /\ pc = "idle"
  /\ ret' = -1
  /\ UNCHANGED <<bucketArray, current_entries, pc, args, current, n, undo>>

\* The bucket of a random fragment fn has room: the common case.
PutFirstBucket(key, value, fn) ==
  LET c == Fresh(key, value, fn)
  IN  /\ pc = "idle"
      /\ FreeWays(c.index) # {}
      /\ store(c.index, freeslot(c.index), Entry(c))
      /\ current_entries' = current_entries + 1
      /\ Return(1)

\* Mutant: put forgets to go on to the other fragment.
PutSameBucket(key, value, fn) ==
  /\ pc = "idle"
  /\ FreeWays(keyfrag(key, fn)) = {}
  /\ pc' = "evict"
  /\ args' = [key |-> key, value |-> value]
  /\ current' = Fresh(key, value, fn)
  /\ n' = 0
  /\ undo' = << >>
  /\ UNCHANGED <<bucketArray, current_entries, ret>>

\* It has none: put enters its loop with the other fragment's bucket.
PutOtherBucket(key, value, fn) ==
  /\ pc = "idle"
  /\ FreeWays(keyfrag(key, fn)) = {}
  /\ pc' = "evict"
  /\ args' = [key |-> key, value |-> value]
  /\ current' = Fresh(key, value, 1 - fn)
  /\ n' = 0
  /\ undo' = << >>
  /\ UNCHANGED <<bucketArray, current_entries, ret>>
-----------------------------------------------------------------------------
\* A round of the loop that finds room.
StoreCurrent ==
  /\ pc = "evict"
  /\ n < MAX_CUCKOO_COUNT
  /\ FreeWays(current.index) # {}
  /\ store(current.index, freeslot(current.index), Entry(current))
  /\ current_entries' = current_entries + 1
  /\ Return(1)

\* Mutant: the evicted entry inherits the tag of the entry that evicts it.
EvictedKeepsTag(slot) ==
  [index   |-> Masked(EntryAt(slot).keyTag),
   tag     |-> current.tag,
   keyHash |-> EntryAt(slot).keyHash,
   offset  |-> EntryAt(slot).offset]

\* What put goes on with after evicting the entry of a slot: that entry, in
\* the bucket its tag names, with the bucket it leaves as its tag.
Evicted(slot) ==
  [index   |-> Masked(EntryAt(slot).keyTag),
   tag     |-> slot.index,
   keyHash |-> EntryAt(slot).keyHash,
   offset  |-> EntryAt(slot).offset]

\* A round that does not: the entry in a random way gives up its place.
Evict(way) ==
  LET victim == [index |-> current.index, way |-> way]
  IN  /\ pc = "evict"
      /\ n < MAX_CUCKOO_COUNT
      /\ FreeWays(current.index) = {}
      /\ store(victim.index, victim.way, Entry(current))
      /\ current' = Evicted(victim)
      /\ undo' = Append(undo, victim)
      /\ n' = n + 1
      /\ UNCHANGED <<current_entries, pc, args, ret>>

\* The last entry evicted is the first to go back, and the bucket it would
\* have moved to is its tag again.  Mutant: it keeps the tag it has.
Unturned == current
Turned == [current EXCEPT !.tag = current.index]

\* Out of rounds.
StartUndo ==
  /\ pc = "evict"
  /\ n = MAX_CUCKOO_COUNT
  /\ pc' = "undo"
  /\ current' = Turned
  /\ n' = 0
  /\ UNCHANGED <<bucketArray, current_entries, args, undo, ret>>

\* The slot a round of the undo loop restores.  Mutant: the oldest first.
OldestSlot == undo[n + 1]
UndoSlot == undo[MAX_CUCKOO_COUNT - n]

\* The entry that has to leave that slot.  current_index is dead from here
\* on.  Mutant: the slot is read only after it has been overwritten.
ReplacedLate(slot) == [current EXCEPT !.tag = slot.index]
Replaced(slot) ==
  [current EXCEPT !.tag     = slot.index,
                  !.keyHash = EntryAt(slot).keyHash,
                  !.offset  = EntryAt(slot).offset]

\* A round of the undo loop: current takes its old place back.
UndoEviction ==
  /\ pc = "undo"
  /\ n < MAX_CUCKOO_COUNT
  /\ store(UndoSlot.index, UndoSlot.way, Entry(current))
  /\ current' = Replaced(UndoSlot)
  /\ n' = n + 1
  /\ UNCHANGED <<current_entries, pc, args, undo, ret>>

ReturnFailure ==
  /\ pc = "undo"
  /\ n = MAX_CUCKOO_COUNT
  /\ UNCHANGED <<bucketArray, current_entries>>
  /\ Return(-1)

PutStep ==
  \/ StoreCurrent
  \/ \E way \in Way : Evict(way)
  \/ StartUndo
  \/ UndoEviction
  \/ ReturnFailure

Next ==
  \/ PutNull
  \/ \E key \in Keys, value \in Values, fn \in {0, 1} :
        PutFirstBucket(key, value, fn) \/ PutOtherBucket(key, value, fn)
  \/ PutStep

\* The thread that runs put keeps running until put returns.
Spec == Init /\ [][Next]_vars /\ WF_vars(PutStep)
-----------------------------------------------------------------------------
\* Type invariant: every state variable stays in the range of its C type and
\* use; in particular every bucket index that put computes is in the table.
TypeOK ==
  /\ bucketArray \in [Index -> [Way -> HashEntry]]
  /\ current_entries \in Nat
  /\ pc \in {"idle", "evict", "undo"}
  /\ args \in [key : Keys, value : Values] \cup {NoArgs}
  /\ current \in Current
  /\ n \in 0 .. MAX_CUCKOO_COUNT
  /\ undo \in Seq([index : Index, way : Way])
  /\ ret \in {-1, 0, 1}

\* An entry with this hash and tag in this bucket can be found by its key:
\* bucket and tag are the two fragments of one key with that hash.
Findable(index, tag, keyHash) ==
  \E key \in Keys, fn \in {0, 1} :
    /\ hash(key) = keyHash
    /\ index = keyfrag(key, fn)
    /\ tag = keyfrag(key, 1 - fn)

Slots == [index : Index, way : Way]
Occupied == {slot \in Slots : valid(EntryAt(slot))}

\* No sequence of evictions, however long, and no undoing of them ever leaves
\* an entry in a bucket where a lookup of its key would not look: every entry
\* of the table, and the one put holds, is in or on its way to a bucket that
\* one of its key's two fragments names, with the other one as its tag.
Placement ==
  /\ \A slot \in Occupied :
       Findable(slot.index, Masked(EntryAt(slot).keyTag), EntryAt(slot).keyHash)
  /\ pc = "evict" => Findable(current.index, current.tag, current.keyHash)

\* current_entries is the number of entries in the table, whenever put is
\* between two rounds: evicting and undoing neither lose nor add one.
CountMatches == current_entries = Cardinality(Occupied)

\* A put is refused only when neither bucket of its key has room: the table
\* that a failed put leaves has no free way in either of them.
RefusedOnlyWhenFull ==
  [][(pc = "undo" /\ pc' = "idle") =>
       \A fn \in {0, 1} : FreeWays(keyfrag(args.key, fn)) = {}]_vars
=============================================================================
