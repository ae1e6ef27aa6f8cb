------------------------------ MODULE LhTable -------------------------------
(***************************************************************************)
(* The open-addressing hash table of trash/linear_hash.c (the same code is *)
(* in trash/linear.c): new and init, insert, set, get, exists, delete,     *)
(* resize, the load threshold that makes an insert resize, and destroy.    *)
(* There is one table at a time, and none is used after its destroy.       *)
(*                                                                         *)
(* A slot is empty, occupied, or a dummy: it was occupied once.  A search  *)
(* for a key starts at the slot its hash names, goes on to the next slot,  *)
(* around the end of the array, and stops at an empty slot.                *)
(*                                                                         *)
(* A resize copies the table slot by slot; each round of its loop is an    *)
(* action here, and so is the end of an insert.  Everything else is done   *)
(* in one.  Arguments are never null pointers.  calloc may fail.           *)
(***************************************************************************)
EXTENDS Integers, FiniteSets

CONSTANTS
  Keys, Data,        \* the keys and the data that callers pass
  NULL,              \* no key; it is also among the data
  Hash,              \* their hashes (lh_hash, modelled in LhHash); keys of one
                     \* hash are taken to have one length
  Sizes,             \* the sizes that callers pass
  Thresholds,        \* the load thresholds that callers pass
  MaxSize            \* bound on the sizes that inserts grow the table to

ASSUME LhAssumption ==
  /\ NULL \notin Keys /\ NULL \in Data
  /\ Hash \in [Keys -> Nat]
  /\ Sizes \subseteq Nat \ {0}
  /\ Thresholds \subseteq 1 .. 10
  /\ MaxSize \in Nat

VARIABLES
  entries, size, n_elems, threshold,  \* the table
  pc,                \* "none": there is no table; "idle", in "resize", or at
                     \* the end of an insert ("store")
  request,           \* the key and data of the insert that is running
  new_entries,       \* resize's new array and its size,
  new_size,
  i,                 \* and the slot its loop is at
  result,            \* what the last call returned
  crashed            \* the process has followed a null key

table == <<entries, size, n_elems, threshold>>
resizing == <<new_entries, new_size, i>>
vars == <<table, pc, request, resizing, result, crashed>>
-----------------------------------------------------------------------------
LH_DEFAULT_THRESHOLD == 6
LH_SCALING_FACTOR == 2

Slots(n) == 0 .. n - 1

EmptyEntry == [state |-> "empty", hash |-> 0, key |-> NULL, data |-> NULL]
DummyEntry == [state |-> "dummy", hash |-> 0, key |-> NULL, data |-> NULL]
Calloc(n) == [slot \in Slots(n) |-> EmptyEntry]

NoRequest == [key |-> NULL, data |-> NULL]

\* lh_pos, how far from it a search for a hash comes to a slot, and the slots
\* it comes to before.
lh_pos(hash, n) == hash % n
Distance(hash, slot, n) == (slot - lh_pos(hash, n)) % n

Before(hash, slot, n) ==
  {other \in Slots(n) : Distance(hash, other, n) < Distance(hash, slot, n)}

\* The first of some slots that a search for a hash comes to: none or one.
Nearest(slots, hash, n) ==
  {slot \in slots : slots \cap Before(hash, slot, n) = {}}

\* lh_entry_eq: the hashes are equal, and so are the keys, unless the entry has
\* none; comparing with a null key is where the process crashes.  Mutant: the
\* keys are not compared.
AlikeByHash(entry, key) == entry.hash = Hash[key]
Alike(entry, key) == entry.hash = Hash[key] /\ entry.key \in {key, NULL}

\* A search stops at an empty slot, and goes past dummies.  Mutant: it stops at
\* dummies too.
StopsAtDummy(entry) == entry.state # "occupied"
Stops(entry) == entry.state = "empty"

\* lh_find_entry: the slot of the key, if there is one.
Found(key) ==
  Nearest({slot \in Slots(size) :
             \/ Stops(entries[slot])
             \/ entries[slot].state = "occupied" /\ Alike(entries[slot], key)},
          Hash[key], size)
    \ {slot \in Slots(size) : Stops(entries[slot])}

\* A lookup of the key compares it with a null key.
Crashes(key) == \E slot \in Found(key) : entries[slot].key = NULL

lh_load == (n_elems * 10) \div size

\* lh_insert's test, made before the insert.  Mutant: a load of 100% at the
\* threshold of 100% is let pass.
OverThreshold == lh_load > threshold
AtThreshold == lh_load >= threshold
-----------------------------------------------------------------------------
Init ==
  /\ pc = "none"
  /\ entries = Calloc(0) /\ size = 0 /\ n_elems = 0 /\ threshold = LH_DEFAULT_THRESHOLD
  /\ request = NoRequest
  /\ new_entries = Calloc(0) /\ new_size = 0 /\ i = 0
  /\ result = 0
  /\ crashed = FALSE

\* lh_new, or lh_init of a table that lh_destroy has left to the caller.
New(n) ==
  /\ pc = "none"
  /\ pc' = "idle"
  /\ entries' = Calloc(n) /\ size' = n
  /\ n_elems' = 0
  /\ threshold' = LH_DEFAULT_THRESHOLD
  /\ result' = 1
  /\ UNCHANGED <<request, resizing, crashed>>

\* The size is 0, or calloc fails.
NewFails ==
  /\ pc = "none"
  /\ result' = 0
  /\ UNCHANGED <<table, pc, request, resizing, crashed>>

Ready == pc = "idle" /\ ~ crashed

\* A call that changes nothing but its result.
Answer(r) ==
  /\ result' = r
  /\ UNCHANGED <<table, pc, request, resizing, crashed>>

\* lh_get, lh_exists, lh_set, lh_delete and lh_insert look for their key first.
LookupCrashes(key) ==
  /\ Ready
  /\ Crashes(key)
  /\ crashed' = TRUE
  /\ UNCHANGED <<table, pc, request, resizing, result>>

CanLookUp(key) == Ready /\ ~ Crashes(key)

DataAt(slots) == IF slots = {} THEN NULL ELSE entries[CHOOSE slot \in slots : TRUE].data

Get(key) == CanLookUp(key) /\ Answer(DataAt(Found(key)))

Exists(key) == CanLookUp(key) /\ Answer(IF Found(key) = {} THEN 0 ELSE 1)

Set(key, data) ==
  /\ CanLookUp(key)
  /\ result' = DataAt(Found(key))
  /\ entries' = [slot \in Slots(size) |->
                   IF slot \in Found(key) THEN [entries[slot] EXCEPT !.data = data]
                   ELSE entries[slot]]
  /\ UNCHANGED <<size, n_elems, threshold, pc, request, resizing, crashed>>

\* What a deleted entry becomes.  Mutant: empty, which cuts searches short.
Emptied == EmptyEntry
Deleted == DummyEntry

Delete(key) ==
  /\ CanLookUp(key)
  /\ Found(key) # {}
  /\ result' = DataAt(Found(key))
  /\ entries' = [slot \in Slots(size) |->
                   IF slot \in Found(key) THEN Deleted ELSE entries[slot]]
  /\ n_elems' = n_elems - 1
  /\ UNCHANGED <<size, threshold, pc, request, resizing, crashed>>

DeleteMissing(key) == CanLookUp(key) /\ Found(key) = {} /\ Answer(NULL)

Tune(t) ==
  /\ Ready
  /\ threshold' = t
  /\ result' = 1
  /\ UNCHANGED <<entries, size, n_elems, pc, request, resizing, crashed>>

\* lh_destroy frees what the entries own, those without a key included.
Destroy ==
  /\ Ready
  /\ pc' = "none"
  /\ entries' = Calloc(0) /\ size' = 0 /\ n_elems' = 0
  /\ threshold' = LH_DEFAULT_THRESHOLD
  /\ result' = 1
  /\ UNCHANGED <<request, resizing, crashed>>
-----------------------------------------------------------------------------
\* lh_resize, on its own or for an insert.
StartResize(n, req) ==
  /\ pc' = "resize"
  /\ request' = req
  /\ new_entries' = Calloc(n)
  /\ new_size' = n
  /\ i' = 0
  /\ UNCHANGED <<table, result, crashed>>

Resize(n) == Ready /\ n > n_elems /\ StartResize(n, NoRequest)

\* The new size is too small for the elements, or calloc fails.
ResizeRefused == Ready /\ Answer(0)

\* The call that was running is over.
Return(r) ==
  /\ pc' = "idle"
  /\ request' = NoRequest
  /\ new_entries' = Calloc(0) /\ new_size' = 0 /\ i' = 0
  /\ result' = r
  /\ UNCHANGED crashed

\* An array with an entry in a slot.
Placed(array, slots, entry) ==
  [slot \in DOMAIN array |-> IF slot \in slots THEN entry ELSE array[slot]]

NewPlace ==
  Nearest({slot \in Slots(new_size) : new_entries[slot].state = "empty"},
          entries[i].hash, new_size)

\* A round of the loop.  Only occupied slots are copied.
Skipped == entries[i].state # "occupied"

SkipSlot ==
  /\ pc = "resize" /\ i < size
  /\ Skipped
  /\ i' = i + 1
  /\ UNCHANGED <<table, pc, request, new_entries, new_size, result, crashed>>

CopySlot ==
  /\ pc = "resize" /\ i < size
  /\ ~ Skipped
  /\ NewPlace # {}
  /\ new_entries' = Placed(new_entries, NewPlace, entries[i])
  /\ i' = i + 1
  /\ UNCHANGED <<table, pc, request, new_size, result, crashed>>

\* The new array is full: it is freed, and the call fails.
ResizeFails ==
  /\ pc = "resize" /\ i < size
  /\ ~ Skipped
  /\ NewPlace = {}
  /\ Return(0)
  /\ UNCHANGED table

\* The new array takes the place of the old one.  Mutant: the table keeps the
\* size it had.
KeptSize == size
SizeAfterSwap == new_size

Swap ==
  /\ pc = "resize" /\ i = size
  /\ entries' = new_entries
  /\ size' = SizeAfterSwap
  /\ UNCHANGED <<n_elems, threshold>>
  /\ \/ request = NoRequest /\ Return(1)
     \/ /\ request # NoRequest
        /\ pc' = "store"
        /\ new_entries' = Calloc(0) /\ new_size' = 0 /\ i' = 0
        /\ UNCHANGED <<request, result, crashed>>
-----------------------------------------------------------------------------
\* lh_insert: the key is there already, or the resize cannot be made.
InsertRefused(key) ==
  /\ CanLookUp(key)
  /\ Found(key) # {} \/ AtThreshold
  /\ Answer(0)

InsertResizes(key, data) ==
  /\ CanLookUp(key)
  /\ Found(key) = {}
  /\ AtThreshold
  /\ size * LH_SCALING_FACTOR <= MaxSize
  /\ StartResize(size * LH_SCALING_FACTOR, [key |-> key, data |-> data])

InsertGoesOn(key, data) ==
  /\ CanLookUp(key)
  /\ Found(key) = {}
  /\ ~ AtThreshold
  /\ pc' = "store"
  /\ request' = [key |-> key, data |-> data]
  /\ UNCHANGED <<table, resizing, result, crashed>>

\* The first slot from the key's on that is not occupied.
Place == Nearest({slot \in Slots(size) : entries[slot].state # "occupied"},
                 Hash[request.key], size)

Store(key) ==
  entries' = Placed(entries, Place, [state |-> "occupied", hash |-> Hash[request.key],
                                     key |-> key, data |-> request.data])

StoreEntry ==
  /\ pc = "store"
  /\ Place # {}
  /\ Store(request.key)
  /\ n_elems' = n_elems + 1
  /\ UNCHANGED <<size, threshold>>
  /\ Return(1)

\* What a failed insert leaves as the count.  Mutant: it has counted already.
CountedEarly == n_elems + 1
NotCounted == n_elems

\* lh_entry_init has marked the slot when its copy of the key fails.
StoreFails ==
  /\ pc = "store"
  /\ Place # {}
  /\ Store(NULL)
  /\ n_elems' = NotCounted
  /\ UNCHANGED <<size, threshold>>
  /\ Return(0)

StoreFindsNoSlot ==
  /\ pc = "store"
  /\ Place = {}
  /\ Return(0)
  /\ UNCHANGED table

Step ==
  \/ SkipSlot \/ CopySlot \/ ResizeFails \/ Swap
  \/ StoreEntry \/ StoreFails \/ StoreFindsNoSlot

Next ==
  \/ \E key \in Keys :
        LookupCrashes(key) \/ Get(key) \/ Exists(key) \/ Delete(key)
        \/ DeleteMissing(key) \/ InsertRefused(key)
  \/ \E key \in Keys, data \in Data :
        Set(key, data) \/ InsertResizes(key, data) \/ InsertGoesOn(key, data)
  \/ \E t \in Thresholds : Tune(t)
  \/ \E n \in Sizes : New(n) \/ Resize(n)
  \/ NewFails \/ Destroy \/ ResizeRefused
  \/ Step

\* The thread that inserts or resizes keeps running until the call returns.
Spec == Init /\ [][Next]_vars /\ WF_vars(Step)
-----------------------------------------------------------------------------
Entry == [state : {"empty", "occupied", "dummy"}, hash : Nat,
          key : Keys \cup {NULL}, data : Data]

TypeOK ==
  /\ size \in Nat
  /\ entries \in [Slots(size) -> Entry]
  /\ n_elems \in 0 .. size
  /\ threshold \in 1 .. 10
  /\ pc \in {"none", "idle", "resize", "store"}
  /\ pc # "none" => size > 0
  /\ request \in [key : Keys, data : Data] \cup {NoRequest}
  /\ new_size \in Nat
  /\ new_entries \in [Slots(new_size) -> Entry]
  /\ i \in 0 .. size
  /\ crashed \in BOOLEAN

Occupied == {slot \in Slots(size) : entries[slot].state = "occupied"}
Keyed == {slot \in Occupied : entries[slot].key # NULL}

\* A search for an entry's hash does not meet an empty slot before the entry.
Reachable(array, n) ==
  \A slot \in Slots(n) : array[slot].state = "occupied" =>
    \A other \in Before(array[slot].hash, slot, n) : array[other].state # "empty"

\* Whatever was deleted, inserted again into dummies, and moved by resizes: a
\* search for a key that is in the table gets to it, in the table in use and in
\* the one a resize is filling.
EntriesReachable ==
  Reachable(entries, size) /\ (pc = "resize" => Reachable(new_entries, new_size))

\* No key is in the table twice, so that set and delete, which stop at the
\* first entry they find, leave no older one behind.
KeysUnique ==
  \A a, b \in Keyed : entries[a].key = entries[b].key => a = b

\* n_elems, which decides when to resize and which sizes to refuse, is the
\* number of entries with a key, also in the middle of a resize.
CountMatches == n_elems = Cardinality(Keyed)

\* An insert runs out of slots only in a table that has entries without a key:
\* the threshold, 100% included, otherwise leaves room.
InsertFindsRoom == (pc = "store" /\ Place = {}) => Occupied # Keyed

\* A call that fails, like lh_exists ("returns 0 if key doesn't exist or on
\* failure", line 659), reports that; it does not follow a null key.
LookupsAnswer == ~ crashed
=============================================================================
