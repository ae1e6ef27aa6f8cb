--------------------------- MODULE LhStoreProofs ---------------------------
(***************************************************************************)
(* The open-addressing table is a map from keys to data: every step of     *)
(* LhTable is a step of KeyMap, or invisible, for tables of any size and   *)
(* any hash function.                                                      *)
(*                                                                         *)
(* The map is not computed slot by slot: it is enough to know which keys   *)
(* the table has, and the data beside each.                                *)
(***************************************************************************)
EXTENDS LhStore, LhTableProofs

KeysIn(array, n) == {array[slot].key : slot \in KeyedIn(array, n)}

\* A map of the entries of an array.
Represents(map, array, n) ==
  /\ map = [key \in KeysIn(array, n) |-> map[key]]
  /\ \A slot \in KeyedIn(array, n) : map[array[slot].key] = array[slot].data

\* A call that has ended has no request, there is nothing in no table, and the
\* array that a resize fills has all that the loop has passed.
Calls ==
  /\ pc \in {"none", "idle"} => request = NoRequest
  /\ pc = "none" => size = 0
  /\ pc = "resize" =>
       \A j \in Copied : \E slot \in Slots(new_size) : new_entries[slot] = entries[j]

MapInv == LInv /\ Calls
-----------------------------------------------------------------------------
LEMMA StoredRepresents == LInv => Represents(Stored, entries, size)
<1> SUFFICES ASSUME LInv PROVE Represents(Stored, entries, size)
  OBVIOUS
<1>1. Keyed = KeyedIn(entries, size)
  BY DEF Keyed, Occupied, KeyedIn
<1>2. Stored = [key \in KeysIn(entries, size) |-> Stored[key]]
  BY <1>1 DEF Stored, KeysIn
<1>3. ASSUME NEW slot \in KeyedIn(entries, size)
      PROVE  Stored[entries[slot].key] = entries[slot].data
  <2> DEFINE key == entries[slot].key
             slots == {other \in Keyed : entries[other].key = key}
  <2>1. slots = {slot}
    BY <1>1 DEF LInv, Sound, Unique
  <2>2. DataAt({slot}) = entries[slot].data
    BY DEF DataAt
  <2>3. Stored[key] = DataAt(slots)
    BY <1>1 DEF Stored
  <2> QED
    BY <2>1, <2>2, <2>3
<1> QED
  BY <1>2, <1>3 DEF Represents

LEMMA StoredRepresentsNext == LInv' => Represents(Stored', entries', size')
<1>1. LInv' => Represents(Stored, entries, size)'
  BY StoredRepresents, PTL
<1> QED
  BY <1>1 DEF Represents, KeysIn, KeyedIn

\* Two maps of the same entries are the same.
LEMMA SameMap ==
  ASSUME NEW map, NEW array, NEW n, Represents(map, array, n),
         NEW map2, NEW array2, NEW n2, Represents(map2, array2, n2),
         KeysIn(array, n) = KeysIn(array2, n2),
         \A key \in KeysIn(array, n) : map[key] = map2[key]
  PROVE  map = map2
BY DEF Represents

LEMMA OneMap ==
  ASSUME NEW array, NEW n, NEW map, Represents(map, array, n),
         NEW map2, Represents(map2, array, n)
  PROVE  map = map2
<1>1. ASSUME NEW key \in KeysIn(array, n) PROVE map[key] = map2[key]
  <2>1. PICK slot \in KeyedIn(array, n) : key = array[slot].key
    BY DEF KeysIn
  <2> QED
    BY <2>1 DEF Represents
<1> QED
  BY <1>1 DEF Represents

\* What a call that does not crash answers about a key is what the map says.
LEMMA LookupAnswers ==
  ASSUME LInv, NEW key \in Keys, ~ Crashes(key), size > 0
  PROVE  /\ Found(key) = {} <=> key \notin DOMAIN Stored
         /\ DataAt(Found(key)) = Abstract!Looked(key)
<1>1. Represents(Stored, entries, size)
  BY StoredRepresents
<1>2. DOMAIN Stored = KeysIn(entries, size)
  BY <1>1 DEF Represents
<1>3. CASE Found(key) = {}
  <2>1. key \notin KeysIn(entries, size)
    BY <1>3, LookupFinds DEF Missing, KeysIn
  <2> QED
    BY <1>2, <1>3, <2>1 DEF DataAt, Abstract!Looked
<1>4. CASE Found(key) # {}
  <2>1. PICK slot \in KeyedIn(entries, size) : Found(key) = {slot} /\ entries[slot].key = key
    BY <1>4, LookupFinds
  <2>2. key \in DOMAIN Stored /\ Stored[key] = entries[slot].data
    BY <1>1, <1>2, <2>1 DEF KeysIn, Represents
  <2> QED
    BY <1>4, <2>1, <2>2 DEF DataAt, Abstract!Looked
<1> QED
  BY <1>3, <1>4
-----------------------------------------------------------------------------
LEMMA CopySlotCalls ==
  ASSUME MapInv, CopySlot
  PROVE  Calls'
<1> USE DEF CopySlot, table
<1>1. /\ pc = "resize" /\ pc' = "resize" /\ entries' = entries /\ size' = size
      /\ new_size' = new_size /\ i \in Nat /\ i' = i + 1
      /\ new_entries \in [Slots(new_size) -> Entry]
      /\ new_entries' = Placed(new_entries, NewPlace, entries[i])
      /\ NewPlace # {}
  BY DEF MapInv, LInv, TypeOK
<1>2. /\ NewPlace \subseteq Slots(new_size)
      /\ \A slot \in NewPlace : new_entries[slot].state = "empty"
  BY DEF NewPlace, Nearest
<1>3. \A slot \in Slots(new_size) :
        new_entries'[slot] = IF slot \in NewPlace THEN entries[i] ELSE new_entries[slot]
  BY <1>1 DEF Placed
<1> SUFFICES ASSUME NEW j \in Copied'
             PROVE  \E slot \in Slots(new_size) : new_entries'[slot] = entries[j]
  BY <1>1 DEF Calls
<1>4. CASE j = i
  BY <1>1, <1>2, <1>3, <1>4
<1>5. CASE j # i
  <2>1. j \in Copied
    BY <1>1, <1>5 DEF Copied, KeyedIn, Slots
  <2>2. PICK slot \in Slots(new_size) : new_entries[slot] = entries[j]
    BY <1>1, <2>1 DEF MapInv, Calls
  <2>3. entries[j].state = "occupied"
    BY <2>1 DEF Copied, KeyedIn
  <2>4. slot \notin NewPlace
    BY <1>2, <2>2, <2>3
  <2> QED
    BY <1>3, <2>2, <2>4
<1> QED
  BY <1>4, <1>5

LEMMA NextCalls == MapInv /\ [Next]_vars => Calls'
<1> SUFFICES ASSUME MapInv, [Next]_vars PROVE Calls'
  OBVIOUS
<1> USE DEF MapInv, Calls
\* Steps that change none of what Calls is about.
<1>1. ASSUME UNCHANGED <<pc, request, entries, size, resizing>> PROVE Calls'
  BY <1>1 DEF Copied, KeyedIn, resizing
<1>2. ASSUME pc' = "idle", request' = NoRequest PROVE Calls'
  BY <1>2
<1>3. ASSUME NEW n, NEW req, StartResize(n, req) PROVE Calls'
  <2>1. Copied' = {}
    BY <1>3 DEF StartResize, Copied, KeyedIn, Slots
  <2> QED
    BY <1>3, <2>1 DEF StartResize
<1>4. CASE UNCHANGED vars
  BY <1>1, <1>4 DEF vars, table
<1>5. ASSUME NEW key \in Keys,
             LookupCrashes(key) \/ Get(key) \/ Exists(key) \/ Delete(key)
             \/ DeleteMissing(key) \/ InsertRefused(key)
      PROVE  Calls'
  <2>1. CASE LookupCrashes(key) \/ Get(key) \/ Exists(key)
             \/ DeleteMissing(key) \/ InsertRefused(key)
    <3>1. UNCHANGED <<pc, request, entries, size, resizing>>
      BY <2>1, Zenon DEF LookupCrashes, Get, Exists, DeleteMissing, InsertRefused, Answer, table
    <3> QED
      BY <1>1, <3>1
  <2>2. CASE Delete(key)
    BY <1>2, <2>2 DEF Delete, CanLookUp, Ready
  <2> QED
    BY <1>5, <2>1, <2>2
<1>6. ASSUME NEW key \in Keys, NEW data \in Data,
             Set(key, data) \/ InsertResizes(key, data) \/ InsertGoesOn(key, data)
      PROVE  Calls'
  <2>1. CASE Set(key, data)
    BY <1>2, <2>1 DEF Set, CanLookUp, Ready
  <2>2. CASE InsertResizes(key, data)
    BY <1>3, <2>2 DEF InsertResizes
  <2>3. CASE InsertGoesOn(key, data)
    BY <2>3 DEF InsertGoesOn
  <2> QED
    BY <1>6, <2>1, <2>2, <2>3
<1>7. CASE \E t \in Thresholds : Tune(t)
  BY <1>2, <1>7 DEF Tune, Ready
<1>8. ASSUME NEW n \in Sizes, New(n) \/ Resize(n) PROVE Calls'
  BY <1>2, <1>3, <1>8 DEF New, Resize
<1>9. CASE NewFails \/ ResizeRefused
  BY <1>1, <1>9 DEF NewFails, ResizeRefused, Answer, table
<1>10. CASE Destroy
  BY <1>10 DEF Destroy, Ready
<1>11. CASE Step
  <2>1. CASE SkipSlot
    <3>1. Copied' = Copied
      BY <2>1 DEF SkipSlot, Copied, KeyedIn, Skipped, Slots, LInv, TypeOK, table
    <3> QED
      BY <2>1, <3>1 DEF SkipSlot, table
  <2>2. CASE CopySlot
    BY <2>2, CopySlotCalls
  <2>3. CASE Swap
    BY <1>2, <2>3 DEF Swap, Return
  <2>4. CASE ResizeFails \/ StoreEntry \/ StoreFails \/ StoreFindsNoSlot
    BY <1>2, <2>4 DEF ResizeFails, StoreEntry, StoreFails, StoreFindsNoSlot, Return
  <2> QED
    BY <1>11, <2>1, <2>2, <2>3, <2>4 DEF Step
<1> QED
  BY <1>4, <1>5, <1>6, <1>7, <1>8, <1>9, <1>10, <1>11 DEF Next

\* The history variable watches: it neither makes nor prevents a step.
LEMMA CNextIsNext == [CNext]_cvars => [Next]_vars
<1> SUFFICES ASSUME [CNext]_cvars PROVE Next \/ UNCHANGED vars
  OBVIOUS
<1>1. CASE UNCHANGED cvars
  BY <1>1 DEF cvars
<1>2. CASE CNext
  BY <1>2, Zenon DEF CNext, Next
<1> QED
  BY <1>1, <1>2

LEMMA InvariantMapInv == CSpec => []MapInv
<1>1. CInit => MapInv
  BY InitLInv DEF CInit, MapInv, Calls, Init
<1>2. MapInv /\ [CNext]_cvars => MapInv'
  BY NextLInv, NextCalls, CNextIsNext DEF MapInv
<1> QED
  BY <1>1, <1>2, PTL DEF CSpec
-----------------------------------------------------------------------------
\* What the calls do to the map.
LEMMA MapUnchanged ==
  ASSUME UNCHANGED <<entries, size>>
  PROVE  Stored' = Stored
BY DEF Stored, Keyed, Occupied, DataAt

LEMMA LookupSteps ==
  ASSUME MapInv, NEW key \in Keys,
         \/ Get(key) /\ Returns("get", key, NULL)
         \/ Exists(key) /\ Returns("exists", key, NULL)
         \/ DeleteMissing(key) /\ Returns("delete", key, NULL)
  PROVE  Abstract!Get(key) \/ Abstract!Exists(key) \/ Abstract!Delete(key)
<1>1. /\ UNCHANGED <<entries, size, request>> /\ ~ Crashes(key) /\ size > 0
      /\ LInv /\ request = NoRequest
  BY DEF Get, Exists, DeleteMissing, Answer, CanLookUp, Ready, table,
         MapInv, Calls, LInv, TypeOK
<1>2. Stored' = Stored
  BY <1>1, MapUnchanged
<1>3. /\ Found(key) = {} <=> key \notin DOMAIN Stored
      /\ DataAt(Found(key)) = Abstract!Looked(key)
  BY <1>1, LookupAnswers
<1> USE DEF Abstract!Idle, Abstract!Returned, Returns
<1>4. CASE Get(key) /\ Returns("get", key, NULL)
  BY <1>1, <1>2, <1>3, <1>4 DEF Get, Answer, Abstract!Get
<1>5. CASE Exists(key) /\ Returns("exists", key, NULL)
  BY <1>1, <1>2, <1>3, <1>5 DEF Exists, Answer, Abstract!Exists
<1>6. CASE DeleteMissing(key) /\ Returns("delete", key, NULL)
  <2>1. result' = NULL /\ key \notin DOMAIN Stored
    BY <1>3, <1>6 DEF DeleteMissing, Answer
  <2>2. Stored = [k \in DOMAIN Stored \ {key} |-> Stored[k]]
    BY <1>1, <2>1, StoredRepresents DEF Represents
  <2>3. Abstract!Looked(key) = NULL
    BY <2>1 DEF Abstract!Looked
  <2> QED
    BY <1>1, <1>2, <1>6, <2>1, <2>2, <2>3 DEF Abstract!Delete
<1> QED
  BY <1>4, <1>5, <1>6

LEMMA SetStep ==
  ASSUME MapInv, LInv', NEW key \in Keys, NEW data \in Data,
         Set(key, data), Returns("set", key, data)
  PROVE  Abstract!Set(key, data)
<1>1. /\ size' = size /\ request' = request /\ ~ Crashes(key) /\ size > 0
      /\ LInv /\ request = NoRequest /\ entries \in [Slots(size) -> Entry]
      /\ result' = DataAt(Found(key))
      /\ entries' = [slot \in Slots(size) |->
                       IF slot \in Found(key) THEN [entries[slot] EXCEPT !.data = data]
                       ELSE entries[slot]]
  BY DEF Set, CanLookUp, Ready, MapInv, Calls, LInv, TypeOK
<1> DEFINE map2 == [k \in DOMAIN Stored |-> IF k = key THEN data ELSE Stored[k]]
<1>2. Represents(Stored, entries, size) /\ Represents(Stored', entries', size)
  BY <1>1, StoredRepresents, StoredRepresentsNext
<1>3. \A slot \in Slots(size) :
        /\ entries'[slot].state = entries[slot].state
        /\ entries'[slot].key = entries[slot].key
        /\ entries'[slot].data = IF slot \in Found(key) THEN data ELSE entries[slot].data
  BY <1>1 DEF Entry
<1>4. KeyedIn(entries', size) = KeyedIn(entries, size) /\ KeysIn(entries', size) = KeysIn(entries, size)
  BY <1>3 DEF KeyedIn, KeysIn
<1>5. Represents(map2, entries', size)
  <2>1. DOMAIN Stored = KeysIn(entries, size)
    BY <1>2 DEF Represents
  <2>2. ASSUME NEW slot \in KeyedIn(entries, size)
        PROVE  map2[entries'[slot].key] = entries'[slot].data
    <3>1. slot \in Slots(size) /\ entries[slot].key \in DOMAIN Stored
      BY <2>1 DEF KeyedIn, KeysIn
    <3>2. slot \in Found(key) <=> entries[slot].key = key
      BY <1>1, LookupFinds DEF LInv, Sound, Unique, Missing
    <3>3. Stored[entries[slot].key] = entries[slot].data
      BY <1>2 DEF Represents
    <3> QED
      BY <1>3, <3>1, <3>2, <3>3
  <2> QED
    BY <1>4, <2>1, <2>2 DEF Represents
<1> HIDE DEF map2
<1>6. Stored' = map2
  BY <1>2, <1>5, OneMap
<1> QED
  BY <1>1, <1>6, LookupAnswers
     DEF Abstract!Set, Abstract!Idle, Abstract!Returned, Returns, map2

LEMMA DeleteStep ==
  ASSUME MapInv, LInv', NEW key \in Keys, Delete(key), Returns("delete", key, NULL)
  PROVE  Abstract!Delete(key)
<1>1. /\ size' = size /\ request' = request /\ ~ Crashes(key) /\ size > 0
      /\ LInv /\ request = NoRequest /\ entries \in [Slots(size) -> Entry]
      /\ Found(key) # {} /\ result' = DataAt(Found(key))
      /\ entries' = [slot \in Slots(size) |->
                       IF slot \in Found(key) THEN DummyEntry ELSE entries[slot]]
  BY DEF Delete, Deleted, CanLookUp, Ready, MapInv, Calls, LInv, TypeOK
<1> DEFINE map2 == [k \in DOMAIN Stored \ {key} |-> Stored[k]]
<1>2. Represents(Stored, entries, size) /\ Represents(Stored', entries', size)
  BY <1>1, StoredRepresents, StoredRepresentsNext
<1>3. PICK p \in KeyedIn(entries, size) : Found(key) = {p} /\ entries[p].key = key
  BY <1>1, LookupFinds
<1>4. KeyedIn(entries', size) = KeyedIn(entries, size) \ {p}
  BY <1>1, <1>3 DEF KeyedIn, DummyEntry
<1>5. \A slot \in KeyedIn(entries, size) \ {p} :
        entries'[slot] = entries[slot] /\ entries[slot].key # key
  BY <1>1, <1>3 DEF KeyedIn, LInv, Sound, Unique
<1>6. KeysIn(entries', size) = KeysIn(entries, size) \ {key}
  BY <1>3, <1>4, <1>5 DEF KeysIn
<1>7. Represents(map2, entries', size)
  <2>1. DOMAIN Stored = KeysIn(entries, size)
    BY <1>2 DEF Represents
  <2>2. ASSUME NEW slot \in KeyedIn(entries', size)
        PROVE  map2[entries'[slot].key] = entries'[slot].data
    BY <1>2, <1>4, <1>5, <2>1 DEF Represents, KeysIn
  <2> QED
    BY <1>6, <2>1, <2>2 DEF Represents
<1> HIDE DEF map2
<1>8. Stored' = map2
  BY <1>2, <1>7, OneMap
<1> QED
  BY <1>1, <1>8, LookupAnswers
     DEF Abstract!Delete, Abstract!Idle, Abstract!Returned, Returns, map2

LEMMA DestroyStep ==
  ASSUME MapInv, LInv', Destroy, Returns("destroy", NULL, NULL)
  PROVE  Abstract!Destroy
<1>1. entries' = Calloc(0) /\ size' = 0 /\ request' = request /\ request = NoRequest /\ result' = 1
  BY DEF Destroy, Ready, MapInv, Calls
<1>2. KeysIn(entries', size') = {}
  BY <1>1, CallocSound DEF KeysIn
<1>3. Stored' = Abstract!Empty
  BY <1>2, StoredRepresentsNext DEF Represents, Abstract!Empty
<1> QED
  BY <1>1, <1>3 DEF Abstract!Destroy, Abstract!Idle, Abstract!Returned, Returns

LEMMA NewStep ==
  ASSUME MapInv, LInv', NEW n \in Sizes, New(n), Returns("new", NULL, NULL)
  PROVE  Abstract!New
<1>1. /\ entries' = Calloc(n) /\ size' = n /\ n \in Nat
      /\ request' = request /\ request = NoRequest /\ result' = 1
  BY LhAssumption DEF New, MapInv, Calls
<1>2. KeysIn(entries', size') = {}
  BY <1>1, CallocSound DEF KeysIn
<1>3. Stored' = Abstract!Empty
  BY <1>2, StoredRepresentsNext DEF Represents, Abstract!Empty
<1> QED
  BY <1>1, <1>3 DEF Abstract!New, Abstract!Idle, Abstract!Returned, Returns

\* The entries with a key that a resize leaves are those it found.
LEMMA SwapMap ==
  ASSUME MapInv, LInv', Swap
  PROVE  Stored' = Stored
<1>1. /\ pc = "resize" /\ i = size /\ size \in Nat
      /\ entries' = new_entries /\ size' = new_size
  BY DEF Swap, SizeAfterSwap, MapInv, LInv, TypeOK
<1>2. Copied = KeyedIn(entries, size)
  BY <1>1 DEF Copied, KeyedIn, Slots
<1>3. Represents(Stored, entries, size) /\ Represents(Stored', new_entries, new_size)
  BY <1>1, StoredRepresents, StoredRepresentsNext DEF MapInv
<1>4. ASSUME NEW j \in KeyedIn(entries, size)
      PROVE  \E slot \in KeyedIn(new_entries, new_size) : new_entries[slot] = entries[j]
  <2>1. PICK slot \in Slots(new_size) : new_entries[slot] = entries[j]
    BY <1>1, <1>2 DEF MapInv, Calls
  <2> QED
    BY <2>1 DEF KeyedIn
<1>5. ASSUME NEW slot \in KeyedIn(new_entries, new_size)
      PROVE  \E j \in KeyedIn(entries, size) : new_entries[slot] = entries[j]
  <2>1. PICK j \in Slots(size) : entries[j].state = "occupied" /\ new_entries[slot] = entries[j]
    BY <1>1 DEF MapInv, LInv, Resizing, KeyedIn
  <2> QED
    BY <2>1 DEF KeyedIn
<1>6. KeysIn(new_entries, new_size) = KeysIn(entries, size)
  BY <1>4, <1>5 DEF KeysIn
<1>7. ASSUME NEW key \in KeysIn(entries, size) PROVE Stored'[key] = Stored[key]
  <2>1. PICK j \in KeyedIn(entries, size) : key = entries[j].key
    BY DEF KeysIn
  <2>2. PICK slot \in KeyedIn(new_entries, new_size) : new_entries[slot] = entries[j]
    BY <1>4
  <2>3. Stored[key] = entries[j].data /\ Stored'[new_entries[slot].key] = new_entries[slot].data
    BY <1>3, <2>1 DEF Represents
  <2> QED
    BY <2>1, <2>2, <2>3
<1> QED
  BY <1>3, <1>6, <1>7, SameMap

\* The slot that the end of an insert fills.
LEMMA StorePlace ==
  ASSUME LInv, pc = "store", Place # {}, NEW key, Store(key)
  PROVE  \E p \in Slots(size) :
           /\ entries[p].state # "occupied"
           /\ entries' = [slot \in Slots(size) |->
                IF slot = p
                THEN [state |-> "occupied", hash |-> Hash[request.key],
                      key |-> key, data |-> request.data]
                ELSE entries[slot]]
<1> DEFINE free == {slot \in Slots(size) : entries[slot].state # "occupied"}
<1>1. size \in Nat \ {0} /\ Hash[request.key] \in Nat /\ entries \in [Slots(size) -> Entry]
  BY LhAssumption DEF LInv, TypeOK, Storing
<1>2. free \in SUBSET Slots(size) /\ free # {} /\ Place = Nearest(free, Hash[request.key], size)
  BY DEF Place, Nearest
<1> HIDE DEF free
<1>3. PICK p \in free : Place = {p}
  BY <1>1, <1>2, NearestExists
<1> QED
  BY <1>1, <1>3 DEF Store, Placed, free

LEMMA StoreEntryStep ==
  ASSUME MapInv, LInv', StoreEntry, Returns("insert", request.key, request.data)
  PROVE  Abstract!EndInsert
<1>1. /\ pc = "store" /\ Place # {} /\ Store(request.key) /\ LInv
      /\ size' = size /\ request' = NoRequest /\ result' = 1
  BY DEF StoreEntry, Return, MapInv
<1>2. request # NoRequest /\ request.key # NULL /\ Missing(request.key, entries, size)
  BY <1>1, LhAssumption DEF LInv, TypeOK, Storing
<1> DEFINE key == request.key
           entry == [state |-> "occupied", hash |-> Hash[key], key |-> key, data |-> request.data]
           map2 == [k \in DOMAIN Stored \cup {key} |-> IF k = key THEN request.data ELSE Stored[k]]
<1>3. PICK p \in Slots(size) :
        /\ entries[p].state # "occupied"
        /\ entries' = [slot \in Slots(size) |-> IF slot = p THEN entry ELSE entries[slot]]
  BY <1>1, StorePlace
<1>4. Represents(Stored, entries, size) /\ Represents(Stored', entries', size)
  BY <1>1, StoredRepresents, StoredRepresentsNext
<1>5. /\ KeyedIn(entries', size) = KeyedIn(entries, size) \cup {p}
      /\ p \notin KeyedIn(entries, size)
      /\ entries'[p] = entry
      /\ \A slot \in KeyedIn(entries, size) : entries'[slot] = entries[slot] /\ entries[slot].key # key
  BY <1>2, <1>3 DEF KeyedIn, Missing
<1>6. KeysIn(entries', size) = KeysIn(entries, size) \cup {key}
  BY <1>5 DEF KeysIn
<1>7. Represents(map2, entries', size)
  <2>1. DOMAIN Stored = KeysIn(entries, size)
    BY <1>4 DEF Represents
  <2>2. ASSUME NEW slot \in KeyedIn(entries', size)
        PROVE  map2[entries'[slot].key] = entries'[slot].data
    <3>1. CASE slot = p
      BY <1>5, <3>1
    <3>2. CASE slot # p
      BY <1>4, <1>5, <2>1, <3>2 DEF Represents, KeysIn
    <3> QED
      BY <3>1, <3>2
  <2> QED
    BY <1>6, <2>1, <2>2 DEF Represents
<1> HIDE DEF map2
<1>8. Stored' = map2
  BY <1>4, <1>7, OneMap
<1> QED
  BY <1>1, <1>2, <1>8
     DEF Abstract!EndInsert, Abstract!Idle, Abstract!Returned, Returns, map2

\* An entry without a key is not in the map.
LEMMA StoreFailsStep ==
  ASSUME MapInv, LInv', StoreFails, Returns("insert", request.key, request.data)
  PROVE  Abstract!EndInsert
<1>1. /\ pc = "store" /\ Place # {} /\ Store(NULL) /\ LInv /\ request # NoRequest
      /\ size' = size /\ request' = NoRequest /\ result' = 0
  BY DEF StoreFails, Return, MapInv, LInv, Storing
<1>2. PICK p \in Slots(size) :
        /\ entries[p].state # "occupied"
        /\ entries' = [slot \in Slots(size) |->
             IF slot = p
             THEN [state |-> "occupied", hash |-> Hash[request.key], key |-> NULL, data |-> request.data]
             ELSE entries[slot]]
  BY <1>1, StorePlace
<1>3. Represents(Stored, entries, size) /\ Represents(Stored', entries', size)
  BY <1>1, StoredRepresents, StoredRepresentsNext
<1>4. /\ KeyedIn(entries', size) = KeyedIn(entries, size)
      /\ \A slot \in KeyedIn(entries, size) : entries'[slot] = entries[slot]
  BY <1>2 DEF KeyedIn
<1>5. Represents(Stored, entries', size)
  <2>1. KeysIn(entries', size) = KeysIn(entries, size)
    BY <1>4 DEF KeysIn
  <2> QED
    BY <1>3, <1>4, <2>1 DEF Represents
<1>6. Stored' = Stored
  BY <1>3, <1>5, OneMap
<1> QED
  BY <1>1, <1>6 DEF Abstract!EndInsert, Abstract!Idle, Abstract!Returned, Returns
-----------------------------------------------------------------------------
\* Calls that leave the table alone.
LEMMA QuietStep ==
  ASSUME MapInv, UNCHANGED <<entries, size, request>>, pc \in {"none", "idle"}
  PROVE  Abstract!Idle /\ UNCHANGED <<Stored, request>>
BY MapUnchanged DEF MapInv, Calls, Abstract!Idle

LEMMA RefusedStep ==
  ASSUME MapInv, NEW key \in Keys, NEW data \in Data,
         InsertRefused(key), Returns("insert", key, data)
  PROVE  Abstract!InsertRefused(key, data)
<1>1. UNCHANGED <<entries, size, request>> /\ pc = "idle" /\ result' = 0
  BY DEF InsertRefused, CanLookUp, Ready, Answer, table
<1> QED
  BY <1>1, QuietStep DEF Abstract!InsertRefused, Abstract!Returned, Returns

LEMMA BeginStep ==
  ASSUME MapInv, NEW key \in Keys, NEW data \in Data, CanLookUp(key), Found(key) = {},
         request' = [key |-> key, data |-> data], UNCHANGED <<entries, size, call, result>>
  PROVE  Abstract!BeginInsert(key, data)
<1>1. /\ LInv /\ size > 0 /\ ~ Crashes(key) /\ request = NoRequest
  BY DEF CanLookUp, Ready, MapInv, Calls, LInv, TypeOK
<1> QED
  BY <1>1, LookupAnswers, MapUnchanged DEF Abstract!BeginInsert, Abstract!Idle

\* A call that resizes or inserts fails: its insert, if it has one, is over.
LEMMA FailStep ==
  ASSUME MapInv, Return(0), ReturnsAtEnd, UNCHANGED <<entries, size>>
  PROVE  Abstract!Resize \/ Abstract!EndInsert
<1>1. Stored' = Stored /\ request' = NoRequest /\ result' = 0 /\ pc' = "idle"
  BY MapUnchanged DEF Return
<1> USE DEF Abstract!Idle, Abstract!Returned, ReturnsAtEnd, Returns
<1>2. CASE request = NoRequest
  BY <1>1, <1>2 DEF Abstract!Resize, NoRequest
<1>3. CASE request # NoRequest
  BY <1>1, <1>3 DEF Abstract!EndInsert
<1> QED
  BY <1>2, <1>3

\* A step of the loop of a resize, or the end of a call.
LEMMA StepImplements ==
  ASSUME MapInv, LInv', Step, ReturnsAtEnd
  PROVE  \/ Abstract!Resize \/ Abstract!EndInsert
         \/ UNCHANGED <<Stored, request, call, result>>
<1>1. CASE SkipSlot \/ CopySlot
  <2>1. UNCHANGED <<entries, size, request, result>> /\ pc' = "resize"
    BY <1>1 DEF SkipSlot, CopySlot, table
  <2> QED
    BY <2>1, MapUnchanged DEF ReturnsAtEnd
<1>2. CASE Swap
  <2>1. Stored' = Stored
    BY <1>2, SwapMap
  <2>2. CASE request = NoRequest /\ Return(1)
    BY <2>1, <2>2 DEF Return, ReturnsAtEnd, Returns, NoRequest,
                      Abstract!Resize, Abstract!Idle, Abstract!Returned
  <2>3. CASE request # NoRequest
    <3>1. pc' = "store" /\ UNCHANGED <<request, result>>
      BY <1>2, <2>3 DEF Swap
    <3> QED
      BY <2>1, <3>1 DEF ReturnsAtEnd
  <2> QED
    BY <1>2, <2>2, <2>3 DEF Swap
<1>3. CASE ResizeFails \/ StoreFindsNoSlot
  BY <1>3, FailStep DEF ResizeFails, StoreFindsNoSlot, table
<1>4. CASE StoreEntry \/ StoreFails
  <2>1. pc' = "idle" /\ request # NoRequest
    BY <1>4 DEF StoreEntry, StoreFails, Return, MapInv, LInv, Storing
  <2>2. Returns("insert", request.key, request.data)
    BY <2>1 DEF ReturnsAtEnd
  <2> QED
    BY <1>4, <2>2, StoreEntryStep, StoreFailsStep
<1> QED
  BY <1>1, <1>2, <1>3, <1>4 DEF Step

LEMMA NextImplements ==
  MapInv /\ MapInv' /\ [CNext]_cvars => [Abstract!Next]_(Abstract!vars)
<1> SUFFICES ASSUME MapInv, MapInv', [CNext]_cvars
             PROVE  Abstract!Next \/ UNCHANGED <<Stored, request, call, result>>
  BY DEF Abstract!vars
<1>1. LInv /\ LInv'
  BY DEF MapInv
<1>2. CASE UNCHANGED cvars
  BY <1>2, MapUnchanged DEF cvars, vars, table
<1>3. ASSUME NEW key \in Keys,
             \/ LookupCrashes(key) /\ UNCHANGED call
             \/ Get(key) /\ Returns("get", key, NULL)
             \/ Exists(key) /\ Returns("exists", key, NULL)
             \/ (Delete(key) \/ DeleteMissing(key)) /\ Returns("delete", key, NULL)
      PROVE  Abstract!Next \/ UNCHANGED <<Stored, request, call, result>>
  <2>1. CASE LookupCrashes(key) /\ UNCHANGED call
    BY <2>1, MapUnchanged DEF LookupCrashes, table
  <2>2. CASE Delete(key) /\ Returns("delete", key, NULL)
    BY <1>1, <2>2, DeleteStep DEF Abstract!Next
  <2>3. CASE \/ Get(key) /\ Returns("get", key, NULL)
             \/ Exists(key) /\ Returns("exists", key, NULL)
             \/ DeleteMissing(key) /\ Returns("delete", key, NULL)
    BY <2>3, LookupSteps DEF Abstract!Next
  <2> QED
    BY <1>3, <2>1, <2>2, <2>3
<1>4. ASSUME NEW key \in Keys, NEW data \in Data,
             \/ Set(key, data) /\ Returns("set", key, data)
             \/ InsertRefused(key) /\ Returns("insert", key, data)
             \/ (InsertResizes(key, data) \/ InsertGoesOn(key, data)) /\ UNCHANGED call
      PROVE  Abstract!Next
  <2>1. CASE Set(key, data) /\ Returns("set", key, data)
    BY <1>1, <2>1, SetStep DEF Abstract!Next
  <2>2. CASE InsertRefused(key) /\ Returns("insert", key, data)
    BY <2>2, RefusedStep DEF Abstract!Next
  <2>3. CASE InsertResizes(key, data) /\ UNCHANGED call
    BY <2>3, BeginStep DEF InsertResizes, StartResize, table, Abstract!Next
  <2>4. CASE InsertGoesOn(key, data) /\ UNCHANGED call
    BY <2>4, BeginStep DEF InsertGoesOn, table, Abstract!Next
  <2> QED
    BY <1>4, <2>1, <2>2, <2>3, <2>4
<1>5. ASSUME NEW t \in Thresholds, Tune(t), Returns("tune", NULL, NULL)
      PROVE  Abstract!Tune
  BY <1>5, QuietStep DEF Tune, Ready, Abstract!Tune, Abstract!Returned, Returns
<1>6. ASSUME NEW n \in Sizes, \/ New(n) /\ Returns("new", NULL, NULL)
                              \/ Resize(n) /\ UNCHANGED call
      PROVE  Abstract!New \/ UNCHANGED <<Stored, request, call, result>>
  <2>1. CASE Resize(n) /\ UNCHANGED call
    <3>1. UNCHANGED <<entries, size, result>> /\ request' = NoRequest /\ request = NoRequest
      BY <2>1 DEF Resize, StartResize, Ready, table, MapInv, Calls
    <3> QED
      BY <2>1, <3>1, MapUnchanged
  <2> QED
    BY <1>1, <1>6, <2>1, NewStep
<1>7. CASE NewFails /\ Returns("new", NULL, NULL)
  <2>1. Abstract!NewFails
    BY <1>7, QuietStep DEF NewFails, table, Abstract!NewFails, Abstract!Returned, Returns
  <2> QED
    BY <2>1 DEF Abstract!Next
<1>8. CASE Destroy /\ Returns("destroy", NULL, NULL)
  BY <1>1, <1>8, DestroyStep DEF Abstract!Next
<1>9. CASE ResizeRefused /\ Returns("resize", NULL, NULL)
  <2>1. Abstract!Resize
    BY <1>9, QuietStep DEF ResizeRefused, Answer, Ready, table,
                           Abstract!Resize, Abstract!Returned, Returns
  <2> QED
    BY <2>1 DEF Abstract!Next
<1>10. CASE Step /\ ReturnsAtEnd
  BY <1>1, <1>10, StepImplements DEF Abstract!Next
<1> QED
  BY <1>2, <1>3, <1>4, <1>5, <1>6, <1>7, <1>8, <1>9, <1>10 DEF CNext, Abstract!Next

\* The table is a map, call by call: lh_get, lh_exists, lh_set and lh_delete of
\* a key answer what the earlier calls left for that key, set and delete change
\* that key alone, lh_insert adds the key and the data it was given or changes
\* nothing, and resizes, dummies and failed calls are not seen.  This is
\* ImplementsKeyMap without its promise that every insert is answered.
THEOREM MapImplemented == CSpec => Abstract!Safety
<1>1. CInit => Abstract!Init
  <2> SUFFICES ASSUME CInit PROVE Abstract!Init
    OBVIOUS
  <2>1. Represents(Stored, entries, size)
    BY InitLInv, StoredRepresents DEF CInit
  <2>2. KeysIn(entries, size) = {}
    BY CallocSound DEF CInit, Init, KeysIn
  <2>3. Stored = Abstract!Empty
    BY <2>1, <2>2 DEF Represents, Abstract!Empty
  <2> QED
    BY <2>3 DEF CInit, Init, Abstract!Init
<1> QED
  BY <1>1, NextImplements, InvariantMapInv, PTL DEF CSpec, Abstract!Safety
=============================================================================
