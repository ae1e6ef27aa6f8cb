--------------------------- MODULE LhTableProofs ---------------------------
(***************************************************************************)
(* The open-addressing table keeps its entries reachable, its keys unique  *)
(* and its count right, for tables of any size, any hash function and any  *)
(* sequence of calls, failing ones included.                               *)
(*                                                                         *)
(* Two arrays can be at stake, the table's and the one that a resize       *)
(* fills, so what is to be kept is said of arrays.                         *)
(***************************************************************************)
EXTENDS LhTable, FiniteSetTheorems, TLAPS

KeyedIn(array, n) == {slot \in Slots(n) : array[slot].state = "occupied" /\ array[slot].key # NULL}

Hashed(array, n) == \A slot \in KeyedIn(array, n) : array[slot].hash = Hash[array[slot].key]

Unique(array, n) == \A a, b \in KeyedIn(array, n) : array[a].key = array[b].key => a = b

Sound(array, n) == Reachable(array, n) /\ Hashed(array, n) /\ Unique(array, n)

\* No entry has this key.
Missing(key, array, n) == \A slot \in KeyedIn(array, n) : array[slot].key # key

\* The entries that the loop of a resize has copied.
Copied == {slot \in KeyedIn(entries, size) : slot < i}

\* The new array holds copies of entries that the loop has passed, has room for
\* all entries, and has as many with a key as the loop has passed.
Resizing ==
  /\ pc # "resize" => i = 0
  /\ pc = "resize" =>
       /\ n_elems < new_size
       /\ Sound(new_entries, new_size)
       /\ \A slot \in Slots(new_size) : new_entries[slot].state # "empty" =>
            \E j \in Slots(size) :
              j < i /\ entries[j].state = "occupied" /\ new_entries[slot] = entries[j]
       /\ Cardinality(KeyedIn(new_entries, new_size)) = Cardinality(Copied)

\* An insert that goes on has a key that is not there, and room for it.
Storing ==
  /\ pc = "store" => request # NoRequest /\ n_elems < size
  /\ (pc \in {"resize", "store"} /\ request # NoRequest) => Missing(request.key, entries, size)

LInv == TypeOK /\ Sound(entries, size) /\ CountMatches /\ Resizing /\ Storing
-----------------------------------------------------------------------------
\* How far the search for a hash goes to a slot, without the remainder.
LEMMA DistanceValue ==
  ASSUME NEW n \in Nat \ {0}, NEW hash \in Nat, NEW slot \in Slots(n)
  PROVE  /\ lh_pos(hash, n) \in Slots(n)
         /\ Distance(hash, slot, n) =
              IF slot >= lh_pos(hash, n) THEN slot - lh_pos(hash, n)
              ELSE slot - lh_pos(hash, n) + n
<1> DEFINE pos == lh_pos(hash, n)
<1>1. pos \in Slots(n)
  BY DEF lh_pos, Slots
<1> HIDE DEF pos
<1>2. CASE slot >= pos
  BY <1>1, <1>2 DEF Slots, Distance, pos
<1>3. CASE slot < pos
  BY <1>1, <1>3 DEF Slots, Distance, pos
<1> QED
  BY <1>1, <1>2, <1>3 DEF Slots, pos

\* A search comes to every slot once.
LEMMA DistanceInjective ==
  ASSUME NEW n \in Nat \ {0}, NEW hash \in Nat, NEW a \in Slots(n), NEW b \in Slots(n)
  PROVE  /\ Distance(hash, a, n) \in Nat
         /\ Distance(hash, a, n) = Distance(hash, b, n) => a = b
<1> DEFINE pos == lh_pos(hash, n)
           Value(slot) == IF slot >= pos THEN slot - pos ELSE slot - pos + n
<1>1. pos \in Slots(n) /\ Distance(hash, a, n) = Value(a) /\ Distance(hash, b, n) = Value(b)
  BY DistanceValue
<1> HIDE DEF pos
<1> QED
  BY <1>1 DEF Slots

\* One of some slots is the first that a search comes to, and only one.
LEMMA NearestExists ==
  ASSUME NEW n \in Nat \ {0}, NEW hash \in Nat, NEW slots \in SUBSET Slots(n), slots # {}
  PROVE  \E slot \in slots : Nearest(slots, hash, n) = {slot}
<1> DEFINE distances == {Distance(hash, slot, n) : slot \in slots}
<1>1. distances \subseteq Nat /\ distances # {}
  BY DistanceInjective
<1>2. PICK d \in distances : \A e \in distances : ~ (<<e, d>> \in OpToRel(<, Nat))
  BY <1>1, NatLessThanWellFounded, WFMin
<1>3. PICK slot \in slots : d = Distance(hash, slot, n)
  BY <1>2
<1>4. ASSUME NEW other \in slots
      PROVE  Distance(hash, slot, n) <= Distance(hash, other, n)
  <2>1. Distance(hash, other, n) \in distances
    OBVIOUS
  <2>2. d \in Nat /\ Distance(hash, other, n) \in Nat
    BY <1>1, <2>1
  <2>3. ~ (Distance(hash, other, n) < d)
    BY <1>2, <2>1, <2>2 DEF OpToRel
  <2> QED
    BY <1>3, <2>2, <2>3
<1>5. slot \in Nearest(slots, hash, n)
  BY <1>4, DistanceInjective DEF Nearest, Before
<1>6. ASSUME NEW other \in Nearest(slots, hash, n) PROVE other = slot
  BY <1>4, DistanceInjective DEF Nearest, Before
<1> QED
  BY <1>5, <1>6

LEMMA CountBound ==
  ASSUME NEW n \in Nat, NEW slots \in SUBSET Slots(n)
  PROVE  IsFiniteSet(slots) /\ Cardinality(slots) \in 0 .. n
<1>1. IsFiniteSet(Slots(n)) /\ Cardinality(Slots(n)) = n
  BY FS_Interval DEF Slots
<1> QED
  BY <1>1, FS_Subset, FS_CardinalityType

LEMMA EntryTypes ==
  /\ EmptyEntry \in Entry /\ DummyEntry \in Entry
  /\ \A n \in Nat : Calloc(n) \in [Slots(n) -> Entry]
BY LhAssumption DEF EmptyEntry, DummyEntry, Entry, Calloc

LEMMA CallocSound ==
  ASSUME NEW n \in Nat
  PROVE  Sound(Calloc(n), n) /\ KeyedIn(Calloc(n), n) = {}
BY DEF Sound, Reachable, Hashed, Unique, KeyedIn, Calloc, EmptyEntry

\* An occupied entry may go to one of the free slots: all empty slots are free,
\* no occupied slot is, and its key, if it has one, is not there.
MayPlace(entry, free, array, n) ==
  /\ \A slot \in Slots(n) : array[slot].state = "empty" => slot \in free
  /\ \A slot \in free : array[slot].state # "occupied"
  /\ entry.state = "occupied"
  /\ entry.key # NULL => entry.hash = Hash[entry.key] /\ Missing(entry.key, array, n)

\* An entry that is placed in the first free slot of its search is reachable,
\* and so are the others.
LEMMA PlacedSound ==
  ASSUME NEW n \in Nat \ {0}, NEW array \in [Slots(n) -> Entry], Sound(array, n),
         NEW free \in SUBSET Slots(n), NEW entry \in Entry,
         MayPlace(entry, free, array, n), Nearest(free, entry.hash, n) # {}
  PROVE  /\ Placed(array, Nearest(free, entry.hash, n), entry) \in [Slots(n) -> Entry]
         /\ Sound(Placed(array, Nearest(free, entry.hash, n), entry), n)
         /\ entry.key = NULL =>
              Cardinality(KeyedIn(Placed(array, Nearest(free, entry.hash, n), entry), n)) =
              Cardinality(KeyedIn(array, n))
         /\ entry.key # NULL =>
              Cardinality(KeyedIn(Placed(array, Nearest(free, entry.hash, n), entry), n)) =
              Cardinality(KeyedIn(array, n)) + 1
<1> USE DEF MayPlace
<1> DEFINE place == Nearest(free, entry.hash, n)
           new == Placed(array, place, entry)
<1>1. entry.hash \in Nat /\ free # {}
  BY DEF Entry, Nearest
<1>2. PICK p \in free : place = {p}
  BY <1>1, NearestExists
<1>3. /\ p \in Slots(n)
      /\ new = [slot \in Slots(n) |-> IF slot = p THEN entry ELSE array[slot]]
  BY <1>2 DEF Placed
<1>4. new \in [Slots(n) -> Entry]
  BY <1>3
<1> HIDE DEF new
<1>5. free \cap Before(entry.hash, p, n) = {}
  BY <1>2 DEF Nearest
<1>6. Reachable(new, n)
  <2> SUFFICES ASSUME NEW slot \in Slots(n), new[slot].state = "occupied",
                      NEW other \in Before(new[slot].hash, slot, n)
               PROVE  new[other].state # "empty"
    BY DEF Reachable
  <2>1. other \in Slots(n)
    BY DEF Before
  <2>2. CASE other = p
    BY <2>2, <1>3
  <2>3. CASE other # p /\ slot = p
    BY <2>1, <2>3, <1>3, <1>5
  <2>4. CASE other # p /\ slot # p
    BY <2>1, <2>4, <1>3 DEF Sound, Reachable
  <2> QED
    BY <2>2, <2>3, <2>4
<1>7. p \notin KeyedIn(array, n)
  BY DEF KeyedIn
<1>8. /\ entry.key = NULL => KeyedIn(new, n) = KeyedIn(array, n)
      /\ entry.key # NULL => KeyedIn(new, n) = KeyedIn(array, n) \cup {p}
  BY <1>3, <1>7 DEF KeyedIn
<1>9. Hashed(new, n)
  <2> SUFFICES ASSUME NEW slot \in KeyedIn(new, n)
               PROVE  new[slot].hash = Hash[new[slot].key]
    BY DEF Hashed
  <2>1. CASE slot = p
    BY <2>1, <1>3 DEF KeyedIn
  <2>2. CASE slot # p
    BY <2>2, <1>3, <1>8 DEF Sound, Hashed, KeyedIn
  <2> QED
    BY <2>1, <2>2
<1>10. Unique(new, n)
  <2> SUFFICES ASSUME NEW a \in KeyedIn(new, n), NEW b \in KeyedIn(new, n),
                      new[a].key = new[b].key
               PROVE  a = b
    BY DEF Unique
  <2>1. a \in Slots(n) /\ b \in Slots(n)
    BY DEF KeyedIn
  <2>2. CASE a # p /\ b # p
    <3>1. a \in KeyedIn(array, n) /\ b \in KeyedIn(array, n)
      BY <2>2, <1>8
    <3> QED
      BY <2>1, <2>2, <3>1, <1>3 DEF Sound, Unique
  <2>3. ASSUME NEW c \in KeyedIn(new, n), c # p, p \in KeyedIn(new, n)
        PROVE  new[c].key # new[p].key
    <3>1. entry.key # NULL /\ new[p] = entry
      BY <1>3, <2>3 DEF KeyedIn
    <3>2. c \in KeyedIn(array, n) /\ c \in Slots(n)
      BY <2>3, <1>8 DEF KeyedIn
    <3>3. new[c] = array[c]
      BY <3>2, <2>3, <1>3
    <3> QED
      BY <3>1, <3>2, <3>3 DEF Missing
  <2> QED
    BY <2>2, <2>3
<1>11. /\ entry.key = NULL => Cardinality(KeyedIn(new, n)) = Cardinality(KeyedIn(array, n))
       /\ entry.key # NULL => Cardinality(KeyedIn(new, n)) = Cardinality(KeyedIn(array, n)) + 1
  <2>1. IsFiniteSet(KeyedIn(array, n))
    <3>1. KeyedIn(array, n) \in SUBSET Slots(n)
      BY DEF KeyedIn
    <3> QED
      BY <3>1, CountBound
  <2> QED
    BY <1>7, <1>8, <2>1, FS_AddElement
<1> QED
  BY <1>4, <1>6, <1>9, <1>10, <1>11 DEF Sound, new

\* A lookup that does not crash finds the key's entry if there is one, and
\* nothing else.
LEMMA LookupFinds ==
  ASSUME LInv, NEW key \in Keys, ~ Crashes(key), size > 0
  PROVE  /\ Found(key) = {} => Missing(key, entries, size)
         /\ Found(key) # {} =>
              \E slot \in KeyedIn(entries, size) :
                Found(key) = {slot} /\ entries[slot].key = key
<1> DEFINE stops == {slot \in Slots(size) : Stops(entries[slot])}
           alike == {slot \in Slots(size) :
                       entries[slot].state = "occupied" /\ Alike(entries[slot], key)}
           ends == {slot \in Slots(size) :
                      \/ Stops(entries[slot])
                      \/ entries[slot].state = "occupied" /\ Alike(entries[slot], key)}
<1>1. size \in Nat \ {0} /\ Hash[key] \in Nat /\ key # NULL
  BY LhAssumption DEF LInv, TypeOK
<1>2. Found(key) = Nearest(ends, Hash[key], size) \ stops /\ ends = stops \cup alike
  BY DEF Found
<1>3. Reachable(entries, size) /\ Hashed(entries, size)
  BY DEF LInv, Sound
<1>4. ASSUME Found(key) = {} PROVE Missing(key, entries, size)
  <2> SUFFICES ASSUME NEW slot \in KeyedIn(entries, size), entries[slot].key = key
               PROVE  FALSE
    BY DEF Missing
  <2>1. slot \in alike /\ slot \in Slots(size) /\ entries[slot].hash = Hash[key]
    BY <1>3 DEF KeyedIn, Hashed, Alike
  <2>2. PICK end \in ends : Nearest(ends, Hash[key], size) = {end}
    <3>1. ends \in SUBSET Slots(size) /\ ends # {}
      BY <2>1
    <3> QED
      BY <1>1, <3>1, NearestExists
  <2>3. end \in stops /\ end \in Slots(size) /\ entries[end].state = "empty"
    BY <1>2, <1>4, <2>2 DEF Stops
  <2>4. slot \notin Before(Hash[key], end, size)
    BY <2>1, <2>2 DEF Nearest
  <2>5. end \notin Before(Hash[key], slot, size)
    BY <1>3, <2>1, <2>3 DEF Reachable, KeyedIn
  <2>6. slot = end
    <3>1. /\ Distance(Hash[key], slot, size) \in Nat
          /\ Distance(Hash[key], end, size) \in Nat
          /\ Distance(Hash[key], slot, size) = Distance(Hash[key], end, size) => slot = end
      BY <1>1, <2>1, <2>3, DistanceInjective
    <3> QED
      BY <2>1, <2>3, <2>4, <2>5, <3>1 DEF Before
  <2> QED
    BY <2>3, <2>6 DEF KeyedIn
<1>5. ASSUME Found(key) # {}
      PROVE  \E slot \in KeyedIn(entries, size) : Found(key) = {slot} /\ entries[slot].key = key
  <2>1. ends \in SUBSET Slots(size) /\ ends # {}
    BY <1>2, <1>5 DEF Nearest
  <2>2. PICK end \in ends : Nearest(ends, Hash[key], size) = {end}
    BY <1>1, <2>1, NearestExists
  <2>3. Found(key) = {end} /\ end \in alike
    BY <1>2, <1>5, <2>2
  <2>4. entries[end].key # NULL
    BY <2>3 DEF Crashes
  <2> QED
    BY <2>3, <2>4 DEF Alike, KeyedIn
<1> QED
  BY <1>4, <1>5
-----------------------------------------------------------------------------
LEMMA CountOfKeyed == CountMatches <=> n_elems = Cardinality(KeyedIn(entries, size))
<1>1. Keyed = KeyedIn(entries, size)
  BY DEF Keyed, Occupied, KeyedIn
<1> QED
  BY <1>1 DEF CountMatches

LEMMA InitLInv == Init => LInv
<1> SUFFICES ASSUME Init PROVE LInv
  OBVIOUS
<1>1. TypeOK
  <2>1. new_entries \in [Slots(new_size) -> Entry] /\ entries \in [Slots(size) -> Entry]
    BY EntryTypes DEF Init
  <2>2. crashed \in BOOLEAN
    BY Zenon DEF Init
  <2> QED
    BY <2>1, <2>2 DEF Init, TypeOK, LH_DEFAULT_THRESHOLD
<1>2. Sound(entries, size) /\ KeyedIn(entries, size) = {}
  BY CallocSound DEF Init
<1>3. CountMatches
  BY <1>2, CountOfKeyed, FS_EmptySet DEF Init
<1> QED
  BY <1>1, <1>2, <1>3 DEF Init, LInv, Resizing, Storing

\* A step that leaves the table and the resize alone.
LEMMA AnswerLInv ==
  ASSUME LInv, crashed' \in BOOLEAN, UNCHANGED <<table, pc, request, resizing>>
  PROVE  LInv'
<1> USE DEF table, resizing
<1>1. TypeOK'
  BY DEF LInv, TypeOK
<1>2. Sound(entries, size)' /\ CountMatches'
  BY DEF LInv, CountMatches, Keyed, Occupied
<1>3. Resizing' /\ Storing'
  BY DEF LInv, Resizing, Storing, Copied
<1> QED
  BY <1>1, <1>2, <1>3 DEF LInv

\* A step that ends a call, or changes an idle table, has only the table to
\* keep in order.
LEMMA IdleLInv ==
  ASSUME TypeOK', Sound(entries', size'), n_elems' = Cardinality(KeyedIn(entries', size')),
         pc' \in {"none", "idle"}, i' = 0
  PROVE  LInv'
<1>1. CountMatches'
  BY DEF CountMatches, Keyed, Occupied, KeyedIn
<1> QED
  BY <1>1 DEF LInv, Resizing, Storing

LEMMA NewLInv ==
  ASSUME LInv, NEW n \in Sizes, New(n)
  PROVE  LInv'
<1> USE DEF New
<1>1. n \in Nat \ {0}
  BY LhAssumption
<1>2. TypeOK' /\ i' = 0
  <2>1. entries' \in [Slots(size') -> Entry]
    BY <1>1, EntryTypes
  <2> QED
    BY <1>1, <2>1 DEF LInv, TypeOK, Resizing, LH_DEFAULT_THRESHOLD, resizing
<1>3. Sound(entries', size') /\ KeyedIn(entries', size') = {}
  BY <1>1, CallocSound
<1> QED
  BY <1>2, <1>3, IdleLInv, FS_EmptySet

LEMMA DestroyLInv ==
  ASSUME LInv, Destroy
  PROVE  LInv'
<1> USE DEF Destroy
<1>1. TypeOK' /\ i' = 0
  <2>1. entries' \in [Slots(size') -> Entry]
    BY EntryTypes
  <2> QED
    BY <2>1 DEF LInv, TypeOK, Resizing, Ready, LH_DEFAULT_THRESHOLD, resizing
<1>2. Sound(entries', size') /\ KeyedIn(entries', size') = {}
  BY CallocSound
<1> QED
  BY <1>1, <1>2, IdleLInv, FS_EmptySet

LEMMA SetLInv ==
  ASSUME LInv, NEW key \in Keys, NEW data \in Data, Set(key, data)
  PROVE  LInv'
<1> USE DEF Set
<1>1. size \in Nat /\ entries \in [Slots(size) -> Entry] /\ size' = size
  BY DEF LInv, TypeOK
<1>2. entries' \in [Slots(size) -> Entry]
  BY <1>1 DEF Entry
<1>3. \A slot \in Slots(size) : /\ entries'[slot].state = entries[slot].state
                                /\ entries'[slot].hash = entries[slot].hash
                                /\ entries'[slot].key = entries[slot].key
  BY <1>1 DEF Entry
<1>4. KeyedIn(entries', size') = KeyedIn(entries, size)
  BY <1>1, <1>3 DEF KeyedIn
<1>5. Sound(entries', size')
  <2>1. Reachable(entries', size')
    BY <1>1, <1>3 DEF LInv, Sound, Reachable, Before
  <2>2. Hashed(entries', size') /\ Unique(entries', size')
    BY <1>1, <1>3, <1>4 DEF LInv, Sound, Hashed, Unique, KeyedIn
  <2> QED
    BY <2>1, <2>2 DEF Sound
<1>6. TypeOK' /\ i' = 0 /\ pc' = "idle"
  BY <1>1, <1>2 DEF LInv, TypeOK, Resizing, CanLookUp, Ready, resizing
<1> QED
  BY <1>4, <1>5, <1>6, IdleLInv, CountOfKeyed DEF LInv

LEMMA DeleteLInv ==
  ASSUME LInv, NEW key \in Keys, Delete(key)
  PROVE  LInv'
<1> USE DEF Delete
<1>1. /\ size \in Nat /\ size > 0 /\ entries \in [Slots(size) -> Entry] /\ size' = size
      /\ pc = "idle" /\ n_elems \in 0 .. size
  BY DEF LInv, TypeOK, CanLookUp, Ready
<1>2. PICK p \in KeyedIn(entries, size) : Found(key) = {p}
  BY <1>1, LookupFinds DEF CanLookUp
<1>3. entries' = [slot \in Slots(size) |-> IF slot = p THEN DummyEntry ELSE entries[slot]]
  BY <1>2 DEF Deleted
<1>4. KeyedIn(entries', size') = KeyedIn(entries, size) \ {p}
  BY <1>1, <1>3 DEF KeyedIn, DummyEntry
<1>5. Sound(entries', size')
  <2>1. Reachable(entries', size')
    BY <1>1, <1>3 DEF LInv, Sound, Reachable, Before, DummyEntry
  <2>2. Hashed(entries', size') /\ Unique(entries', size')
    BY <1>1, <1>3, <1>4 DEF LInv, Sound, Hashed, Unique, KeyedIn
  <2> QED
    BY <2>1, <2>2 DEF Sound
<1>6. /\ Cardinality(KeyedIn(entries, size)) = n_elems
      /\ Cardinality(KeyedIn(entries', size')) = n_elems - 1
      /\ n_elems - 1 \in 0 .. size
  <2>1. /\ IsFiniteSet(KeyedIn(entries, size)) /\ n_elems = Cardinality(KeyedIn(entries, size))
        /\ Cardinality(KeyedIn(entries', size')) \in Nat
    <3>1. KeyedIn(entries, size) \in SUBSET Slots(size) /\ KeyedIn(entries', size') \in SUBSET Slots(size)
      BY <1>1 DEF KeyedIn
    <3> QED
      BY <1>1, <3>1, CountBound, CountOfKeyed DEF LInv
  <2>2. Cardinality(KeyedIn(entries', size')) = n_elems - 1
    BY <1>2, <1>4, <2>1, FS_RemoveElement
  <2> QED
    BY <1>1, <2>1, <2>2
<1>7. TypeOK' /\ i' = 0
  <2>1. entries' \in [Slots(size) -> Entry]
    BY <1>1, <1>3, EntryTypes
  <2> QED
    BY <1>1, <1>6, <2>1 DEF LInv, TypeOK, Resizing, resizing
<1> QED
  BY <1>1, <1>5, <1>6, <1>7, IdleLInv

LEMMA TuneLInv ==
  ASSUME LInv, NEW t \in Thresholds, Tune(t)
  PROVE  LInv'
<1> USE DEF Tune
<1>1. TypeOK' /\ i' = 0 /\ pc' = "idle"
  BY LhAssumption DEF LInv, TypeOK, Resizing, Ready, resizing
<1> QED
  BY <1>1, IdleLInv, CountOfKeyed DEF LInv

LEMMA StartResizeLInv ==
  ASSUME LInv, NEW n \in Nat, n > n_elems, Ready, NEW req, StartResize(n, req),
         req \in [key : Keys, data : Data] \cup {NoRequest},
         req # NoRequest => Missing(req.key, entries, size)
  PROVE  LInv'
<1> USE DEF StartResize, table
<1>1. Sound(new_entries', new_size') /\ KeyedIn(new_entries', new_size') = {} /\ Copied' = {}
  <2>1. Copied' = {}
    BY DEF Copied, KeyedIn, Slots
  <2> QED
    BY <2>1, CallocSound
<1>2. TypeOK'
  <2>1. new_entries' \in [Slots(new_size') -> Entry]
    BY EntryTypes
  <2> QED
    BY <2>1 DEF LInv, TypeOK, Ready
<1>3. Sound(entries, size)' /\ CountMatches'
  BY DEF LInv, CountMatches, Keyed, Occupied
<1>4. Resizing'
  BY <1>1 DEF Resizing, Calloc, EmptyEntry
<1>5. Storing'
  BY DEF Storing
<1> QED
  BY <1>2, <1>3, <1>4, <1>5 DEF LInv

LEMMA ResizeLInv ==
  ASSUME LInv, NEW n \in Sizes, Resize(n)
  PROVE  LInv'
BY LhAssumption, StartResizeLInv DEF Resize

LEMMA InsertResizesLInv ==
  ASSUME LInv, NEW key \in Keys, NEW data \in Data, InsertResizes(key, data)
  PROVE  LInv'
<1> DEFINE n == size * LH_SCALING_FACTOR
           req == [key |-> key, data |-> data]
<1>1. Ready /\ StartResize(n, req) /\ size > 0
  BY DEF InsertResizes, CanLookUp, Ready, LInv, TypeOK
<1>2. n \in Nat /\ n > n_elems
  BY <1>1 DEF LInv, TypeOK, LH_SCALING_FACTOR
<1>3. Missing(req.key, entries, size)
  BY <1>1, LookupFinds DEF InsertResizes, CanLookUp
<1> QED
  BY <1>1, <1>2, <1>3, StartResizeLInv

\* A load below the threshold leaves a slot for one more entry.
LEMMA LoadLeavesRoom ==
  ASSUME TypeOK, size > 0, ~ AtThreshold
  PROVE  n_elems < size
<1>1. \A m \in Nat \ {0} : (m * 10) \div m = 10
  OBVIOUS
<1> QED
  BY <1>1 DEF TypeOK, AtThreshold, lh_load

LEMMA InsertGoesOnLInv ==
  ASSUME LInv, NEW key \in Keys, NEW data \in Data, InsertGoesOn(key, data)
  PROVE  LInv'
<1> USE DEF InsertGoesOn, table, resizing
<1>1. pc = "idle" /\ size > 0 /\ ~ Crashes(key) /\ key # NULL
  BY LhAssumption DEF CanLookUp, Ready, LInv, TypeOK
<1>2. TypeOK'
  BY <1>1 DEF LInv, TypeOK
<1>3. Sound(entries, size)' /\ CountMatches'
  BY DEF LInv, CountMatches, Keyed, Occupied
<1>4. n_elems < size
  BY <1>1, LoadLeavesRoom DEF LInv
<1>5. Missing(key, entries, size)
  BY <1>1, LookupFinds
<1>6. Resizing'
  BY <1>1 DEF LInv, Resizing
<1>7. Storing'
  BY <1>1, <1>4, <1>5 DEF Storing, NoRequest
<1> QED
  BY <1>2, <1>3, <1>6, <1>7 DEF LInv
-----------------------------------------------------------------------------
\* The rounds of the loop.
LEMMA SkipSlotLInv ==
  ASSUME LInv, SkipSlot
  PROVE  LInv'
<1> USE DEF SkipSlot, table
<1>1. TypeOK'
  BY DEF LInv, TypeOK
<1>2. Sound(entries, size)' /\ CountMatches'
  BY DEF LInv, CountMatches, Keyed, Occupied
<1>3. Copied' = Copied
  BY DEF Copied, KeyedIn, Skipped, Slots, LInv, TypeOK
<1>4. Resizing'
  <2>1. /\ pc' = "resize" /\ n_elems' < new_size'
        /\ Sound(new_entries', new_size')
        /\ Cardinality(KeyedIn(new_entries', new_size')) = Cardinality(Copied')
    BY <1>3 DEF LInv, Resizing
  <2>2. ASSUME NEW slot \in Slots(new_size), new_entries[slot].state # "empty"
        PROVE  \E j \in Slots(size) :
                 j < i' /\ entries[j].state = "occupied" /\ new_entries[slot] = entries[j]
    BY <2>2 DEF LInv, TypeOK, Resizing, Slots
  <2> QED
    BY <2>1, <2>2 DEF Resizing
<1>5. Storing'
  BY DEF LInv, Storing
<1> QED
  BY <1>1, <1>2, <1>4, <1>5 DEF LInv

LEMMA CopySlotLInv ==
  ASSUME LInv, CopySlot
  PROVE  LInv'
<1> USE DEF CopySlot, table
<1> DEFINE entry == entries[i]
           free == {slot \in Slots(new_size) : new_entries[slot].state = "empty"}
<1>1. /\ size \in Nat /\ i \in Slots(size) /\ entries \in [Slots(size) -> Entry]
      /\ new_size \in Nat \ {0} /\ new_entries \in [Slots(new_size) -> Entry]
      /\ entry \in Entry /\ entry.state = "occupied" /\ i' = i + 1
  <2>1. size \in Nat /\ i \in Slots(size) /\ entries \in [Slots(size) -> Entry]
    BY DEF LInv, TypeOK, Slots
  <2>2. new_size \in Nat \ {0} /\ new_entries \in [Slots(new_size) -> Entry]
    BY DEF LInv, TypeOK, Resizing
  <2> QED
    BY <2>1, <2>2 DEF Skipped
<1>2. /\ Sound(new_entries, new_size)
      /\ \A slot \in Slots(new_size) : new_entries[slot].state # "empty" =>
           \E j \in Slots(size) :
             j < i /\ entries[j].state = "occupied" /\ new_entries[slot] = entries[j]
      /\ Cardinality(KeyedIn(new_entries, new_size)) = Cardinality(Copied)
      /\ n_elems < new_size
  BY DEF LInv, Resizing
<1>3. Hashed(entries, size) /\ Unique(entries, size)
  BY DEF LInv, Sound
<1>4. entry.key # NULL => entry.hash = Hash[entry.key] /\ Missing(entry.key, new_entries, new_size)
  <2> SUFFICES ASSUME entry.key # NULL
               PROVE  entry.hash = Hash[entry.key] /\ Missing(entry.key, new_entries, new_size)
    OBVIOUS
  <2>1. i \in KeyedIn(entries, size)
    BY <1>1 DEF KeyedIn
  <2>2. ASSUME NEW slot \in KeyedIn(new_entries, new_size), new_entries[slot].key = entry.key
        PROVE  FALSE
    <3>1. PICK j \in Slots(size) :
            j < i /\ entries[j].state = "occupied" /\ new_entries[slot] = entries[j]
      BY <1>2 DEF KeyedIn
    <3>2. j \in KeyedIn(entries, size) /\ entries[j].key = entries[i].key
      BY <2>2, <3>1 DEF KeyedIn
    <3>3. j = i
      BY <1>3, <2>1, <3>2 DEF Unique
    <3> QED
      BY <1>1, <3>1, <3>3 DEF Slots
  <2> QED
    BY <1>3, <2>1, <2>2 DEF Hashed, Missing
<1>5. /\ new_entries' = Placed(new_entries, NewPlace, entry) /\ NewPlace # {}
      /\ NewPlace = Nearest(free, entry.hash, new_size)
  BY DEF NewPlace
<1>6. free \in SUBSET Slots(new_size)
  OBVIOUS
<1>7. /\ new_entries' \in [Slots(new_size) -> Entry]
      /\ Sound(new_entries', new_size)
      /\ entry.key = NULL =>
           Cardinality(KeyedIn(new_entries', new_size)) =
           Cardinality(KeyedIn(new_entries, new_size))
      /\ entry.key # NULL =>
           Cardinality(KeyedIn(new_entries', new_size)) =
           Cardinality(KeyedIn(new_entries, new_size)) + 1
  <2>1. MayPlace(entry, free, new_entries, new_size)
    BY <1>1, <1>4 DEF MayPlace
  <2> HIDE DEF free, entry, CopySlot, table
  <2>2. /\ new_size \in Nat \ {0} /\ new_entries \in [Slots(new_size) -> Entry]
        /\ entry \in Entry /\ Sound(new_entries, new_size)
        /\ Nearest(free, entry.hash, new_size) # {}
    BY <1>1, <1>2, <1>5
  <2> DEFINE place == Nearest(free, entry.hash, new_size)
  <2>3. /\ Placed(new_entries, place, entry) \in [Slots(new_size) -> Entry]
        /\ Sound(Placed(new_entries, place, entry), new_size)
        /\ entry.key = NULL =>
             Cardinality(KeyedIn(Placed(new_entries, place, entry), new_size)) =
             Cardinality(KeyedIn(new_entries, new_size))
        /\ entry.key # NULL =>
             Cardinality(KeyedIn(Placed(new_entries, place, entry), new_size)) =
             Cardinality(KeyedIn(new_entries, new_size)) + 1
    BY <1>6, <2>1, <2>2, PlacedSound
  <2> QED
    BY <1>5, <2>3
<1>9. TypeOK'
  <2>1. i' \in 0 .. size
    BY <1>1 DEF Slots
  <2> HIDE DEF free, entry
  <2> QED
    BY <1>7, <2>1 DEF LInv, TypeOK
<1>10. Sound(entries, size)' /\ CountMatches'
  BY DEF LInv, CountMatches, Keyed, Occupied
<1>11. Cardinality(KeyedIn(new_entries', new_size)) = Cardinality(Copied')
  <2>1. Copied' = IF entry.key = NULL THEN Copied ELSE Copied \cup {i}
    BY <1>1 DEF Copied, KeyedIn, Slots
  <2>2. i \notin Copied
    BY <1>1 DEF Copied, Slots
  <2>3. IsFiniteSet(Copied)
    <3>1. Copied \in SUBSET Slots(size)
      BY DEF KeyedIn, Copied
    <3> QED
      BY <1>1, <3>1, CountBound
  <2>4. entry.key # NULL => Cardinality(Copied \cup {i}) = Cardinality(Copied) + 1
    BY <2>2, <2>3, FS_AddElement
  <2> HIDE DEF entry
  <2> QED
    BY <1>2, <1>7, <2>1, <2>4
<1>12. ASSUME NEW slot \in Slots(new_size), new_entries'[slot].state # "empty"
       PROVE  \E j \in Slots(size) :
                j < i' /\ entries[j].state = "occupied" /\ new_entries'[slot] = entries[j]
  <2>1. CASE slot \in NewPlace
    BY <1>1, <1>5, <2>1 DEF Slots, Placed
  <2>2. CASE slot \notin NewPlace
    <3>1. new_entries'[slot] = new_entries[slot]
      BY <1>1, <1>5, <2>2 DEF Placed
    <3> QED
      BY <1>1, <1>2, <1>12, <3>1 DEF Slots
  <2> QED
    BY <2>1, <2>2
<1>13. Resizing'
  BY <1>2, <1>7, <1>11, <1>12 DEF Resizing
<1>14. Storing'
  BY DEF LInv, Storing
<1> QED
  BY <1>9, <1>10, <1>13, <1>14 DEF LInv

\* A call that ends and leaves the table as it was.
LEMMA ReturnLInv ==
  ASSUME LInv, NEW r, pc # "none", Return(r), UNCHANGED table
  PROVE  LInv'
<1> USE DEF Return, table
<1>1. TypeOK'
  <2>1. new_entries' \in [Slots(new_size') -> Entry]
    BY EntryTypes
  <2>2. /\ pc' = "idle" /\ request' = NoRequest /\ new_size' = 0 /\ i' = 0
        /\ UNCHANGED crashed /\ UNCHANGED <<entries, size, n_elems, threshold>>
    OBVIOUS
  <2> HIDE DEF Return
  <2>3. i' \in 0 .. size' /\ (pc' # "none" => size' > 0)
    BY <2>2 DEF LInv, TypeOK
  <2> QED
    BY <2>1, <2>2, <2>3 DEF LInv, TypeOK
<1> QED
  BY <1>1, IdleLInv, CountOfKeyed DEF LInv

LEMMA SwapLInv ==
  ASSUME LInv, Swap
  PROVE  LInv'
<1> USE DEF Swap
<1>1. /\ pc = "resize" /\ i = size /\ size \in Nat /\ n_elems \in Nat
      /\ entries' = new_entries /\ size' = new_size /\ n_elems' = n_elems
      /\ new_size \in Nat /\ n_elems < new_size
  BY DEF SizeAfterSwap, LInv, TypeOK, Resizing
<1>2. Sound(entries', size')
  BY <1>1 DEF LInv, Resizing
<1>3. n_elems' = Cardinality(KeyedIn(entries', size'))
  <2>1. Copied = KeyedIn(entries, size)
    BY <1>1 DEF Copied, KeyedIn, Slots
  <2> QED
    BY <1>1, <2>1, CountOfKeyed DEF LInv, Resizing
<1>4. TypeOK' /\ i' = 0
  <2>1. new_entries' \in [Slots(new_size') -> Entry] /\ i' = 0 /\ crashed' = crashed
    BY EntryTypes DEF Return
  <2>2. request' \in {request, NoRequest} /\ pc' \in {"idle", "store"}
    BY DEF Return
  <2>3. /\ n_elems' \in 0 .. size' /\ size' > 0 /\ i' \in 0 .. size'
        /\ new_size' \in Nat /\ threshold' = threshold
    BY <1>1, <2>1 DEF Return
  <2>4. entries' \in [Slots(size') -> Entry]
    BY <1>1 DEF LInv, TypeOK
  <2> HIDE DEF Swap
  <2> QED
    BY <1>1, <2>1, <2>2, <2>3, <2>4 DEF LInv, TypeOK
<1>5. CASE request = NoRequest /\ Return(1)
  BY <1>2, <1>3, <1>4, <1>5, IdleLInv DEF Return
<1>6. CASE request # NoRequest /\ pc' = "store" /\ request' = request
  <2>1. CountMatches'
    BY <1>3 DEF CountMatches, Keyed, Occupied, KeyedIn
  <2>2. Missing(request.key, entries', size')
    <3> SUFFICES ASSUME NEW slot \in KeyedIn(new_entries, new_size),
                        new_entries[slot].key = request.key
                 PROVE  FALSE
      BY <1>1 DEF Missing
    <3>1. PICK j \in Slots(size) : entries[j].state = "occupied" /\ new_entries[slot] = entries[j]
      BY <1>1 DEF LInv, Resizing, KeyedIn
    <3>2. j \in KeyedIn(entries, size)
      BY <3>1 DEF KeyedIn
    <3> QED
      BY <1>1, <1>6, <3>1, <3>2 DEF LInv, Storing, Missing
  <2>3. Resizing' /\ Storing'
    BY <1>1, <1>4, <1>6, <2>2 DEF Resizing, Storing
  <2> QED
    BY <1>2, <1>4, <2>1, <2>3 DEF LInv
<1> QED
  BY <1>5, <1>6
-----------------------------------------------------------------------------
\* The end of an insert, with the key or, when its copy failed, without.
LEMMA StoreSound ==
  ASSUME LInv, pc = "store", Place # {}, NEW key, key \in {request.key, NULL}, Store(key)
  PROVE  /\ entries' \in [Slots(size) -> Entry]
         /\ Sound(entries', size)
         /\ key = NULL => Cardinality(KeyedIn(entries', size)) = n_elems
         /\ key # NULL => Cardinality(KeyedIn(entries', size)) = n_elems + 1
<1> DEFINE hash == Hash[request.key]
           entry == [state |-> "occupied", hash |-> hash, key |-> key, data |-> request.data]
           free == {slot \in Slots(size) : entries[slot].state # "occupied"}
<1>1. request.key \in Keys /\ request.data \in Data /\ request.key # NULL
  BY LhAssumption DEF LInv, TypeOK, Storing
<1>2. /\ size \in Nat \ {0} /\ entries \in [Slots(size) -> Entry] /\ n_elems \in Nat
      /\ Sound(entries, size) /\ Cardinality(KeyedIn(entries, size)) = n_elems
      /\ Missing(request.key, entries, size)
  BY CountOfKeyed DEF LInv, TypeOK, Storing
<1>3. entry \in Entry /\ entry.hash = hash /\ entry.key = key
  BY <1>1, LhAssumption DEF Entry
<1>4. MayPlace(entry, free, entries, size)
  BY <1>1, <1>2 DEF MayPlace
<1>5. /\ entries' = Placed(entries, Nearest(free, entry.hash, size), entry)
      /\ Nearest(free, entry.hash, size) # {} /\ free \in SUBSET Slots(size)
  BY DEF Store, Place
<1> HIDE DEF entry, free, hash
<1> DEFINE place == Nearest(free, entry.hash, size)
<1>6. /\ Placed(entries, place, entry) \in [Slots(size) -> Entry]
      /\ Sound(Placed(entries, place, entry), size)
      /\ entry.key = NULL =>
           Cardinality(KeyedIn(Placed(entries, place, entry), size)) =
           Cardinality(KeyedIn(entries, size))
      /\ entry.key # NULL =>
           Cardinality(KeyedIn(Placed(entries, place, entry), size)) =
           Cardinality(KeyedIn(entries, size)) + 1
  BY <1>2, <1>3, <1>4, <1>5, PlacedSound
<1> QED
  BY <1>2, <1>3, <1>5, <1>6

LEMMA StoreEntryLInv ==
  ASSUME LInv, StoreEntry
  PROVE  LInv'
<1>1. pc = "store" /\ Store(request.key) /\ Place # {} /\ size' = size /\ n_elems' = n_elems + 1
  BY DEF StoreEntry
<1>2. request.key # NULL /\ n_elems \in Nat /\ n_elems + 1 \in 0 .. size /\ size \in Nat
  BY <1>1, LhAssumption DEF LInv, TypeOK, Storing
<1>3. /\ entries' \in [Slots(size') -> Entry] /\ Sound(entries', size')
      /\ n_elems' = Cardinality(KeyedIn(entries', size'))
  BY <1>1, <1>2, StoreSound
<1>4. TypeOK' /\ i' = 0 /\ pc' = "idle"
  <2>1. /\ pc' = "idle" /\ request' = NoRequest /\ new_size' = 0 /\ i' = 0
        /\ UNCHANGED <<size, threshold, crashed>> /\ new_entries' = Calloc(0)
    BY DEF StoreEntry, Return
  <2>2. new_entries' \in [Slots(new_size') -> Entry]
    BY <2>1, EntryTypes
  <2> QED
    BY <1>1, <1>2, <1>3, <2>1, <2>2 DEF LInv, TypeOK
<1> QED
  BY <1>3, <1>4, IdleLInv

LEMMA StoreFailsLInv ==
  ASSUME LInv, StoreFails
  PROVE  LInv'
<1>1. pc = "store" /\ Store(NULL) /\ Place # {} /\ size' = size /\ n_elems' = n_elems
  BY DEF StoreFails, NotCounted
<1>2. /\ entries' \in [Slots(size') -> Entry] /\ Sound(entries', size')
      /\ n_elems' = Cardinality(KeyedIn(entries', size'))
  BY <1>1, StoreSound
<1>3. TypeOK' /\ i' = 0 /\ pc' = "idle"
  <2>1. /\ pc' = "idle" /\ request' = NoRequest /\ new_size' = 0 /\ i' = 0
        /\ UNCHANGED <<size, threshold, crashed>> /\ new_entries' = Calloc(0)
    BY DEF StoreFails, Return
  <2>2. new_entries' \in [Slots(new_size') -> Entry]
    BY <2>1, EntryTypes
  <2> QED
    BY <1>1, <1>2, <2>1, <2>2 DEF LInv, TypeOK
<1> QED
  BY <1>2, <1>3, IdleLInv
-----------------------------------------------------------------------------
LEMMA NextLInv == LInv /\ [Next]_vars => LInv'
<1> SUFFICES ASSUME LInv, [Next]_vars PROVE LInv'
  OBVIOUS
<1>1. CASE UNCHANGED vars
  <2>1. crashed' \in BOOLEAN
    BY <1>1 DEF LInv, TypeOK, vars
  <2> QED
    BY <1>1, <2>1, AnswerLInv DEF vars
<1>2. ASSUME NEW r, Answer(r) PROVE LInv'
  <2>1. crashed' \in BOOLEAN
    BY <1>2 DEF LInv, TypeOK, Answer
  <2> QED
    BY <1>2, <2>1, AnswerLInv DEF Answer
<1>3. ASSUME NEW key \in Keys,
             LookupCrashes(key) \/ Get(key) \/ Exists(key) \/ Delete(key)
             \/ DeleteMissing(key) \/ InsertRefused(key)
      PROVE  LInv'
  <2>1. CASE LookupCrashes(key)
    <3>1. crashed' \in BOOLEAN
      BY <2>1, Zenon DEF LookupCrashes
    <3> QED
      BY <2>1, <3>1, AnswerLInv DEF LookupCrashes
  <2>2. CASE Get(key) \/ Exists(key) \/ DeleteMissing(key) \/ InsertRefused(key)
    BY <1>2, <2>2, Zenon DEF Get, Exists, DeleteMissing, InsertRefused
  <2>3. CASE Delete(key)
    BY <2>3, DeleteLInv
  <2> QED
    BY <1>3, <2>1, <2>2, <2>3
<1>4. ASSUME NEW key \in Keys, NEW data \in Data,
             Set(key, data) \/ InsertResizes(key, data) \/ InsertGoesOn(key, data)
      PROVE  LInv'
  BY <1>4, SetLInv, InsertResizesLInv, InsertGoesOnLInv
<1>5. CASE \E t \in Thresholds : Tune(t)
  BY <1>5, TuneLInv
<1>6. CASE \E n \in Sizes : New(n) \/ Resize(n)
  BY <1>6, NewLInv, ResizeLInv
<1>7. CASE NewFails
  <2>1. crashed' \in BOOLEAN
    BY <1>7 DEF LInv, TypeOK, NewFails
  <2> QED
    BY <1>7, <2>1, AnswerLInv DEF NewFails
<1>8. CASE Destroy
  BY <1>8, DestroyLInv
<1>9. CASE ResizeRefused
  BY <1>2, <1>9 DEF ResizeRefused
<1>10. CASE Step
  <2>1. CASE SkipSlot
    BY <2>1, SkipSlotLInv
  <2>2. CASE CopySlot
    BY <2>2, CopySlotLInv
  <2>3. CASE ResizeFails
    BY <2>3, ReturnLInv DEF ResizeFails
  <2>4. CASE Swap
    BY <2>4, SwapLInv
  <2>5. CASE StoreEntry
    BY <2>5, StoreEntryLInv
  <2>6. CASE StoreFails
    BY <2>6, StoreFailsLInv
  <2>7. CASE StoreFindsNoSlot
    BY <2>7, ReturnLInv DEF StoreFindsNoSlot
  <2> QED
    BY <1>10, <2>1, <2>2, <2>3, <2>4, <2>5, <2>6, <2>7 DEF Step
<1> QED
  BY <1>1, <1>3, <1>4, <1>5, <1>6, <1>7, <1>8, <1>9, <1>10 DEF Next

LEMMA InvariantLInv == Spec => []LInv
BY InitLInv, NextLInv, PTL DEF Spec

\* The variables of the table have their types: the array has as many slots as
\* lh_load, lh_find_entry and lh_resize take it to have, also after a resize,
\* and n_elems stays between 0 and that size.
THEOREM LhTypeCorrect == Spec => []TypeOK
<1>1. LInv => TypeOK
  BY DEF LInv
<1> QED
  BY <1>1, InvariantLInv, PTL

\* Every entry is reached by lh_find_entry's search for its hash, in the table
\* and in the array that lh_resize fills, whatever was deleted, inserted or
\* failed before.
THEOREM ReachableCorrect == Spec => []EntriesReachable
<1>1. LInv => EntriesReachable
  BY DEF LInv, Sound, Resizing, EntriesReachable
<1> QED
  BY <1>1, InvariantLInv, PTL

\* lh_insert never stores a key that the table has, and lh_resize copies none
\* twice.
THEOREM UniqueCorrect == Spec => []KeysUnique
<1>1. LInv => KeysUnique
  BY DEF LInv, Sound, Unique, KeysUnique, Keyed, Occupied, KeyedIn
<1> QED
  BY <1>1, InvariantLInv, PTL

\* n_elems is the number of entries with a key after every call, a delete, a
\* resize that fails halfway and an insert whose copy of the key fails included.
THEOREM CountCorrect == Spec => []CountMatches
<1>1. LInv => CountMatches
  BY DEF LInv
<1> QED
  BY <1>1, InvariantLInv, PTL

\* The load threshold leaves an insert a slot, unless entries without a key
\* have taken it.
THEOREM RoomCorrect == Spec => []InsertFindsRoom
<1>1. LInv => InsertFindsRoom
  <2> SUFFICES ASSUME LInv, pc = "store", Place = {}, Occupied = Keyed
               PROVE  FALSE
    BY DEF InsertFindsRoom
  <2>1. size \in Nat \ {0} /\ Hash[request.key] \in Nat /\ n_elems < size
    BY LhAssumption DEF LInv, TypeOK, Storing
  <2>2. {slot \in Slots(size) : entries[slot].state # "occupied"} = {}
    <3> DEFINE free == {slot \in Slots(size) : entries[slot].state # "occupied"}
               hash == Hash[request.key]
    <3>1. /\ free \in SUBSET Slots(size) /\ Nearest(free, hash, size) = {}
          /\ size \in Nat \ {0} /\ hash \in Nat
      BY <2>1 DEF Place
    <3> HIDE DEF free, hash
    <3>2. ASSUME free # {} PROVE FALSE
      <4>1. PICK slot \in free : Nearest(free, hash, size) = {slot}
        BY <3>1, <3>2, NearestExists
      <4> QED
        BY <3>1, <4>1
    <3> QED
      BY <3>2 DEF free
  <2>3. Keyed = Slots(size)
    BY <2>2 DEF Occupied
  <2>4. Cardinality(Slots(size)) = size
    BY <2>1, FS_Interval DEF Slots
  <2> QED
    BY <2>1, <2>3, <2>4 DEF LInv, CountMatches
<1> QED
  BY <1>1, InvariantLInv, PTL
=============================================================================
