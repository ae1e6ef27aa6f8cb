----------------------------- MODULE LinearHash -----------------------------
(***************************************************************************)
(* The linear hash table of linearhash.c: create, the two versions of put  *)
(* (librekv_linear_put2, which the program runs, and librekv_linear_put,   *)
(* which it has commented out), and the split they make.  A program calls  *)
(* one of the two.                                                         *)
(*                                                                         *)
(* An entry is the key hash stored in it; its offset travels with it and   *)
(* is left out.  A bucket is the sequence of the entries of its pages, the *)
(* head page first: every search of the code goes through the pages in     *)
(* that order.  m_isSplit is false between calls, and                      *)
(* m_currentMaxBucketsBeforeSplit is never read after create.              *)
(*                                                                         *)
(* The code uses buckets that were never allocated.  Such a call ends in   *)
(* the status "undefined", about which nothing more is said, or, when it   *)
(* is the display at its end that reads them, in the status "displaying",  *)
(* with the table that its split has made.                                 *)
(***************************************************************************)
EXTENDS Integers, FiniteSets, Sequences

CONSTANTS
  InitialLevels,      \* create's i_initialLevel: the ones callers pass
  ENTRIES,            \* create's i_entriesPerBucket
  KeyHashes,          \* the key hashes that callers put
  MaxPuts             \* bound on the number of calls of put

\* create turns 0 entries per bucket into a default; level 0 is accepted.
ASSUME LinearHashAssumption ==
  /\ InitialLevels \subseteq Nat
  /\ ENTRIES \in Nat \ {0}
  /\ KeyHashes \subseteq Nat
  /\ MaxPuts \in Nat

VARIABLES
  version,                   \* "put" or "put2": the one that the program calls
  m_linear_hashTable,        \* the buckets that exist, by index
  m_currentLevel,
  m_currBucketNum,
  m_nextBucketIndexToSplit,
  status,                    \* "running", or "displaying" or "undefined" after
                             \* a wild access
  puts                       \* how often each hash was put, for the properties

vars == <<version, m_linear_hashTable, m_currentLevel, m_currBucketNum,
          m_nextBucketIndexToSplit, status, puts>>
-----------------------------------------------------------------------------
FREE == -1      \* what initNewBucket writes; isValid is true for free entries

Page == 1 .. ENTRIES

twoToPowerOf[power \in Nat] == IF power = 0 THEN 1 ELSE 2 * twoToPowerOf[power - 1]

truncateHash(keyHash, level) == keyHash % twoToPowerOf[level]

\* librekv_linear_initNewBucket: a bucket of one free page.
NewBucket == [i \in Page |-> FREE]

\* Mutant: the search stops one entry early.
HasRoomBeforeLast(bucket) == \E i \in 1 .. Len(bucket) - 1 : bucket[i] = FREE

HasRoom(bucket) == \E i \in DOMAIN bucket : bucket[i] = FREE

FirstFree(bucket) ==
  CHOOSE i \in DOMAIN bucket :
    bucket[i] = FREE /\ \A j \in 1 .. i - 1 : bucket[j] # FREE

\* An overflow page with the hash.  Mutants: it has room for nothing else; all
\* of it is overwritten.
BarePage(keyHash) == <<keyHash>>
RepeatedPage(keyHash) == [i \in Page |-> keyHash]
OverflowPage(keyHash) == [NewBucket EXCEPT ![1] = keyHash]

\* The hash goes into the first free entry, or else into an overflow page.
Filled(bucket, keyHash) ==
  IF HasRoom(bucket) THEN [bucket EXCEPT ![FirstFree(bucket)] = keyHash]
  ELSE bucket \o OverflowPage(keyHash)

\* librekv_linear_insertToBucket when next is the bucket to split: a hash for
\* that bucket is not stored if the bucket is full.
Inserted(table, keyHash, index, next) ==
  IF HasRoom(table[index]) \/ index # next
  THEN [table EXCEPT ![index] = Filled(@, keyHash)]
  ELSE table

\* What insertToBucket returns: the caller should split.
AsksForSplit(table, index) == ~ HasRoom(table[index])
-----------------------------------------------------------------------------
\* librekv_linear_create.
Init ==
  /\ version \in {"put", "put2"}
  /\ m_currentLevel \in InitialLevels
  /\ m_currBucketNum = twoToPowerOf[m_currentLevel]
  /\ m_linear_hashTable = [index \in 0 .. m_currBucketNum - 1 |-> NewBucket]
  /\ m_nextBucketIndexToSplit = 0
  /\ status = "running"
  /\ puts = [keyHash \in KeyHashes |-> 0]

Exists(index) == index \in DOMAIN m_linear_hashTable

CountPut(keyHash) == puts' = [puts EXCEPT ![keyHash] = @ + 1]

TotalPuts == LET total[S \in SUBSET KeyHashes] ==
                   IF S = {} THEN 0
                   ELSE LET k == CHOOSE k \in S : TRUE IN puts[k] + total[S \ {k}]
             IN  total[KeyHashes]

\* A call of this put with this hash.
Called(put, keyHash) ==
  /\ version = put
  /\ status = "running"
  /\ TotalPuts < MaxPuts
  /\ CountPut(keyHash)
  /\ UNCHANGED version

\* The process reads or writes outside its table: anything may have happened.
GoesWild ==
  /\ status' = "undefined"
  /\ UNCHANGED <<m_linear_hashTable, m_currentLevel, m_currBucketNum,
                 m_nextBucketIndexToSplit>>
-----------------------------------------------------------------------------
\* librekv_linear_put2.  Its loop over the levels breaks in its first round,
\* and makes none at level 0: nothing is stored then.
Put2AtLevelZero(keyHash) ==
  /\ Called("put2", keyHash)
  /\ m_currentLevel = 0
  /\ UNCHANGED <<m_linear_hashTable, m_currentLevel, m_currBucketNum,
                 m_nextBucketIndexToSplit, status>>

Put2Simple(keyHash) ==
  LET index == truncateHash(keyHash, m_currentLevel)
  IN  /\ Called("put2", keyHash)
      /\ m_currentLevel > 0
      /\ Exists(index)
      /\ HasRoom(m_linear_hashTable[index])
      /\ m_linear_hashTable' =
           Inserted(m_linear_hashTable, keyHash, index, m_nextBucketIndexToSplit)
      /\ UNCHANGED <<m_currentLevel, m_currBucketNum, m_nextBucketIndexToSplit, status>>

Put2Wild(keyHash) ==
  /\ Called("put2", keyHash)
  /\ m_currentLevel > 0
  /\ ~ Exists(truncateHash(keyHash, m_currentLevel))
  /\ GoesWild

\* librekv_linear_addBucket: the table is cut to the buckets below the new
\* one, which takes the place of whatever was there.
WithBucket(table, mirror) ==
  [index \in {i \in DOMAIN table : i < mirror} \cup {mirror} |->
     IF index = mirror THEN NewBucket ELSE table[index]]

\* Mutant: every entry of the page is moved.
MoversAll(table, next, mirror) == {i \in Page : table[next][i] # FREE}

\* The entries of the head page of the bucket to split that the next level
\* puts into the mirror bucket.
Movers(table, next, mirror) ==
  {i \in Page : /\ table[next][i] # FREE
                /\ truncateHash(table[next][i], m_currentLevel + 1) = mirror}

\* The bucket without them.  Mutant: they are not freed.
NotVacated(bucket, movers) == bucket
Vacated(bucket, movers) == [i \in DOMAIN bucket |-> IF i \in movers THEN FREE ELSE bucket[i]]

\* They move, in their order, to the mirror bucket, which holds a page of them.
Redistributed(table, next, mirror) ==
  LET movers == Movers(table, next, mirror)
      rank(i) == Cardinality({j \in movers : j <= i})
  IN  [table EXCEPT
         ![next] = Vacated(@, movers),
         ![mirror] = [i \in Page |->
            IF i <= Cardinality(movers)
            THEN table[next][CHOOSE j \in movers : rank(j) = i] ELSE FREE]]

\* The hash is put after the split.  Mutant: it is not.
NotPutAgain(table, keyHash, index, next) == table
PutAgain(table, keyHash, index, next) == Inserted(table, keyHash, index, next + 1)

\* A full bucket: put2 adds a bucket, splits the next bucket into it, puts the
\* hash (again), and, as m_currBucketNum = twoToPowerOf(m_currentLevel) in
\* its condition assigns, goes to the next level every time.
Split(keyHash) ==
  LET index == truncateHash(keyHash, m_currentLevel)
      next == m_nextBucketIndexToSplit
      mirror == m_currBucketNum
      stored == Inserted(m_linear_hashTable, keyHash, index, next)
      split == Redistributed(WithBucket(stored, mirror), next, mirror)
  IN  /\ m_linear_hashTable' = PutAgain(split, keyHash, index, next)
      /\ m_currBucketNum' = twoToPowerOf[m_currentLevel]
      /\ m_currentLevel' = m_currentLevel + 1
      /\ m_nextBucketIndexToSplit' = 0

NeedsSplit(keyHash) ==
  LET index == truncateHash(keyHash, m_currentLevel)
  IN  /\ m_currentLevel > 0
      /\ Exists(index)
      /\ AsksForSplit(m_linear_hashTable, index)

\* displayHashTable reads the buckets below m_currBucketNum.
DisplayStaysInside == 0 .. m_currBucketNum - 1 \subseteq DOMAIN m_linear_hashTable

\* A split leaves the memory it owns in two places.  Its loop over the page
\* takes one entry too many, which may look like one to move; and, when all
\* else is done, it displays the table, which may have fewer buckets than
\* m_currBucketNum.
Put2Split(keyHash) ==
  /\ Called("put2", keyHash)
  /\ NeedsSplit(keyHash)
  /\ Split(keyHash)
  /\ \/ DisplayStaysInside' /\ UNCHANGED status
     \/ ~ DisplayStaysInside' /\ status' = "displaying"
     \/ status' = "undefined"

Put2 ==
  \E keyHash \in KeyHashes :
    \/ Put2AtLevelZero(keyHash)
    \/ Put2Simple(keyHash)
    \/ Put2Wild(keyHash)
    \/ Put2Split(keyHash)
-----------------------------------------------------------------------------
\* librekv_linear_put.  The bucket it chooses: the one of the current level,
\* unless that one has been split and the next level names a bucket no
\* further than the last mirror bucket.
Target(keyHash) ==
  LET here == truncateHash(keyHash, m_currentLevel)
      nextLevelKey == truncateHash(keyHash, m_currentLevel + 1)
  IN  IF \/ here >= m_nextBucketIndexToSplit
         \/ nextLevelKey > m_nextBucketIndexToSplit - 1 + twoToPowerOf[m_currentLevel]
      THEN here ELSE nextLevelKey

PutSimple(keyHash) ==
  /\ Called("put", keyHash)
  /\ Exists(Target(keyHash))
  /\ ~ AsksForSplit(m_linear_hashTable, Target(keyHash))
  /\ m_linear_hashTable' = Inserted(m_linear_hashTable, keyHash, Target(keyHash),
                                    m_nextBucketIndexToSplit)
  /\ UNCHANGED <<m_currentLevel, m_currBucketNum, m_nextBucketIndexToSplit, status>>

PutWild(keyHash) ==
  /\ Called("put", keyHash)
  /\ ~ Exists(Target(keyHash))
  /\ GoesWild

\* The entries of a bucket that belong to its mirror bucket.
Mirrored(bucket, mirror) ==
  {i \in DOMAIN bucket : /\ bucket[i] # FREE
                         /\ truncateHash(bucket[i], m_currentLevel + 1) = mirror}

\* A full bucket: the next bucket is said to be split, but its mirror bucket
\* is never made.  next goes back to 0 after the last bucket of the level; the
\* call that would raise the level is commented out.
PutSplit(keyHash) ==
  LET next == m_nextBucketIndexToSplit
      stored == Inserted(m_linear_hashTable, keyHash, Target(keyHash), next)
      mirror == next + twoToPowerOf[m_currentLevel]
  IN  /\ Called("put", keyHash)
      /\ Exists(Target(keyHash))
      /\ AsksForSplit(m_linear_hashTable, Target(keyHash))
      /\ Mirrored(stored[next], mirror) = {}
      /\ m_linear_hashTable' = stored
      /\ m_nextBucketIndexToSplit' = (next + 1) % twoToPowerOf[m_currentLevel]
      /\ UNCHANGED <<m_currentLevel, m_currBucketNum, status>>

\* An entry is moved to the mirror bucket that does not exist.
PutSplitWild(keyHash) ==
  LET next == m_nextBucketIndexToSplit
      stored == Inserted(m_linear_hashTable, keyHash, Target(keyHash), next)
  IN  /\ Called("put", keyHash)
      /\ Exists(Target(keyHash))
      /\ AsksForSplit(m_linear_hashTable, Target(keyHash))
      /\ Mirrored(stored[next], next + twoToPowerOf[m_currentLevel]) # {}
      /\ GoesWild

Put ==
  \E keyHash \in KeyHashes :
    \/ PutSimple(keyHash)
    \/ PutWild(keyHash)
    \/ PutSplit(keyHash)
    \/ PutSplitWild(keyHash)

Next == Put2 \/ Put

Spec == Init /\ [][Next]_vars
-----------------------------------------------------------------------------
\* A head page and any number of overflow pages.
Bucket ==
  {bucket \in Seq(KeyHashes \cup {FREE}) :
     Len(bucket) >= ENTRIES /\ Len(bucket) % ENTRIES = 0}

\* The counter puts has no bound of its own: MaxPuts only ends the runs.
TypeOK ==
  /\ version \in {"put", "put2"}
  /\ DOMAIN m_linear_hashTable \subseteq Nat
  /\ m_linear_hashTable \in [DOMAIN m_linear_hashTable -> Bucket]
  /\ m_currentLevel \in Nat
  /\ m_currBucketNum \in Nat
  /\ m_nextBucketIndexToSplit \in 0 .. twoToPowerOf[m_currentLevel] - 1
  /\ status \in {"running", "displaying", "undefined"}
  /\ puts \in [KeyHashes -> Nat]

Running == status = "running"

\* Every entry of a table, free or not, as a pair of bucket index and position.
Spots(table) == UNION {{index} \X DOMAIN table[index] : index \in DOMAIN table}

Places(keyHash) ==
  {spot \in Spots(m_linear_hashTable) :
     m_linear_hashTable[spot[1]][spot[2]] = keyHash}

Copies(keyHash) == Cardinality(Places(keyHash))

\* Wherever a split and overflow pages have put an entry, its bucket is the one
\* that the current level computes for it, or the level before the split did.
HashedPlacement ==
  Running => \A keyHash \in KeyHashes : \A place \in Places(keyHash) :
    \E level \in {m_currentLevel - 1, m_currentLevel} \ {-1} :
      place[1] = truncateHash(keyHash, level)

\* Every call of put2 leaves an entry of its own in the table, also the calls
\* that split a bucket or find the bucket to split full: above level 0, and as
\* long as it stays inside its memory.
NothingLost ==
  (version = "put2" /\ Running /\ m_currentLevel > 0) =>
    \A keyHash \in KeyHashes : Copies(keyHash) >= puts[keyHash]

\* The entries in the bucket that addBucket replaces, if it exists already.
Overwritten(keyHash) == {place \in Places(keyHash) : place[1] = m_currBucketNum}

\* What a put does to the entries of every other hash: none is copied, and none
\* is dropped, but for one case.  A split that finds m_currBucketNum at a bucket
\* that exists, as every split but the first does, replaces that bucket (line
\* 211), and with it drops the entries in it: all of them, and no others.
SplitMoves ==
  [][status' # "undefined" => \A keyHash \in KeyHashes :
       puts'[keyHash] = puts[keyHash] =>
         Copies(keyHash)' = Copies(keyHash) -
           (IF m_currentLevel' = m_currentLevel THEN 0
            ELSE Cardinality(Overwritten(keyHash)))]_vars

\* A put stores its hash once, whether it finds room or makes an overflow page
\* for it (line 185: "insert value into it, and append to bucket").
StoredOnce ==
  Running => \A keyHash \in KeyHashes : Copies(keyHash) <= puts[keyHash]

\* librekv_linear_put never stores a hash more than once per call, whether it
\* finds room or makes an overflow page.  It does drop hashes (PutStores), but
\* for want of room only: a hash that has fewer entries than calls is one whose
\* bucket has a full head page.
PutAccounts ==
  (version = "put" /\ Running) => \A keyHash \in KeyHashes :
    /\ Copies(keyHash) <= puts[keyHash]
    /\ Copies(keyHash) < puts[keyHash] =>
         \A i \in Page :
           m_linear_hashTable[truncateHash(keyHash, m_currentLevel)][i] # FREE

\* librekv_linear_put stores the hash it is called with (line 363: "then value
\* goes into this bucket"): a hash has an entry for each call.
PutStores ==
  (version = "put" /\ Running) =>
    \A keyHash \in KeyHashes : Copies(keyHash) >= puts[keyHash]
=============================================================================
