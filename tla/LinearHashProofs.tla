-------------------------- MODULE LinearHashProofs --------------------------
(***************************************************************************)
(* Safety of the linear hash table, for pages of any size, any initial     *)
(* level and any sequence of calls.                                        *)
(***************************************************************************)
EXTENDS LinearHash, FiniteSetTheorems, SequenceTheorems, WellFoundedInduction, TLAPS

\* twoToPowerOf up to a bound, and at every number.
Doubles(f, max) == f[0] = 1 /\ \A i \in 1 .. max : f[i] = 2 * f[i - 1]

\* The library's theorem on recursive functions takes an operator, so the
\* function is built here: up to every bound there is one, and only one.
LEMMA DoublesUnique ==
  ASSUME NEW f, NEW g, NEW max \in Nat, NEW max2 \in Nat,
         Doubles(f, max), Doubles(g, max2)
  PROVE  \A i \in Nat : i <= max /\ i <= max2 => f[i] = g[i]
<1> DEFINE Bad == {i \in Nat : i <= max /\ i <= max2 /\ f[i] # g[i]}
<1> SUFFICES ASSUME Bad # {} PROVE FALSE
  OBVIOUS
<1>1. PICK i \in Bad : \A j \in Bad : ~ (<<j, i>> \in OpToRel(<, Nat))
  BY NatLessThanWellFounded, WFMin
<1>2. \A j \in Bad : ~ (j < i)
  BY <1>1 DEF OpToRel
<1>3. CASE i = 0
  BY <1>3 DEF Doubles
<1>4. CASE i # 0
  <2>1. i - 1 \in Nat /\ i - 1 < i /\ i \in 1 .. max /\ i \in 1 .. max2
    BY <1>4
  <2>2. f[i - 1] = g[i - 1]
    BY <1>2, <2>1
  <2> QED
    BY <2>1, <2>2 DEF Doubles
<1> QED
  BY <1>3, <1>4

LEMMA DoublesExists == \A max \in Nat : \E f \in [0 .. max -> Nat \ {0}] : Doubles(f, max)
<1> DEFINE Bad == {max \in Nat : ~ \E f \in [0 .. max -> Nat \ {0}] : Doubles(f, max)}
<1> SUFFICES ASSUME Bad # {} PROVE FALSE
  OBVIOUS
<1>1. PICK max \in Bad : \A j \in Bad : ~ (<<j, max>> \in OpToRel(<, Nat))
  BY NatLessThanWellFounded, WFMin
<1>2. \A j \in Bad : ~ (j < max)
  BY <1>1 DEF OpToRel
<1>3. CASE max = 0
  <2>1. [i \in 0 .. 0 |-> 1] \in [0 .. 0 -> Nat \ {0}] /\ Doubles([i \in 0 .. 0 |-> 1], 0)
    BY DEF Doubles
  <2> QED
    BY <1>3, <2>1
<1>4. CASE max # 0
  <2>1. max - 1 \in Nat /\ max - 1 < max
    BY <1>4
  <2>2. PICK f \in [0 .. max - 1 -> Nat \ {0}] : Doubles(f, max - 1)
    BY <1>2, <2>1
  <2> DEFINE g == [i \in 0 .. max |-> IF i = max THEN 2 * f[max - 1] ELSE f[i]]
  <2>3. f[max - 1] \in Nat \ {0}
    BY <2>1
  <2>4. g \in [0 .. max -> Nat \ {0}]
    BY <2>1, <2>3
  <2>5. ASSUME NEW i \in 1 .. max PROVE g[i] = 2 * g[i - 1]
    BY <2>1, <2>2 DEF Doubles
  <2>6. g[0] = 1
    BY <1>4, <2>2 DEF Doubles
  <2>7. Doubles(g, max)
    BY <2>5, <2>6 DEF Doubles
  <2> QED
    BY <2>4, <2>7
<1> QED
  BY <1>3, <1>4

\* The recursion of twoToPowerOf has a solution, so the definition is one.
LEMMA PowerDef ==
  twoToPowerOf = [power \in Nat |-> IF power = 0 THEN 1 ELSE 2 * twoToPowerOf[power - 1]]
<1> DEFINE Body(f) == [power \in Nat |-> IF power = 0 THEN 1 ELSE 2 * f[power - 1]]
           Upto(max) == CHOOSE f : f \in [0 .. max -> Nat \ {0}] /\ Doubles(f, max)
           g == [max \in Nat |-> Upto(max)[max]]
<1>1. \A max \in Nat : Upto(max) \in [0 .. max -> Nat \ {0}] /\ Doubles(Upto(max), max)
  BY DoublesExists
<1> HIDE DEF Upto
<1>2. ASSUME NEW power \in Nat
      PROVE  g[power] = IF power = 0 THEN 1 ELSE 2 * g[power - 1]
  <2>1. CASE power = 0
    BY <1>1, <2>1 DEF Doubles
  <2>2. CASE power # 0
    <3>1. power - 1 \in Nat /\ power \in 1 .. power
      BY <2>2
    <3>2. Upto(power)[power] = 2 * Upto(power)[power - 1]
      BY <1>1, <3>1 DEF Doubles
    <3>3. Upto(power)[power - 1] = Upto(power - 1)[power - 1]
      BY <1>1, <3>1, DoublesUnique
    <3> QED
      BY <2>2, <3>1, <3>2, <3>3
  <2> QED
    BY <2>1, <2>2
<1>3. g = Body(g)
  BY <1>2
<1> HIDE DEF g
<1>4. \E f : f = Body(f)
  BY <1>3
<1> QED
  BY <1>4 DEF twoToPowerOf

LEMMA PowerType == \A level \in Nat : twoToPowerOf[level] \in Nat \ {0}
<1> DEFINE Bad == {level \in Nat : twoToPowerOf[level] \notin Nat \ {0}}
<1> SUFFICES ASSUME Bad # {} PROVE FALSE
  OBVIOUS
<1>1. PICK level \in Bad : \A j \in Bad : ~ (<<j, level>> \in OpToRel(<, Nat))
  BY NatLessThanWellFounded, WFMin
<1>2. \A j \in Bad : ~ (j < level)
  BY <1>1 DEF OpToRel
<1>3. CASE level = 0
  BY <1>3, PowerDef
<1>4. CASE level # 0
  <2>1. level - 1 \in Nat /\ level - 1 < level
    BY <1>4
  <2>2. twoToPowerOf[level - 1] \in Nat \ {0}
    BY <1>2, <2>1
  <2>3. twoToPowerOf[level] = 2 * twoToPowerOf[level - 1]
    BY <1>4, PowerDef
  <2> QED
    BY <2>2, <2>3
<1> QED
  BY <1>3, <1>4

LEMMA PowerDoubles ==
  /\ twoToPowerOf[0] = 1
  /\ \A level \in Nat : twoToPowerOf[level + 1] = 2 * twoToPowerOf[level]
<1>1. twoToPowerOf[0] = 1
  BY PowerDef
<1>2. ASSUME NEW level \in Nat PROVE twoToPowerOf[level + 1] = 2 * twoToPowerOf[level]
  <2>1. level + 1 \in Nat /\ level + 1 # 0 /\ (level + 1) - 1 = level
    OBVIOUS
  <2> QED
    BY <2>1, PowerDef
<1> QED
  BY <1>1, <1>2
-----------------------------------------------------------------------------
\* A remainder below half of the modulus is the remainder of that half.
LEMMA HalfModulus ==
  \A h \in Nat, m \in Nat \ {0} : h % (2 * m) < m => h % (2 * m) = h % m
OBVIOUS

LEMMA HashType ==
  ASSUME NEW keyHash \in KeyHashes, NEW level \in Nat
  PROVE  truncateHash(keyHash, level) \in 0 .. twoToPowerOf[level] - 1
<1>1. keyHash \in Nat /\ twoToPowerOf[level] \in Nat \ {0}
  BY LinearHashAssumption, PowerType
<1> QED
  BY <1>1 DEF truncateHash

\* A hash that the next level puts below the mirror buckets stays where it is.
LEMMA HashNext ==
  ASSUME NEW keyHash \in KeyHashes, NEW level \in Nat,
         truncateHash(keyHash, level + 1) < twoToPowerOf[level]
  PROVE  truncateHash(keyHash, level + 1) = truncateHash(keyHash, level)
<1>1. keyHash \in Nat /\ twoToPowerOf[level] \in Nat \ {0}
  BY LinearHashAssumption, PowerType
<1>2. twoToPowerOf[level + 1] = 2 * twoToPowerOf[level]
  BY PowerDoubles
<1> QED
  BY <1>1, <1>2, HalfModulus DEF truncateHash
-----------------------------------------------------------------------------
LEMMA BucketType ==
  ASSUME NEW bucket \in Bucket
  PROVE  /\ Len(bucket) \in Nat /\ DOMAIN bucket = 1 .. Len(bucket)
         /\ Page \subseteq DOMAIN bucket
         /\ \A i \in DOMAIN bucket : bucket[i] \in KeyHashes \cup {FREE}
<1>1. bucket \in Seq(KeyHashes \cup {FREE}) /\ Len(bucket) >= ENTRIES
  BY DEF Bucket
<1> QED
  BY <1>1, LinearHashAssumption DEF Page

LEMMA HashNotFree == \A keyHash \in KeyHashes : keyHash # FREE
BY LinearHashAssumption DEF FREE

\* A page of entries is a bucket.
LEMMA PageIsBucket ==
  ASSUME NEW page \in [Page -> KeyHashes \cup {FREE}]
  PROVE  page \in Bucket /\ Len(page) = ENTRIES /\ DOMAIN page = Page
<1>1. ENTRIES \in Nat /\ ENTRIES > 0
  BY LinearHashAssumption
<1>2. page \in Seq(KeyHashes \cup {FREE}) /\ Len(page) = ENTRIES
  BY <1>1, SeqDef DEF Page
<1>3. ENTRIES % ENTRIES = 0
  BY <1>1
<1> QED
  BY <1>1, <1>2, <1>3 DEF Bucket

LEMMA NewBucketType ==
  /\ NewBucket \in Bucket /\ DOMAIN NewBucket = Page
  /\ \A i \in Page : NewBucket[i] = FREE
<1>1. NewBucket \in [Page -> KeyHashes \cup {FREE}]
  BY DEF NewBucket
<1> QED
  BY <1>1, PageIsBucket DEF NewBucket

LEMMA FirstFreeIsFree ==
  ASSUME NEW bucket \in Bucket, HasRoom(bucket)
  PROVE  FirstFree(bucket) \in DOMAIN bucket /\ bucket[FirstFree(bucket)] = FREE
<1> DEFINE Free == {i \in DOMAIN bucket : bucket[i] = FREE}
<1>1. Free # {} /\ Free \subseteq Nat
  BY BucketType DEF HasRoom
<1>2. PICK i \in Free : \A j \in Free : ~ (<<j, i>> \in OpToRel(<, Nat))
  BY <1>1, NatLessThanWellFounded, WFMin
<1>3. \A j \in Free : ~ (j < i)
  BY <1>1, <1>2 DEF OpToRel
<1>4. \A j \in 1 .. i - 1 : bucket[j] # FREE
  BY <1>3, BucketType
<1> QED
  BY <1>2, <1>4 DEF FirstFree

\* Filling a bucket puts the hash in one entry that was free or did not exist,
\* and changes no other one.
FilledAt(before, after, keyHash, at) ==
  /\ after \in Bucket
  /\ DOMAIN before \subseteq DOMAIN after
  /\ at \in DOMAIN after
  /\ after[at] = keyHash
  /\ at \in DOMAIN before => before[at] = FREE
  /\ \A i \in DOMAIN after \ {at} :
       after[i] = IF i \in DOMAIN before THEN before[i] ELSE FREE

LEMMA FilledFills ==
  ASSUME NEW bucket \in Bucket, NEW keyHash \in KeyHashes
  PROVE  \E at : FilledAt(bucket, Filled(bucket, keyHash), keyHash, at)
<1> DEFINE after == Filled(bucket, keyHash)
           Entries == KeyHashes \cup {FREE}
<1>1. /\ bucket \in Seq(Entries) /\ Len(bucket) \in Nat /\ DOMAIN bucket = 1 .. Len(bucket)
      /\ Len(bucket) >= ENTRIES /\ Len(bucket) % ENTRIES = 0
  BY BucketType DEF Bucket
<1>2. CASE HasRoom(bucket)
  <2> DEFINE at == FirstFree(bucket)
  <2>1. at \in DOMAIN bucket /\ bucket[at] = FREE
    BY <1>2, FirstFreeIsFree
  <2>2. after = [bucket EXCEPT ![at] = keyHash]
    BY <1>2 DEF Filled
  <2> HIDE DEF at, after
  <2>3. after \in Seq(Entries) /\ Len(after) = Len(bucket)
    BY <1>1, <2>1, <2>2
  <2>4. after \in Bucket
    BY <1>1, <2>3 DEF Bucket
  <2>5. FilledAt(bucket, after, keyHash, at)
    BY <1>1, <2>1, <2>2, <2>3, <2>4 DEF FilledAt
  <2> QED
    BY <2>5 DEF after
<1>3. CASE ~ HasRoom(bucket)
  <2> DEFINE page == OverflowPage(keyHash)
             at == Len(bucket) + 1
  <2>1. /\ page \in [Page -> Entries] /\ page[1] = keyHash
        /\ \A i \in Page \ {1} : page[i] = FREE
    BY LinearHashAssumption DEF OverflowPage, NewBucket, Page
  <2>2. after = bucket \o page
    BY <1>3 DEF Filled
  <2>3. page \in Seq(Entries) /\ Len(page) = ENTRIES /\ page \in Bucket
    BY <2>1, PageIsBucket DEF Bucket
  <2> HIDE DEF page, after
  <2>4. /\ after \in Seq(Entries) /\ Len(after) = Len(bucket) + ENTRIES
        /\ \A i \in 1 .. Len(bucket) + ENTRIES :
             after[i] = IF i <= Len(bucket) THEN bucket[i] ELSE page[i - Len(bucket)]
    BY <1>1, <2>2, <2>3, ConcatProperties
  <2>5. (Len(bucket) + ENTRIES) % ENTRIES = 0
    <3>1. \A m \in Nat, d \in Nat \ {0} : m % d = 0 => (m + d) % d = 0
      OBVIOUS
    <3> QED
      BY <1>1, <3>1, LinearHashAssumption
  <2>6. after \in Bucket /\ DOMAIN after = 1 .. Len(bucket) + ENTRIES
    BY <1>1, <2>4, <2>5, LinearHashAssumption DEF Bucket
  <2>7. at \in DOMAIN after /\ at \notin DOMAIN bucket /\ after[at] = keyHash
    BY <1>1, <2>1, <2>4, <2>6, LinearHashAssumption
  <2>8. ASSUME NEW i \in DOMAIN after \ {at}
        PROVE  after[i] = IF i \in DOMAIN bucket THEN bucket[i] ELSE FREE
    <3>1. CASE i <= Len(bucket)
      BY <1>1, <2>4, <2>6, <3>1
    <3>2. CASE i > Len(bucket)
      <4>1. i - Len(bucket) \in Page \ {1} /\ i \notin DOMAIN bucket
        BY <1>1, <2>6, <3>2, LinearHashAssumption DEF Page
      <4> QED
        BY <1>1, <2>1, <2>4, <2>6, <3>2, <4>1
    <3> QED
      BY <1>1, <2>6, <3>1, <3>2
  <2>9. FilledAt(bucket, after, keyHash, at)
    BY <1>1, <2>6, <2>7, <2>8, LinearHashAssumption DEF FilledAt
  <2> QED
    BY <2>9 DEF after
<1> QED
  BY <1>2, <1>3
-----------------------------------------------------------------------------
IsTable(table) == DOMAIN table \subseteq Nat /\ table \in [DOMAIN table -> Bucket]

PlacesIn(table, keyHash) == {spot \in Spots(table) : table[spot[1]][spot[2]] = keyHash}

\* Every entry is in a bucket that one of these levels computes for its hash.
Hashed(table, levels) ==
  \A keyHash \in KeyHashes : \A spot \in PlacesIn(table, keyHash) :
    \E level \in levels : spot[1] = truncateHash(keyHash, level)

\* Entries of the head pages that are taken stay so.
Kept(before, after) ==
  \A index \in DOMAIN before, i \in Page :
    before[index][i] # FREE => after[index][i] # FREE

\* One entry of a hash was added in a bucket, and nothing else happened.
Adds(before, after, keyHash, index) ==
  /\ IsTable(after)
  /\ DOMAIN after = DOMAIN before
  /\ \E spot : /\ spot \notin PlacesIn(before, keyHash)
              /\ spot[1] = index
              /\ PlacesIn(after, keyHash) = PlacesIn(before, keyHash) \cup {spot}
  /\ \A other \in KeyHashes \ {keyHash} : PlacesIn(after, other) = PlacesIn(before, other)
  /\ Kept(before, after)

LEMMA SpotsDef ==
  ASSUME NEW table, NEW index, NEW i
  PROVE  <<index, i>> \in Spots(table) <=> index \in DOMAIN table /\ i \in DOMAIN table[index]
BY DEF Spots

LEMMA SpotIsPair ==
  ASSUME NEW table, NEW spot \in Spots(table)
  PROVE  /\ spot = <<spot[1], spot[2]>>
         /\ spot[1] \in DOMAIN table /\ spot[2] \in DOMAIN table[spot[1]]
BY DEF Spots

LEMMA FillAdds ==
  ASSUME NEW table, IsTable(table), NEW index \in DOMAIN table, NEW keyHash \in KeyHashes
  PROVE  Adds(table, [table EXCEPT ![index] = Filled(@, keyHash)], keyHash, index)
<1> DEFINE bucket == table[index]
           filled == Filled(bucket, keyHash)
           after == [table EXCEPT ![index] = filled]
<1>1. bucket \in Bucket
  BY DEF IsTable
<1>2. PICK at : FilledAt(bucket, filled, keyHash, at)
  BY <1>1, FilledFills
<1> HIDE DEF filled
<1>3. /\ DOMAIN after = DOMAIN table /\ after[index] = filled
      /\ \A j \in DOMAIN table \ {index} : after[j] = table[j]
  BY DEF IsTable
<1>4. IsTable(after)
  BY <1>2 DEF IsTable, FilledAt
<1> HIDE DEF after
<1>5. ASSUME NEW j \in DOMAIN table, NEW i \in DOMAIN after[j], <<j, i>> # <<index, at>>
      PROVE  after[j][i] = IF i \in DOMAIN table[j] THEN table[j][i] ELSE FREE
  <2>1. CASE j = index
    BY <1>2, <1>3, <1>5, <2>1 DEF FilledAt
  <2>2. CASE j # index
    BY <1>3, <2>2
  <2> QED
    BY <2>1, <2>2
<1>6. \A j \in DOMAIN table : DOMAIN table[j] \subseteq DOMAIN after[j]
  BY <1>2, <1>3 DEF FilledAt
<1>7. at \in DOMAIN after[index] /\ after[index][at] = keyHash
      /\ (at \in DOMAIN bucket => bucket[at] = FREE)
  BY <1>2, <1>3 DEF FilledAt
<1>8. ASSUME NEW other \in KeyHashes, NEW spot
      PROVE  spot \in PlacesIn(after, other) <=>
               \/ spot \in PlacesIn(table, other)
               \/ spot = <<index, at>> /\ other = keyHash
  <2>1. other # FREE /\ keyHash # FREE
    BY HashNotFree
  <2>2. ASSUME spot \in PlacesIn(after, other)
        PROVE  \/ spot \in PlacesIn(table, other)
               \/ spot = <<index, at>> /\ other = keyHash
    <3>1. /\ spot = <<spot[1], spot[2]>> /\ spot[1] \in DOMAIN table
          /\ spot[2] \in DOMAIN after[spot[1]] /\ after[spot[1]][spot[2]] = other
      BY <1>3, <2>2, SpotIsPair DEF PlacesIn
    <3>2. CASE spot = <<index, at>>
      BY <1>7, <3>1, <3>2
    <3>3. CASE spot # <<index, at>>
      <4>1. spot[2] \in DOMAIN table[spot[1]] /\ table[spot[1]][spot[2]] = other
        BY <1>5, <2>1, <3>1, <3>3
      <4> QED
        BY <3>1, <4>1, SpotsDef DEF PlacesIn
    <3> QED
      BY <3>2, <3>3
  <2>3. ASSUME spot \in PlacesIn(table, other)
        PROVE  spot \in PlacesIn(after, other)
    <3>1. /\ spot = <<spot[1], spot[2]>> /\ spot[1] \in DOMAIN table
          /\ spot[2] \in DOMAIN table[spot[1]] /\ table[spot[1]][spot[2]] = other
      BY <2>3, SpotIsPair DEF PlacesIn
    <3>2. spot # <<index, at>>
      BY <1>7, <2>1, <3>1
    <3>3. spot[2] \in DOMAIN after[spot[1]] /\ after[spot[1]][spot[2]] = other
      BY <1>5, <1>6, <3>1, <3>2
    <3> QED
      BY <1>3, <3>1, <3>3, SpotsDef DEF PlacesIn
  <2>4. ASSUME spot = <<index, at>>, other = keyHash
        PROVE  spot \in PlacesIn(after, other)
    BY <1>3, <1>7, <2>4, SpotsDef DEF PlacesIn
  <2> QED
    BY <2>2, <2>3, <2>4
<1>9. <<index, at>> \notin PlacesIn(table, keyHash)
  <2>1. keyHash # FREE
    BY HashNotFree
  <2> QED
    BY <1>7, <2>1, SpotsDef DEF PlacesIn
<1>10. Kept(table, after)
  <2> SUFFICES ASSUME NEW j \in DOMAIN table, NEW i \in Page, table[j][i] # FREE
               PROVE  after[j][i] # FREE
    BY DEF Kept
  <2>1. table[j] \in Bucket
    BY DEF IsTable
  <2>2. i \in DOMAIN table[j] /\ i \in DOMAIN after[j]
    BY <1>6, <2>1, BucketType
  <2>3. <<j, i>> # <<index, at>>
    BY <1>7, <2>2
  <2> QED
    BY <1>5, <2>2, <2>3
<1>11. PlacesIn(after, keyHash) = PlacesIn(table, keyHash) \cup {<<index, at>>}
  BY <1>8
<1>12. \A other \in KeyHashes \ {keyHash} : PlacesIn(after, other) = PlacesIn(table, other)
  BY <1>8
<1>13. Adds(table, after, keyHash, index)
  BY <1>3, <1>4, <1>9, <1>10, <1>11, <1>12 DEF Adds
<1> QED
  BY <1>13 DEF after, filled

\* insertToBucket adds an entry, unless the bucket is the next one to split and
\* full.
LEMMA InsertedAdds ==
  ASSUME NEW table, IsTable(table), NEW index \in DOMAIN table, NEW keyHash \in KeyHashes,
         NEW next
  PROVE  IF HasRoom(table[index]) \/ index # next
         THEN Adds(table, Inserted(table, keyHash, index, next), keyHash, index)
         ELSE Inserted(table, keyHash, index, next) = table
BY FillAdds DEF Inserted
-----------------------------------------------------------------------------
CopiesIn(table, keyHash) == Cardinality(PlacesIn(table, keyHash))

LEMMA PlacesFinite ==
  ASSUME NEW table, IsTable(table), IsFiniteSet(DOMAIN table), NEW keyHash
  PROVE  IsFiniteSet(PlacesIn(table, keyHash)) /\ CopiesIn(table, keyHash) \in Nat
<1> DEFINE Row(index) == {index} \X DOMAIN table[index]
           Rows == {Row(index) : index \in DOMAIN table}
           f == [index \in DOMAIN table |-> Row(index)]
<1>1. ASSUME NEW index \in DOMAIN table PROVE IsFiniteSet(Row(index))
  <2>1. table[index] \in Bucket
    BY DEF IsTable
  <2>2. DOMAIN table[index] = 1 .. Len(table[index]) /\ Len(table[index]) \in Nat
    BY <2>1, BucketType
  <2>3. IsFiniteSet(1 .. Len(table[index]))
    BY <2>2, FS_Interval
  <2>4. IsFiniteSet(DOMAIN table[index]) /\ IsFiniteSet({index})
    BY <2>2, <2>3, FS_Singleton
  <2> QED
    BY <2>4, FS_Product
<1>2. f \in Surjection(DOMAIN table, Rows)
  BY DEF Surjection
<1>3. IsFiniteSet(Rows)
  BY <1>2, FS_Surjection
<1>4. IsFiniteSet(UNION Rows)
  BY <1>1, <1>3, FS_UNION
<1>5. PlacesIn(table, keyHash) \subseteq UNION Rows
  BY DEF PlacesIn, Spots
<1>6. IsFiniteSet(PlacesIn(table, keyHash))
  BY <1>4, <1>5, FS_Subset
<1> QED
  BY <1>6, FS_CardinalityType DEF CopiesIn

LEMMA AddsCopies ==
  ASSUME NEW table, IsTable(table), IsFiniteSet(DOMAIN table), NEW after, NEW keyHash \in KeyHashes,
         NEW index, Adds(table, after, keyHash, index)
  PROVE  /\ CopiesIn(after, keyHash) = CopiesIn(table, keyHash) + 1
         /\ \A other \in KeyHashes \ {keyHash} : CopiesIn(after, other) = CopiesIn(table, other)
<1>1. PICK spot : /\ spot \notin PlacesIn(table, keyHash)
                  /\ PlacesIn(after, keyHash) = PlacesIn(table, keyHash) \cup {spot}
  BY DEF Adds
<1>2. IsFiniteSet(PlacesIn(table, keyHash))
  BY PlacesFinite
<1>3. Cardinality(PlacesIn(after, keyHash)) = Cardinality(PlacesIn(table, keyHash)) + 1
  BY <1>1, <1>2, FS_AddElement
<1> QED
  BY <1>3 DEF Adds, CopiesIn

LEMMA AddsHashed ==
  ASSUME NEW table, NEW after, NEW keyHash \in KeyHashes, NEW index, NEW levels,
         Adds(table, after, keyHash, index), Hashed(table, levels),
         \E level \in levels : index = truncateHash(keyHash, level)
  PROVE  Hashed(after, levels)
BY DEF Adds, Hashed
-----------------------------------------------------------------------------
\* The movers are numbered in their order, from 1 and without gaps.
Rank(movers) == [j \in movers |-> Cardinality({k \in movers : k <= j})]

LEMMA RankNumbers ==
  ASSUME NEW movers \in SUBSET Page
  PROVE  /\ IsFiniteSet(movers) /\ Cardinality(movers) \in 0 .. ENTRIES
         /\ Rank(movers) \in Bijection(movers, 1 .. Cardinality(movers))
<1> DEFINE size == Cardinality(movers)
           Below(j) == {k \in movers : k <= j}
           rank == Rank(movers)
<1>1. IsFiniteSet(Page) /\ Cardinality(Page) = ENTRIES
  BY LinearHashAssumption, FS_Interval DEF Page
<1>2. IsFiniteSet(movers) /\ size <= ENTRIES /\ size \in Nat
  BY <1>1, FS_Subset, FS_CardinalityType
<1>3. ASSUME NEW j \in movers
      PROVE  IsFiniteSet(Below(j)) /\ Cardinality(Below(j)) \in 1 .. size
  <2>1. IsFiniteSet(Below(j)) /\ Cardinality(Below(j)) <= size
    BY <1>2, FS_Subset, Below(j) \in SUBSET movers
  <2>2. Cardinality(Below(j)) \in Nat
    BY <2>1, FS_CardinalityType
  <2>3. j \in Below(j)
    BY LinearHashAssumption DEF Page
  <2>4. Cardinality(Below(j)) # 0
    BY <2>1, <2>3, FS_EmptySet
  <2> QED
    BY <1>2, <2>1, <2>2, <2>4
<1>4. \A j \in movers : rank[j] = Cardinality(Below(j))
  BY DEF Rank
<1>5. rank \in [movers -> 1 .. size]
  BY <1>3 DEF Rank
<1>6. ASSUME NEW j \in movers, NEW k \in movers, j < k
      PROVE  rank[j] # rank[k]
  <2>1. j \in Nat /\ k \in Nat /\ movers \subseteq Nat
    BY LinearHashAssumption DEF Page
  <2>2. Below(j) \in SUBSET Below(k) /\ k \in Below(k) /\ k \notin Below(j)
    <3>1. \A i \in movers : i <= j => i <= k
      BY <1>6, <2>1
    <3>2. k <= k /\ ~ (k <= j)
      BY <1>6, <2>1
    <3> QED
      BY <3>1, <3>2
  <2>3. Cardinality(Below(j)) # Cardinality(Below(k))
    BY <1>3, <2>2, FS_Subset
  <2> QED
    BY <1>4, <2>3
<1> HIDE DEF rank, size
<1>7. ASSUME NEW j \in movers, NEW k \in movers, rank[j] = rank[k]
      PROVE  j = k
  <2>1. j \in Nat /\ k \in Nat
    BY LinearHashAssumption DEF Page
  <2>2. ~ (j < k) /\ ~ (k < j)
    BY <1>6, <1>7
  <2> QED
    BY <2>1, <2>2
<1>8. rank \in Injection(movers, 1 .. size)
  BY <1>5, <1>7 DEF Injection, IsInjective
<1>9. IsFiniteSet(1 .. size) /\ Cardinality(1 .. size) = size
  BY <1>2, FS_Interval
<1>10. rank \in Surjection(movers, 1 .. size)
  BY <1>8, <1>9, FS_Injection DEF size
<1> QED
  BY <1>2, <1>8, <1>10, LinearHashAssumption DEF Bijection, rank, size

\* addBucket cuts the table and appends a new bucket.
LEMMA WithBucketTable ==
  ASSUME NEW table, IsTable(table), NEW mirror \in Nat
  PROVE  /\ IsTable(WithBucket(table, mirror))
         /\ DOMAIN WithBucket(table, mirror) = {i \in DOMAIN table : i < mirror} \cup {mirror}
         /\ WithBucket(table, mirror)[mirror] = NewBucket
         /\ \A i \in DOMAIN table : i < mirror => WithBucket(table, mirror)[i] = table[i]
BY NewBucketType DEF IsTable, WithBucket

\* What it appends is empty, and takes the place of the bucket that may have been
\* there.
LEMMA WithBucketPlaces ==
  ASSUME NEW table, IsTable(table), NEW mirror \in Nat,
         \A i \in DOMAIN table : i <= mirror, NEW keyHash \in KeyHashes
  PROVE  PlacesIn(WithBucket(table, mirror), keyHash)
           = {spot \in PlacesIn(table, keyHash) : spot[1] # mirror}
<1> DEFINE after == WithBucket(table, mirror)
           kept == {spot \in PlacesIn(table, keyHash) : spot[1] # mirror}
<1>1. /\ DOMAIN after = DOMAIN table \cup {mirror}
      /\ after[mirror] = NewBucket
      /\ \A i \in DOMAIN table \ {mirror} : after[i] = table[i]
  <2>1. DOMAIN table \subseteq Nat
    BY DEF IsTable
  <2>2. \A i \in DOMAIN table \ {mirror} : i < mirror
    BY <2>1
  <2>3. {i \in DOMAIN table : i < mirror} \cup {mirror} = DOMAIN table \cup {mirror}
    BY <2>1, <2>2
  <2> QED
    BY <2>2, <2>3, WithBucketTable
<1>2. keyHash # FREE
  BY HashNotFree
<1> HIDE DEF after
<1>3. ASSUME NEW spot \in PlacesIn(after, keyHash)
      PROVE  spot \in kept
  <2>1. /\ spot = <<spot[1], spot[2]>> /\ spot[1] \in DOMAIN after
        /\ spot[2] \in DOMAIN after[spot[1]] /\ after[spot[1]][spot[2]] = keyHash
    BY SpotIsPair DEF PlacesIn
  <2>2. spot[1] # mirror
    BY <1>1, <1>2, <2>1, NewBucketType
  <2> QED
    BY <1>1, <2>1, <2>2, SpotsDef DEF PlacesIn
<1>4. ASSUME NEW spot \in kept
      PROVE  spot \in PlacesIn(after, keyHash)
  <2>1. /\ spot = <<spot[1], spot[2]>> /\ spot[1] \in DOMAIN table /\ spot[1] # mirror
        /\ spot[2] \in DOMAIN table[spot[1]] /\ table[spot[1]][spot[2]] = keyHash
    BY SpotIsPair DEF PlacesIn
  <2> QED
    BY <1>1, <2>1, SpotsDef DEF PlacesIn
<1> QED
  BY <1>3, <1>4 DEF after

\* After a split, the page of the mirror bucket holds the movers in the order of
\* their ranks, and only them; and they are free in the page they left.
LEMMA RedistributedTable ==
  ASSUME NEW table, IsTable(table), NEW next \in DOMAIN table, NEW mirror \in DOMAIN table,
         next # mirror,
         NEW after, after = Redistributed(table, next, mirror),
         NEW movers, movers = Movers(table, next, mirror)
  PROVE  /\ IsTable(after) /\ DOMAIN after = DOMAIN table
         /\ \A i \in DOMAIN table \ {next, mirror} : after[i] = table[i]
         /\ after[next] = Vacated(table[next], movers)
         /\ DOMAIN after[mirror] = Page
         /\ \A j \in movers : after[mirror][Rank(movers)[j]] = table[next][j]
         /\ \A i \in Page : i > Cardinality(movers) => after[mirror][i] = FREE
<1> DEFINE size == Cardinality(movers)
           rank == Rank(movers)
           Mover(i) == CHOOSE j \in movers : Cardinality({k \in movers : k <= j}) = i
           page == [i \in Page |-> IF i <= size THEN table[next][Mover(i)] ELSE FREE]
<1>1. /\ movers \in SUBSET Page /\ table[next] \in Bucket
      /\ \A j \in movers : table[next][j] \in KeyHashes
  <2>1. table[next] \in Bucket
    BY DEF IsTable
  <2> QED
    BY <2>1, BucketType DEF Movers
<1>2. after = [table EXCEPT ![next] = Vacated(@, movers), ![mirror] = page]
  BY DEF Redistributed
<1>3. /\ rank \in Bijection(movers, 1 .. size) /\ size \in 0 .. ENTRIES
      /\ \A j \in movers : rank[j] = Cardinality({k \in movers : k <= j})
  BY <1>1, RankNumbers DEF Rank
<1> HIDE DEF size, rank
<1>4. ASSUME NEW i \in 1 .. size
      PROVE  Mover(i) \in movers /\ rank[Mover(i)] = i
  <2>1. \E j \in movers : rank[j] = i
    BY <1>3 DEF Bijection, Surjection
  <2>2. \E j \in movers : Cardinality({k \in movers : k <= j}) = i
    BY <1>3, <2>1
  <2>3. Mover(i) \in movers /\ Cardinality({k \in movers : k <= Mover(i)}) = i
    BY <2>2
  <2> QED
    BY <1>3, <2>3
<1> HIDE DEF Mover
<1>5. page \in [Page -> KeyHashes \cup {FREE}]
  BY <1>1, <1>3, <1>4 DEF Page
<1>6. page \in Bucket /\ DOMAIN page = Page
  BY <1>5, PageIsBucket
<1>7. ASSUME NEW j \in movers
      PROVE  page[rank[j]] = table[next][j]
  <2>1. rank[j] \in 1 .. size /\ rank[j] \in Page
    BY <1>3, LinearHashAssumption DEF Page, Bijection, Injection
  <2>2. Mover(rank[j]) = j
    BY <1>3, <1>4, <2>1 DEF Bijection, Injection, IsInjective
  <2> QED
    BY <2>1, <2>2
<1>8. \A i \in Page : i > size => page[i] = FREE
  BY <1>3 DEF Page
<1> HIDE DEF page
<1>9. Vacated(table[next], movers) \in Bucket
  <2>1. /\ table[next] \in Seq(KeyHashes \cup {FREE}) /\ Len(table[next]) \in Nat
        /\ DOMAIN table[next] = 1 .. Len(table[next])
    BY <1>1, BucketType DEF Bucket
  <2>2. Vacated(table[next], movers) \in [1 .. Len(table[next]) -> KeyHashes \cup {FREE}]
    BY <1>1, <2>1, BucketType DEF Vacated
  <2>3. /\ Vacated(table[next], movers) \in Seq(KeyHashes \cup {FREE})
        /\ Len(Vacated(table[next], movers)) = Len(table[next])
    BY <2>1, <2>2, SeqDef
  <2> QED
    BY <1>1, <2>3 DEF Bucket
<1>10. /\ DOMAIN after = DOMAIN table /\ after[mirror] = page
       /\ after[next] = Vacated(table[next], movers)
       /\ \A i \in DOMAIN table \ {next, mirror} : after[i] = table[i]
  BY <1>2 DEF IsTable
<1>11. IsTable(after)
  BY <1>2, <1>6, <1>9 DEF IsTable
<1> QED
  BY <1>6, <1>7, <1>8, <1>10, <1>11 DEF size, rank
-----------------------------------------------------------------------------
\* A split into an empty bucket moves entries: of every hash there are as many
\* as before, each of them in its bucket of this level or of the next one.
LEMMA RedistributedMoves ==
  ASSUME NEW table, IsTable(table), IsFiniteSet(DOMAIN table),
         NEW next \in DOMAIN table, NEW mirror \in DOMAIN table, next # mirror,
         table[mirror] = NewBucket, NEW keyHash \in KeyHashes
  PROVE  /\ CopiesIn(Redistributed(table, next, mirror), keyHash) = CopiesIn(table, keyHash)
         /\ \A spot \in PlacesIn(Redistributed(table, next, mirror), keyHash) :
              \/ spot \in PlacesIn(table, keyHash)
              \/ spot[1] = mirror /\ truncateHash(keyHash, m_currentLevel + 1) = mirror
<1> DEFINE after == Redistributed(table, next, mirror)
           movers == Movers(table, next, mirror)
           rank == Rank(movers)
           size == Cardinality(movers)
           Old == PlacesIn(table, keyHash)
           New == PlacesIn(after, keyHash)
           Moves(spot) == spot[1] = next /\ spot[2] \in movers
           move == [spot \in Old |-> IF Moves(spot) THEN <<mirror, rank[spot[2]]>> ELSE spot]
<1>1. /\ IsTable(after) /\ DOMAIN after = DOMAIN table
      /\ \A i \in DOMAIN table \ {next, mirror} : after[i] = table[i]
      /\ after[next] = Vacated(table[next], movers)
      /\ DOMAIN after[mirror] = Page
      /\ \A j \in movers : after[mirror][rank[j]] = table[next][j]
      /\ \A i \in Page : i > size => after[mirror][i] = FREE
  BY RedistributedTable
<1>2. /\ movers \in SUBSET Page /\ movers \subseteq DOMAIN table[next]
      /\ \A j \in movers : truncateHash(table[next][j], m_currentLevel + 1) = mirror
  <2>1. table[next] \in Bucket
    BY DEF IsTable
  <2> QED
    BY <2>1, BucketType DEF Movers
<1>3. rank \in Bijection(movers, 1 .. size) /\ size \in 0 .. ENTRIES
  BY <1>2, RankNumbers
<1>4. keyHash # FREE
  BY HashNotFree
<1>5. IsFiniteSet(Old)
  BY PlacesFinite
<1> HIDE DEF after, movers, rank, size
<1>6. DOMAIN after[next] = DOMAIN table[next]
      /\ \A i \in DOMAIN table[next] : after[next][i] = IF i \in movers THEN FREE ELSE table[next][i]
  BY <1>1 DEF Vacated
<1>7. /\ \A j \in movers : rank[j] \in 1 .. size /\ rank[j] \in Page
      /\ \A i \in 1 .. size : \E j \in movers : rank[j] = i
      /\ \A j, k \in movers : rank[j] = rank[k] => j = k
  <2>1. \A j \in movers : rank[j] \in 1 .. size
    BY <1>3 DEF Bijection, Injection
  <2>2. \A i \in 1 .. size : i \in Page
    BY <1>3, LinearHashAssumption DEF Page
  <2>3. \A i \in 1 .. size : \E j \in movers : rank[j] = i
    BY <1>3 DEF Bijection, Surjection
  <2>4. \A j, k \in movers : rank[j] = rank[k] => j = k
    BY <1>3 DEF Bijection, Injection, IsInjective
  <2> QED
    BY <2>1, <2>2, <2>3, <2>4
\* Where an entry was, and where it went.
<1>8. ASSUME NEW spot \in Old
      PROVE  /\ spot = <<spot[1], spot[2]>> /\ spot[1] # mirror
             /\ move[spot] \in New
             /\ move[spot] = IF Moves(spot) THEN <<mirror, rank[spot[2]]>> ELSE spot
  <2>1. /\ spot = <<spot[1], spot[2]>> /\ spot[1] \in DOMAIN table
        /\ spot[2] \in DOMAIN table[spot[1]] /\ table[spot[1]][spot[2]] = keyHash
    BY SpotIsPair DEF PlacesIn
  <2>2. spot[1] # mirror
    BY <1>4, <2>1, NewBucketType
  <2>3. CASE Moves(spot)
    <3>1. <<mirror, rank[spot[2]]>> \in Spots(after)
      BY <1>1, <1>7, <2>3, SpotsDef
    <3>2. after[mirror][rank[spot[2]]] = keyHash
      BY <1>1, <2>1, <2>3
    <3>3. <<mirror, rank[spot[2]]>> \in New
      BY <3>1, <3>2 DEF PlacesIn
    <3> QED
      BY <2>1, <2>2, <2>3, <3>3
  <2>4. CASE ~ Moves(spot)
    <3>1. spot[2] \in DOMAIN after[spot[1]] /\ after[spot[1]][spot[2]] = keyHash
      BY <1>1, <1>6, <2>1, <2>2, <2>4
    <3>2. spot \in New
      BY <1>1, <2>1, <3>1, SpotsDef DEF PlacesIn
    <3> QED
      BY <2>1, <2>2, <2>4, <3>2
  <2> QED
    BY <2>3, <2>4
\* Where an entry is, and where it came from.
<1>9. ASSUME NEW spot \in New
      PROVE  \/ spot \in Old /\ ~ Moves(spot)
             \/ \E j \in movers : <<next, j>> \in Old /\ spot = <<mirror, rank[j]>>
  <2>1. /\ spot = <<spot[1], spot[2]>> /\ spot[1] \in DOMAIN table
        /\ spot[2] \in DOMAIN after[spot[1]] /\ after[spot[1]][spot[2]] = keyHash
    BY <1>1, SpotIsPair DEF PlacesIn
  <2>2. CASE spot[1] = mirror
    <3>1. spot[2] \in Page /\ ~ (spot[2] > size)
      BY <1>1, <1>4, <2>1, <2>2
    <3>2. spot[2] \in 1 .. size
      BY <1>3, <3>1, LinearHashAssumption DEF Page
    <3>3. PICK j \in movers : rank[j] = spot[2]
      BY <1>7, <3>2
    <3>4. table[next][j] = keyHash
      BY <1>1, <2>1, <2>2, <3>3
    <3>5. <<next, j>> \in Old
      BY <1>2, <3>4, SpotsDef DEF PlacesIn
    <3> QED
      BY <2>1, <2>2, <3>3, <3>5
  <2>3. CASE spot[1] # mirror
    <3>1. /\ spot[2] \in DOMAIN table[spot[1]] /\ table[spot[1]][spot[2]] = keyHash
          /\ ~ Moves(spot)
      BY <1>1, <1>4, <1>6, <2>1, <2>3
    <3>2. spot \in Old
      BY <2>1, <3>1, SpotsDef DEF PlacesIn
    <3> QED
      BY <3>1, <3>2
  <2> QED
    BY <2>2, <2>3
<1> HIDE DEF Old, New
<1>10. move \in Bijection(Old, New)
  <2>1. move \in [Old -> New]
    BY <1>8
  <2>2. ASSUME NEW a \in Old, NEW b \in Old, move[a] = move[b]
        PROVE  a = b
    <3>1. CASE Moves(a) /\ Moves(b)
      <4>1. rank[a[2]] = rank[b[2]]
        BY <1>8, <2>2, <3>1
      <4>2. a[2] = b[2] /\ a[1] = b[1]
        BY <1>7, <3>1, <4>1
      <4> QED
        BY <1>8, <4>2
    <3>2. CASE ~ (Moves(a) /\ Moves(b))
      <4>1. move[a] = a \/ move[a][1] = mirror
        BY <1>8
      <4>2. move[b] = b \/ move[b][1] = mirror
        BY <1>8
      <4>3. a[1] # mirror /\ b[1] # mirror
        BY <1>8
      <4> QED
        BY <1>8, <2>2, <3>2, <4>1, <4>2, <4>3
    <3> QED
      BY <3>1, <3>2
  <2>3. ASSUME NEW spot \in New PROVE \E from \in Old : move[from] = spot
    <3>1. CASE spot \in Old /\ ~ Moves(spot)
      BY <1>8, <3>1
    <3>2. ASSUME NEW j \in movers, <<next, j>> \in Old, spot = <<mirror, rank[j]>>
          PROVE  \E from \in Old : move[from] = spot
      <4>1. Moves(<<next, j>>)
        OBVIOUS
      <4>2. move[<<next, j>>] = <<mirror, rank[j]>>
        BY <1>8, <3>2, <4>1
      <4> QED
        BY <3>2, <4>2
    <3> QED
      BY <1>9, <3>1, <3>2
  <2> QED
    BY <2>1, <2>2, <2>3 DEF Bijection, Injection, Surjection, IsInjective
<1>11. Cardinality(New) = Cardinality(Old)
  BY <1>5, <1>10, FS_Bijection DEF ExistsBijection
<1>12. ASSUME NEW spot \in New
       PROVE  \/ spot \in Old
              \/ spot[1] = mirror /\ truncateHash(keyHash, m_currentLevel + 1) = mirror
  <2>1. ASSUME NEW j \in movers, <<next, j>> \in Old, spot = <<mirror, rank[j]>>
        PROVE  spot[1] = mirror /\ truncateHash(keyHash, m_currentLevel + 1) = mirror
    <3>1. table[next][j] = keyHash
      BY <2>1 DEF Old, PlacesIn
    <3> QED
      BY <1>2, <2>1, <3>1
  <2> QED
    BY <1>9, <2>1
<1> QED
  BY <1>11, <1>12 DEF CopiesIn, Old, New, after
-----------------------------------------------------------------------------
\* The table of librekv_linear_put never grows.  That of put2 grows by one
\* bucket at its first split; after a second one it is not as large as
\* m_currBucketNum says, and displaying it goes wild.
Unsplit ==
  /\ m_currBucketNum = twoToPowerOf[m_currentLevel]
  /\ DOMAIN m_linear_hashTable = 0 .. m_currBucketNum - 1
  /\ Hashed(m_linear_hashTable, {m_currentLevel})

SplitOnce ==
  /\ m_currentLevel > 1
  /\ m_currBucketNum = twoToPowerOf[m_currentLevel - 1]
  /\ DOMAIN m_linear_hashTable = 0 .. m_currBucketNum
  /\ Hashed(m_linear_hashTable, {m_currentLevel - 1, m_currentLevel})

Shape ==
  /\ version = "put" => Unsplit
  /\ version = "put2" => /\ m_nextBucketIndexToSplit = 0
                         /\ Running => Unsplit \/ SplitOnce

LinearInv == TypeOK /\ Shape

LEMMA LinearInit == Init => LinearInv
<1> SUFFICES ASSUME Init PROVE LinearInv
  OBVIOUS
<1>1. /\ version \in {"put", "put2"} /\ m_currentLevel \in Nat /\ status = "running"
      /\ m_currBucketNum = twoToPowerOf[m_currentLevel]
      /\ m_linear_hashTable = [index \in 0 .. m_currBucketNum - 1 |-> NewBucket]
      /\ m_nextBucketIndexToSplit = 0 /\ puts \in [KeyHashes -> Nat]
  BY LinearHashAssumption DEF Init
<1>2. m_currBucketNum \in Nat \ {0}
  BY <1>1, PowerType
<1>3. TypeOK
  BY <1>1, <1>2, NewBucketType DEF TypeOK
<1>4. ASSUME NEW keyHash \in KeyHashes, NEW spot \in PlacesIn(m_linear_hashTable, keyHash)
      PROVE  FALSE
  <2>1. /\ spot[1] \in DOMAIN m_linear_hashTable /\ spot[2] \in DOMAIN m_linear_hashTable[spot[1]]
        /\ m_linear_hashTable[spot[1]][spot[2]] = keyHash
    BY SpotIsPair DEF PlacesIn
  <2>2. m_linear_hashTable[spot[1]] = NewBucket
    BY <1>1, <2>1
  <2> QED
    BY <2>1, <2>2, NewBucketType, HashNotFree
<1>5. Unsplit
  BY <1>1, <1>4 DEF Unsplit, Hashed
<1> QED
  BY <1>1, <1>3, <1>5 DEF LinearInv, Shape

\* In a state that a call can start from, the buckets are numbered from 0 and
\* reach as far as m_currBucketNum, or one further.
LEMMA TableFacts ==
  ASSUME LinearInv, version = "put" \/ Running
  PROVE  /\ IsTable(m_linear_hashTable) /\ m_currentLevel \in Nat
         /\ m_currBucketNum \in Nat \ {0}
         /\ \/ Unsplit /\ DOMAIN m_linear_hashTable = 0 .. m_currBucketNum - 1
            \/ SplitOnce /\ DOMAIN m_linear_hashTable = 0 .. m_currBucketNum
         /\ IsFiniteSet(DOMAIN m_linear_hashTable)
<1>1. IsTable(m_linear_hashTable) /\ m_currentLevel \in Nat
  BY DEF LinearInv, TypeOK, IsTable
<1>2. Unsplit \/ SplitOnce
  BY DEF LinearInv, Shape, TypeOK
<1>3. m_currBucketNum \in Nat \ {0}
  BY <1>1, <1>2, PowerType DEF Unsplit, SplitOnce
<1>4. IsFiniteSet(0 .. m_currBucketNum - 1) /\ IsFiniteSet(0 .. m_currBucketNum)
  BY <1>3, FS_Interval
<1> QED
  BY <1>1, <1>2, <1>3, <1>4 DEF Unsplit, SplitOnce

\* librekv_linear_put stores a hash where the current level computes, or goes
\* wild.
LEMMA TargetIsHere ==
  ASSUME LinearInv, version = "put", NEW keyHash \in KeyHashes, Exists(Target(keyHash))
  PROVE  Target(keyHash) = truncateHash(keyHash, m_currentLevel)
<1>1. /\ m_currentLevel \in Nat /\ twoToPowerOf[m_currentLevel] \in Nat
      /\ DOMAIN m_linear_hashTable = 0 .. twoToPowerOf[m_currentLevel] - 1
  BY PowerType DEF LinearInv, TypeOK, Shape, Unsplit
<1>2. CASE Target(keyHash) = truncateHash(keyHash, m_currentLevel + 1)
  <2>1. Target(keyHash) < twoToPowerOf[m_currentLevel]
    BY <1>1 DEF Exists
  <2> QED
    BY <1>1, <1>2, <2>1, HashNext
<1> QED
  BY <1>2 DEF Target

\* The tables between the steps of a split.
LEMMA SplitTable ==
  ASSUME LinearInv, version = "put2", Running, NEW keyHash \in KeyHashes,
         NeedsSplit(keyHash), Split(keyHash)
  PROVE  \E stored, added, split :
           LET index == truncateHash(keyHash, m_currentLevel)
           IN  /\ index \in DOMAIN m_linear_hashTable
               /\ stored = Inserted(m_linear_hashTable, keyHash, index, 0)
               /\ IsTable(stored) /\ DOMAIN stored = DOMAIN m_linear_hashTable
               /\ added = WithBucket(stored, m_currBucketNum)
               /\ IsTable(added) /\ DOMAIN added = 0 .. m_currBucketNum
               /\ added[m_currBucketNum] = NewBucket
               /\ split = Redistributed(added, 0, m_currBucketNum)
               /\ IsTable(split) /\ DOMAIN split = 0 .. m_currBucketNum
               /\ index \in DOMAIN split
               /\ m_linear_hashTable' = Inserted(split, keyHash, index, 1)
<1> DEFINE index == truncateHash(keyHash, m_currentLevel)
           stored == Inserted(m_linear_hashTable, keyHash, index, 0)
           added == WithBucket(stored, m_currBucketNum)
           split == Redistributed(added, 0, m_currBucketNum)
<1>1. /\ IsTable(m_linear_hashTable) /\ m_currentLevel \in Nat /\ m_currBucketNum \in Nat \ {0}
      /\ \/ DOMAIN m_linear_hashTable = 0 .. m_currBucketNum - 1
         \/ DOMAIN m_linear_hashTable = 0 .. m_currBucketNum
  BY TableFacts
<1>2. index \in DOMAIN m_linear_hashTable /\ m_nextBucketIndexToSplit = 0
  BY DEF NeedsSplit, Exists, LinearInv, Shape
<1>3. m_linear_hashTable' = Inserted(split, keyHash, index, 1)
  BY <1>2 DEF Split, PutAgain
<1>4. IsTable(stored) /\ DOMAIN stored = DOMAIN m_linear_hashTable
  BY <1>1, <1>2, InsertedAdds DEF Adds
<1> HIDE DEF index, stored
<1>5. /\ IsTable(added) /\ added[m_currBucketNum] = NewBucket
      /\ DOMAIN added = {i \in DOMAIN stored : i < m_currBucketNum} \cup {m_currBucketNum}
  BY <1>1, <1>4, WithBucketTable
<1> HIDE DEF added
<1>6. DOMAIN added = 0 .. m_currBucketNum
  BY <1>1, <1>4, <1>5
<1>7. 0 \in DOMAIN added /\ m_currBucketNum \in DOMAIN added /\ 0 # m_currBucketNum
  BY <1>1, <1>6
<1>8. IsTable(split) /\ DOMAIN split = DOMAIN added
  BY <1>5, <1>7, RedistributedTable
<1>9. index \in DOMAIN split
  BY <1>1, <1>2, <1>6, <1>8
<1> QED
  BY <1>2, <1>3, <1>4, <1>5, <1>6, <1>8, <1>9 DEF index, stored, added

\* The first split of a put2 table: all entries of other hashes are there, and
\* at least one more of the hash that was put.
LEMMA FirstSplit ==
  ASSUME LinearInv, version = "put2", Running, Unsplit, NEW keyHash \in KeyHashes,
         NeedsSplit(keyHash), Split(keyHash)
  PROVE  /\ Hashed(m_linear_hashTable', {m_currentLevel, m_currentLevel + 1})
         /\ CopiesIn(m_linear_hashTable', keyHash) >= CopiesIn(m_linear_hashTable, keyHash) + 1
         /\ \A other \in KeyHashes \ {keyHash} :
              CopiesIn(m_linear_hashTable', other) = CopiesIn(m_linear_hashTable, other)
<1> DEFINE index == truncateHash(keyHash, m_currentLevel)
           table == m_linear_hashTable
           after == m_linear_hashTable'
           mirror == m_currBucketNum
           levels == {m_currentLevel, m_currentLevel + 1}
<1>1. PICK stored, added, split :
        /\ index \in DOMAIN table
        /\ stored = Inserted(table, keyHash, index, 0)
        /\ IsTable(stored) /\ DOMAIN stored = DOMAIN table
        /\ added = WithBucket(stored, mirror)
        /\ IsTable(added) /\ DOMAIN added = 0 .. mirror
        /\ added[mirror] = NewBucket
        /\ split = Redistributed(added, 0, mirror)
        /\ IsTable(split) /\ DOMAIN split = 0 .. mirror
        /\ index \in DOMAIN split
        /\ after = Inserted(split, keyHash, index, 1)
  BY SplitTable
<1>2. /\ IsTable(table) /\ m_currentLevel \in Nat /\ mirror \in Nat \ {0}
      /\ DOMAIN table = 0 .. mirror - 1 /\ mirror = twoToPowerOf[m_currentLevel]
      /\ Hashed(table, {m_currentLevel})
  BY TableFacts DEF Unsplit
<1>3. IsFiniteSet(0 .. mirror - 1) /\ IsFiniteSet(0 .. mirror)
  <2>1. mirror - 1 \in Int /\ mirror \in Int
    BY <1>2
  <2> HIDE DEF mirror
  <2> QED
    BY <2>1, FS_Interval
<1>4. IsFiniteSet(DOMAIN table) /\ IsFiniteSet(DOMAIN split) /\ IsFiniteSet(DOMAIN added)
      /\ IsFiniteSet(DOMAIN stored)
  BY <1>1, <1>2, <1>3
<1> HIDE DEF table, after, mirror
\* The tables stored and split hold what the ones before them hold, or one
\* more entry of the hash; added and split hold the same entries as stored.
<1>5. /\ IF HasRoom(table[index]) \/ index # 0 THEN Adds(table, stored, keyHash, index)
         ELSE stored = table
      /\ IF HasRoom(split[index]) \/ index # 1 THEN Adds(split, after, keyHash, index)
         ELSE after = split
  <2> HIDE DEF index
  <2>1. IF HasRoom(table[index]) \/ index # 0 THEN Adds(table, stored, keyHash, index)
        ELSE stored = table
    BY <1>1, <1>2, InsertedAdds
  <2>2. IF HasRoom(split[index]) \/ index # 1 THEN Adds(split, after, keyHash, index)
        ELSE after = split
    BY <1>1, InsertedAdds
  <2> QED
    BY <2>1, <2>2
<1>7. ASSUME NEW other \in KeyHashes PROVE PlacesIn(added, other) = PlacesIn(stored, other)
  <2>1. PlacesIn(added, other) = {spot \in PlacesIn(stored, other) : spot[1] # mirror}
    BY <1>1, <1>2, WithBucketPlaces
  <2>2. \A spot \in PlacesIn(stored, other) : spot[1] \in DOMAIN stored
    BY SpotIsPair DEF PlacesIn
  <2>3. mirror \notin DOMAIN stored
    BY <1>1, <1>2
  <2> QED
    BY <2>1, <2>2, <2>3
<1>8. 0 \in DOMAIN added /\ mirror \in DOMAIN added /\ 0 # mirror
  BY <1>1, <1>2
<1>9. ASSUME NEW other \in KeyHashes
      PROVE  /\ CopiesIn(split, other) = CopiesIn(stored, other)
             /\ \A spot \in PlacesIn(split, other) :
                  \/ spot \in PlacesIn(stored, other)
                  \/ spot[1] = truncateHash(other, m_currentLevel + 1)
  <2>1. /\ CopiesIn(split, other) = CopiesIn(added, other)
        /\ \A spot \in PlacesIn(split, other) :
             \/ spot \in PlacesIn(added, other)
             \/ spot[1] = mirror /\ truncateHash(other, m_currentLevel + 1) = mirror
    BY <1>1, <1>4, <1>8, RedistributedMoves
  <2> QED
    BY <1>7, <2>1 DEF CopiesIn
<1>10. Hashed(stored, {m_currentLevel})
  BY <1>2, <1>5, AddsHashed
<1>11. Hashed(split, levels)
  BY <1>9, <1>10 DEF Hashed
<1>12. Hashed(after, levels)
  BY <1>5, <1>11, AddsHashed
<1>13. /\ CopiesIn(table, keyHash) \in Nat /\ CopiesIn(stored, keyHash) \in Nat
       /\ CopiesIn(after, keyHash) >= CopiesIn(split, keyHash)
       /\ CopiesIn(stored, keyHash) >= CopiesIn(table, keyHash)
       /\ index # 0 => CopiesIn(stored, keyHash) = CopiesIn(table, keyHash) + 1
       /\ index # 1 => CopiesIn(after, keyHash) = CopiesIn(split, keyHash) + 1
  <2>1. /\ CopiesIn(table, keyHash) \in Nat /\ CopiesIn(stored, keyHash) \in Nat
        /\ CopiesIn(split, keyHash) \in Nat
    BY <1>1, <1>2, <1>4, PlacesFinite
  <2>2. \/ stored = table /\ index = 0
        \/ CopiesIn(stored, keyHash) = CopiesIn(table, keyHash) + 1
    BY <1>2, <1>4, <1>5, AddsCopies
  <2>3. \/ after = split /\ index = 1
        \/ CopiesIn(after, keyHash) = CopiesIn(split, keyHash) + 1
    BY <1>1, <1>4, <1>5, AddsCopies
  <2> QED
    BY <2>1, <2>2, <2>3
<1>14. CopiesIn(after, keyHash) >= CopiesIn(table, keyHash) + 1
  <2>1. CopiesIn(split, keyHash) = CopiesIn(stored, keyHash)
    BY <1>9
  <2>2. index # 0 \/ index # 1
    OBVIOUS
  <2> HIDE DEF index
  <2> QED
    BY <1>13, <2>1, <2>2
<1>15. ASSUME NEW other \in KeyHashes \ {keyHash}
       PROVE  CopiesIn(after, other) = CopiesIn(table, other)
  <2>1. CopiesIn(stored, other) = CopiesIn(table, other)
    BY <1>2, <1>4, <1>5, AddsCopies
  <2>2. CopiesIn(after, other) = CopiesIn(split, other)
    BY <1>1, <1>4, <1>5, AddsCopies
  <2> QED
    BY <1>9, <2>1, <2>2
<1> QED
  BY <1>12, <1>14, <1>15 DEF table, after

\* Any split of a put2 table: of every other hash it drops the entries in the
\* bucket it replaces, if there is one, and no others.
LEMMA SplitDrops ==
  ASSUME LinearInv, version = "put2", Running, NEW keyHash \in KeyHashes,
         NeedsSplit(keyHash), Split(keyHash), NEW other \in KeyHashes \ {keyHash}
  PROVE  CopiesIn(m_linear_hashTable', other) = CopiesIn(m_linear_hashTable, other)
           - Cardinality({spot \in PlacesIn(m_linear_hashTable, other) :
                            spot[1] = m_currBucketNum})
<1> DEFINE index == truncateHash(keyHash, m_currentLevel)
           table == m_linear_hashTable
           after == m_linear_hashTable'
           mirror == m_currBucketNum
           dropped == {spot \in PlacesIn(table, other) : spot[1] = mirror}
<1>1. PICK stored, added, split :
        /\ index \in DOMAIN table
        /\ stored = Inserted(table, keyHash, index, 0)
        /\ IsTable(stored) /\ DOMAIN stored = DOMAIN table
        /\ added = WithBucket(stored, mirror)
        /\ IsTable(added) /\ DOMAIN added = 0 .. mirror
        /\ added[mirror] = NewBucket
        /\ split = Redistributed(added, 0, mirror)
        /\ IsTable(split) /\ DOMAIN split = 0 .. mirror
        /\ index \in DOMAIN split
        /\ after = Inserted(split, keyHash, index, 1)
  BY SplitTable
<1>2. /\ IsTable(table) /\ mirror \in Nat \ {0} /\ IsFiniteSet(DOMAIN table)
      /\ \A i \in DOMAIN table : i <= mirror
  <2>1. /\ IsTable(table) /\ mirror \in Nat \ {0} /\ IsFiniteSet(DOMAIN table)
        /\ DOMAIN table = 0 .. mirror - 1 \/ DOMAIN table = 0 .. mirror
    BY TableFacts
  <2> HIDE DEF table, mirror
  <2> QED
    BY <2>1
<1> HIDE DEF table, after, mirror, index
<1>3. IsFiniteSet(DOMAIN added)
  BY <1>1, <1>2, FS_Interval
<1>4. PlacesIn(stored, other) = PlacesIn(table, other)
  BY <1>1, <1>2, InsertedAdds DEF Adds
<1>5. PlacesIn(added, other) = {spot \in PlacesIn(stored, other) : spot[1] # mirror}
  BY <1>1, <1>2, WithBucketPlaces
<1>6. PlacesIn(added, other) = PlacesIn(table, other) \ dropped
  BY <1>4, <1>5
<1>7. CopiesIn(added, other) = CopiesIn(table, other) - Cardinality(dropped)
  <2>1. IsFiniteSet(PlacesIn(table, other)) /\ PlacesIn(table, other) \cap dropped = dropped
    BY <1>2, PlacesFinite
  <2> HIDE DEF dropped
  <2> QED
    BY <1>6, <2>1, FS_Difference DEF CopiesIn
<1>8. CopiesIn(split, other) = CopiesIn(added, other)
  <2>1. 0 \in DOMAIN added /\ mirror \in DOMAIN added /\ 0 # mirror
    BY <1>1, <1>2
  <2> QED
    BY <1>1, <1>3, <2>1, RedistributedMoves
<1>9. CopiesIn(after, other) = CopiesIn(split, other)
  BY <1>1, InsertedAdds DEF Adds, CopiesIn
<1> QED
  BY <1>7, <1>8, <1>9 DEF dropped, table, after, mirror

\* The second split of a put2 table sets m_currBucketNum to twice the number of
\* buckets there are, and the display it ends with reads beyond them.
LEMMA SecondSplitLeaves ==
  ASSUME LinearInv, version = "put2", Running, SplitOnce, NEW keyHash \in KeyHashes,
         NeedsSplit(keyHash), Split(keyHash)
  PROVE  ~ DisplayStaysInside'
<1> DEFINE half == twoToPowerOf[m_currentLevel - 1]
<1>1. DOMAIN m_linear_hashTable' = 0 .. half
  <2>1. DOMAIN m_linear_hashTable' = 0 .. m_currBucketNum
    BY SplitTable, InsertedAdds DEF Adds
  <2> QED
    BY <2>1 DEF SplitOnce
<1>2. m_currBucketNum' = twoToPowerOf[m_currentLevel]
  BY DEF Split
<1>3. /\ m_currentLevel - 1 \in Nat /\ m_currentLevel - 2 \in Nat
      /\ (m_currentLevel - 2) + 1 = m_currentLevel - 1
      /\ (m_currentLevel - 1) + 1 = m_currentLevel
  BY DEF SplitOnce, LinearInv, TypeOK
<1>4. half = 2 * twoToPowerOf[m_currentLevel - 2] /\ twoToPowerOf[m_currentLevel] = 2 * half
  BY <1>3, PowerDoubles
<1>5. twoToPowerOf[m_currentLevel - 2] \in Nat \ {0}
  BY <1>3, PowerType
<1> HIDE DEF half
<1>6. 2 * half - 1 \in 0 .. m_currBucketNum' - 1 /\ 2 * half - 1 \notin 0 .. half
  BY <1>2, <1>4, <1>5
<1> QED
  BY <1>1, <1>6 DEF DisplayStaysInside
-----------------------------------------------------------------------------
\* What every call of a put does.
LEMMA CalledType ==
  ASSUME LinearInv, NEW put, NEW keyHash \in KeyHashes, Called(put, keyHash)
  PROVE  /\ version = put /\ version' = version /\ Running
         /\ puts' \in [KeyHashes -> Nat]
         /\ puts'[keyHash] = puts[keyHash] + 1
         /\ \A other \in KeyHashes \ {keyHash} : puts'[other] = puts[other]
BY DEF Called, CountPut, LinearInv, TypeOK, Running

\* A call that goes wild, or that stores nothing, or no call.
LEMMA QuietKeepsInv ==
  ASSUME LinearInv, version' = version, puts' \in [KeyHashes -> Nat],
         status' \in {"running", "displaying", "undefined"}, Running' => Running,
         UNCHANGED <<m_linear_hashTable, m_currentLevel, m_currBucketNum,
                     m_nextBucketIndexToSplit>>
  PROVE  LinearInv'
<1>1. TypeOK'
  BY DEF LinearInv, TypeOK
<1>2. (Unsplit' <=> Unsplit) /\ (SplitOnce' <=> SplitOnce)
  BY DEF Unsplit, SplitOnce
<1> QED
  BY <1>1, <1>2 DEF LinearInv, Shape

\* A call of either put that leaves the table its size.
LEMMA InsertKeepsInv ==
  ASSUME LinearInv, Running, version' = version, puts' \in [KeyHashes -> Nat],
         NEW keyHash \in KeyHashes,
         \/ Adds(m_linear_hashTable, m_linear_hashTable', keyHash,
                 truncateHash(keyHash, m_currentLevel))
         \/ m_linear_hashTable' = m_linear_hashTable,
         UNCHANGED <<m_currentLevel, m_currBucketNum, status>>,
         m_nextBucketIndexToSplit' \in 0 .. twoToPowerOf[m_currentLevel] - 1,
         version = "put2" => m_nextBucketIndexToSplit' = 0
  PROVE  LinearInv'
<1>1. TypeOK'
  BY DEF LinearInv, TypeOK, Adds, IsTable
<1>2. DOMAIN m_linear_hashTable' = DOMAIN m_linear_hashTable
  BY DEF Adds
<1>3. ASSUME NEW levels, m_currentLevel \in levels, Hashed(m_linear_hashTable, levels)
      PROVE  Hashed(m_linear_hashTable', levels)
  BY <1>3, AddsHashed
<1>4. Unsplit => Unsplit'
  BY <1>2, <1>3 DEF Unsplit
<1>5. SplitOnce => SplitOnce'
  BY <1>2, <1>3 DEF SplitOnce
<1> QED
  BY <1>1, <1>4, <1>5 DEF LinearInv, Shape, Running

\* What librekv_linear_put stores, whether or not it says that it splits.
LEMMA PutInserts ==
  ASSUME LinearInv, version = "put", NEW keyHash \in KeyHashes, Exists(Target(keyHash)),
         m_linear_hashTable' = Inserted(m_linear_hashTable, keyHash, Target(keyHash),
                                        m_nextBucketIndexToSplit)
  PROVE  LET index == truncateHash(keyHash, m_currentLevel)
         IN  /\ index \in DOMAIN m_linear_hashTable
             /\ \/ Adds(m_linear_hashTable, m_linear_hashTable', keyHash, index)
                \/ /\ m_linear_hashTable' = m_linear_hashTable
                   /\ ~ HasRoom(m_linear_hashTable[index])
BY TargetIsHere, InsertedAdds, TableFacts DEF Exists

LEMMA Put2Inserts ==
  ASSUME LinearInv, version = "put2", Running, NEW keyHash \in KeyHashes, Put2Simple(keyHash)
  PROVE  Adds(m_linear_hashTable, m_linear_hashTable', keyHash,
              truncateHash(keyHash, m_currentLevel))
BY InsertedAdds, TableFacts DEF Put2Simple, Exists

\* The first split of a table leaves it with one bucket more; a second one goes
\* wild, because its display reads beyond the table.
LEMMA SplitKeepsInv ==
  ASSUME LinearInv, NEW keyHash \in KeyHashes, Put2Split(keyHash)
  PROVE  LinearInv'
<1>1. /\ version = "put2" /\ version' = "put2" /\ Running /\ puts' \in [KeyHashes -> Nat]
      /\ NeedsSplit(keyHash) /\ Split(keyHash)
      /\ \/ DisplayStaysInside' /\ status' = status
         \/ status' \in {"displaying", "undefined"}
  BY CalledType DEF Put2Split
<1>2. /\ m_currentLevel \in Nat /\ m_currentLevel > 0 /\ m_currentLevel' = m_currentLevel + 1
      /\ m_currBucketNum' = twoToPowerOf[m_currentLevel] /\ m_nextBucketIndexToSplit' = 0
  BY <1>1 DEF Split, NeedsSplit, LinearInv, TypeOK
<1>3. IsTable(m_linear_hashTable') /\ DOMAIN m_linear_hashTable' = 0 .. m_currBucketNum
  BY <1>1, SplitTable, InsertedAdds DEF Adds
<1>4. TypeOK'
  <2>1. m_currBucketNum' \in Nat /\ twoToPowerOf[m_currentLevel'] \in Nat \ {0}
    BY <1>2, PowerType
  <2> QED
    BY <1>1, <1>2, <1>3, <2>1 DEF LinearInv, TypeOK, Running, IsTable
<1>5. ASSUME Running' PROVE SplitOnce'
  <2>1. DisplayStaysInside'
    BY <1>1, <1>5 DEF Running
  <2>2. CASE Unsplit
    <3>1. Hashed(m_linear_hashTable', {m_currentLevel, m_currentLevel + 1})
      BY <1>1, <2>2, FirstSplit
    <3>2. m_currentLevel' - 1 = m_currentLevel
      BY <1>2
    <3> QED
      BY <1>2, <1>3, <2>2, <3>1, <3>2 DEF SplitOnce, Unsplit
  <2>3. CASE SplitOnce
    BY <1>1, <2>1, <2>3, SecondSplitLeaves
  <2> QED
    BY <1>1, <2>2, <2>3 DEF LinearInv, Shape
<1> QED
  BY <1>1, <1>2, <1>4, <1>5 DEF LinearInv, Shape

LEMMA LinearNext == LinearInv /\ [Next]_vars => LinearInv'
<1> SUFFICES ASSUME LinearInv, [Next]_vars PROVE LinearInv'
  OBVIOUS
<1>0. /\ m_currentLevel \in Nat /\ twoToPowerOf[m_currentLevel] \in Nat \ {0}
      /\ m_nextBucketIndexToSplit \in 0 .. twoToPowerOf[m_currentLevel] - 1
  BY PowerType DEF LinearInv, TypeOK
<1>1. ASSUME NEW keyHash \in KeyHashes, Put2AtLevelZero(keyHash) PROVE LinearInv'
  BY <1>1, CalledType, QuietKeepsInv DEF Put2AtLevelZero, LinearInv, TypeOK, Running
<1>2. ASSUME NEW keyHash \in KeyHashes, Put2Simple(keyHash) PROVE LinearInv'
  <2>1. version = "put2" /\ Running /\ version' = version /\ puts' \in [KeyHashes -> Nat]
        /\ UNCHANGED <<m_currentLevel, m_currBucketNum, m_nextBucketIndexToSplit, status>>
    BY <1>2, CalledType DEF Put2Simple
  <2>2. m_nextBucketIndexToSplit = 0
    BY <2>1 DEF LinearInv, Shape
  <2> QED
    BY <1>0, <1>2, <2>1, <2>2, Put2Inserts, InsertKeepsInv
<1>3. ASSUME NEW keyHash \in KeyHashes, Put2Wild(keyHash) \/ PutWild(keyHash) \/ PutSplitWild(keyHash)
      PROVE  LinearInv'
  <2>1. \E put : Called(put, keyHash) /\ GoesWild
    BY <1>3 DEF Put2Wild, PutWild, PutSplitWild
  <2>2. version' = version /\ puts' \in [KeyHashes -> Nat]
    BY <2>1, CalledType
  <2> QED
    BY <2>1, <2>2, QuietKeepsInv DEF GoesWild, Running
<1>4. ASSUME NEW keyHash \in KeyHashes, Put2Split(keyHash) PROVE LinearInv'
  BY <1>4, SplitKeepsInv
<1>5. ASSUME NEW keyHash \in KeyHashes, PutSimple(keyHash) \/ PutSplit(keyHash)
      PROVE  LinearInv'
  <2>1. /\ version = "put" /\ version' = version /\ Running /\ puts' \in [KeyHashes -> Nat]
        /\ Exists(Target(keyHash)) /\ UNCHANGED <<m_currentLevel, m_currBucketNum, status>>
        /\ m_linear_hashTable' = Inserted(m_linear_hashTable, keyHash, Target(keyHash),
                                          m_nextBucketIndexToSplit)
    BY <1>5, CalledType DEF PutSimple, PutSplit
  <2>2. m_nextBucketIndexToSplit' \in 0 .. twoToPowerOf[m_currentLevel] - 1
    <3>1. \A m \in Nat, d \in Nat \ {0} : m % d \in 0 .. d - 1
      OBVIOUS
    <3>2. (m_nextBucketIndexToSplit + 1) % twoToPowerOf[m_currentLevel]
            \in 0 .. twoToPowerOf[m_currentLevel] - 1
      <4>1. m_nextBucketIndexToSplit + 1 \in Nat
        BY <1>0
      <4> QED
        BY <1>0, <3>1, <4>1
    <3> QED
      BY <1>0, <1>5, <3>2 DEF PutSimple, PutSplit
  <2> QED
    BY <2>1, <2>2, PutInserts, InsertKeepsInv
<1>6. CASE UNCHANGED vars
  BY <1>6, QuietKeepsInv DEF vars, LinearInv, TypeOK, Running
<1> QED
  BY <1>1, <1>2, <1>3, <1>4, <1>5, <1>6 DEF Next, Put2, Put

LEMMA LinearInvariant == Spec => []LinearInv
BY LinearInit, LinearNext, PTL DEF Spec

\* The type invariant, for tables of any size: every bucket is a head page and
\* whole overflow pages, also after wild calls.
THEOREM TypeCorrect == Spec => []TypeOK
<1>1. LinearInv => TypeOK
  BY DEF LinearInv
<1> QED
  BY <1>1, LinearInvariant, PTL

\* Every entry is where its hash belongs at this level or the one before.
THEOREM PlacementCorrect == Spec => []HashedPlacement
<1>1. LinearInv => HashedPlacement
  <2> SUFFICES ASSUME LinearInv, Running, NEW keyHash \in KeyHashes, NEW place \in Places(keyHash)
               PROVE  \E level \in {m_currentLevel - 1, m_currentLevel} \ {-1} :
                        place[1] = truncateHash(keyHash, level)
    BY DEF HashedPlacement
  <2>1. place \in PlacesIn(m_linear_hashTable, keyHash) /\ m_currentLevel \in Nat
    BY DEF Places, PlacesIn, LinearInv, TypeOK
  <2>2. CASE Unsplit
    BY <2>1, <2>2 DEF Unsplit, Hashed
  <2>3. CASE SplitOnce
    BY <2>1, <2>3 DEF SplitOnce, Hashed
  <2> QED
    BY <2>2, <2>3, TableFacts
<1> QED
  BY <1>1, LinearInvariant, PTL
-----------------------------------------------------------------------------
\* What a call that stays inside its memory does to the number of entries.
Accounts(keyHash) ==
  /\ Running /\ version' = version
  /\ puts'[keyHash] = puts[keyHash] + 1
  /\ \A other \in KeyHashes \ {keyHash} :
       puts'[other] = puts[other] /\ Copies(other)' = Copies(other)
  /\ version = "put2" =>
       IF m_currentLevel = 0 THEN m_currentLevel' = 0
       ELSE Copies(keyHash)' >= Copies(keyHash) + 1
  /\ version = "put" =>
       /\ m_currentLevel' = m_currentLevel
       /\ Kept(m_linear_hashTable, m_linear_hashTable')
       /\ \/ Copies(keyHash)' = Copies(keyHash) + 1
          \/ /\ Copies(keyHash)' = Copies(keyHash)
             /\ ~ HasRoom(m_linear_hashTable[truncateHash(keyHash, m_currentLevel)])

LEMMA CopiesDef ==
  ASSUME NEW keyHash
  PROVE  /\ Copies(keyHash) = CopiesIn(m_linear_hashTable, keyHash)
         /\ Copies(keyHash)' = CopiesIn(m_linear_hashTable', keyHash)
BY DEF Copies, CopiesIn, Places, PlacesIn, Spots

LEMMA NextAccounts ==
  ASSUME LinearInv, Next, Running'
  PROVE  \E keyHash \in KeyHashes : Accounts(keyHash)
<1>1. ASSUME NEW keyHash \in KeyHashes, Put2AtLevelZero(keyHash) PROVE Accounts(keyHash)
  <2>1. m_linear_hashTable' = m_linear_hashTable /\ m_currentLevel = 0 /\ m_currentLevel' = 0
    BY <1>1 DEF Put2AtLevelZero
  <2>2. \A other : Copies(other)' = Copies(other)
    BY <2>1, CopiesDef
  <2>3. version = "put2"
    BY <1>1, CalledType DEF Put2AtLevelZero
  <2> QED
    BY <1>1, <2>1, <2>2, <2>3, CalledType DEF Put2AtLevelZero, Accounts
<1>2. ASSUME NEW keyHash \in KeyHashes, Put2Simple(keyHash) PROVE Accounts(keyHash)
  <2>1. version = "put2" /\ Running /\ m_currentLevel > 0 /\ m_currentLevel \in Nat
    BY <1>2, CalledType DEF Put2Simple, LinearInv, TypeOK
  <2>2. Adds(m_linear_hashTable, m_linear_hashTable', keyHash,
             truncateHash(keyHash, m_currentLevel))
    BY <1>2, <2>1, Put2Inserts
  <2>3. /\ Copies(keyHash)' = Copies(keyHash) + 1 /\ Copies(keyHash) \in Nat
        /\ \A other \in KeyHashes \ {keyHash} : Copies(other)' = Copies(other)
    BY <2>1, <2>2, TableFacts, AddsCopies, PlacesFinite, CopiesDef
  <2> QED
    BY <1>2, <2>1, <2>3, CalledType DEF Put2Simple, Accounts
<1>3. ASSUME NEW keyHash \in KeyHashes, Put2Wild(keyHash) \/ PutWild(keyHash) \/ PutSplitWild(keyHash)
      PROVE  FALSE
  BY <1>3 DEF Put2Wild, PutWild, PutSplitWild, GoesWild, Running
<1>4. ASSUME NEW keyHash \in KeyHashes, Put2Split(keyHash) PROVE Accounts(keyHash)
  <2>1. /\ version = "put2" /\ Running /\ NeedsSplit(keyHash) /\ Split(keyHash)
        /\ m_currentLevel > 0 /\ m_currentLevel \in Nat
    BY <1>4, CalledType DEF Put2Split, NeedsSplit, LinearInv, TypeOK
  <2>2. Unsplit
    <3>1. DisplayStaysInside'
      BY <1>4 DEF Put2Split, Running
    <3> QED
      BY <2>1, <3>1, SecondSplitLeaves DEF LinearInv, Shape
  <2>3. /\ Copies(keyHash)' >= Copies(keyHash) + 1
        /\ \A other \in KeyHashes \ {keyHash} : Copies(other)' = Copies(other)
    BY <2>1, <2>2, FirstSplit, CopiesDef
  <2> QED
    BY <1>4, <2>1, <2>3, CalledType DEF Put2Split, Accounts
<1>5. ASSUME NEW keyHash \in KeyHashes, PutSimple(keyHash) \/ PutSplit(keyHash)
      PROVE  Accounts(keyHash)
  <2> DEFINE index == truncateHash(keyHash, m_currentLevel)
  <2>1. /\ version = "put" /\ Exists(Target(keyHash)) /\ m_currentLevel' = m_currentLevel
        /\ m_linear_hashTable' = Inserted(m_linear_hashTable, keyHash, Target(keyHash),
                                          m_nextBucketIndexToSplit)
        /\ Called("put", keyHash)
    BY <1>5, CalledType DEF PutSimple, PutSplit
  <2>2. \/ Adds(m_linear_hashTable, m_linear_hashTable', keyHash, index)
        \/ /\ m_linear_hashTable' = m_linear_hashTable
           /\ ~ HasRoom(m_linear_hashTable[index])
    BY <2>1, PutInserts
  <2>3. CASE Adds(m_linear_hashTable, m_linear_hashTable', keyHash, index)
    <3>1. /\ Copies(keyHash)' = Copies(keyHash) + 1
          /\ \A other \in KeyHashes \ {keyHash} : Copies(other)' = Copies(other)
      BY <2>1, <2>3, TableFacts, AddsCopies, CopiesDef
    <3>2. Kept(m_linear_hashTable, m_linear_hashTable')
      BY <2>3 DEF Adds
    <3> QED
      BY <2>1, <3>1, <3>2, CalledType DEF Accounts
  <2>4. CASE m_linear_hashTable' = m_linear_hashTable /\ ~ HasRoom(m_linear_hashTable[index])
    <3>1. \A other : Copies(other)' = Copies(other)
      BY <2>4, CopiesDef
    <3>2. Kept(m_linear_hashTable, m_linear_hashTable')
      BY <2>4 DEF Kept
    <3> QED
      BY <2>1, <2>4, <3>1, <3>2, CalledType DEF Accounts
  <2> QED
    BY <2>2, <2>3, <2>4
<1> QED
  BY <1>1, <1>2, <1>3, <1>4, <1>5 DEF Next, Put2, Put

\* A call that is no split changes the number of entries of its own hash only; a
\* split, the one whose display goes wild included, drops the entries of other
\* hashes that are in the bucket it replaces, and no others.
THEOREM MovesCorrect == Spec => SplitMoves
<1>1. ASSUME LinearInv, Next, status' # "undefined", NEW keyHash \in KeyHashes,
             puts'[keyHash] = puts[keyHash]
      PROVE  Copies(keyHash)' = Copies(keyHash) -
               (IF m_currentLevel' = m_currentLevel THEN 0
                ELSE Cardinality(Overwritten(keyHash)))
  <2>1. CASE \E put \in KeyHashes : Put2Split(put)
    <3>1. PICK put \in KeyHashes : Put2Split(put)
      BY <2>1
    <3>2. /\ version = "put2" /\ Running /\ NeedsSplit(put) /\ Split(put) /\ put # keyHash
          /\ m_currentLevel \in Nat /\ m_currentLevel' = m_currentLevel + 1
      BY <1>1, <3>1, CalledType DEF Put2Split, Split, LinearInv, TypeOK
    <3>3. CopiesIn(m_linear_hashTable', keyHash) = CopiesIn(m_linear_hashTable, keyHash)
            - Cardinality({spot \in PlacesIn(m_linear_hashTable, keyHash) :
                             spot[1] = m_currBucketNum})
      BY <1>1, <3>2, SplitDrops
    <3>4. Overwritten(keyHash) = {spot \in PlacesIn(m_linear_hashTable, keyHash) :
                                    spot[1] = m_currBucketNum}
      BY DEF Overwritten, Places, PlacesIn
    <3>5. m_currentLevel' # m_currentLevel
      BY <3>2
    <3> QED
      BY <3>3, <3>4, <3>5, CopiesDef
  <2>2. CASE ~ \E put \in KeyHashes : Put2Split(put)
    <3>1. PICK put \in KeyHashes : \/ Put2AtLevelZero(put) \/ Put2Simple(put)
                                   \/ PutSimple(put) \/ PutSplit(put)
      BY <1>1, <2>2 DEF Next, Put2, Put, Put2Wild, PutWild, PutSplitWild, GoesWild
    <3>2. Running' /\ m_currentLevel' = m_currentLevel
      BY <1>1, <3>1, CalledType
         DEF Put2AtLevelZero, Put2Simple, PutSimple, PutSplit, Running
    <3>3. PICK call \in KeyHashes : Accounts(call)
      BY <1>1, <3>2, NextAccounts
    <3>4. call # keyHash
      BY <1>1, <3>3 DEF Accounts, LinearInv, TypeOK
    <3>5. Copies(keyHash)' = Copies(keyHash) /\ Copies(keyHash) \in Nat
      BY <1>1, <3>3, <3>4, TableFacts, PlacesFinite, CopiesDef DEF Accounts
    <3> QED
      BY <3>2, <3>5
  <2> QED
    BY <2>1, <2>2
<1>2. LinearInv /\ [Next]_vars =>
        [status' # "undefined" => \A keyHash \in KeyHashes :
           puts'[keyHash] = puts[keyHash] =>
             Copies(keyHash)' = Copies(keyHash) -
               (IF m_currentLevel' = m_currentLevel THEN 0
                ELSE Cardinality(Overwritten(keyHash)))]_vars
  BY <1>1
<1> QED
  BY <1>2, LinearInvariant, PTL DEF Spec, SplitMoves

LEMMA CopiesNat ==
  ASSUME LinearInv, Running, NEW keyHash
  PROVE  Copies(keyHash) \in Nat
BY TableFacts, PlacesFinite, CopiesDef

FiniteTable == IsTable(m_linear_hashTable) /\ IsFiniteSet(DOMAIN m_linear_hashTable)

LEMMA FiniteTableNext == LinearInv' /\ Running' => FiniteTable'
<1>1. LinearInv /\ Running => FiniteTable
  BY TableFacts DEF FiniteTable
<1> QED
  BY <1>1, PTL

LEMMA CopiesNatNext ==
  ASSUME LinearInv', Running', NEW keyHash
  PROVE  Copies(keyHash)' \in Nat
<1>1. IsTable(m_linear_hashTable') /\ IsFiniteSet(DOMAIN m_linear_hashTable')
  BY FiniteTableNext DEF FiniteTable, IsTable
<1> QED
  BY <1>1, PlacesFinite, CopiesDef

LEMMA NoCopiesAtFirst == Init => \A keyHash \in KeyHashes : Copies(keyHash) = 0 /\ puts[keyHash] = 0
<1> SUFFICES ASSUME Init, NEW keyHash \in KeyHashes
             PROVE  Copies(keyHash) = 0 /\ puts[keyHash] = 0
  OBVIOUS
<1>1. \A index \in DOMAIN m_linear_hashTable : m_linear_hashTable[index] = NewBucket
  BY DEF Init
<1>2. Places(keyHash) = {}
  <2> SUFFICES ASSUME NEW spot \in Places(keyHash) PROVE FALSE
    OBVIOUS
  <2>1. /\ spot[1] \in DOMAIN m_linear_hashTable /\ spot[2] \in DOMAIN m_linear_hashTable[spot[1]]
        /\ m_linear_hashTable[spot[1]][spot[2]] = keyHash
    BY SpotIsPair DEF Places
  <2> QED
    BY <1>1, <2>1, NewBucketType, HashNotFree
<1> QED
  BY <1>2, FS_EmptySet DEF Copies, Init

\* A put2 above level 0 that stays inside its memory leaves an entry of its own,
\* also when it splits a bucket.
THEOREM NothingLostCorrect == Spec => []NothingLost
<1>1. Init => NothingLost
  BY NoCopiesAtFirst DEF NothingLost
<1>2. LinearInv /\ LinearInv' /\ NothingLost /\ [Next]_vars => NothingLost'
  <2> SUFFICES ASSUME LinearInv, LinearInv', NothingLost, [Next]_vars
               PROVE  NothingLost'
    OBVIOUS
  <2>1. CASE UNCHANGED vars
    BY <2>1 DEF vars, NothingLost, Running, Copies, Places, Spots
  <2>2. CASE Next
    <3> SUFFICES ASSUME version' = "put2", Running', m_currentLevel' > 0,
                        NEW keyHash \in KeyHashes
                 PROVE  Copies(keyHash)' >= puts'[keyHash]
      BY DEF NothingLost
    <3>1. PICK put \in KeyHashes : Accounts(put)
      BY <2>2, NextAccounts
    <3>2. m_currentLevel \in Nat /\ m_currentLevel # 0 /\ version = "put2" /\ Running
      BY <3>1 DEF Accounts, LinearInv, TypeOK
    <3>3. Copies(keyHash) >= puts[keyHash]
      BY <3>2 DEF NothingLost
    <3>4. Copies(keyHash) \in Nat /\ Copies(keyHash)' \in Nat /\ puts[keyHash] \in Nat
      <4>1. Copies(keyHash) \in Nat
        BY <3>2, CopiesNat
      <4>2. Copies(keyHash)' \in Nat
        BY CopiesNatNext
      <4> QED
        BY <4>1, <4>2 DEF LinearInv, TypeOK
    <3>5. CASE keyHash = put
      BY <3>1, <3>2, <3>3, <3>4, <3>5 DEF Accounts
    <3>6. CASE keyHash # put
      BY <3>1, <3>3, <3>6 DEF Accounts
    <3> QED
      BY <3>5, <3>6
  <2> QED
    BY <2>1, <2>2
<1> QED
  BY <1>1, <1>2, LinearInvariant, PTL DEF Spec

\* librekv_linear_put stores a hash once per call, or not at all, and then for
\* want of room in the head page of its bucket.
THEOREM AccountsCorrect == Spec => []PutAccounts
<1>1. Init => PutAccounts
  BY NoCopiesAtFirst DEF PutAccounts
<1>2. LinearInv /\ LinearInv' /\ PutAccounts /\ [Next]_vars => PutAccounts'
  <2> SUFFICES ASSUME LinearInv, LinearInv', PutAccounts, [Next]_vars
               PROVE  PutAccounts'
    OBVIOUS
  <2>1. CASE UNCHANGED vars
    BY <2>1 DEF vars, PutAccounts, Running, Copies, Places, Spots
  <2>2. CASE Next
    <3> DEFINE page(keyHash) == truncateHash(keyHash, m_currentLevel)
               FullPage(keyHash) == \A i \in Page : m_linear_hashTable[page(keyHash)][i] # FREE
               FullPageNext(keyHash) == \A i \in Page : m_linear_hashTable'[page(keyHash)][i] # FREE
    <3> SUFFICES ASSUME version' = "put", Running', NEW keyHash \in KeyHashes
                 PROVE  /\ Copies(keyHash)' <= puts'[keyHash]
                        /\ m_currentLevel' = m_currentLevel
                        /\ Copies(keyHash)' < puts'[keyHash] => FullPageNext(keyHash)
      BY DEF PutAccounts
    <3>1. PICK put \in KeyHashes : Accounts(put)
      BY <2>2, NextAccounts
    <3>2. version = "put" /\ Running /\ m_currentLevel' = m_currentLevel
          /\ Kept(m_linear_hashTable, m_linear_hashTable')
      BY <3>1 DEF Accounts
    <3>3. Copies(keyHash) <= puts[keyHash]
          /\ (Copies(keyHash) < puts[keyHash] => FullPage(keyHash))
      BY <3>2 DEF PutAccounts
    <3>4. Copies(keyHash) \in Nat /\ puts[keyHash] \in Nat
      BY <3>2, CopiesNat DEF LinearInv, TypeOK
    <3>5. page(keyHash) \in DOMAIN m_linear_hashTable /\ m_linear_hashTable[page(keyHash)] \in Bucket
      <4>1. page(keyHash) \in 0 .. twoToPowerOf[m_currentLevel] - 1
        BY HashType DEF LinearInv, TypeOK
      <4>2. DOMAIN m_linear_hashTable = 0 .. twoToPowerOf[m_currentLevel] - 1
        BY <3>2 DEF LinearInv, Shape, Unsplit
      <4> QED
        BY <4>1, <4>2 DEF LinearInv, TypeOK
    <3>6. FullPage(keyHash) => FullPageNext(keyHash)
      BY <3>2, <3>5 DEF Kept
    <3>7. ~ HasRoom(m_linear_hashTable[page(keyHash)]) => FullPage(keyHash)
      BY <3>5, BucketType DEF HasRoom
    <3> HIDE DEF FullPage, FullPageNext, page
    <3>8. CASE keyHash # put
      BY <3>1, <3>2, <3>3, <3>6, <3>8 DEF Accounts
    <3>9. CASE keyHash = put
      <4>1. /\ puts'[keyHash] = puts[keyHash] + 1
            /\ \/ Copies(keyHash)' = Copies(keyHash) + 1
               \/ /\ Copies(keyHash)' = Copies(keyHash)
                  /\ ~ HasRoom(m_linear_hashTable[page(keyHash)])
        BY <3>1, <3>2, <3>9 DEF Accounts, page
      <4> QED
        BY <3>2, <3>3, <3>4, <3>6, <3>7, <4>1
    <3> QED
      BY <3>8, <3>9
  <2> QED
    BY <2>1, <2>2
<1> QED
  BY <1>1, <1>2, LinearInvariant, PTL DEF Spec
=============================================================================
