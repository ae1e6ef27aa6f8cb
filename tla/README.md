# Verification of LibreKV

LibreKV is a key-value store for non-volatile memory, written in C, of which
two in-memory index structures exist so far: a cuckoo hash table (`cuckoo.c`)
and a linear hash table (`linearhash.c`). Beside them are a logger (`log.c`), a
routine that reads a mapped NVM device (`nvmmap.c`), hash functions
(`hash.c`, `hash.h`, the vendored `city.c`), and `trash/`, which keeps earlier
experiments. `linearhash_test.c` has the `main` of the program: it creates a
linear hash table and puts the hashes it reads from the terminal.

This directory models the two tables, the logger, and the open-addressing table
of `trash/`, in TLA+, checks the models with TLC, and proves with TLAPS what TLC checks on
small instances: every safety property of every component, and that the cuckoo put and
the open-addressing table do what their abstract specifications promise.

To check everything: `tlc -config R.cfg M` for every run R of module M listed in
section 3, and `tlapm M` for the `...Proofs` modules.

## 1. Inventory

| Component | State | Operations | What makes it correct |
|---|---|---|---|
| Cuckoo put (`cuckoo.c` 90-289) | table of 2^15 buckets of 4 entries, entry count (a static of the file), the locals of a running put | `librekv_cuckoo_put` with `keyfrag`, `valid`, `freeslot`, `store` | every entry stays where a lookup of its key would look; a put adds exactly its entry or changes nothing; it refuses only when it must; it returns |
| Cuckoo life cycle (`cuckoo.c` 17-88, 291-330) | the global pointer, `fixFlag`, `num_buckets` | `create`, `fix`, `drop`, `immutable` | a table in use is not emptied or replaced; a fixed table does not change; errors are reported |
| Cuckoo get, delete, dumpToNvm (`cuckoo.h` 75-83) | none | declared only | nothing to model: there is no code |
| Linear hash table (`linearhash.c`) | array of buckets (chains of pages), level, bucket count, next bucket to split | `create`, `put2` (used), `put` (not called), `insertToBucket`, `addBucket`, `displayHashTable` | no put is lost or stored twice; entries are in the bucket of their hash; every index is inside the array |
| `compactBucket`, `transferToMirrorBucket` (`linearhash.c` 240-283) | none of their own | never called; the first starts with an uninitialised pointer, the second is empty | not modelled |
| Logger (`log.c`) | cached settings and file path, file handle | `librekv_logWrite`, `librekv_logWrite_va` | a line goes where the `log.conf` of its own call wants it, and only at a level that it wants; every stream is closed |
| NVM mapping (`nvmmap.c`) | none | `librekv_mmap`: open, map, read every byte, unmap | pure I/O, not modelled |
| Hashing (`hash.c`, `hash.h`, `city.c`) | constant tables | `hash`, which is `CityHash64` | a pure function; a CONSTANT of the models |
| `merge.c`, `super.c`, `util.*`, `librekv.h`, `common.h` | none | a pthread example that is not built; empty or declarations | nothing to model |
| Open-addressing table (`trash/linear_hash.c`, and the same code in `trash/linear.c`) | slots that are empty, occupied or dummy, element count, load threshold | `lh_insert`, `lh_set`, `lh_get`, `lh_exists`, `lh_delete`, `lh_resize`, `lh_tune_threshold`, `lh_new`, `lh_destroy`, ... | lookups find what was inserted across deletes and resizes; no key is stored twice; the count, which resizes go by, is right; failed calls change nothing |
| Other files of `trash/` | | an earlier draft of the cuckoo table that does not compile, an earlier logger, exercises | not modelled |

How they interact: the cuckoo put calls `hash` and the logger, which only
writes. The linear table calls neither; its callers pass hashes. Both tables
keep values as addresses (`offset`), to become offsets in NVM. Nothing in the
built program runs concurrently and nothing is persisted, so the hard
behaviours are mostly not interleavings but long sequences of calls, and the
intermediate states of single calls: chains of evictions and their undoing,
splits that move entries while another is inserted, counters and pointers
outside the structure they describe. The exception is the logger: the `log.conf`
that every call reads, and the clock, change while it runs. `PROJECT.json` lists them, each at its line.

## 2. The modules

```
PutStore  <==implements==  CuckooStore -- extends --> Cuckoo <-- extends -- CuckooUndo
                               |                      ^                       |
                               +------ MCCuckoo ------|-----------------------+
                                                      |
                              MCCuckooTable --> CuckooTable

KeyMap    <==implements==  LhStore -- extends --> LhTable     LinearHash        Log
                               |                                 |             |
                 LhHash --> MCLhTable                       MCLinearHash     MCLog
```

The proofs about a module are in a module that extends it:

```
CuckooProofs <-- CuckooUndoProofs <-- CuckooStoreProofs     (Cuckoo, CuckooUndo, CuckooStore)
     ^---------- CuckooTableProofs                          (CuckooTable)
LhTableProofs <-- LhStoreProofs                             (LhTable, LhStore)
LinearHashProofs                                            (LinearHash)
LogProofs                                                   (Log)
```

### Cuckoo: `librekv_cuckoo_put`

The state is the table (`bucketArray`), the static `current_entries`, and the
locals of a running put: `args` for its parameters, `current` for `current_index`,
`current_tag`, `current_hash` and `current_offset`, the loop counter `n`, and
`undo` for the two undo arrays. `pc` says in which loop put is; `ret` is what the
last put returned.

| Action | Code |
|---|---|
| `PutNull` | the early return for a null key or value |
| `PutFirstBucket` | a free slot in the bucket of the randomly chosen fragment |
| `PutOtherBucket` | none: on to the other fragment, and into the loop |
| `StoreCurrent` | a round of the loop that finds a free slot |
| `Evict(way)` | a round that evicts the entry of a random way |
| `StartUndo` | the loop is out of rounds |
| `UndoEviction` | a round of the undo loop |
| `ReturnFailure` | the end: -1 |

`rand` is nondeterminism. The hash is a CONSTANT, since CityHash64 is a pure
function of the key's address bytes. `keyTag` keeps its layout, 15 bits of tag with
the valid bit above them, because forgetting to set or to mask that bit is what can
go wrong; with `BUCKETS_PER_TABLE` for 2^15, setting the bit is an addition and
masking it a `%`. Left out: log lines, timing, and the `sprintf` of line 237, whose
text is longer than its buffer (what it overwrites is the linker's choice; the models
speak of builds where it is memory that nothing reads).

**PutStore** is what a caller may expect: a bag of pairs, to which a put adds its
pair and returns 1, or which it leaves alone and returns -1. **CuckooStore** maps
`Cuckoo` onto it. The mapping has one subtlety: while put evicts, the table already
holds the new pair and lacks the one that put carries, so the abstract bag is the
table's plus the carried pair minus the requested one.

**CuckooUndo** adds the history variable `trace` to `Cuckoo`: the states that the
eviction loop went through. Nothing in the code keeps them, and what the undo loop
must do cannot be said without them. `USpec` is `Spec` with it; `MCCuckoo` checks the
properties of all three modules in one run of `USpec`.

**CuckooTable** puts the life cycle around put: `Create` (which makes a table, or
refuses), `Fix`, `Drop`, and `immutable`, split into `ImmutableRefused` and
`ImmutableUsesInvalid` by whether it returns early or reads through the pointer -1.
`cuckoo_hash_table` is the file's global, `handle` says that a caller has the live
table. Callers are taken to be sane: they pass NULL or a table that `create` returned
and that they have not dropped, and `put` is never given NULL. `malloc` succeeds, as
the code assumes. `num_buckets`, zeroed by the `memset` after its assignment, is left
out: only the end of `immutable` reads it, and no such caller gets there.

### LinearHash: `librekv_linear_put2` and `librekv_linear_put`

A program calls one of the two versions of put; `version` says which: `put2`, which the
program calls, or `put`, which it has commented out. They share `Init`, `insertToBucket`
(`Inserted`) and `initNewBucket`. A bucket, a head page and a chain
of overflow pages, is one sequence: every search of the code goes through the pages in
order. An entry is its key hash: the offset travels with it. `twoToPowerOf` is the code's
own, its doublings as a recursive function; the models take 2^level as a natural
number, the code as an `int`, which is the same up to level 30 (`put2` raises the
level at most twice before it leaves its memory, see `SecondSplitLeaves` below). `puts`, the number of calls of each hash, has no bound of its
own: `MaxPuts` only ends the runs. Each put is one action
per path through it (`Put2Simple`, `Put2Split`, `PutSimple`, `PutSplit`, ...), since
no other code runs meanwhile. `Redistributed` computes what the loop of the split does
entry by entry.

The code leaves the memory it owns: `put2` reads one entry beyond the page it splits
(line 313) and displays buckets that were never allocated (line 350), and `put` uses
mirror buckets that nobody made. A call that does so may end in the status
"undefined", after which nothing is modelled. For the over-read, `Put2Split` also has
the outcome in which what is read does not look like an entry to move. The display is
the last thing that `put2` does: a call that leaves the memory only there ends in the status
"displaying", with the table that its split has made. That is the second split of every
table: line 340 has left `m_currBucketNum` where it was at the first split, so the second
finds its "new" bucket in use and starts it afresh (`WithBucket`), and the entries in it
are gone. `SplitMoves` speaks of it too: it counts
what each split drops. The other properties are about the table before that split.

### LhTable: the open-addressing table of `trash/linear_hash.c`

`New` (for `lh_new` and `lh_init`) and `Destroy` begin and end a table's life; nobody
uses it after that. The state is the table's `entries`, `size`, `n_elems` and `threshold`. A resize
copies slot by slot, and each round of its loop is an action (`SkipSlot`, `CopySlot`,
`ResizeFails`, `Swap`), as is the end of an insert (`StoreEntry`, `StoreFails`,
`StoreFindsNoSlot`); the other calls are one action each. The searches are not loops
but their results: the code starts at the hash's slot, wraps around and stops at the
first slot it wants, and `Nearest` is that slot. `calloc` may fail wherever the code
calls it: `ResizeRefused` and `InsertRefused` (the new array) and `StoreFails` (the copy
of the key, after which the slot is marked and has a null key). A later comparison with
that null key is `LookupCrashes`. Two keys of one hash are taken to
have one length, since otherwise `strncmp` is not reached. Arguments are never null.

**LhHash** is `lh_hash`, in an unsigned type of `ULongRange` values. `LhTable` takes the
hashes as a CONSTANT; `MCLhTable` gives it those of three strings, and an assumption there,
which TLC evaluates, says that they are what `lh_hash` computes.

**KeyMap** is the promise of `linear_hash.h`: a map with insert, set, get, exists and
delete. Its `call` and `result` are the last call that returned, with the key and the data
it was given, and what it returned. The answer of `Get(key)`, for example, is what the map
has for that key, and `Delete(key)` removes that key and no other. **LhStore** maps the table
onto it. What the table's code keeps of a call is its result only, so `LhStore`
adds the history variable `call` to `LhTable` (`CSpec`), set as each call returns, from the
arguments it was called with. Slots without a key stand for nothing.

### Log: `librekv_logWrite` and `librekv_logWrite_va`

The two differ in how they format a line, which is left out. A call goes through the
steps of `pc`:

| Action | Code |
|---|---|
| `Call` | the call, with its level |
| `SetDefaults`, `FindConfig` | `getlogset`: `access` finds no `log.conf`, or one |
| `ReadFails`, `ReadConfig` | `ReadConfig`: it cannot be opened, or its path and level are taken over |
| `FilterOut`, `SetTime` | `initlog`: the level is not wanted, or it is, and the line's time is taken |
| `OpenFile`, `OpenFails` | `initlog`: the path in HOME if there is none yet, and `fopen` |
| `WriteLine` | the write, `fflush`, `fclose`, and the cleared handle |
| `EditConfig`, `Midnight`, `Restart` | outside of the process, at any time |

`logsetting` and `loging` are the file's two statics; `streams` counts the streams that
the process has open, and `seen` is a history variable: the `log.conf`s and the days that
there were during the call. A path is a sequence, of the parts of its directory and a
day, in which longer stands for longer: that is all that the `memcpy` of line 43
(`Copied`) needs. It is a copy without the terminating zero, onto what the buffer held.
Levels are a set, as the bits of `loglevel` are; `level=ALL`, like any word that
`getcode` does not know, is all of them. Reading `log.conf` is one step: an edit replaces the file. HOME is set.

The `MC...` modules give the constants that a .cfg cannot express. Operators marked
"Mutant" in a module are used by no specification: each is a plausible mistake in the
definition that follows it (a forgotten mask, the undo order reversed, an empty slot
for a dummy), and each property of the passing runs is known to fail when one of them
replaces that definition (`PROJECT.json`, "mutants").

## 3. The runs

| Run (`.cfg`), module | Checks | Shows |
|---|---|---|
| `Cuckoo_small`, `MCCuckoo` | `TypeOK`, `Placement`, `CountMatches`, `RefusedOnlyWhenFull`, `UndoRetraces`, `FailedPutRestores`, `ImplementsPutStore` | put, with every choice of `rand`, keeps indexes, tags and count right and refuses only when both buckets are full; the undo loop goes through the states of the evictions backwards and ends where put began; put is the put of `PutStore`, which always returns |
| `CuckooTable_small`, `MCCuckooTable` | `TableTypeOK`, `LiveTableCounts`, `LiveTableKeepsEntries` | no order of create, fix, immutable, drop and put empties a table in use or makes its count wrong |
| `LinearHash_small`, `MCLinearHash` | `TypeOK`, `HashedPlacement`, `NothingLost`, `SplitMoves`, `PutAccounts` | put2, until its second split, loses nothing, and entries are where one of the last two levels puts them; its first split copies and drops nothing, its second drops exactly the bucket that it overwrites; put stores at most once, and leaves a hash out only when the head page of its bucket is full |
| `LhTable_small`, `MCLhTable` | `TypeOK`, `EntriesReachable`, `KeysUnique`, `CountMatches`, `InsertFindsRoom`, `ImplementsKeyMap` | deletes, resizes and failures never hide an entry, double a key or spoil the count; the threshold leaves room; from new to destroy, every call answers what a map would answer to it |
| `Log_small`, `MCLog` | `TypeOK`, `LineBelongs`, `HandlesClosed` | whatever happens to `log.conf` and the clock between the steps of a call, its line goes where a `log.conf` that it has seen wants it, and no stream stays open |

Seven runs are expected to find their one property violated: each holds the code to
something that its own comments, messages or documents say.

| Run | Property | What TLC finds |
|---|---|---|
| `CuckooTable_fixed` | `FixedTableIsImmutable` | create, fix, put: the put stores. No code reads `fixFlag` before it stores |
| `CuckooTable_immutable` | `ImmutableReportsFailure` | create, immutable of that table: `create` has answered -1, the code expects NULL, and reads through -1 |
| `LinearHash_twice` | `StoredOnce` | put2 puts a hash into an overflow page and, after the split, a second time |
| `LinearHash_display` | `DisplayStaysInside` | after the second split `m_currBucketNum`, assigned in the `if` of line 340, counts buckets that do not exist |
| `LinearHash_dropped` | `PutStores` | three puts of one hash with pages of two entries: its bucket is full and next to be split, so `insertToBucket` stores nothing, and put, unlike put2, does not try again |
| `LhTable_crash` | `LookupsAnswer` | an insert that cannot copy its key, then a lookup of a key with that hash |
| `Log_path` | `LineBelongs` | a call under one `log.conf`, then a call under one with a shorter directory: the end of the old path stays behind the new one |

### Bounds, and why they are enough

- *Cuckoo.* `Cuckoo_small` has 2 buckets of 2 ways, 3 rounds, keys 8, 9 and 11 and two
  values. Key 8 has fragments (0, 0): both its buckets are the same one; 9 has (1, 0) and
  11 has (1, 1). So keys with one and with two buckets compete for four slots, the
  table fills up, and there are more rounds than ways, so that evictions come back to a
  slot they have emptied. The undo then crosses its own path, and
  that is where `UndoRetraces` is hard. `CuckooTable_small` needs puts only to have something to lose.
- *LinearHash.* Both versions of put, pages of 2 entries, hashes 0 to 7, initial levels 0, 1 and 2, at
  most `MaxPuts` = 7 calls (6 in the three runs expected to fail, from level 1, where the
  program starts). Seven calls fill a page, add an overflow page and fill it, split, and
  go on after the split. The tables themselves are not bounded otherwise.
- *LhTable.* Initial and requested sizes 1, 2 and 3, grown by inserts up to 4; thresholds
  60% (the default) and 100%; three keys, two of one hash, and a third that
  collides with them in tables of 1 and 2 slots; data a value and NULL, because `lh_get`
  cannot tell NULL data from no entry. That is enough for searches that wrap around, for
  full tables without an empty slot, for dummies, and for entries without a key. `lh_hash` is
  computed with 16 bits, which the hashes of strings of two characters do not exceed.
- *Log.* Three `log.conf`s, two of them with the same directory and other levels, none, or
  one that cannot be read; three days; any number of calls, edits and restarts. One day
  more than two lets a cached path be two days old. The names of the directories have one
  length in `Log_small`; `Log_path` needs two lengths and two days.

`CHECK_DEADLOCK FALSE` is used where the system does stop: `CuckooTable` and `LhTable`
after a crash, `LinearHash` after `MaxPuts` calls or a call that has left its memory.

### Fairness

One thread runs every call and nothing can keep it waiting, so a call that has
begun goes on: `WF_vars(PutStep)` in `Cuckoo` and `WF_vars(Step)` in `LhTable`, which
`USpec` and `CSpec` take over, are about the steps inside a call only. No fairness is assumed of callers: no call has
ever to be made. That every put and every insert is answered is the liveness part of
`PutStore!Spec` and `KeyMap!Spec` (`WF_vars(Answer)`, `WF_vars(EndInsert)`), and follows
from the loop bounds. `LinearHash` and `Log` have no liveness property: the puts of the one
are single actions, and a call of the other has no loop.

## 4. What is proved

The theorems about the cuckoo table are for every value of the constants under
`CuckooAssumption`, which asks for positive sizes, keys at addresses of at least 8
(`keyfrag` asserts it), values that are not null, and a hash that gives naturals. Those
about the logger are for every set of `log.conf`s and every number of days under
`LogAssumption`, which only gives the constants their types; `LineCorrect` assumes
`EvenPaths` as well. Those about the open-addressing table are for tables of any size, any
thresholds from 1 to 10 and any hash function into the naturals (`LhAssumption`), and
with `MaxSize` any natural; sizes are not taken modulo a word. Those about the linear table
are for pages of any size but 0 and any natural levels and hashes
(`LinearHashAssumption`), with `MaxPuts` any natural. TLC evaluates the assumptions in
every run of their modules.

| Theorem | Says | Rests on |
|---|---|---|
| `CuckooProofs!TypeCorrect` | `Spec => []TypeOK` | `TypeInv` |
| `CuckooProofs!CountCorrect` | `Spec => []CountMatches` | `CountInv` |
| `CuckooProofs!RefusalCorrect` | `Spec => RefusedOnlyWhenFull` | `FullInv` |
| `CuckooUndoProofs!RetraceCorrect` | `USpec => []UndoRetraces` | `UndoInv` |
| `CuckooUndoProofs!UndoCorrect` | `USpec => FailedPutRestores` | `UndoInv` |
| `CuckooUndoProofs!PlacementCorrect` | `USpec => []Placement` | `UndoInv`, `PlacementInv` |
| `CuckooStoreProofs!StoreImplemented` | `USpec => PutStore!Safety`, mapped by `CuckooStore` | `StoreInv` |
| `CuckooTableProofs!TableTypeCorrect` | `TableSpec => []TableTypeOK` | `TableInv` |
| `CuckooTableProofs!LiveCountCorrect` | `TableSpec => []LiveTableCounts` | `TableInv` |
| `CuckooTableProofs!LiveTableCorrect` | `TableSpec => LiveTableKeepsEntries` | `TableInv` |
| `LogProofs!LogTypeCorrect` | `Spec => []TypeOK` | `BasicInv` |
| `LogProofs!HandlesCorrect` | `Spec => []HandlesClosed` | `BasicInv` |
| `LogProofs!LineCorrect` | `EvenPaths` implies `Spec => []LineBelongs` | `IInv` |
| `LhTableProofs!LhTypeCorrect` | `Spec => []TypeOK` | `LInv` |
| `LhTableProofs!ReachableCorrect` | `Spec => []EntriesReachable` | `LInv` |
| `LhTableProofs!UniqueCorrect` | `Spec => []KeysUnique` | `LInv` |
| `LhTableProofs!CountCorrect` | `Spec => []CountMatches` | `LInv` |
| `LhTableProofs!RoomCorrect` | `Spec => []InsertFindsRoom` | `LInv` |
| `LhStoreProofs!MapImplemented` | `CSpec => KeyMap!Safety`, mapped by `LhStore` | `MapInv` |
| `LinearHashProofs!TypeCorrect` | `Spec => []TypeOK` | `LinearInv` |
| `LinearHashProofs!PlacementCorrect` | `Spec => []HashedPlacement` | `LinearInv` |
| `LinearHashProofs!MovesCorrect` | `Spec => SplitMoves` | `LinearInv`, `NextAccounts`, `SplitDrops` |
| `LinearHashProofs!NothingLostCorrect` | `Spec => []NothingLost` | `LinearInv`, `NextAccounts` |
| `LinearHashProofs!AccountsCorrect` | `Spec => []PutAccounts` | `LinearInv`, `NextAccounts` |

The argument:

1. **`TypeInv`** adds to `TypeOK` how long `undo` is: `n` during the evictions,
   `MAX_CUCKOO_COUNT` during the undoing. Without it an undo step could read outside
   `undo`, and the index that it stores at would be anything. The lemmas about
   `keyfrag`, tags and masks carry the arithmetic, among them that masking and setting
   the valid bit are inverse on what a table can hold.
2. **`CountInv`** adds that every slot in `undo` is occupied. Then an eviction
   (into a full bucket) and an undo step (into a slot of `undo`) leave the set of
   occupied slots as it is, and only the two actions that count also add a slot.
3. **`FullInv`** adds that the buckets of the running put's two fragments are full
   from the moment the loops begin. It is kept because occupied slots stay occupied.
4. **`UndoInv`** is about `trace`: each recorded state arises from the one before
   by an eviction at the recorded slot (`TraceChain`, `IsEviction`), and during the
   undoing the table is the recorded one of the round (`UndoRetraces`). The history
   variable cannot be avoided: no formula over put's own variables says which table
   put found. The step that matters takes an eviction back: the slot of `undo` is where
   the recorded state and its successor differ, storing the carried entry there gives
   the earlier table back, and the entry that has to leave is the one the earlier
   state carried.
5. **`PlacementInv`** says that every recorded table has its entries in place, and what
   put carries as well. During the undoing `Placement` then follows from
   `UndoRetraces`, because the table is a recorded one. On its own `Placement` is not
   inductive: an undo step stores an entry in a slot that only the history justifies.
6. **`TableInv`** says that `CountInv` holds also of the memory that is no table yet,
   that a handle means a live table, and that between two calls `undo` is empty; create
   then starts from a state that satisfies `CountInv`.
7. **`BasicInv`** (`LogProofs`) adds that a call has one stream open while it writes;
   the handle is not null then because no path is empty.
8. **`IInv`** (`LogProofs`) says what a call knows after each step: from the filter on,
   that path and levels are those of a `log.conf` that it has seen, or that it has seen
   none that can be read and writes INF only (`LevelSettled`, `FileSettled`); and between calls, that the
   cached path is one that `log.conf` or HOME could have made (`PathKnown`). That last part
   needs `EvenPaths`: a path that overwrites one that is not longer takes its place as a
   whole (`CopiedWhole`). `Log_path` shows that the assumption cannot be dropped.
9. **`LInv`** (`LhTableProofs`) holds the five properties of the open-addressing table
   together, because each step needs several of them. `Sound` says of an array that searches
   reach its entries, that an entry with a key has that key's hash, and that no key is in
   two entries. A lookup that finds nothing and does not crash then shows that the key is
   missing (`LookupFinds`): its entry would be met before the empty slot, or the empty slot
   before the entry, and `Sound` excludes the latter. So the end of an insert
   keeps keys unique, provided that the key is still missing after the resize between them
   (`Storing`). An entry that goes into the first free slot of its search is
   reachable and cuts off no other, as no occupied slot becomes empty (`PlacedSound`);
   `CopySlot`, `StoreEntry` and `StoreFails` all rest on that. `Resizing` says that what the new array holds
   are copies of entries that the loop has passed, so none is there twice, and that it
   has as many with a key; at the end that is `n_elems`. A search is a walk along
   `Distance`, of which only two facts matter: it takes natural values, and two slots have
   two distances (`DistanceInjective`, `NearestExists`). A load below the
   threshold, or a new size above `n_elems`, leaves a slot (`LoadLeavesRoom`), which is
   `RoomCorrect`, unless entries without a key take it.

10. **`StoreInv`** adds to `UndoInv` and `CountInv` that the pair in the hands of the first
    recorded state is the one that the caller asked for (`Answering`). Every pair's number
    in the abstract bag is its number in the table, plus one if put carries it, less one
    if it was asked for (`BagBalances`). An eviction and an undo step both swap the
    carried pair with one of the table (`StoreSwaps`), which leaves that sum as it is
    (`SwapKeepsBag`), so both are invisible. When the undo is over, put carries the pair of
    the first recorded state, by `UndoRetraces`: plus one and less one cancel, and the bag
    of a failed put is the bag it found. The theorem is about `USpec`, because that
    argument needs `trace`; the history variable only watches (`UNextIsNext`: every step of
    `UNext` is one of `Next`, and `trace'` follows from it).
11. **`MapInv`** adds to `LInv` that no call is pending between calls, and that the
    array that a resize fills has every entry that its loop has passed (`Calls`), the
    converse of what `Resizing` says. The abstract map is not computed: `Represents` says
    which keys it has and what data, and two maps that represent the same entries are equal
    (`OneMap`). That is how `Swap` is invisible, although it replaces every slot
    (`SwapMap`), and how the answers of `get`, `exists`, `set` and `delete`, which the code
    finds by searching, are those of the map (`LookupAnswers`), for the key in `call`: `KeyMap`
    has an action per call and key, and each step of `CNext` is shown to be the one of its own
    key (`StepImplements` for the ends of inserts and resizes, whose key is in `request`).
    The history variable only watches (`CNextIsNext`).
12. **`LinearInv`** gives the table one of two shapes. It has the buckets of its level,
    with every entry where that level puts it (`Unsplit`); or one bucket more and one level
    more, with entries where either level puts them (`SplitOnce`). The table of `put` keeps
    the first shape: `next` runs through the level, but no mirror bucket is ever made, so
    the choice of the next level's bucket never stays inside (`TargetIsHere`). That of `put2` goes
    from the first to the second (`FirstSplit`), and there the next split leaves the memory
    (`SecondSplitLeaves`). It needs the recursion of `twoToPowerOf`; that a
    recursive definition has a solution is proved for this one (`PowerDef`), because the
    library's theorem takes an operator as a parameter.
    The three properties about numbers of entries rest on what one call does to them
    (`NextAccounts`). An insert adds one place of its hash (`InsertedAdds`). The loop of a
    split numbers the entries that move by their rank (`RankNumbers`), and sends
    the places of every hash one-to-one to the places after it (`RedistributedMoves`), so
    their number stays. What the second split drops it drops before that loop: the places of a
    hash after `addBucket` are those before it without the ones in the bucket that it replaces
    (`SplitDrops`). No induction over the entries of a page is needed.

Model-checked only:

- *Liveness under fairness*, which is outside of what the proof system can do: that
  every put and every insert is answered, the `WF` conjuncts of `PutStore!Spec` and
  `KeyMap!Spec`. The runs check the whole `Spec`s, the theorems their `Safety`.
- *The seven violations*, each a behaviour that TLC shows.

## 5. Read but not run

Things the reading found that no run states, because no text of the repository
says otherwise, or because what follows depends on the memory layout:

- `create` zeroes `num_buckets` after setting it (`cuckoo.c` 48-52), so the size check of
  `immutable` would fail if it were ever reached.
- After `drop`, and after `immutable(NULL)` as first call, no table can be created
  again (`cuckoo.c` 23), and the global goes on pointing at freed memory (`cuckoo.c` 81).
- The second split of a table overwrites a bucket in use (`linearhash.c` 205-211): entries of
  hashes that were put are gone. `SplitMoves` says which; the wild read of line 350 follows in
  the same call.
- `librekv_linear_create` takes level 0, at which `put2` stores nothing
  (`linearhash.c` 287; `Put2AtLevelZero`).
- `librekv_linear_put` never makes mirror buckets and never raises the level
  (`linearhash.c` 384-421; `PutWild`, `PutSplitWild`).
- `put2` reads one entry beyond the page it splits (`linearhash.c` 313).
- An ERROR line has an empty level text: `LogLevelText[loglevel-1]` is `LogLevelText[3]`
  (`log.c` 150). Without `log.conf` a process keeps its first day's file (`log.c` 132). Nobody
  looks at what `fwrite` and `fflush` return.
- An insert that could not copy its key leaves its data in the slot, and `lh_destroy` with
  `free_data` frees it although the caller was told 0 (`trash/linear_hash.c` 178).
- `librekv_mmap` compares a failed `mmap` with 0 (`nvmmap.c` 29).
- `lh_delete` does not free the copy of the key (`trash/linear_hash.c` 996).
- The program's loop tests an unsigned `keyHash < 0` and never ends; at
  the end of its input it puts the last hash again and again (`linearhash_test.c` 26).

## 6. Not modelled

`nvmmap.c`, the hash functions and headers, which have
no state; `merge.c`, which is not built; get, delete and dumpToNvm of the cuckoo
table, which have no code; `compactBucket` and `transferToMirrorBucket`; the other
files of `trash/`. Of the logger, the text of a line; of the open-addressing table, null
arguments and who owns the memory of keys and data.

## 7. Plan

Done, in this order: put, its abstract specification, its undo, the life cycle, the
linear table, the open-addressing table, its life and its map, the logger, the
theorems of section 4 for the cuckoo table, the logger and the open-addressing table; then
both refinements and the theorems about the linear table; then the history of calls in
`LhStore`, and what the second split does. Every safety property of a passing run is now a theorem.

Next, in the order of what they say about the code:

1. *How long an operation takes*, as far as safety can say it: a put of the cuckoo table makes
   at most twice `MAX_CUCKOO_COUNT` rounds, and a resize one per slot; a variant that every
   step decreases stands in for the liveness that cannot be proved.
2. *The violated properties under the conditions that they need*, as `LineCorrect` does
   it for `Log_path`: `StoredOnce` where no put2 finds its bucket full, `LookupsAnswer` where
   no copy of a key fails.
3. *`lh_nelems` and `lh_load` as calls of KeyMap*: their answers are the number of keys of the
   map and that number's share of the size, which would tie `CountMatches` to what a caller sees.
