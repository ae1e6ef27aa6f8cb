---------------------------- MODULE CuckooTable -----------------------------
(***************************************************************************)
(* The life of the DRAM cuckoo table: create, fix, immutable and drop, and *)
(* the puts of Cuckoo between them.                                        *)
(*                                                                         *)
(* The module keeps one table, in the global cuckoo_hash_table.  create    *)
(* refuses to make a second one, and reports that with the pointer -1;     *)
(* drop frees the table and leaves the global pointing at it.  Callers are *)
(* taken to be sane: they pass either NULL or a table that create returned *)
(* and that they have not dropped, and put's table is never NULL.          *)
(* malloc is taken to succeed.  num_buckets, which create zeroes right     *)
(* after setting it, is left out: only the end of immutable reads it.      *)
(***************************************************************************)
EXTENDS Cuckoo

VARIABLES
  cuckoo_hash_table,  \* the global: "null", a "live" table, or a "dropped" one
  handle,             \* a caller has been given the live table
  fixFlag,            \* the table's flag
  crashed             \* the process has used the pointer -1 as a table

tvars == <<cuckoo_hash_table, handle, fixFlag, crashed>>
tableVars == <<vars, tvars>>

\* The process starts with no table; Cuckoo's variables stand for the memory
\* that create will get.
TableInit ==
  /\ Init
  /\ cuckoo_hash_table = "null"
  /\ handle = FALSE
  /\ fixFlag = FALSE
  /\ crashed = FALSE

\* No call is running, and the process has not crashed.
Ready == pc = "idle" /\ ~ crashed
-----------------------------------------------------------------------------
\* librekv_cuckoo_create without a table: the fields of the new one are set
\* and then, with the whole table, zeroed.
MakeTable ==
  /\ cuckoo_hash_table = "null"
  /\ cuckoo_hash_table' = "live"
  /\ bucketArray' = [index \in Index |-> [way \in Way |-> ZeroEntry]]
  /\ current_entries' = 0
  /\ fixFlag' = FALSE
  /\ UNCHANGED <<pc, args, current, n, undo, ret, crashed>>

\* What a create that refuses leaves alone.  Mutants: it clears the table; it
\* returns only after it has reset the count.
CreateClears ==
  /\ bucketArray' = [index \in Index |-> [way \in Way |-> ZeroEntry]]
  /\ UNCHANGED current_entries
CreateResetsCount == current_entries' = 0 /\ UNCHANGED bucketArray
CreateKeeps == UNCHANGED <<bucketArray, current_entries>>

\* The early return -1 that keeps a table from being replaced: whatever the
\* global points to, it is left alone.
RefuseTable ==
  /\ cuckoo_hash_table # "null"
  /\ CreateKeeps
  /\ UNCHANGED <<pc, args, current, n, undo, ret,
                 cuckoo_hash_table, fixFlag, crashed>>

\* Mutant: create returns the global pointer also when it refuses.
CreateHandsOutGlobal ==
  /\ Ready
  /\ MakeTable \/ RefuseTable
  /\ handle' = TRUE

Create ==
  /\ Ready
  /\ \/ MakeTable /\ handle' = TRUE
     \/ RefuseTable /\ UNCHANGED handle

Fix ==
  /\ Ready
  /\ handle
  /\ fixFlag' = TRUE
  /\ UNCHANGED <<vars, cuckoo_hash_table, handle, crashed>>

\* The global still points at the table that drop frees.
Drop ==
  /\ Ready
  /\ handle
  /\ cuckoo_hash_table' = "dropped"
  /\ handle' = FALSE
  /\ UNCHANGED <<vars, fixFlag, crashed>>

\* librekv_cuckoo_immutable calls create before it looks at its argument, and
\* keeps what create returns to itself.  With NULL or a fixed table that is
\* all it does.
ImmutableRefused ==
  /\ Ready
  /\ MakeTable \/ RefuseTable
  /\ UNCHANGED handle

\* With a live table that is not fixed, create has returned -1, which is not
\* NULL: the size check then reads num_buckets through it.
ImmutableUsesInvalid ==
  /\ Ready
  /\ handle /\ ~ fixFlag
  /\ crashed' = TRUE
  /\ UNCHANGED <<vars, cuckoo_hash_table, handle, fixFlag>>

\* put does not look at fixFlag.
Put ==
  /\ handle
  /\ ~ crashed
  /\ Next
  /\ UNCHANGED tvars

TableNext == Create \/ Fix \/ Drop \/ ImmutableRefused \/ ImmutableUsesInvalid \/ Put

TableSpec == TableInit /\ [][TableNext]_tableVars
-----------------------------------------------------------------------------
TableTypeOK ==
  /\ TypeOK
  /\ cuckoo_hash_table \in {"null", "live", "dropped"}
  /\ handle \in BOOLEAN /\ (handle => cuckoo_hash_table = "live")
  /\ fixFlag \in BOOLEAN
  /\ crashed \in BOOLEAN

\* No call empties or replaces a live table behind the back of its holder,
\* however often create is called again, directly or by immutable: what is
\* occupied stays occupied until drop.
LiveTableKeepsEntries ==
  [][(handle /\ cuckoo_hash_table' = "live") => Occupied \subseteq Occupied']_tableVars

\* The count of entries, which is not in the table but in a variable that
\* create resets, is the live table's whenever a caller has one.
LiveTableCounts == handle => CountMatches

\* fix makes the table immutable (line 66: "source hash table is fixed!"):
\* no later call stores anything in it.
FixedTableIsImmutable ==
  [][(fixFlag /\ fixFlag') => bucketArray' = bucketArray]_tableVars

\* immutable reports that it could not make its copy (line 307: "failed to
\* create immutable cuckoo hash table!"); it does not go on without one.
ImmutableReportsFailure == ~ crashed
=============================================================================
