----------------------------- MODULE CuckooUndo -----------------------------
(***************************************************************************)
(* The undo loop of librekv_cuckoo_put (cuckoo.c, from line 256) goes      *)
(* through the evictions of its put backwards.  To say so, this module     *)
(* adds a history variable to Cuckoo: the states (table and current entry) *)
(* that the running put went through while it evicted.                     *)
(***************************************************************************)
EXTENDS Cuckoo

VARIABLE trace   \* the states of the eviction loop: trace[i + 1] is the one
                 \* after i evictions

uvars == <<vars, trace>>

UInit == Init /\ trace = << >>

\* The state of the eviction loop after the current action.
Snapshot == [table |-> bucketArray, hand |-> current]

UNext ==
  \/ PutNull /\ UNCHANGED trace
  \/ \E key \in Keys, value \in Values, fn \in {0, 1} :
        \/ PutFirstBucket(key, value, fn) /\ UNCHANGED trace
        \/ PutOtherBucket(key, value, fn) /\ trace' = <<Snapshot'>>
  \/ StoreCurrent /\ trace' = << >>
  \/ \E way \in Way : Evict(way) /\ trace' = Append(trace, Snapshot')
  \/ StartUndo /\ UNCHANGED trace
  \/ UndoEviction /\ UNCHANGED trace
  \/ ReturnFailure /\ trace' = << >>

\* As in Cuckoo, the thread that runs put keeps running.
USpec == UInit /\ [][UNext]_uvars /\ WF_vars(PutStep)
-----------------------------------------------------------------------------
\* The undo loop has taken back all but the first MAX_CUCKOO_COUNT - n
\* evictions.
Undone == trace[MAX_CUCKOO_COUNT - n + 1]

\* Each round of the undo loop arrives at the state that the eviction it
\* takes back started from, with every tag and valid bit as it was, and a
\* put that returns -1 leaves the table it found: also when the evictions
\* went through the same slot several times.
UndoRetraces ==
  pc = "undo" => /\ bucketArray = Undone.table
                 /\ current.tag = Undone.hand.index
                 /\ current.keyHash = Undone.hand.keyHash
                 /\ current.offset = Undone.hand.offset

\* A put that fails leaves the table it found, entry by entry.
FailedPutRestores ==
  [][(pc = "undo" /\ pc' = "idle") => bucketArray' = trace[1].table]_uvars
=============================================================================
