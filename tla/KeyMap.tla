------------------------------- MODULE KeyMap -------------------------------
(***************************************************************************)
(* What the open-addressing table of trash/linear_hash.c promises its      *)
(* caller (the comments of linear_hash.h): a map from keys to data.        *)
(*                                                                         *)
(* lh_insert adds a key that is not there, lh_set changes the data of one  *)
(* that is, lh_delete removes it, lh_get and lh_exists look for it.  An    *)
(* insert may fail for want of memory, and then changes nothing.  Looking  *)
(* for data that is NULL is answered like looking for a key that is not    *)
(* there.  What lh_tune_threshold and lh_resize do to the table is not     *)
(* seen.  A table that is destroyed leaves nothing to the next one.        *)
(*                                                                         *)
(* An answer is tied to its question: call and result are the last call    *)
(* that has returned, with its arguments, and what it returned.            *)
(***************************************************************************)

CONSTANTS Keys, Data, NULL, NoRequest

VARIABLES
  map,       \* the data of the keys that are there
  request,   \* the key and data of the insert that is running, or NoRequest
  call,      \* the last call that returned, its key and its data
  result     \* what it returned

vars == <<map, request, call, result>>

Idle == request = NoRequest

Empty == [key \in {} |-> NULL]

Init ==
  /\ map = Empty
  /\ request = NoRequest
  /\ call = [op |-> "none", key |-> NULL, data |-> NULL]
  /\ result = 0

\* A call returns.
Returned(op, key, data, r) ==
  call' = [op |-> op, key |-> key, data |-> data] /\ result' = r

Looked(key) == IF key \in DOMAIN map THEN map[key] ELSE NULL

Get(key) ==
  Idle /\ Returned("get", key, NULL, Looked(key)) /\ UNCHANGED <<map, request>>

Exists(key) ==
  /\ Idle
  /\ Returned("exists", key, NULL, IF key \in DOMAIN map THEN 1 ELSE 0)
  /\ UNCHANGED <<map, request>>

Set(key, data) ==
  /\ Idle
  /\ Returned("set", key, data, Looked(key))
  /\ map' = [k \in DOMAIN map |-> IF k = key THEN data ELSE map[k]]
  /\ UNCHANGED request

Delete(key) ==
  /\ Idle
  /\ Returned("delete", key, NULL, Looked(key))
  /\ map' = [k \in DOMAIN map \ {key} |-> map[k]]
  /\ UNCHANGED request

\* What a call that is about no key answers.
Tune == Idle /\ Returned("tune", NULL, NULL, 1) /\ UNCHANGED <<map, request>>

Resize ==
  /\ Idle
  /\ \E r \in {0, 1} : Returned("resize", NULL, NULL, r)
  /\ UNCHANGED <<map, request>>

New == Idle /\ Returned("new", NULL, NULL, 1) /\ map' = Empty /\ UNCHANGED request

NewFails == Idle /\ Returned("new", NULL, NULL, 0) /\ UNCHANGED <<map, request>>

Destroy ==
  Idle /\ Returned("destroy", NULL, NULL, 1) /\ map' = Empty /\ UNCHANGED request

\* An insert that finds its key there does not begin; one may also fail at once.
InsertRefused(key, data) ==
  Idle /\ Returned("insert", key, data, 0) /\ UNCHANGED <<map, request>>

BeginInsert(key, data) ==
  /\ Idle
  /\ key \notin DOMAIN map
  /\ request' = [key |-> key, data |-> data]
  /\ UNCHANGED <<map, call, result>>

EndInsert ==
  /\ ~ Idle
  /\ request' = NoRequest
  /\ \/ /\ map' = [k \in DOMAIN map \cup {request.key} |->
                     IF k = request.key THEN request.data ELSE map[k]]
        /\ Returned("insert", request.key, request.data, 1)
     \/ Returned("insert", request.key, request.data, 0) /\ UNCHANGED map

Next ==
  \/ \E key \in Keys : Get(key) \/ Exists(key) \/ Delete(key)
  \/ \E key \in Keys, data \in Data :
        Set(key, data) \/ InsertRefused(key, data) \/ BeginInsert(key, data)
  \/ Tune \/ Resize \/ New \/ NewFails \/ Destroy
  \/ EndInsert

Safety == Init /\ [][Next]_vars

\* Every insert is answered.
Spec == Safety /\ WF_vars(EndInsert)
=============================================================================
