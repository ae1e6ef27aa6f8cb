------------------------------ MODULE PutStore ------------------------------
(***************************************************************************)
(* What librekv_cuckoo_put promises its caller: the table is a bag of      *)
(* (key hash, offset) pairs, to which a put that returns 1 has added its   *)
(* pair, once, and a put that returns -1 has done nothing.  No pair is     *)
(* ever lost, whatever the put that follows does.                          *)
(***************************************************************************)
EXTENDS Integers

CONSTANT Pairs   \* the pairs that callers may put

VARIABLES
  pairs,     \* the bag: how often each pair is stored
  request,   \* the pairs of the put that is running: none or one
  ret        \* what the last put returned; 0 before the first one

vars == <<pairs, request, ret>>

Init ==
  /\ pairs = [p \in Pairs |-> 0]
  /\ request = {}
  /\ ret = 0

Added(p) == [pairs EXCEPT ![p] = @ + 1]

\* A put that is answered at once, with success or with a refusal.
PutAtOnce(p) ==
  /\ request = {}
  /\ pairs' = Added(p)
  /\ ret' = 1
  /\ UNCHANGED request

RefuseAtOnce ==
  /\ request = {}
  /\ ret' = -1
  /\ UNCHANGED <<pairs, request>>

\* A put that takes several steps, and its two outcomes.
Begin(p) ==
  /\ request = {}
  /\ request' = {p}
  /\ UNCHANGED <<pairs, ret>>

Succeed(p) ==
  /\ request = {p}
  /\ pairs' = Added(p)
  /\ request' = {}
  /\ ret' = 1

Fail ==
  /\ request # {}
  /\ request' = {}
  /\ ret' = -1
  /\ UNCHANGED pairs

Answer == Fail \/ \E p \in Pairs : Succeed(p)

Next ==
  \/ \E p \in Pairs : PutAtOnce(p) \/ Begin(p)
  \/ RefuseAtOnce
  \/ Answer

Safety == Init /\ [][Next]_vars

\* Every put is answered.
Spec == Safety /\ WF_vars(Answer)
=============================================================================
