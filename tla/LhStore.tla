------------------------------ MODULE LhStore -------------------------------
(***************************************************************************)
(* The open-addressing table implements KeyMap.                            *)
(*                                                                         *)
(* LhTable keeps what the last call returned.  To say that it is the       *)
(* answer to what was asked, this module adds a history variable: the last *)
(* call that returned, with its key and its data.                          *)
(***************************************************************************)
EXTENDS LhTable

VARIABLE call   \* the last call that returned, its key and its data

cvars == <<vars, call>>

Returns(op, key, data) == call' = [op |-> op, key |-> key, data |-> data]

CInit == Init /\ call = [op |-> "none", key |-> NULL, data |-> NULL]

\* A resize, or an insert, whose arguments are the request, goes on or returns.
ReturnsAtEnd ==
  IF pc' = "idle"
  THEN Returns(IF request = NoRequest THEN "resize" ELSE "insert", request.key, request.data)
  ELSE UNCHANGED call

CNext ==
  \/ \E key \in Keys :
        \/ LookupCrashes(key) /\ UNCHANGED call
        \/ Get(key) /\ Returns("get", key, NULL)
        \/ Exists(key) /\ Returns("exists", key, NULL)
        \/ (Delete(key) \/ DeleteMissing(key)) /\ Returns("delete", key, NULL)
  \/ \E key \in Keys, data \in Data :
        \/ Set(key, data) /\ Returns("set", key, data)
        \/ InsertRefused(key) /\ Returns("insert", key, data)
        \/ (InsertResizes(key, data) \/ InsertGoesOn(key, data)) /\ UNCHANGED call
  \/ \E t \in Thresholds : Tune(t) /\ Returns("tune", NULL, NULL)
  \/ \E n \in Sizes :
        \/ New(n) /\ Returns("new", NULL, NULL)
        \/ Resize(n) /\ UNCHANGED call
  \/ NewFails /\ Returns("new", NULL, NULL)
  \/ Destroy /\ Returns("destroy", NULL, NULL)
  \/ ResizeRefused /\ Returns("resize", NULL, NULL)
  \/ Step /\ ReturnsAtEnd

CSpec == CInit /\ [][CNext]_cvars /\ WF_vars(Step)
-----------------------------------------------------------------------------
\* The map that the table stands for: the data of its entries that have a key.
Stored ==
  [key \in {entries[slot].key : slot \in Keyed} |->
     DataAt({slot \in Keyed : entries[slot].key = key})]

Abstract == INSTANCE KeyMap WITH map <- Stored

\* Dummies, and the table growing, shrinking or failing to, are invisible: every
\* lookup, set and delete answers for the key it was asked about, and answers
\* what the map holds that the earlier calls made; an insert adds its own key
\* and data, or fails and changes nothing; and every insert is answered.
ImplementsKeyMap == Abstract!Spec
=============================================================================
