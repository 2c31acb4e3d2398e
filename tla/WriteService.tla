---------------------------- MODULE WriteService ----------------------------
(***************************************************************************)
(* What InsertData promises to its callers, without the pipeline behind    *)
(* it.  The rows of a call for one metric become durable all at once, only *)
(* while the call has not been answered; a call that is answered with      *)
(* success has all its rows durable.  There is no atomicity across metrics *)
(* and an error promises nothing about what was stored.                    *)
(***************************************************************************)
EXTENDS Naturals

CONSTANTS Calls, Metrics, Rows

VARIABLES
  status,  \* of each call
  stored   \* the durable <<call, metric>> requests

svars == <<status, stored>>

Init ==
  /\ status = [c \in Calls |-> "idle"]
  /\ stored = {}

Begin(c) ==
  /\ status[c] = "idle"
  /\ status' = [status EXCEPT ![c] = "active"]
  /\ UNCHANGED stored

(* One statement stores the rows that a set of calls has for one metric.   *)
Store(m, S) ==
  /\ \A c \in S : status[c] = "active" /\ m \in Rows[c]
  /\ stored' = stored \cup {<<c, m>> : c \in S}
  /\ UNCHANGED status

Succeed(c) ==
  /\ status[c] = "active"
  /\ \A m \in Rows[c] : <<c, m>> \in stored
  /\ status' = [status EXCEPT ![c] = "ok"]
  /\ UNCHANGED stored

Fail(c) ==
  /\ status[c] = "active"
  /\ status' = [status EXCEPT ![c] = "err"]
  /\ UNCHANGED stored

(* The process dies: the calls in progress are never answered.             *)
Lose ==
  /\ status' = [c \in Calls |-> IF status[c] = "active" THEN "lost" ELSE status[c]]
  /\ UNCHANGED stored

Next ==
  \/ \E c \in Calls : Begin(c) \/ Succeed(c) \/ Fail(c)
  \/ \E m \in Metrics, S \in SUBSET Calls : Store(m, S)
  \/ Lose

Spec == Init /\ [][Next]_svars
=============================================================================
