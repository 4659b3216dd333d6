---------------------------- MODULE HealthyList ----------------------------
(***************************************************************************)
(* What the list of healthy nodes promises to concurrent requests: a node  *)
(* that fails is marked and taken off the list in one step, time brings    *)
(* its readmission about, and a readmission pass puts nodes back that have *)
(* served their backoff, and no others.  Nobody sees the list in between.  *)
(* When goroutines replace the network beside the requests nothing is      *)
(* promised.                                                               *)
(***************************************************************************)
CONSTANT Node

VARIABLES
  members,      \* the nodes of the network
  listed,       \* those on the list
  readmitTime,  \* of every node: "nil", "waiting" or "over"
  replaced      \* the network is replaced beside the requests

vars == <<members, listed, readmitTime, replaced>>

Init ==
  /\ members \in SUBSET Node
  /\ listed = members
  /\ readmitTime = [n \in Node |-> "nil"]
  /\ replaced \in BOOLEAN

\* A request has failed on the node.
Fail(n) ==
  /\ ~replaced
  /\ listed' = listed \ {n}
  /\ readmitTime' = [readmitTime EXCEPT ![n] = "waiting"]
  /\ UNCHANGED <<members, replaced>>

\* The backoff of the node is over.
Elapse(n) ==
  /\ ~replaced
  /\ readmitTime[n] = "waiting"
  /\ readmitTime' = [readmitTime EXCEPT ![n] = "over"]
  /\ UNCHANGED <<members, listed, replaced>>

\* A readmission pass.
Readmit(S) ==
  /\ ~replaced
  /\ S \subseteq {n \in members \ listed : readmitTime[n] = "over"}
  /\ listed' = listed \cup S
  /\ UNCHANGED <<members, readmitTime, replaced>>

\* Beside a replacement.
Anything == replaced /\ UNCHANGED replaced

Next ==
  \/ \E n \in Node : Fail(n) \/ Elapse(n)
  \/ \E S \in SUBSET Node : Readmit(S)
  \/ Anything

Spec == Init /\ [][Next]_vars
=============================================================================
