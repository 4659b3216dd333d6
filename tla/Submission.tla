----------------------------- MODULE Submission -----------------------------
(***************************************************************************)
(* What Execute promises of a transaction to its callers (the application, *)
(* TransactionResponse, ChunkedTransaction, Flows).  The network executes  *)
(* an ID of the transaction at most once, and may do so late.  Execute     *)
(* returns the ID that the network has executed, or an error after which   *)
(* the network may still have the transaction.  An ID is given up for      *)
(* another only when the network will not execute it any more.             *)
(***************************************************************************)
EXTENDS Naturals

CONSTANTS Transactions, Regenerating

VARIABLES
  running,   \* Execute is at work on the transaction
  outcome,   \* what it has returned: "none", "ok" or "error"
  id,        \* the current ID
  response,  \* the ID it has returned
  taken,     \* <<transaction, ID>> that the network has executed
  dead       \* <<transaction, ID>> that it will not execute any more

vars == <<running, outcome, id, response, taken, dead>>

Init ==
  /\ running = [t \in Transactions |-> FALSE]
  /\ outcome = [t \in Transactions |-> "none"]
  /\ id = [t \in Transactions |-> 1]
  /\ response = [t \in Transactions |-> 0]
  /\ taken = {} /\ dead = {}

Begin(t) ==
  /\ ~running[t]
  /\ running' = [running EXCEPT ![t] = TRUE]
  /\ outcome' = [outcome EXCEPT ![t] = "none"]
  /\ UNCHANGED <<id, response, taken, dead>>

\* An answer that was lost, or a call that arrives late.
Take(t, i) ==
  /\ running[t] \/ outcome[t] # "none"
  /\ <<t, i>> \notin taken \cup dead
  /\ taken' = taken \cup {<<t, i>>}
  /\ UNCHANGED <<running, outcome, id, response, dead>>

\* The ID has expired; Execute goes on with another one or returns an error.
Expire(t) ==
  /\ running[t]
  /\ dead' = dead \cup {<<t, id[t]>>}
  /\ \/ /\ t \in Regenerating
        /\ id' = [id EXCEPT ![t] = @ + 1]
        /\ UNCHANGED <<running, outcome>>
     \/ /\ t \notin Regenerating
        /\ running' = [running EXCEPT ![t] = FALSE]
        /\ outcome' = [outcome EXCEPT ![t] = "error"]
        /\ UNCHANGED id
  /\ UNCHANGED <<response, taken>>

\* The response names the ID; the object gets another one for its next use.
Succeed(t) ==
  /\ running[t] /\ <<t, id[t]>> \notin taken \cup dead
  /\ taken' = taken \cup {<<t, id[t]>>}
  /\ response' = [response EXCEPT ![t] = id[t]]
  /\ id' = [id EXCEPT ![t] = IF t \in Regenerating THEN @ + 1 ELSE @]
  /\ running' = [running EXCEPT ![t] = FALSE]
  /\ outcome' = [outcome EXCEPT ![t] = "ok"]
  /\ UNCHANGED dead

\* An error, or a panic before anything was sent.
Fail(t) ==
  /\ running' = [running EXCEPT ![t] = FALSE]
  /\ outcome' = [outcome EXCEPT ![t] = "error"]
  /\ UNCHANGED <<id, response, taken, dead>>

Next ==
  \E t \in Transactions :
    Begin(t) \/ (\E i \in 1..id[t] : Take(t, i)) \/ Expire(t) \/ Succeed(t) \/ Fail(t)

Spec == Init /\ [][Next]_vars
=============================================================================
