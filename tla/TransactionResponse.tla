------------------------ MODULE TransactionResponse ------------------------
(***************************************************************************)
(* A TransactionResponse: GetReceipt and GetRecord, which wait for the     *)
(* outcome of the transaction and submit it again when it was throttled.   *)
(*                                                                         *)
(* The response is a value: SetValidateStatus and SetIncludeChildren       *)
(* return a copy of it.  All copies share the transaction object, whose    *)
(* ID is regenerated by each successful Execute.                           *)
(*                                                                         *)
(* What Execute and the queries do within one call is left to the modules  *)
(* Execute and Query.  A submission is accepted, or fails although the     *)
(* network may have it; a query answers, or fails, whatever the state of   *)
(* the ledger.  The ledger is external.                                    *)
(***************************************************************************)
EXTENDS Integers, FiniteSets

CONSTANTS
  Handle,        \* responses the application holds: the first one and copies of it
  First,         \* the response returned by Execute
  MaxRetries,    \* maxRetries of retryTransaction
  MaxCalls,      \* bound: calls of GetReceipt and GetRecord
  MaxIDs         \* bound: transaction IDs

ASSUME HandleAssumption == First \in Handle
ASSUME BoundAssumption == MaxRetries \in Nat \ {0} /\ MaxCalls \in Nat /\ MaxIDs \in Nat \ {0, 1}

VARIABLES
  tx,         \* the transaction object: its ID, and whether the ID is regenerated
  response,   \* the responses
  call,       \* the call in progress
  calls,      \* calls so far
  status,     \* the ledger: what became of each transaction ID
  retried,    \* IDs accepted while an earlier one had succeeded or was undecided
  lost,       \* a receipt of a resubmission could not be had
  result      \* what the last call has returned

vars == <<tx, response, call, calls, status, retried, lost, result>>

ID == 1..MaxIDs
Decided == {"SUCCESS", "THROTTLED", "FAILED"}
Idle == [pc |-> "idle", method |-> "none", handle |-> First, i |-> 0, id |-> 0, receipt |-> "OK", err |-> FALSE]
NoResult == [ok |-> FALSE, handle |-> First, validated |-> FALSE]

\* Transaction.Execute has returned; regenerateID has given the object another ID,
\* unless that is switched off or the ID is locked.
Init ==
  /\ \E flag \in BOOLEAN : tx = [id |-> IF flag THEN 2 ELSE 1, regenerate |-> flag]
  /\ response = [h \in Handle |-> [exists |-> h = First, id |-> 1, validateStatus |-> TRUE]]
  /\ call = Idle
  /\ calls = 0
  /\ status = [t \in ID |-> IF t = 1 THEN "pending" ELSE "none"]
  /\ retried = {}
  /\ lost = FALSE
  /\ result = NoResult
-----------------------------------------------------------------------------
(* The ledger (external) *)

Accept(t) == status' = [status EXCEPT ![t] = "pending"]

Consensus(t) ==
  /\ status[t] = "pending"
  /\ \E s \in Decided : status' = [status EXCEPT ![t] = s]
  /\ UNCHANGED <<tx, response, call, calls, retried, lost, result>>
-----------------------------------------------------------------------------
(* The application *)

\* SetValidateStatus returns a copy.
SetValidateStatus(h, c, validate) ==
  /\ call.pc = "idle" /\ response[h].exists /\ ~ response[c].exists
  /\ response' = [response EXCEPT ![c] = [response[h] EXCEPT !.validateStatus = validate]]
  /\ UNCHANGED <<tx, call, calls, status, retried, lost, result>>

\* GetReceipt and GetRecord begin with a query for the receipt of the response.
Get(method, h) ==
  /\ call.pc = "idle" /\ response[h].exists /\ calls < MaxCalls
  /\ calls' = calls + 1
  /\ call' = [Idle EXCEPT !.pc = "receipt", !.method = method, !.handle = h, !.id = response[h].id]
  /\ result' = NoResult
  /\ UNCHANGED <<tx, response, status, retried, lost>>
-----------------------------------------------------------------------------
(* TransactionReceiptQuery.Execute *)

\* What it returns for transaction t: the receipt of a decided transaction; the
\* status and the error of a failed precheck (no receipt in time, a busy node); the
\* empty receipt, whose status is OK, and no error after any other error.
Receipts(t) ==
  {[receipt |-> s, err |-> FALSE] : s \in {status[t]} \cap Decided}
  \cup {[receipt |-> "RECEIPT_NOT_FOUND", err |-> TRUE], [receipt |-> "OK", err |-> FALSE]}

\* TransactionReceipt.ValidateStatus.
Valid(receipt) == response[call.handle].validateStatus => receipt = "SUCCESS"

Return(ok) ==
  /\ call' = Idle
  /\ result' = [ok |-> ok, handle |-> call.handle, validated |-> response[call.handle].validateStatus]

\* The rest of GetReceipt, and of GetRecord, which goes on to query the record of
\* the transaction that the response names.
Finish(r) ==
  IF r.err THEN Return(FALSE)
  ELSE IF call.method = "GetReceipt" THEN Return(Valid(r.receipt))
  ELSE call' = [call EXCEPT !.pc = "record"] /\ UNCHANGED result

\* GetReceipt resubmits only when it validates.
Resubmits(r) ==
  /\ r.receipt = "THROTTLED"
  /\ call.method = "GetRecord" \/ response[call.handle].validateStatus

\* The first query of GetReceipt and GetRecord.
GotReceipt ==
  /\ call.pc = "receipt"
  /\ \E r \in Receipts(call.id) :
       IF Resubmits(r)
       THEN call' = [call EXCEPT !.pc = "execute", !.i = 0, !.receipt = "OK"] /\ UNCHANGED result
       ELSE Finish(r)
  /\ UNCHANGED <<tx, response, calls, status, retried, lost>>
-----------------------------------------------------------------------------
(* retryTransaction *)

\* An iteration that did not succeed.  After the last one the error is not returned:
\* the one of an iteration is another variable.
Continue(receipt) ==
  IF call.i + 1 < MaxRetries
  THEN call' = [call EXCEPT !.pc = "execute", !.i = @ + 1, !.receipt = receipt] /\ UNCHANGED result
  ELSE Finish([receipt |-> receipt, err |-> FALSE])

\* Execute regenerates the ID of the object after a success.
Regenerated ==
  IF tx.regenerate THEN tx.id < MaxIDs /\ tx' = [tx EXCEPT !.id = @ + 1] ELSE UNCHANGED tx

\* TransactionExecute succeeds; a second submission of one ID is a duplicate.
Resubmit ==
  /\ call.pc = "execute" /\ status[tx.id] = "none"
  /\ Accept(tx.id)
  /\ Regenerated
  /\ call' = [call EXCEPT !.pc = "receipt again", !.id = tx.id]
  /\ retried' = IF \E t \in ID : status[t] \in {"pending", "SUCCESS"} THEN retried \cup {tx.id} ELSE retried
  /\ UNCHANGED <<response, calls, lost, result>>

\* Faulty variant of ResubmitFails: the iteration is not counted.
ResubmitFailsUncounted ==
  /\ call.pc = "execute"
  /\ \/ UNCHANGED status
     \/ status[tx.id] = "none" /\ Accept(tx.id)
  /\ UNCHANGED <<tx, response, call, calls, retried, lost, result>>

\* Faulty variant of ResubmitFails: the object is given another ID after an error.
ResubmitFailsRegenerated ==
  /\ call.pc = "execute"
  /\ \/ UNCHANGED status
     \/ status[tx.id] = "none" /\ Accept(tx.id)
  /\ Regenerated
  /\ Continue(call.receipt)
  /\ UNCHANGED <<response, calls, retried, lost>>

\* TransactionExecute returns an error, though the network may have the transaction.
ResubmitFails ==
  /\ call.pc = "execute"
  /\ \/ UNCHANGED status
     \/ status[tx.id] = "none" /\ Accept(tx.id)
  /\ Continue(call.receipt)
  /\ UNCHANGED <<tx, response, calls, retried, lost>>

\* Faulty variant of Renamed: the response keeps the ID of the throttled transaction.
RenamedNot == response

\* The response is that of the transaction whose receipt is returned.
Renamed == [response EXCEPT ![call.handle].id = call.id]

\* A receipt without an error that does not say THROTTLED ends the loop.
Conclusive(r) == ~ r.err /\ r.receipt # "THROTTLED"

GotReceiptAgain ==
  /\ call.pc = "receipt again"
  /\ \E r \in Receipts(call.id) :
       IF Conclusive(r)
       THEN response' = Renamed /\ Finish(r) /\ UNCHANGED lost
       ELSE Continue(r.receipt) /\ lost' = (lost \/ r.err) /\ UNCHANGED response
  /\ UNCHANGED <<tx, calls, status, retried>>
-----------------------------------------------------------------------------
(* TransactionRecordQuery.Execute *)

\* The record of a decided transaction, with the status validated; or an error.
GotRecord ==
  /\ call.pc = "record"
  /\ \/ Return(FALSE)
     \/ LET s == status[response[call.handle].id] IN s \in Decided /\ Return(Valid(s))
  /\ UNCHANGED <<tx, response, calls, status, retried, lost>>
-----------------------------------------------------------------------------
End == call.pc = "idle" /\ calls = MaxCalls /\ UNCHANGED vars

Step == GotReceipt \/ Resubmit \/ ResubmitFails \/ GotReceiptAgain \/ GotRecord

Next ==
  \/ \E t \in ID : Consensus(t)
  \/ \E h, c \in Handle, validate \in BOOLEAN : SetValidateStatus(h, c, validate)
  \/ \E h \in Handle : Get("GetReceipt", h) \/ Get("GetRecord", h)
  \/ Step \/ End

Spec == Init /\ [][Next]_vars

\* The goroutine of the call runs: its queries and submissions end, as those of
\* Execute do, and it goes on.
FairSpec == Spec /\ WF_vars(Step)
-----------------------------------------------------------------------------
(* Properties *)

\* Type invariant.
TypeOK ==
  /\ tx \in [id : ID, regenerate : BOOLEAN]
  /\ response \in [Handle -> [exists : BOOLEAN, id : ID, validateStatus : BOOLEAN]]
  /\ call.pc \in {"idle", "receipt", "execute", "receipt again", "record"}
  /\ call.handle \in Handle /\ call.i \in 0..(MaxRetries - 1) /\ call.id \in 0..MaxIDs
  /\ calls \in 0..MaxCalls /\ status \in [ID -> Decided \cup {"none", "pending"}]
  /\ retried \subseteq ID /\ lost \in BOOLEAN
  /\ result \in [ok : BOOLEAN, handle : Handle, validated : BOOLEAN]

\* A call that validates and returns no error: the transaction that the response now
\* names has succeeded, be it the first one or a resubmission (GetReceipt,
\* GetRecord).
SuccessIsNamed ==
  result.ok /\ result.validated => status[response[result.handle].id] = "SUCCESS"

\* A transaction is submitted again only when every earlier submission has failed:
\* it does not take effect twice, though answers of submissions get lost, the error
\* of the loop is dropped, and calls are repeated.  Two things are excepted: a
\* receipt that could not be had (see RetriedWhenThrottled), and copies of the
\* response (see CopiesAgree).
ResubmittedWhenFailed ==
  ~ lost /\ (\A h \in Handle \ {First} : ~ response[h].exists) => retried = {}

\* A response that names a successful transaction names it from then on, whatever
\* the queries of later calls return.
SuccessIsKept ==
  [][\A h \in Handle : response[h].exists /\ status[response[h].id] = "SUCCESS"
       => response'[h].id = response[h].id]_vars

\* Every call returns, whatever fails within it (the loop of retryTransaction ends).
CallReturns == call.pc # "idle" ~> call.pc = "idle"

\* transaction_response.go: "retryTransaction is a helper function to retry a
\* transaction that was throttled".  A submission is made again when the ones before
\* it were throttled.
RetriedWhenThrottled == retried = {}

\* transaction_response.go: "Set the transaction ID if the transaction was
\* successful".  A copy and its original lead to the same outcome: the transaction
\* is not submitted once more through the other one.
CopiesAgree == ~ lost => retried = {}
=============================================================================
