---------------------- MODULE TransactionResponseProofs ----------------------
(***************************************************************************)
(* Theorems about TransactionResponse: for any number of retries, calls    *)
(* and copies, a validated success names a transaction that succeeded, and *)
(* a transaction is submitted again only when the one before has failed.   *)
(***************************************************************************)
EXTENDS TransactionResponse, TLAPS

Responses == [exists : BOOLEAN, id : ID, validateStatus : BOOLEAN]
Statuses == Decided \cup {"none", "pending"}
Loop == {"execute", "receipt again"}

Calls ==
  [pc : {"idle", "receipt", "execute", "receipt again", "record"},
   method : {"none", "GetReceipt", "GetRecord"}, handle : Handle, i : Nat, id : Nat,
   receipt : {"OK", "RECEIPT_NOT_FOUND", "THROTTLED"}, err : BOOLEAN]

Types ==
  /\ tx \in [id : ID, regenerate : BOOLEAN]
  /\ response \in [Handle -> Responses]
  /\ call \in Calls
  /\ status \in [ID -> Statuses]
  /\ response[First].exists

\* The call queries the transaction that its response names, or one it has submitted
\* since; it submits while the transaction of the response was throttled.
Asks ==
  /\ response[call.handle].exists
  /\ call.pc = "receipt" => call.id = response[call.handle].id
  /\ call.pc = "receipt again" => call.id \in ID
  /\ call.pc \in Loop => status[response[call.handle].id] = "THROTTLED"

\* While a call runs it has returned nothing.
Pending ==
  /\ call.pc # "idle" => result = NoResult
  /\ result.ok => result.handle \in Handle /\ response[result.handle].exists

Live(t) == status[t] \in {"pending", "SUCCESS"}
Alone == \A h \in Handle \ {First} : ~ response[h].exists

\* Without copies and lost receipts, one transaction at most can take effect: the one
\* the response names, the one that was submitted last, or the one of the object.
OneLive ==
  ~ lost /\ Alone =>
    /\ retried = {}
    /\ \A t \in ID : Live(t) => \/ t \in {response[First].id, tx.id}
                                \/ call.pc = "receipt again" /\ t = call.id

Inv == Types /\ Asks /\ Pending /\ SuccessIsNamed /\ OneLive
-----------------------------------------------------------------------------
(* The parts of the steps *)

\* How a call goes on after a receipt.
LEMMA Finishes ==
  ASSUME Types, NEW r, Finish(r)
  PROVE  /\ call' \in Calls /\ call'.handle \in {call.handle, First} /\ call'.pc \in {"idle", "record"}
         /\ call'.pc = "record" => call'.handle = call.handle /\ UNCHANGED result
         /\ call'.pc = "idle" => result'.handle = call.handle
         /\ result'.ok /\ result'.validated /\ result' # result => r.receipt = "SUCCESS"
<1>0. call \in Calls /\ First \in Handle
  BY HandleAssumption DEF Types
<1>1. Idle \in Calls /\ Idle.pc = "idle" /\ Idle.handle = First
  BY <1>0 DEF Idle, Calls
<1>2. CASE call' = [call EXCEPT !.pc = "record"] /\ UNCHANGED result
  BY <1>0, <1>2 DEF Calls
<1>3. ASSUME NEW ok, Return(ok), ok /\ response[call.handle].validateStatus => r.receipt = "SUCCESS"
      PROVE  /\ call' \in Calls /\ call'.handle \in {call.handle, First} /\ call'.pc \in {"idle", "record"}
             /\ call'.pc = "record" => call'.handle = call.handle /\ UNCHANGED result
             /\ call'.pc = "idle" => result'.handle = call.handle
             /\ result'.ok /\ result'.validated /\ result' # result => r.receipt = "SUCCESS"
  BY <1>1, <1>3 DEF Return
<1> QED
  BY <1>2, <1>3 DEF Finish, Valid

\* How the loop goes on after an iteration that did not succeed.
LEMMA Continues ==
  ASSUME Types, NEW receipt \in {"OK", "RECEIPT_NOT_FOUND", "THROTTLED"}, Continue(receipt)
  PROVE  /\ call' \in Calls /\ call'.handle \in {call.handle, First} /\ call'.pc \in {"idle", "record", "execute"}
         /\ call'.pc # "idle" => call'.handle = call.handle /\ UNCHANGED result
         /\ call'.pc = "idle" => result'.handle = call.handle
         /\ ~ (result'.ok /\ result'.validated /\ result' # result)
<1>1. CASE call' = [call EXCEPT !.pc = "execute", !.i = @ + 1, !.receipt = receipt] /\ UNCHANGED result
  <2>1. call \in Calls
    BY DEF Types
  <2>2. call.i \in Nat
    BY <2>1 DEF Calls
  <2>3. call.i + 1 \in Nat
    BY <2>2
  <2> QED
    BY <1>1, <2>1, <2>3 DEF Calls
<1>2. CASE Finish([receipt |-> receipt, err |-> FALSE])
  <2> DEFINE r == [receipt |-> receipt, err |-> FALSE]
  <2>1. r.receipt # "SUCCESS"
    OBVIOUS
  <2>2. Finish(r)
    BY <1>2
  <2> HIDE DEF r
  <2> QED
    BY <2>1, <2>2, Finishes
<1> QED
  BY <1>1, <1>2 DEF Continue

\* What a receipt says of the ledger.
LEMMA Reports ==
  ASSUME Types, NEW t, NEW r \in Receipts(t)
  PROVE  /\ r.receipt \in Decided => status[t] = r.receipt
         /\ r.receipt \in Decided \cup {"OK", "RECEIPT_NOT_FOUND"}
BY DEF Receipts, Decided

\* A step leaves what is decided as it was, and takes nothing back.
Decides ==
  \A t \in ID : /\ status[t] \in Decided => status'[t] = status[t]
                /\ status'[t] \in {"pending", "SUCCESS"} => Live(t) \/ (status[t] = "none" /\ t = tx.id)

\* Every step is such a step.
LEMMA Ledger == ASSUME Types, [Next]_vars PROVE Decides /\ status' \in [ID -> Statuses]
<1>0. tx.id \in ID /\ status \in [ID -> Statuses]
  BY DEF Types
<1>1. ASSUME NEW t \in ID, Consensus(t) PROVE Decides /\ status' \in [ID -> Statuses]
  BY <1>0, <1>1 DEF Consensus, Decides, Live, Statuses, Decided
<1>2. ASSUME status[tx.id] = "none", Accept(tx.id) PROVE Decides /\ status' \in [ID -> Statuses]
  BY <1>0, <1>2 DEF Accept, Decides, Live, Statuses, Decided
<1>3. ASSUME UNCHANGED status PROVE Decides /\ status' \in [ID -> Statuses]
  BY <1>0, <1>3 DEF Decides, Live
<1>4. CASE Step
  BY <1>2, <1>3, <1>4 DEF Step, GotReceipt, Resubmit, ResubmitFails, GotReceiptAgain, GotRecord
<1>5. ASSUME NEW h, NEW c, NEW v, SetValidateStatus(h, c, v) PROVE UNCHANGED status
  BY <1>5 DEF SetValidateStatus
<1>6. ASSUME NEW m, NEW h, Get(m, h) PROVE UNCHANGED status
  BY <1>6 DEF Get
<1>7. CASE End \/ UNCHANGED vars
  BY <1>3, <1>7 DEF End, vars
<1> QED
  BY <1>1, <1>3, <1>4, <1>5, <1>6, <1>7 DEF Next
-----------------------------------------------------------------------------
(* The invariant, action by action *)

\* The response that Execute returns is pending.
LEMMA InitInv == Init => Inv
<1> SUFFICES ASSUME Init PROVE Inv
  OBVIOUS
<1>0. First \in Handle /\ 1 \in ID
  BY HandleAssumption, BoundAssumption DEF ID
<1>1. call \in Calls /\ call.pc = "idle" /\ call.handle = First
  BY <1>0 DEF Init, Idle, Calls
<1>2. response \in [Handle -> Responses] /\ response[First].exists /\ response[First].id = 1
  BY <1>0 DEF Init, Responses
<1>3. status \in [ID -> Statuses] /\ \A t \in ID : Live(t) => t = 1
  BY DEF Init, Live, Statuses
<1>4. tx \in [id : ID, regenerate : BOOLEAN]
  BY <1>0, BoundAssumption DEF Init, ID
<1>5. result = NoResult /\ ~ NoResult.ok /\ retried = {}
  BY DEF Init, NoResult
<1> QED
  BY <1>1, <1>2, <1>3, <1>4, <1>5 DEF Inv, Types, Asks, Pending, SuccessIsNamed, OneLive, Loop

\* The named success stays one while no call renames the response.
LEMMA SuccessStays ==
  ASSUME Inv, Decides, result' = result \/ ~ result'.ok,
         result.ok => \A h \in Handle : response[h].exists => response'[h].id = response[h].id
  PROVE  SuccessIsNamed'
<1>1. CASE result.ok /\ result' = result
  <2>1. result.handle \in Handle /\ response[result.handle].exists /\ response[result.handle].id \in ID
    BY <1>1 DEF Inv, Pending, Types, Responses
  <2>2. status[response[result.handle].id] = "SUCCESS" => status'[response'[result.handle].id] = "SUCCESS"
    BY <1>1, <2>1 DEF Decides, Decided
  <2> QED
    BY <1>1, <2>2 DEF Inv, SuccessIsNamed
<1>2. CASE ~ result'.ok
  BY <1>2 DEF SuccessIsNamed
<1> QED
  BY <1>1, <1>2

\* A call begins or ends, or goes on, without a submission or another name for the
\* response: SetValidateStatus, Consensus, Get and the queries that fail.
LEMMA SameNames ==
  ASSUME Inv, Decides, UNCHANGED <<tx, response, retried>>, lost => lost',
         call.pc # "receipt again" \/ ~ Live(call.id) \/ call' = call \/ lost'
  PROVE  OneLive'
<1>0. /\ \A t \in ID : Live(t)' => Live(t) \/ t = tx.id
      /\ \A h \in Handle : response[h] = response'[h]
  BY DEF Decides, Live
<1>1. ASSUME ~ lost', Alone'
      PROVE  retried' = {} /\ \A t \in ID : Live(t)' => t \in {response[First].id, tx.id} \/ (call'.pc = "receipt again" /\ t = call'.id)
  <2>1. ~ lost /\ Alone
    BY <1>0, <1>1 DEF Alone
  <2>2. retried = {} /\ \A t \in ID : Live(t) => t \in {response[First].id, tx.id} \/ (call.pc = "receipt again" /\ t = call.id)
    BY <2>1 DEF Inv, OneLive
  <2> QED
    BY <1>0, <1>1, <2>2
<1> QED
  BY <1>1 DEF OneLive

\* The first query of a call.
LEMMA GotReceiptInv ==
  ASSUME Inv, GotReceipt, Decides, status' \in [ID -> Statuses]
  PROVE  Inv'
<1>0. /\ Types /\ call.pc = "receipt" /\ UNCHANGED <<tx, response, status, retried, lost>>
      /\ call \in Calls /\ result = NoResult /\ ~ NoResult.ok
      /\ call.id = response[call.handle].id /\ response[call.handle].exists /\ response[First].exists
  BY DEF Inv, Types, Asks, Pending, GotReceipt, NoResult
<1>1. PICK r \in Receipts(call.id) :
        IF Resubmits(r)
        THEN call' = [call EXCEPT !.pc = "execute", !.i = 0, !.receipt = "OK"] /\ UNCHANGED result
        ELSE Finish(r)
  BY DEF GotReceipt
<1>2. OneLive'
  BY <1>0, SameNames
<1>3. CASE Resubmits(r)
  <2>1. status[response[call.handle].id] = "THROTTLED"
    BY <1>0, <1>1, <1>3, Reports DEF Resubmits, Decided
  <2>0. 0 \in Nat /\ call \in Calls
    BY <1>0
  <2>2. /\ call' \in Calls /\ call'.pc = "execute" /\ call'.handle = call.handle /\ UNCHANGED result
    BY <1>1, <1>3, <2>0 DEF Calls
  <2>3. Types' /\ Asks' /\ Pending'
    BY <1>0, <2>1, <2>2 DEF Types, Asks, Pending
  <2>4. SuccessIsNamed'
    BY <1>0, <2>2 DEF SuccessIsNamed
  <2> QED
    BY <1>2, <2>3, <2>4 DEF Inv
<1>4. CASE ~ Resubmits(r)
  <2>1. /\ call' \in Calls /\ call'.handle \in {call.handle, First} /\ call'.pc \in {"idle", "record"}
        /\ call'.pc = "record" => call'.handle = call.handle /\ UNCHANGED result
        /\ call'.pc = "idle" => result'.handle = call.handle
        /\ result'.ok /\ result'.validated /\ result' # result => r.receipt = "SUCCESS"
    BY <1>0, <1>1, <1>4, Finishes
  <2>5. call.handle \in Handle
    BY <1>0 DEF Calls
  <2>2. Types' /\ Asks' /\ Pending'
    BY <1>0, <2>1, <2>5 DEF Types, Asks, Pending, Loop
  <2>3. SuccessIsNamed'
    <3>1. result'.ok /\ result'.validated => status[response[call.handle].id] = "SUCCESS" /\ call'.pc = "idle"
      BY <1>0, <1>1, <2>1, Reports DEF Decided
    <3> QED
      BY <1>0, <2>1, <3>1 DEF SuccessIsNamed
  <2> QED
    BY <1>2, <2>2, <2>3 DEF Inv
<1> QED
  BY <1>3, <1>4

\* An ID that was not used before is submitted when nothing else can take effect.
LEMMA ResubmitInv ==
  ASSUME Inv, Resubmit, Decides, status' \in [ID -> Statuses]
  PROVE  Inv'
<1>0. /\ Types /\ call.pc = "execute" /\ UNCHANGED <<response, lost, result>>
      /\ call \in Calls /\ result = NoResult /\ tx.id \in ID /\ status[tx.id] = "none"
      /\ response[call.handle].exists /\ response[First].exists
      /\ status[response[call.handle].id] = "THROTTLED"
  BY DEF Inv, Types, Asks, Pending, Resubmit, Loop
<1>1. /\ call.handle \in Handle /\ tx.id \in Nat
      /\ response[call.handle].id \in ID
  <2>1. call.handle \in Handle
    BY <1>0 DEF Calls
  <2>2. response[call.handle].id \in ID
    BY <1>0, <2>1 DEF Types, Responses
  <2>3. tx.id \in Nat
    BY <1>0, BoundAssumption DEF ID
  <2> QED
    BY <2>1, <2>2, <2>3
<1>2. /\ call' \in Calls /\ call'.pc = "receipt again" /\ call'.handle = call.handle /\ call'.id = tx.id
  BY <1>0, <1>1 DEF Resubmit, Calls
<1>3. tx' \in [id : ID, regenerate : BOOLEAN]
  <2>1. tx \in [id : ID, regenerate : BOOLEAN]
    BY <1>0 DEF Types
  <2>2. CASE UNCHANGED tx
    BY <2>1, <2>2
  <2>3. CASE tx.id < MaxIDs /\ tx' = [tx EXCEPT !.id = @ + 1]
    <3>1. tx.id + 1 \in ID
      BY <1>0, <2>3, BoundAssumption DEF ID
    <3> QED
      BY <2>1, <2>3, <3>1
  <2> QED
    BY <2>2, <2>3 DEF Resubmit, Regenerated
<1>4. Types' /\ Asks' /\ Pending'
  <2>1. status'[response[call.handle].id] = "THROTTLED"
    BY <1>0, <1>1 DEF Decides, Decided
  <2> QED
    BY <1>0, <1>1, <1>2, <1>3, <2>1 DEF Types, Asks, Pending, Inv
<1>5. SuccessIsNamed'
  BY <1>0, SuccessStays
<1>6. OneLive'
  <2> SUFFICES ASSUME ~ lost', Alone'
               PROVE  retried' = {} /\ \A t \in ID : Live(t)' => t = tx.id
    BY <1>0, <1>2 DEF OneLive
  <2>1. ~ lost /\ Alone
    BY <1>0 DEF Alone
  <2>2. call.handle = First
    BY <1>0, <1>1, <2>1 DEF Alone
  <2>3. ASSUME NEW t \in ID PROVE ~ Live(t)
    <3>1. Live(t) => t \in {response[First].id, tx.id}
      BY <1>0, <2>1 DEF Inv, OneLive
    <3> QED
      BY <1>0, <2>2, <3>1 DEF Live
  <2>4. retried' = retried
    BY <2>3 DEF Resubmit, Live
  <2>5. retried = {}
    BY <2>1 DEF Inv, OneLive
  <2> QED
    BY <2>3, <2>4, <2>5 DEF Decides, Live
<1> QED
  BY <1>4, <1>5, <1>6 DEF Inv

\* A submission fails, and the network may have it.
LEMMA ResubmitFailsInv ==
  ASSUME Inv, ResubmitFails, Decides, status' \in [ID -> Statuses]
  PROVE  Inv'
<1>0. /\ Types /\ call.pc = "execute" /\ UNCHANGED <<tx, response, retried, lost>>
      /\ call \in Calls /\ result = NoResult /\ ~ NoResult.ok
      /\ response[call.handle].exists /\ response[First].exists
      /\ status[response[call.handle].id] = "THROTTLED"
  BY DEF Inv, Types, Asks, Pending, ResubmitFails, NoResult, Loop
<1>1. call.handle \in Handle /\ call.receipt \in {"OK", "RECEIPT_NOT_FOUND", "THROTTLED"}
  BY <1>0 DEF Calls
<1>2. Continue(call.receipt)
  BY DEF ResubmitFails
<1>3. /\ call' \in Calls /\ call'.handle \in {call.handle, First} /\ call'.pc \in {"idle", "record", "execute"}
      /\ call'.pc # "idle" => call'.handle = call.handle /\ UNCHANGED result
      /\ call'.pc = "idle" => result'.handle = call.handle
      /\ ~ (result'.ok /\ result'.validated /\ result' # result)
  BY <1>0, <1>1, <1>2, Continues
<1>4. status'[response[call.handle].id] = "THROTTLED"
  <2>1. response[call.handle].id \in ID
    BY <1>0, <1>1 DEF Types, Responses
  <2> QED
    BY <1>0, <2>1 DEF Decides, Decided
<1>5. Types' /\ Asks' /\ Pending'
  BY <1>0, <1>1, <1>3, <1>4 DEF Types, Asks, Pending, Loop
<1>6. SuccessIsNamed'
  BY <1>0, <1>3 DEF SuccessIsNamed
<1>7. OneLive'
  BY <1>0, SameNames
<1> QED
  BY <1>5, <1>6, <1>7 DEF Inv

\* The receipt of a resubmission.
LEMMA GotReceiptAgainInv ==
  ASSUME Inv, GotReceiptAgain, Decides, status' \in [ID -> Statuses]
  PROVE  Inv'
<1>0. /\ Types /\ call.pc = "receipt again" /\ UNCHANGED <<tx, status, retried>>
      /\ call \in Calls /\ result = NoResult /\ ~ NoResult.ok /\ call.id \in ID
      /\ response[call.handle].exists /\ response[First].exists
      /\ status[response[call.handle].id] = "THROTTLED"
  BY DEF Inv, Types, Asks, Pending, GotReceiptAgain, NoResult, Loop
<1>1. call.handle \in Handle
  BY <1>0 DEF Calls
<1>2. PICK r \in Receipts(call.id) :
        IF Conclusive(r)
        THEN response' = Renamed /\ Finish(r) /\ UNCHANGED lost
        ELSE Continue(r.receipt) /\ lost' = (lost \/ r.err) /\ UNCHANGED response
  BY DEF GotReceiptAgain
<1>3. CASE Conclusive(r)
  <2>1. /\ call' \in Calls /\ call'.handle \in {call.handle, First} /\ call'.pc \in {"idle", "record"}
        /\ call'.pc = "record" => call'.handle = call.handle /\ UNCHANGED result
        /\ call'.pc = "idle" => result'.handle = call.handle
        /\ result'.ok /\ result'.validated /\ result' # result => r.receipt = "SUCCESS"
    BY <1>0, <1>2, <1>3, Finishes
  <2>2. /\ response' \in [Handle -> Responses] /\ response'[call.handle].id = call.id
        /\ \A h \in Handle : response'[h].exists = response[h].exists
        /\ \A h \in Handle \ {call.handle} : response'[h] = response[h]
    <3>1. response \in [Handle -> Responses] /\ response' = [response EXCEPT ![call.handle].id = call.id]
      BY <1>0, <1>2, <1>3 DEF Types, Renamed
    <3> QED
      BY <1>0, <1>1, <3>1 DEF Responses
  <2>3. Types' /\ Asks' /\ Pending'
    BY <1>0, <1>1, <2>1, <2>2, HandleAssumption DEF Types, Asks, Pending, Loop
  <2>4. SuccessIsNamed'
    <3>1. result'.ok /\ result'.validated => status[call.id] = "SUCCESS" /\ call'.pc = "idle"
      BY <1>0, <1>2, <2>1, Reports DEF Decided
    <3> QED
      BY <1>0, <2>1, <2>2, <3>1 DEF SuccessIsNamed
  <2>5. OneLive'
    <3> SUFFICES ASSUME ~ lost', Alone'
                 PROVE  retried' = {} /\ \A t \in ID : Live(t)' => t \in {response'[First].id, tx'.id}
      BY DEF OneLive
    <3>1. ~ lost /\ Alone
      BY <1>2, <1>3, <2>2 DEF Alone
    <3>2. call.handle = First
      BY <1>0, <1>1, <3>1 DEF Alone
    <3>3. retried = {} /\ \A t \in ID : Live(t) => t \in {response[First].id, tx.id, call.id}
      BY <3>1 DEF Inv, OneLive
    <3> QED
      BY <1>0, <2>2, <3>2, <3>3 DEF Live
  <2> QED
    BY <2>3, <2>4, <2>5 DEF Inv
<1>4. CASE ~ Conclusive(r)
  <2>0. r.receipt \in {"OK", "RECEIPT_NOT_FOUND", "THROTTLED"} /\ (~ r.err => r.receipt = "THROTTLED")
        /\ (r.receipt = "THROTTLED" => status[call.id] = "THROTTLED")
    <3>1. r.err => r.receipt = "RECEIPT_NOT_FOUND"
      BY DEF Receipts
    <3>2. ~ r.err => r.receipt = "THROTTLED"
      BY <1>4 DEF Conclusive
    <3> QED
      BY <1>0, <3>1, <3>2, Reports DEF Decided
  <2>1. /\ call' \in Calls /\ call'.handle \in {call.handle, First} /\ call'.pc \in {"idle", "record", "execute"}
        /\ call'.pc # "idle" => call'.handle = call.handle /\ UNCHANGED result
        /\ call'.pc = "idle" => result'.handle = call.handle
        /\ ~ (result'.ok /\ result'.validated /\ result' # result)
    BY <1>0, <1>2, <1>4, <2>0, Continues
  <2>2. Types' /\ Asks' /\ Pending'
    BY <1>0, <1>1, <1>2, <1>4, <2>1 DEF Types, Asks, Pending, Loop
  <2>3. SuccessIsNamed'
    BY <1>0, <2>1 DEF SuccessIsNamed
  <2>4. OneLive'
    <3>1. UNCHANGED response /\ lost' = (lost \/ r.err)
      BY <1>2, <1>4
    <3>2. CASE r.err
      BY <3>1, <3>2 DEF OneLive
    <3>3. CASE ~ r.err
      BY <1>0, <2>0, <3>1, <3>3, SameNames DEF Live
    <3> QED
      BY <3>2, <3>3
  <2> QED
    BY <2>2, <2>3, <2>4 DEF Inv
<1> QED
  BY <1>3, <1>4

\* The record of the transaction that the response names.
LEMMA GotRecordInv ==
  ASSUME Inv, GotRecord, Decides, status' \in [ID -> Statuses]
  PROVE  Inv'
<1>0. /\ Types /\ call.pc = "record" /\ UNCHANGED <<tx, response, status, retried, lost>>
      /\ call \in Calls /\ call.handle \in Handle /\ response[call.handle].exists /\ response[First].exists
  BY DEF Inv, Types, Asks, GotRecord, Calls
<1>1. call' = Idle /\ result'.handle = call.handle
      /\ (result'.ok /\ result'.validated => status[response[call.handle].id] = "SUCCESS")
  <2>1. ASSUME NEW ok, Return(ok), ok => Valid(status[response[call.handle].id])
        PROVE  call' = Idle /\ result'.handle = call.handle
               /\ (result'.ok /\ result'.validated => status[response[call.handle].id] = "SUCCESS")
    BY <2>1 DEF Return, Valid
  <2> QED
    BY <2>1 DEF GotRecord
<1>2. Idle \in Calls /\ Idle.pc = "idle" /\ Idle.handle = First
  BY HandleAssumption DEF Idle, Calls
<1>3. Types' /\ Asks' /\ Pending'
  BY <1>0, <1>1, <1>2 DEF Types, Asks, Pending, Loop
<1>4. SuccessIsNamed'
  BY <1>0, <1>1 DEF SuccessIsNamed
<1>5. OneLive'
  BY <1>0, SameNames
<1> QED
  BY <1>3, <1>4, <1>5 DEF Inv

\* The application makes a copy or begins a call.
LEMMA ApplicationInv ==
  ASSUME Inv, Decides, status' \in [ID -> Statuses],
         NEW h \in Handle, NEW c \in Handle, NEW v \in BOOLEAN, NEW m \in {"GetReceipt", "GetRecord"},
         SetValidateStatus(h, c, v) \/ Get(m, h)
  PROVE  Inv'
<1>0. /\ Types /\ call.pc = "idle" /\ UNCHANGED <<tx, status, retried, lost>>
      /\ call \in Calls /\ call.handle \in Handle /\ response[call.handle].exists
      /\ response \in [Handle -> Responses] /\ response[First].exists /\ response[h].exists /\ First \in Handle
  BY HandleAssumption DEF Inv, Types, Asks, SetValidateStatus, Get, Calls
<1>1. CASE SetValidateStatus(h, c, v)
  <2>1. /\ response' \in [Handle -> Responses] /\ response'[c].exists /\ c # First /\ c # call.handle
        /\ \A k \in Handle \ {c} : response'[k] = response[k]
        /\ UNCHANGED <<call, result>>
    <3>1. /\ response' = [response EXCEPT ![c] = [response[h] EXCEPT !.validateStatus = v]]
          /\ ~ response[c].exists /\ UNCHANGED <<call, result>>
      BY <1>1 DEF SetValidateStatus
    <3>2. [response[h] EXCEPT !.validateStatus = v] \in Responses
      BY <1>0 DEF Responses
    <3>3. [response[h] EXCEPT !.validateStatus = v].exists
      BY <1>0 DEF Responses
    <3> QED
      BY <1>0, <3>1, <3>2, <3>3
  <2>2. Types' /\ Asks' /\ Pending'
    BY <1>0, <2>1 DEF Inv, Types, Asks, Pending, Loop
  <2>3. SuccessIsNamed'
    <3>1. \A k \in Handle : response[k].exists => response'[k] = response[k]
      BY <1>1, <2>1 DEF SetValidateStatus
    <3> QED
      BY <2>1, <3>1, SuccessStays
  <2>4. OneLive'
    BY <2>1 DEF OneLive, Alone
  <2> QED
    BY <2>2, <2>3, <2>4 DEF Inv
<1>2. CASE Get(m, h)
  <2>0. Idle \in Calls /\ ~ NoResult.ok /\ response[h].id \in Nat
    <3>1. Idle \in Calls
      BY HandleAssumption DEF Idle, Calls
    <3>2. response[h].id \in ID
      BY <1>0 DEF Responses
    <3> QED
      BY <3>1, <3>2, BoundAssumption DEF NoResult, ID
  <2>1. /\ call' \in Calls /\ call'.pc = "receipt" /\ call'.handle = h /\ call'.id = response[h].id
    BY <1>2, <2>0 DEF Get, Calls
  <2>2. UNCHANGED response /\ result' = NoResult
    BY <1>2 DEF Get
  <2>3. Types' /\ Asks' /\ Pending'
    BY <1>0, <2>0, <2>1, <2>2 DEF Types, Asks, Pending, Loop
  <2>4. SuccessIsNamed'
    BY <2>0, <2>2 DEF SuccessIsNamed
  <2>5. OneLive'
    BY <1>0, <2>2, SameNames
  <2> QED
    BY <2>3, <2>4, <2>5 DEF Inv
<1> QED
  BY <1>1, <1>2

\* Every step keeps the invariant.
LEMMA NextInv == ASSUME Inv, [Next]_vars PROVE Inv'
<1>0. Decides /\ status' \in [ID -> Statuses]
  BY Ledger DEF Inv
<1>1. ASSUME UNCHANGED <<tx, response, call, retried, lost, result>> PROVE Inv'
  <2>1. OneLive'
    BY <1>0, <1>1, SameNames
  <2>2. SuccessIsNamed'
    BY <1>0, <1>1, SuccessStays
  <2>3. Types' /\ Pending'
    BY <1>0, <1>1 DEF Inv, Types, Pending
  <2>4. Asks'
    <3>1. call.handle \in Handle /\ response[call.handle].id \in ID
      BY DEF Inv, Types, Calls, Responses
    <3> QED
      BY <1>0, <1>1, <3>1 DEF Inv, Asks, Decides, Decided
  <2> QED
    BY <2>1, <2>2, <2>3, <2>4 DEF Inv
<1>2. CASE (\E t \in ID : Consensus(t)) \/ End \/ UNCHANGED vars
  BY <1>1, <1>2 DEF Consensus, End, vars
<1>3. CASE Step
  BY <1>0, <1>3, GotReceiptInv, ResubmitInv, ResubmitFailsInv, GotReceiptAgainInv, GotRecordInv DEF Step
<1>4. ASSUME NEW h \in Handle, NEW c \in Handle, NEW v \in BOOLEAN, SetValidateStatus(h, c, v) PROVE Inv'
  BY <1>0, <1>4, ApplicationInv
<1>5. ASSUME NEW h \in Handle, Get("GetReceipt", h) \/ Get("GetRecord", h) PROVE Inv'
  BY <1>0, <1>5, ApplicationInv
<1> QED
  BY <1>2, <1>3, <1>4, <1>5 DEF Next

\* The invariant holds at every moment.
LEMMA SpecInv == Spec => []Inv
BY InitInv, NextInv, PTL DEF Spec
-----------------------------------------------------------------------------
(* Theorems *)

\* GetReceipt and GetRecord report a validated success only for the transaction that
\* the response names, however often it was throttled and submitted again.
THEOREM NamedTransactionSucceeded == Spec => []SuccessIsNamed
BY SpecInv, PTL DEF Inv

\* retryTransaction submits again only when every earlier submission has failed, for
\* any number of retries and calls, unless a receipt was lost or the response copied.
THEOREM ResubmissionIsSafe == Spec => []ResubmittedWhenFailed
<1>1. Inv => ResubmittedWhenFailed
  BY DEF Inv, OneLive, Alone, ResubmittedWhenFailed
<1> QED
  BY <1>1, SpecInv, PTL

\* A response that names a successful transaction names it for good: the loop of
\* retryTransaction renames only a response whose transaction was throttled.
THEOREM NameOfSuccessIsKept == Spec => SuccessIsKept
<1>1. ASSUME Inv, [Next]_vars, NEW h \in Handle, response[h].exists, status[response[h].id] = "SUCCESS"
      PROVE  response'[h].id = response[h].id
  <2>0. response \in [Handle -> Responses]
    BY <1>1 DEF Inv, Types
  <2>1. CASE GotReceiptAgain
    <3>1. h # call.handle
      BY <1>1, <2>1 DEF Inv, Asks, Loop, GotReceiptAgain
    <3> QED
      BY <1>1, <2>0, <2>1, <3>1 DEF GotReceiptAgain, Renamed
  <2>2. ASSUME NEW g, NEW c, NEW v, SetValidateStatus(g, c, v) PROVE response'[h].id = response[h].id
    BY <1>1, <2>0, <2>2 DEF SetValidateStatus
  <2>3. ASSUME NEW t, Consensus(t) PROVE UNCHANGED response
    BY <2>3 DEF Consensus
  <2>4. ASSUME NEW m, NEW g, Get(m, g) PROVE UNCHANGED response
    BY <2>4 DEF Get
  <2>5. CASE GotReceipt \/ Resubmit \/ ResubmitFails \/ GotRecord \/ End \/ UNCHANGED vars
    BY <2>5 DEF GotReceipt, Resubmit, ResubmitFails, GotRecord, End, vars
  <2> QED
    BY <1>1, <2>1, <2>2, <2>3, <2>4, <2>5 DEF Next, Step
<1>2. Inv /\ [Next]_vars =>
        [\A h \in Handle : response[h].exists /\ status[response[h].id] = "SUCCESS" => response'[h].id = response[h].id]_vars
  BY <1>1
<1> QED
  BY <1>2, SpecInv, PTL DEF Spec, SuccessIsKept
=============================================================================
