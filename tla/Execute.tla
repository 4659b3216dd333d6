------------------------------ MODULE Execute ------------------------------
(***************************************************************************)
(* The retry loop _Execute, run by concurrent requests over one client.    *)
(* A request is a transaction or a query.  It owns a list of node accounts *)
(* and walks it; the nodes, their backoff and the list of healthy nodes    *)
(* belong to the client's network and are shared.                          *)
(*                                                                         *)
(* Time is discrete and counted from the present: a request carries what   *)
(* remains of its sleep or of its gRPC deadline, a node what remains of    *)
(* its backoff.  Time passes only while every request that runs is waiting *)
(* for something, so computing takes no time.  A node's backoff lasts some *)
(* time of at most NodeBackoff (its growth is the subject of               *)
(* ManagedNetwork), and a readmission pass may or may not be due.          *)
(*                                                                         *)
(* The other end is the consensus service: a node accepts a transaction    *)
(* once per transaction ID and not after the ID has expired.  A call that  *)
(* fails may still reach the node, then or later.                          *)
(***************************************************************************)
EXTENDS Integers, SequencesExt, FiniteSetsExt

CONSTANTS
  Request,                  \* Transaction and Query objects
  Transactions,             \* those that are transactions
  Regenerating,             \* transactions whose IDs may be regenerated
  Node,                     \* node accounts
  NodeLists,                \* lists given to SetNodeAccountIDs; << >> for none
  MaxNodesPerTransaction,
  MaxCalls,                 \* bound: Execute is called so often on an object
  MaxAttempts,              \* maxAttempts of the client, or maxRetry
  MinBackoff, MaxBackoff,   \* of a request
  RequestTimeout, GrpcDeadline,
  NodeBackoff               \* longest backoff of a node

ASSUME RequestAssumption == Transactions \subseteq Request /\ Regenerating \subseteq Transactions
ASSUME NodeAssumption == IsFiniteSet(Node)
ASSUME ListAssumption == NodeLists \subseteq Seq(Node)
ASSUME NumberAssumption ==
  /\ {MaxNodesPerTransaction, MaxCalls, MaxAttempts, RequestTimeout, NodeBackoff} \subseteq Nat \ {0}
  /\ {MinBackoff, MaxBackoff, GrpcDeadline} \subseteq Nat \ {0}
ASSUME BackoffAssumption == MinBackoff <= MaxBackoff   \* SetMinBackoff and SetMaxBackoff panic otherwise

VARIABLES
  network,        \* accounts the network has nodes for
  backoff,        \* of every account's node: time until its readmitTime
  healthyNodes,   \* accounts of the nodes on the healthy list
  req,            \* every request: its object and its frame of _Execute
  executed,       \* <<transaction, ID>> the ledger has executed
  expired,        \* <<transaction, ID>> the ledger no longer accepts
  inFlight        \* <<transaction, ID>> of failed calls that may still arrive

vars == <<network, backoff, healthyNodes, req, executed, expired, inFlight>>

None == "none"
Labels == {"idle", "attempt", "channel", "call", "sleep", "update"}
Results == {None, "ok", "error", "timeout", "exhausted", "unknown node", "panic"}

\* What one request holds.  nodes and index are nodeAccountIDs, id its current
\* transaction ID; response is the ID returned, contacted and failed are what
\* the properties remember of a call: nodes it reached, the node that failed last.
Requests ==
  [pc : Labels, calls : 0..MaxCalls, result : Results,
   nodes : Seq(Node), index : Nat, id : Nat, response : Nat,
   attempt : 0..MaxAttempts, backoff : Nat, elapsed : Nat, wait : Nat,
   updates : 0..MaxAttempts, contacted : SUBSET Node, failed : Node \cup {None}]

Healthy(n) == backoff[n] = 0
Idle(r) == req[r].pc = "idle"
CurrentNode(r) == req[r].nodes[req[r].index + 1]
CurrentID(r) == <<r, req[r].id>>

Init ==
  /\ network = Node
  /\ backoff = [n \in Node |-> 0]
  /\ healthyNodes = Node
  /\ req \in [Request ->
       {[pc |-> "idle", calls |-> 0, result |-> None, nodes |-> l, index |-> 0, id |-> 1,
         response |-> 0, attempt |-> 0, backoff |-> MinBackoff, elapsed |-> 0, wait |-> 0,
         updates |-> 0, contacted |-> {}, failed |-> None] : l \in NodeLists}]
  /\ executed = {}
  /\ expired = {}
  /\ inFlight = {}

ledger == <<executed, expired, inFlight>>
nodeState == <<network, backoff, healthyNodes>>
-----------------------------------------------------------------------------
(* The network as requests use it *)

\* A readmission pass lists some or all of the nodes whose backoff is over.
Readmissions ==
  {healthyNodes \cup S : S \in SUBSET {n \in network : Healthy(n)}}

\* client.network._IncreaseBackoff(node)
IncreaseBackoff(n) ==
  /\ \E b \in 1..NodeBackoff : backoff' = [backoff EXCEPT ![n] = b]
  /\ healthyNodes' = healthyNodes \ {n}
  /\ UNCHANGED network
-----------------------------------------------------------------------------
(* Steps of a request *)

\* nodeAccountIDs._Advance()
Advanced(q) == [q EXCEPT !.index = (@ + 1) % Len(q.nodes)]

\* continue: the loop goes on with the next attempt.
NextAttempt(q) == [q EXCEPT !.pc = "attempt", !.attempt = @ + 1]

\* _DelayForAttempt, then continue.
Delayed(q) == [q EXCEPT !.pc = "sleep", !.wait = q.backoff]

\* Leaving the loop.  The address book updates deferred on the way run before
\* _Execute returns.
Returned(q, result) ==
  [q EXCEPT !.pc = IF q.updates = 0 THEN "idle" ELSE "update",
            !.result = result, !.wait = 0, !.attempt = 0, !.backoff = MinBackoff]

\* Faulty variant of FailedCall: the request stays with the node that failed.
FailedCallStays(q, n) == [q EXCEPT !.failed = n, !.wait = 0]

\* The gRPC call failed at node n: advanceRequest, whatever the error.
FailedCall(q, n) == [Advanced(q) EXCEPT !.failed = n, !.wait = 0]

\* The backoff of an attempt, doubled after the first one.
Doubled(q) == IF q.attempt > 0 /\ q.backoff <= MaxBackoff THEN 2 * q.backoff ELSE q.backoff

\* Faulty variant of CanRegenerateID: the flag of the transaction is not consulted.
RegeneratesAlways(r) == r \in Transactions

\* The conditions of regenerateID.
CanRegenerateID(r) == r \in Regenerating

\* regenerateID
Regenerated(r, q) == IF CanRegenerateID(r) THEN [q EXCEPT !.id = @ + 1] ELSE q

\* FreezeWith lists up to MaxNodesPerTransaction healthy nodes in random order,
\* none when no node is healthy.  A query settles on a single one.
ListsFor(r, S) ==
  LET k == IF r \in Transactions THEN Min({MaxNodesPerTransaction, Cardinality(S)}) ELSE 1
  IN UNION {SetToSeqs(T) : T \in kSubset(k, S)}

\* FreezeWith, or the choice at the head of Query.execute, when the object has no nodes.
ChooseNodes(r) ==
  /\ Idle(r) /\ req[r].nodes = << >>
  /\ \E S \in Readmissions : \E l \in ListsFor(r, S) :
       /\ healthyNodes' = S
       /\ req' = [req EXCEPT ![r].nodes = l]
  /\ UNCHANGED <<network, backoff, ledger>>

\* Execute on an object with nodes: the loop begins.
Call(r) ==
  /\ Idle(r) /\ req[r].nodes # << >> /\ req[r].calls < MaxCalls
  /\ req' = [req EXCEPT ![r].pc = "attempt", ![r].calls = @ + 1, ![r].result = None,
                        ![r].elapsed = 0, ![r].contacted = {}, ![r].failed = None]
  /\ UNCHANGED <<nodeState, ledger>>

\* Execute when no node can be had: _GetNode panics for a query; a transaction
\* stays without signed transactions and makeRequest indexes into none.
CallWithoutNodes(r) ==
  /\ Idle(r) /\ req[r].nodes = << >> /\ req[r].calls < MaxCalls
  /\ {} \in Readmissions
  /\ req' = [req EXCEPT ![r].calls = @ + 1, ![r].result = "panic"]
  /\ UNCHANGED <<nodeState, ledger>>

\* Faulty variant of InTime: the budget is not checked before an attempt.
NotTimed(r) == req[r].attempt < MaxAttempts

\* An attempt begins: attempts and time are left.
InTime(r) == req[r].attempt < MaxAttempts /\ req[r].elapsed < RequestTimeout

\* The loop ends for want of attempts or of time.
GiveUp(r) ==
  /\ req[r].pc = "attempt" /\ ~InTime(r)
  /\ req' = [req EXCEPT ![r] =
       Returned(req[r], IF req[r].attempt < MaxAttempts THEN "timeout" ELSE "exhausted")]
  /\ UNCHANGED <<nodeState, ledger>>

\* An attempt up to the check of the node's health.
Attempt(r) ==
  LET q == [req[r] EXCEPT !.backoff = Doubled(req[r])]
      n == CurrentNode(r)
  IN /\ req[r].pc = "attempt" /\ InTime(r)
     /\ req' = [req EXCEPT ![r] =
          IF n \notin network THEN Returned(q, "unknown node")
          ELSE IF Healthy(n) THEN [q EXCEPT !.pc = "channel"]
          ELSE Delayed(q)]
     /\ UNCHANGED <<nodeState, ledger>>

\* node._GetChannel succeeds and the request is sent under the gRPC deadline.
OpenChannel(r) ==
  /\ req[r].pc = "channel"
  /\ req' = [req EXCEPT ![r].pc = "call", ![r].wait = GrpcDeadline,
                        ![r].contacted = @ \cup {CurrentNode(r)}]
  /\ UNCHANGED <<nodeState, ledger>>

\* node._GetChannel fails.
ChannelError(r) ==
  /\ req[r].pc = "channel"
  /\ IncreaseBackoff(CurrentNode(r))
  /\ req' = [req EXCEPT ![r] = NextAttempt(FailedCall(req[r], CurrentNode(r)))]
  /\ UNCHANGED ledger

\* A failed call of a transaction may still reach its node.
MayArrive(r) ==
  /\ inFlight' = inFlight \cup ({CurrentID(r)} \cap (Transactions \X Nat))
  /\ UNCHANGED <<executed, expired>>

\* UNAVAILABLE, RESOURCE_EXHAUSTED, or INTERNAL with RST_STREAM.
RetryableError(r) ==
  /\ req[r].pc = "call"
  /\ IncreaseBackoff(CurrentNode(r))
  /\ req' = [req EXCEPT ![r] = NextAttempt(FailedCall(req[r], CurrentNode(r)))]
  /\ MayArrive(r)

\* Faulty variant of DeadlineExceeded: the call is made without a deadline.
NoDeadline(r) == req[r].wait = 0 /\ FALSE /\ RetryableError(r)

\* DEADLINE_EXCEEDED, when the context of the call times out.
DeadlineExceeded(r) == req[r].wait = 0 /\ RetryableError(r)

\* Any other error of the call.
FatalError(r) ==
  /\ req[r].pc = "call"
  /\ req' = [req EXCEPT ![r] = Returned(FailedCall(req[r], CurrentNode(r)), "error")]
  /\ MayArrive(r)
  /\ UNCHANGED nodeState
-----------------------------------------------------------------------------
(* Answers of the node: the cases of shouldRetry *)

\* executionStateRetry: the same node is asked again after a delay.
Busy(r) ==
  /\ req[r].pc = "call"
  /\ req' = [req EXCEPT ![r] = Delayed(req[r])]
  /\ UNCHANGED <<nodeState, ledger>>

\* executionStateExpired: another ID, or the error is returned.
Expired(r) ==
  LET q == [req[r] EXCEPT !.wait = 0]
  IN /\ req[r].pc = "call" /\ r \in Transactions
     /\ expired' = expired \cup {CurrentID(r)}
     /\ req' = [req EXCEPT ![r] =
          IF CanRegenerateID(r) THEN NextAttempt(Regenerated(r, q)) ELSE Returned(q, "error")]
     /\ UNCHANGED <<nodeState, executed, inFlight>>

\* Faulty variant of Rejected: another ID is taken when the node has seen this one.
RejectedRegenerates(r) ==
  /\ req[r].pc = "call"
  /\ req' = [req EXCEPT ![r] =
       IF CurrentID(r) \in executed THEN Delayed(Regenerated(r, req[r])) ELSE Returned(req[r], "error")]
  /\ UNCHANGED <<nodeState, ledger>>

\* executionStateError, DUPLICATE_TRANSACTION included.
Rejected(r) ==
  /\ req[r].pc = "call"
  /\ req' = [req EXCEPT ![r] = Returned(req[r], "error")]
  /\ UNCHANGED <<nodeState, ledger>>

\* mapResponse, and the regenerateID that Execute does after it.
Finished(r, q) == Regenerated(r, [q EXCEPT !.response = q.id])

\* executionStateFinished
Accepted(r) ==
  /\ req[r].pc = "call"
  /\ r \in Transactions => CurrentID(r) \notin executed \cup expired
  /\ executed' = executed \cup ({CurrentID(r)} \cap (Transactions \X Nat))
  /\ req' = [req EXCEPT ![r] = Finished(r, Returned(req[r], "ok"))]
  /\ UNCHANGED <<nodeState, expired, inFlight>>

\* executionStateRetryWithAnotherNode: INVALID_NODE_ACCOUNT
InvalidNodeAccount(r) ==
  LET q == FailedCall(req[r], CurrentNode(r))
  IN /\ req[r].pc = "call" /\ r \in Transactions
     /\ IncreaseBackoff(CurrentNode(r))
     /\ req' = [req EXCEPT ![r] = NextAttempt([q EXCEPT !.updates = @ + 1])]
     /\ UNCHANGED ledger
-----------------------------------------------------------------------------
(* The rest: delays, deferred updates, the ledger, time *)

\* time.Sleep is over.
Wake(r) ==
  /\ req[r].pc = "sleep" /\ req[r].wait = 0
  /\ req' = [req EXCEPT ![r] = NextAttempt(req[r])]
  /\ UNCHANGED <<nodeState, ledger>>

\* A deferred _UpdateAddressBook: the query fails or the network is replaced.
\* Accounts that are new get new nodes, those that stay keep theirs.
UpdateAddressBook(r) ==
  /\ req[r].pc = "update"
  /\ req' = [req EXCEPT ![r].updates = @ - 1,
                        ![r].pc = IF req[r].updates = 1 THEN "idle" ELSE "update"]
  /\ \/ UNCHANGED nodeState
     \/ /\ network' \in SUBSET Node \ {{}}
        /\ backoff' = [n \in Node |-> IF n \in network' \cap network THEN backoff[n] ELSE 0]
        /\ healthyNodes' = {n \in network' : backoff'[n] = 0}
  /\ UNCHANGED ledger

\* A call given up on arrives and is executed.
Arrive ==
  /\ \E m \in inFlight \ (executed \cup expired) : executed' = executed \cup {m}
  /\ UNCHANGED <<nodeState, req, expired, inFlight>>

Waiting(r) == req[r].pc \in {"sleep", "call"}

\* Time passes when every request that runs is waiting.
Tick ==
  /\ \A r \in Request : Idle(r) \/ req[r].pc = "update" \/ (Waiting(r) /\ req[r].wait > 0)
  /\ (\E r \in Request : Waiting(r)) \/ (\E n \in Node : backoff[n] > 0)
  /\ backoff' = [n \in Node |-> Max({0, backoff[n] - 1})]
  /\ req' = [r \in Request |->
       IF Waiting(r) THEN [req[r] EXCEPT !.wait = @ - 1, !.elapsed = @ + 1] ELSE req[r]]
  /\ UNCHANGED <<network, healthyNodes, ledger>>

\* Every object has been executed as often as the bound allows.
Finish ==
  /\ \A r \in Request : Idle(r) /\ req[r].calls = MaxCalls
  /\ UNCHANGED vars

Step(r) ==
  \/ GiveUp(r) \/ Attempt(r) \/ OpenChannel(r) \/ DeadlineExceeded(r) \/ Wake(r)
  \/ UpdateAddressBook(r)

Answer(r) ==
  \/ ChannelError(r) \/ RetryableError(r) \/ FatalError(r) \/ Busy(r) \/ Expired(r)
  \/ Rejected(r) \/ Accepted(r) \/ InvalidNodeAccount(r)

Next ==
  \/ \E r \in Request : ChooseNodes(r) \/ Call(r) \/ CallWithoutNodes(r) \/ Step(r) \/ Answer(r)
  \/ Arrive \/ Tick \/ Finish

Spec == Init /\ [][Next]_vars

\* The goroutine of a request is scheduled, the runtime delivers its timers and
\* the gRPC deadline, an address book query returns, and time passes.  Nothing is
\* assumed of the nodes, which may never answer.
FairSpec == Spec /\ WF_vars(Tick) /\ \A r \in Request : WF_vars(Step(r))
-----------------------------------------------------------------------------
(* Properties *)

\* Type invariant; the index of a request stays within its nodes.
TypeOK ==
  /\ network \in SUBSET Node
  /\ backoff \in [Node -> 0..NodeBackoff]
  /\ healthyNodes \in SUBSET network
  /\ \A r \in Request : req[r] \in Requests /\ req[r].index <= Len(req[r].nodes)
  /\ \A S \in {executed, expired, inFlight} : S \subseteq Transactions \X Nat

\* The budget the loop really keeps: the last attempt begins within the request
\* timeout, and then takes one gRPC call or one delay, which is at most twice the
\* maximum backoff; a call that is answered by BUSY is followed by a delay.
TimeIsBounded ==
  \A r \in Request : req[r].elapsed < RequestTimeout + GrpcDeadline + 2 * MaxBackoff

\* A request that has other nodes to try does not go back at once to the node
\* that failed it last: advanceRequest comes before the retry.
FailedNodeIsNotRetriedNext ==
  [][\A r \in Request :
       req[r].pc = "channel" /\ req'[r].pc = "call" /\ Cardinality(ToSet(req[r].nodes)) > 1
         => CurrentNode(r) # req[r].failed]_vars

\* A transaction whose ID may not be regenerated is executed at most once by the
\* ledger, however many retries, lost answers and late arrivals there are.
ExecutedAtMostOnce ==
  \A m, k \in executed : m[1] = k[1] /\ m[1] \notin Regenerating => m = k

\* Within a call a transaction ID is given up for a new one only if the network
\* said that it has expired; after a call also if it was executed.
RegeneratedOnlyWhenSpent ==
  \A r \in Transactions : \A i \in 1..(req[r].id - 1) : <<r, i>> \in expired \cup executed

\* The ID in the response of Execute is the ID of an executed transaction, not
\* the one regenerated for the next use of the object.
ResponseWasExecuted ==
  \A r \in Transactions : req[r].result = "ok" => <<r, req[r].response>> \in executed

Outcome(result) == IF result \in {None, "ok"} THEN result ELSE "error"

Submitted == INSTANCE Submission WITH
  running <- [t \in Transactions |-> req[t].pc \notin {"idle", "update"}],
  outcome <- [t \in Transactions |-> Outcome(req[t].result)],
  id <- [t \in Transactions |-> req[t].id],
  response <- [t \in Transactions |-> req[t].response],
  taken <- executed, dead <- expired

\* The loop of _Execute, with its attempts, nodes, timers and the requests beside it,
\* implements what its callers rely on: one ID is executed at most once, the response
\* names an executed one, and after an error the network may have the transaction.
ImplementsSubmission == Submitted!Spec

\* Execute returns, also when no node ever answers.
CallsReturn == \A r \in Request : req[r].pc # "idle" ~> req[r].pc = "idle"
-----------------------------------------------------------------------------
(* What comments and the change log say *)

\* "double the backoff time up to the max backoff time" (executable.go): no
\* request sleeps longer than MaxBackoff between attempts.
BackoffUpToMax == \A r \in Request : req[r].pc = "sleep" => req[r].wait <= MaxBackoff

\* "the total time budget for a complete Transaction or Query execute operation"
\* (SetRequestTimeout): the loop ends within RequestTimeout.
WithinRequestTimeout == \A r \in Request : req[r].elapsed <= RequestTimeout

\* The request goes to sleep because the node it is at is in backoff.
WaitsForNode(r) == req[r].pc = "attempt" /\ req'[r].pc = "sleep"

\* "The SDK will flag this node as unhealthy and move forward with other nodes"
\* (SetGrpcDeadline): a request does not wait for the node that failed it while
\* another node of the network is healthy.
MovesForward ==
  [][\A r \in Request :
       WaitsForNode(r) /\ CurrentNode(r) = req[r].failed /\ req[r].failed \in req[r].contacted
         => \A n \in network : ~Healthy(n)]_vars

\* "Not retrying other nodes when there are multiple nodes are locked" is fixed
\* (CHANGELOG, 2.21.0): a request does not wait for an unhealthy node while
\* another node of the list it was given is healthy.
TriesOtherNodes ==
  [][\A r \in Request :
       WaitsForNode(r) => \A n \in ToSet(req[r].nodes) \cap network : ~Healthy(n)]_vars

\* "Panic when too many nodes are not healthy" is fixed (CHANGELOG, 2.21.0).
NoPanic == \A r \in Request : req[r].result # "panic"
=============================================================================
