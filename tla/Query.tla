------------------------------- MODULE Query -------------------------------
(***************************************************************************)
(* A Query object and what it pays.  Execute asks a node for the cost,     *)
(* compares it with the maximum and sends the query with a payment, a      *)
(* transaction of the operator that every attempt makes anew.  The object  *)
(* is used for several calls, with setters between them and with clients   *)
(* that have an operator and clients that have not.                        *)
(*                                                                         *)
(* The nodes are external: they charge a payment when they answer, whether *)
(* or not the answer arrives, and a lost request may arrive later.  Node   *)
(* choice, backoff and time limits are those of Execute: here an attempt   *)
(* may be made without a call, and a call may give up before any attempt.  *)
(***************************************************************************)
EXTENDS Integers, Sequences, FiniteSets

CONSTANTS
  Node,          \* node accounts
  Client,        \* clients
  Operators,     \* the clients with an operator
  NoClient,      \* the nil client
  Amounts,       \* payments and maximums the application sets
  Prices,        \* prices of the query
  DefaultMax,    \* defaultMaxQueryPayment of the clients
  MaxAttempts,   \* maxRetry of the query
  MaxCalls       \* bound: calls of GetCost and Execute

ASSUME ClientAssumption == Operators \subseteq Client /\ NoClient \notin Client
ASSUME AmountAssumption == Amounts \subseteq Nat \ {0} /\ Prices \subseteq Nat \ {0} /\ DefaultMax \in Nat
ASSUME BoundAssumption == MaxAttempts \in Nat /\ MaxCalls \in Nat

VARIABLES
  q,          \* the query object
  call,       \* the call in progress: pc, method, attempt, request on its way
  calls,      \* calls so far
  price,      \* what the nodes ask for the query
  charged,    \* payments the nodes have executed
  inFlight,   \* requests whose caller has given up on the answer
  log         \* per call: the limit it found, the answers it lost, its outcome

vars == <<q, call, calls, price, charged, inFlight, log>>

Idle == [pc |-> "idle", method |-> "none", attempt |-> 0, request |-> {}]
NewLog == [limit |-> 0, asked |-> FALSE, idSet |-> FALSE, lost |-> 0, outcome |-> "none"]

\* Transaction IDs of payments: the one set by the application, and the ones that
\* TransactionIDGenerate makes, another for every attempt.
SetID == 0
GeneratedID == 1 + call.attempt + (MaxAttempts + 1) * (2 * calls + (IF q.responseType = "COST_ANSWER" THEN 0 ELSE 1))

\* _NewQuery, for a query that has to be paid and for one that is free.
Init ==
  /\ \E paid \in BOOLEAN :
       q = [isPaymentRequired |-> paid, client |-> NoClient, queryPayment |-> 0, maxQueryPayment |-> 0,
            idSet |-> FALSE, nodes |-> << >>, index |-> 0, responseType |-> "none", payment |-> {},
            explicit |-> FALSE]
  /\ call = Idle
  /\ calls = 0
  /\ price \in Prices
  /\ charged = {}
  /\ inFlight = {}
  /\ log = [k \in 1..MaxCalls |-> NewLog]
-----------------------------------------------------------------------------
(* The setters *)

Set(f) ==
  /\ call.pc = "idle" /\ q' = f
  /\ UNCHANGED <<call, calls, price, charged, inFlight, log>>

SetQueryPayment(a) == Set([q EXCEPT !.queryPayment = a, !.explicit = TRUE])

SetMaxQueryPayment(a) == Set([q EXCEPT !.maxQueryPayment = a])

\* Both lock a slice, and panic when it is locked.
SetPaymentTransactionID == ~ q.idSet /\ Set([q EXCEPT !.idSet = TRUE])

SetNodeAccountIDs(s) == q.nodes = << >> /\ Set([q EXCEPT !.nodes = s])
-----------------------------------------------------------------------------
(* getCost and execute *)

\* A query without nodes is given one of the network, for good.
Prepared(r, n) ==
  [r EXCEPT !.nodes = IF @ = << >> THEN <<n>> ELSE @]

\* buildQuery puts the header of the object, with its payment, into the request.
Begin(r, method, type, n) ==
  /\ q' = [Prepared(r, n) EXCEPT !.responseType = type]
  /\ call' = [pc |-> "attempt", method |-> method, attempt |-> 0, request |-> {}]

GetCost(c, n) ==
  /\ call.pc = "idle" /\ calls < MaxCalls
  /\ calls' = calls + 1
  /\ Begin(q, "getCost", "COST_ANSWER", n)
  /\ UNCHANGED <<price, charged, inFlight, log>>

Limit == IF q.maxQueryPayment = 0 THEN DefaultMax ELSE q.maxQueryPayment

\* execute up to its first request.  The client is kept before it is looked at.
Execute(c, n) ==
  /\ call.pc = "idle" /\ calls < MaxCalls
  /\ calls' = calls + 1
  /\ LET attached == [q EXCEPT !.client = c]
     IN IF c = NoClient \/ (q.isPaymentRequired /\ c \notin Operators)
        THEN q' = attached /\ log' = [log EXCEPT ![calls + 1].outcome = "error"] /\ UNCHANGED call
        ELSE /\ log' = [log EXCEPT ![calls + 1].limit = Limit, ![calls + 1].idSet = q.idSet]
             /\ IF q.queryPayment = 0 /\ q.isPaymentRequired
                THEN Begin(attached, "execute", "COST_ANSWER", n)
                ELSE Begin(attached, "execute", "ANSWER_ONLY", n)
  /\ UNCHANGED <<price, charged, inFlight>>
-----------------------------------------------------------------------------
(* The attempts *)

Current == q.nodes[q.index + 1]

\* advanceRequest.
Advanced(r) == [r EXCEPT !.index = (@ + 1) % Len(r.nodes)]

\* generatePayments: the ID that was set, or a new one.
PaymentID == IF q.idSet THEN SetID ELSE GeneratedID

\* Faulty variant of Payment: a payment made by an earlier attempt is kept.
PaymentKept ==
  IF q.payment # {} THEN q.payment
  ELSE IF q.client \in Operators /\ q.isPaymentRequired
       THEN {[id |-> PaymentID, node |-> Current, amount |-> q.queryPayment]} ELSE {}

\* makeRequest: the header keeps its payment when none can be made.
Payment ==
  IF q.client \in Operators /\ q.isPaymentRequired
  THEN {[id |-> PaymentID, node |-> Current, amount |-> q.queryPayment]} ELSE q.payment

\* An attempt, from makeRequest to the call.
MakeRequest ==
  /\ call.pc = "attempt" /\ call.attempt < MaxAttempts
  /\ q' = [q EXCEPT !.payment = Payment]
  /\ call' = [call EXCEPT !.pc = "sent",
                !.request = {[node |-> Current, type |-> q.responseType, payment |-> Payment,
                              call |-> calls, attempt |-> call.attempt]}]
  /\ UNCHANGED <<calls, price, charged, inFlight, log>>

ToBePaid(r) == q.isPaymentRequired /\ r.type = "ANSWER_ONLY"
Sent(r) == call.pc = "sent" /\ r \in call.request
Again == [call EXCEPT !.pc = "attempt", !.attempt = @ + 1, !.request = {}]
Ends(outcome) == call' = Idle /\ log' = [log EXCEPT ![calls].outcome = outcome]

\* The node is in backoff, and the attempt waits; or it has no channel, and the next
\* attempt is with another node.
NotCalled ==
  /\ call.pc = "sent"
  /\ call' = Again
  /\ q' \in {q, Advanced(q)}
  /\ UNCHANGED <<calls, price, charged, inFlight, log>>

\* PLATFORM_TRANSACTION_NOT_CREATED, PLATFORM_NOT_ACTIVE and BUSY: not charged.
Busy ==
  /\ call.pc = "sent"
  /\ call' = Again
  /\ UNCHANGED <<q, calls, price, charged, inFlight, log>>

\* The call fails.  The node may have the request, or get it later.
LoseAnswer(r) ==
  /\ Sent(r)
  /\ q' = Advanced(q)
  /\ inFlight' = inFlight \cup {s \in {r} : ToBePaid(s)}
  /\ \/ call' = Again /\ log' = [log EXCEPT ![calls].lost = @ + 1]
     \/ call' = Idle /\ log' = [log EXCEPT ![calls].lost = @ + 1, ![calls].outcome = "error"]
  /\ UNCHANGED <<calls, price, charged>>

\* Before an attempt the time is out, or all attempts are used up; or the network has
\* no node of the account any more (ErrInvalidNodeAccountIDSet).
GiveUp ==
  /\ call.pc \in {"attempt", "sent"}
  /\ Ends("error")
  /\ UNCHANGED <<q, calls, price, charged, inFlight>>
-----------------------------------------------------------------------------
(* The nodes (external) *)

\* A payment for the node, of at least the price, that was not executed before.
Accepts(r) ==
  ToBePaid(r) => \E p \in r.payment : p.node = r.node /\ p.amount >= price /\ \A e \in charged : e.id # p.id

Charges(r) ==
  IF ToBePaid(r) /\ Accepts(r)
  THEN {[id |-> p.id, amount |-> p.amount, call |-> r.call, attempt |-> r.attempt] : p \in r.payment} ELSE {}

\* A request arrives after its caller has given up on it.
Arrive(r) ==
  /\ r \in inFlight
  /\ inFlight' = inFlight \ {r}
  /\ charged' = charged \cup Charges(r)
  /\ UNCHANGED <<q, call, calls, price, log>>

\* Faulty variant of Affordable: the maximum is not looked at.
AffordableAlways == TRUE

\* The comparison of execute with the cost that a node has answered.
Affordable == log[calls].limit >= price

\* An answer with status OK to a cost query: getCost returns it; execute takes it as
\* its payment and goes on to the query itself.
CostAnswered(r) ==
  /\ Sent(r) /\ r.type = "COST_ANSWER"
  /\ CASE call.method = "getCost" -> Ends("cost") /\ UNCHANGED q
       [] call.method = "execute" /\ ~ Affordable -> Ends("exceeded") /\ UNCHANGED q
       [] OTHER -> /\ Begin([q EXCEPT !.queryPayment = price], "execute", "ANSWER_ONLY", Current)
                   /\ log' = [log EXCEPT ![calls].asked = TRUE]
  /\ UNCHANGED <<calls, price, charged, inFlight>>

\* Faulty variant of Answered: the result is not taken and the query is sent again.
AnsweredRetried(r) ==
  /\ Sent(r) /\ r.type = "ANSWER_ONLY" /\ Accepts(r)
  /\ charged' = charged \cup Charges(r)
  /\ call' = Again
  /\ UNCHANGED <<q, calls, price, inFlight, log>>

\* The answer to the query itself, with status OK.
Answered(r) ==
  /\ Sent(r) /\ r.type = "ANSWER_ONLY" /\ Accepts(r)
  /\ charged' = charged \cup Charges(r)
  /\ Ends("ok")
  /\ UNCHANGED <<q, calls, price, inFlight>>

\* Any other status, such as INSUFFICIENT_TX_FEE or DUPLICATE_TRANSACTION.
Rejected(r) ==
  /\ Sent(r)
  /\ Ends("error")
  /\ UNCHANGED <<q, calls, price, charged, inFlight>>

\* The nodes ask another price.
Reprice ==
  /\ price' \in Prices
  /\ UNCHANGED <<q, call, calls, charged, inFlight, log>>
-----------------------------------------------------------------------------
Next ==
  \/ \E a \in Amounts : SetQueryPayment(a) \/ SetMaxQueryPayment(a)
  \/ SetPaymentTransactionID
  \/ \E s \in {t \in Node \X Node : t[1] # t[2]} : SetNodeAccountIDs(s)
  \/ \E n \in Node : (\E c \in Client : GetCost(c, n)) \/ (\E c \in Client \cup {NoClient} : Execute(c, n))
  \/ MakeRequest \/ NotCalled \/ Busy \/ GiveUp
  \/ \E r \in call.request : LoseAnswer(r) \/ CostAnswered(r) \/ Answered(r) \/ Rejected(r)
  \/ \E r \in inFlight : Arrive(r)
  \/ Reprice

Spec == Init /\ [][Next]_vars
-----------------------------------------------------------------------------
(* Properties *)

\* Type invariant.
TypeOK ==
  /\ q.client \in Client \cup {NoClient} /\ q.queryPayment \in Nat /\ q.maxQueryPayment \in Nat
  /\ q.nodes \in Seq(Node) /\ (q.nodes = << >> \/ q.index + 1 \in DOMAIN q.nodes)
  /\ call.pc \in {"idle", "attempt", "sent"} /\ call.method \in {"none", "getCost", "execute"}
  /\ call.attempt \in 0..MaxAttempts
  /\ calls \in 0..MaxCalls /\ price \in Prices
  /\ \A r \in inFlight \cup call.request : r.node \in Node /\ Cardinality(r.payment) <= 1
  /\ \A k \in 1..MaxCalls : log[k].outcome \in {"none", "cost", "exceeded", "ok", "error"}

Queries == {r \in inFlight \cup call.request : ToBePaid(r)}

\* A query that has to be paid carries a payment for the node it goes to, though the
\* payment is made by makeRequest and the node is looked up by _Execute afterwards.
\* Each attempt pays with a transaction of its own, unless the ID was set: no payment
\* that an earlier attempt may have spent is sent again.
PaymentIsForItsNode ==
  /\ \A r \in Queries : \E p \in r.payment : p.node = r.node
  /\ \A r, s \in Queries :
       (\E p \in r.payment \cap s.payment : p.id # SetID) => r.call = s.call /\ r.attempt = s.attempt

\* A call is charged at most once for each answer it lost and once for the answer it
\* returned; a call that failed before any answer was lost costs nothing.  With a
\* payment ID that was set (SetPaymentTransactionID), the query is charged at most
\* once, however often it is retried or executed again and whatever is lost.
ChargedForAnswers ==
  /\ \A k \in 1..MaxCalls :
       Cardinality({c \in charged : c.call = k}) <= log[k].lost + (IF log[k].outcome = "ok" THEN 1 ELSE 0)
  /\ Cardinality({c \in charged : log[c.call].idSet}) <= 1

\* When execute has asked for the cost it pays no more than the maximum in force, and
\* when the cost exceeds the maximum it pays nothing.
AskedCostIsWithinMaximum ==
  \A c \in charged :
    /\ log[c.call].asked => c.amount <= log[c.call].limit
    /\ log[c.call].outcome # "exceeded"

\* query.go: "SetMaxQueryPayment sets the maximum payment allowed for this query."  A
\* payment that the application has not chosen itself is within the maximum.
MaximumIsRespected ==
  ~ q.explicit => \A c \in charged : c.amount <= log[c.call].limit

\* account_info_query_unit_test.go: "a COST_ANSWER query must not attach a payment
\* transaction".
CostQueryIsUnpaid ==
  \A r \in call.request : r.type = "COST_ANSWER" => r.payment = {}
=============================================================================
