--------------------------- MODULE ExecuteProofs ---------------------------
(***************************************************************************)
(* Proofs about the retry loop, for any number of requests and nodes and   *)
(* any limits: the frame of a request stays well formed (its index within  *)
(* its list of nodes, its counters within their limits), its time is       *)
(* bounded, an ID is executed at most once, and the loop implements        *)
(* Submission.                                                             *)
(***************************************************************************)
EXTENDS Execute, FiniteSetTheorems, TLAPS

Limit == RequestTimeout + GrpcDeadline + 2 * MaxBackoff
Running == {"attempt", "channel", "call", "sleep"}

\* A request without nodes is at rest; one with nodes has one at its index.
InList(q) ==
  /\ q.nodes = << >> => q.pc = "idle" /\ q.index = 0
  /\ q.nodes # << >> => q.index < Len(q.nodes)

\* A request that is in an attempt has that attempt left, and has deferred at most
\* one address book update for each attempt before it.
InAttempt(q) ==
  /\ q.pc \in Running \ {"attempt"} => q.attempt < MaxAttempts
  /\ q.pc \in Running => q.updates <= q.attempt
  /\ q.pc = "idle" => q.attempt = 0 /\ q.updates = 0
  /\ q.pc = "update" => q.attempt = 0 /\ q.updates > 0

\* What a request still has to wait for fits within the limit.
InBudget(q) ==
  /\ q.backoff <= 2 * MaxBackoff
  /\ q.elapsed < Limit
  /\ q.pc = "channel" => q.elapsed < RequestTimeout
  /\ q.pc = "call" => q.elapsed + q.wait < RequestTimeout + GrpcDeadline
  /\ q.pc = "sleep" => q.elapsed + q.wait < Limit

Frame(q) == q \in Requests /\ q.id > 0 /\ InList(q) /\ InAttempt(q) /\ InBudget(q)

Frames == req \in [Request -> Requests] /\ \A r \in Request : Frame(req[r])
-----------------------------------------------------------------------------
(* Frames *)

\* The limits are numbers.
LEMMA Numbers ==
  /\ MaxNodesPerTransaction \in Nat \ {0} /\ MaxCalls \in Nat \ {0} /\ MaxAttempts \in Nat \ {0}
  /\ RequestTimeout \in Nat \ {0} /\ NodeBackoff \in Nat \ {0}
  /\ MinBackoff \in Nat \ {0} /\ MaxBackoff \in Nat \ {0} /\ GrpcDeadline \in Nat \ {0}
  /\ MinBackoff <= MaxBackoff
  /\ Limit \in Nat /\ Limit > RequestTimeout
<1>1. /\ MaxNodesPerTransaction \in Nat \ {0} /\ MaxCalls \in Nat \ {0} /\ MaxAttempts \in Nat \ {0}
      /\ RequestTimeout \in Nat \ {0} /\ NodeBackoff \in Nat \ {0}
      /\ MinBackoff \in Nat \ {0} /\ MaxBackoff \in Nat \ {0} /\ GrpcDeadline \in Nat \ {0}
  BY NumberAssumption
<1> QED
  BY <1>1, BackoffAssumption DEF Limit

\* A request that is not at rest is at a node.
LEMMA AtNode ==
  ASSUME NEW r \in Request, Frame(req[r]), req[r].nodes # << >>
  PROVE  CurrentNode(r) \in Node
BY DEF Frame, InList, Requests, CurrentNode

\* Leaving the loop, whatever the result.
LEMMA ReturnedFrame ==
  ASSUME NEW q, Frame(q), q.pc \in Running, NEW result \in Results
  PROVE  Frame(Returned(q, result))
<1> DEFINE p == Returned(q, result)
<1>1. p \in Requests
  <2>1. /\ 0 \in Nat /\ 0 \in 0..MaxAttempts /\ MinBackoff \in Nat
        /\ (IF q.updates = 0 THEN "idle" ELSE "update") \in Labels
    BY Numbers DEF Labels
  <2>2. q \in Requests
    BY DEF Frame
  <2> QED
    BY <2>1, <2>2 DEF Requests, Returned
<1>2. /\ p.pc = IF q.updates = 0 THEN "idle" ELSE "update"
      /\ p.nodes = q.nodes /\ p.index = q.index /\ p.id = q.id
      /\ p.attempt = 0 /\ p.updates = q.updates /\ p.backoff = MinBackoff /\ p.elapsed = q.elapsed
  BY DEF Frame, Requests, Returned
<1>3. q.updates \in Nat /\ q.elapsed \in Nat
  BY DEF Frame, Requests
<1> HIDE DEF p
<1>4. InList(p)
  BY <1>2 DEF Frame, InList, Running
<1>5. InAttempt(p)
  BY <1>2, <1>3 DEF InAttempt, Running
<1>6. InBudget(p)
  BY <1>2, <1>3, Numbers DEF Frame, InBudget
<1>7. Frame(p)
  BY <1>1, <1>2, <1>4, <1>5, <1>6 DEF Frame
<1> QED
  BY <1>7 DEF p

\* The next attempt, with the node of the list that comes next or the same one.
LEMMA NextAttemptFrame ==
  ASSUME NEW q, Frame(q), q.pc \in Running \ {"attempt"}
  PROVE  Frame(NextAttempt(q))
<1> DEFINE p == NextAttempt(q)
<1>1. q.attempt < MaxAttempts /\ q.attempt \in Nat /\ q.updates \in Nat /\ q.updates <= q.attempt
  BY Numbers DEF Frame, InAttempt, Requests, Running
<1>2. p \in Requests
  <2>1. q.attempt + 1 \in 0..MaxAttempts /\ "attempt" \in Labels
    BY <1>1, Numbers DEF Labels
  <2>2. q \in Requests
    BY DEF Frame
  <2> QED
    BY <2>1, <2>2 DEF Requests, NextAttempt
<1>3. /\ p.pc = "attempt" /\ p.attempt = q.attempt + 1
      /\ p.nodes = q.nodes /\ p.index = q.index /\ p.id = q.id
      /\ p.updates = q.updates /\ p.backoff = q.backoff /\ p.elapsed = q.elapsed
  BY DEF Frame, Requests, NextAttempt
<1> HIDE DEF p
<1>4. InList(p)
  BY <1>3 DEF Frame, InList, Running
<1>5. InAttempt(p)
  BY <1>1, <1>3 DEF InAttempt, Running
<1>6. InBudget(p)
  BY <1>3 DEF Frame, InBudget
<1>7. Frame(p)
  BY <1>2, <1>3, <1>4, <1>5, <1>6 DEF Frame
<1> QED
  BY <1>7 DEF p

\* A failed call moves on in the list.
LEMMA FailedCallFrame ==
  ASSUME NEW q, Frame(q), q.pc \in {"channel", "call"}, NEW n \in Node
  PROVE  Frame(FailedCall(q, n)) /\ FailedCall(q, n).pc = q.pc
<1> DEFINE p == FailedCall(q, n)
           i == (q.index + 1) % Len(q.nodes)
<1>1. Len(q.nodes) \in Nat /\ Len(q.nodes) > 0 /\ q.index \in Nat
  BY DEF Frame, InList, Requests
<1>2. i \in Nat /\ i < Len(q.nodes)
  BY <1>1
<1> HIDE DEF i
<1>3. p = [q EXCEPT !.index = i, !.failed = n, !.wait = 0]
  BY DEF FailedCall, Advanced, Frame, Requests, i
<1>4. p \in Requests
  <2>1. 0 \in Nat /\ n \in Node \cup {None} /\ q \in Requests
    BY DEF Frame
  <2> QED
    BY <1>2, <1>3, <2>1 DEF Requests
<1>5. /\ p.pc = q.pc /\ p.attempt = q.attempt /\ p.nodes = q.nodes /\ p.index = i /\ p.id = q.id
      /\ p.updates = q.updates /\ p.backoff = q.backoff /\ p.elapsed = q.elapsed /\ p.wait = 0
  BY <1>3 DEF Frame, Requests
<1>6. q.elapsed \in Nat /\ q.wait \in Nat
  BY DEF Frame, Requests
<1> HIDE DEF p
<1>7. InList(p)
  BY <1>2, <1>5 DEF Frame, InList
<1>8. InAttempt(p)
  BY <1>5 DEF Frame, InAttempt
<1>9. InBudget(p)
  BY <1>5, <1>6, Numbers DEF Frame, InBudget
<1> QED
  BY <1>4, <1>5, <1>7, <1>8, <1>9 DEF Frame, p

\* A delay of the current backoff, after an answer that came in time.
LEMMA DelayedFrame ==
  ASSUME NEW q, Frame(q), q.pc \in {"attempt", "call"}, q.attempt < MaxAttempts,
         q.elapsed < RequestTimeout + GrpcDeadline
  PROVE  Frame(Delayed(q))
<1> DEFINE p == Delayed(q)
<1>1. p \in Requests
  BY DEF Frame, Requests, Delayed, Labels
<1>2. /\ p.pc = "sleep" /\ p.wait = q.backoff
      /\ p.attempt = q.attempt /\ p.nodes = q.nodes /\ p.index = q.index /\ p.id = q.id
      /\ p.updates = q.updates /\ p.backoff = q.backoff /\ p.elapsed = q.elapsed
  BY DEF Frame, Requests, Delayed
<1>3. q.elapsed \in Nat /\ q.backoff \in Nat
  BY DEF Frame, Requests
<1> HIDE DEF p
<1>4. InList(p)
  BY <1>2 DEF Frame, InList
<1>5. InAttempt(p)
  BY <1>2 DEF Frame, InAttempt, Running
<1>6. InBudget(p)
  BY <1>2, <1>3, Numbers DEF Frame, InBudget, Limit
<1>7. Frame(p)
  BY <1>1, <1>2, <1>4, <1>5, <1>6 DEF Frame
<1> QED
  BY <1>7 DEF p

\* An INVALID_NODE_ACCOUNT uses the attempt up and defers an update.
LEMMA DeferredFrame ==
  ASSUME NEW q, Frame(q), q.pc = "call"
  PROVE  Frame(NextAttempt([q EXCEPT !.updates = @ + 1]))
<1> DEFINE p == NextAttempt([q EXCEPT !.updates = @ + 1])
<1>1. q.attempt < MaxAttempts /\ q.attempt \in Nat /\ q.updates \in Nat /\ q.updates <= q.attempt
  BY Numbers DEF Frame, InAttempt, Requests, Running
<1>2. p = [q EXCEPT !.pc = "attempt", !.attempt = q.attempt + 1, !.updates = q.updates + 1]
  BY DEF Frame, Requests, NextAttempt
<1>3. p \in Requests
  <2>1. q.attempt + 1 \in 0..MaxAttempts /\ q.updates + 1 \in 0..MaxAttempts /\ "attempt" \in Labels
    BY <1>1, Numbers DEF Labels
  <2>2. q \in Requests
    BY DEF Frame
  <2> QED
    BY <1>2, <2>1, <2>2 DEF Requests
<1>4. /\ p.pc = "attempt" /\ p.attempt = q.attempt + 1 /\ p.updates = q.updates + 1
      /\ p.nodes = q.nodes /\ p.index = q.index /\ p.id = q.id
      /\ p.backoff = q.backoff /\ p.elapsed = q.elapsed
  BY <1>2 DEF Frame, Requests
<1> HIDE DEF p
<1>5. InList(p)
  BY <1>4 DEF Frame, InList
<1>6. InAttempt(p)
  BY <1>1, <1>4 DEF InAttempt, Running
<1>7. InBudget(p)
  BY <1>4 DEF Frame, InBudget
<1>8. Frame(p)
  BY <1>3, <1>4, <1>5, <1>6, <1>7 DEF Frame
<1> QED
  BY <1>8 DEF p

\* Fields that say nothing about the position in the loop: another ID, the response,
\* the end of a wait.
LEMMA RegeneratedFrame ==
  ASSUME NEW q, Frame(q), NEW r
  PROVE  Frame(Regenerated(r, q)) /\ Regenerated(r, q).pc = q.pc
<1> DEFINE p == [q EXCEPT !.id = @ + 1]
<1>1. p \in Requests
  <2>1. q \in Requests /\ q.id + 1 \in Nat
    BY DEF Frame, Requests
  <2> QED
    BY <2>1 DEF Requests
<1>2. /\ p.pc = q.pc /\ p.attempt = q.attempt /\ p.nodes = q.nodes /\ p.index = q.index
      /\ p.id = q.id + 1 /\ q.id \in Nat
      /\ p.updates = q.updates /\ p.backoff = q.backoff /\ p.elapsed = q.elapsed /\ p.wait = q.wait
  BY DEF Frame, Requests
<1> HIDE DEF p
<1>3. Frame(p)
  BY <1>1, <1>2 DEF Frame, InList, InAttempt, InBudget
<1> QED
  BY <1>2, <1>3 DEF p, Regenerated

\* The response of a call that has left the loop.
LEMMA RespondedFrame ==
  ASSUME NEW q, Frame(q)
  PROVE  Frame([q EXCEPT !.response = q.id])
<1> DEFINE p == [q EXCEPT !.response = q.id]
<1>1. p \in Requests
  BY DEF Frame, Requests
<1>2. /\ p.pc = q.pc /\ p.attempt = q.attempt /\ p.nodes = q.nodes /\ p.index = q.index
      /\ p.id = q.id
      /\ p.updates = q.updates /\ p.backoff = q.backoff /\ p.elapsed = q.elapsed /\ p.wait = q.wait
  BY DEF Frame, Requests
<1> HIDE DEF p
<1>3. Frame(p)
  BY <1>1, <1>2 DEF Frame, InList, InAttempt, InBudget
<1> QED
  BY <1>3 DEF p

\* An answer ends the wait for it.
LEMMA AnsweredFrame ==
  ASSUME NEW q, Frame(q), q.pc = "call"
  PROVE  Frame([q EXCEPT !.wait = 0]) /\ [q EXCEPT !.wait = 0].pc = "call"
<1> DEFINE p == [q EXCEPT !.wait = 0]
<1>1. p \in Requests
  BY DEF Frame, Requests
<1>2. /\ p.pc = q.pc /\ p.attempt = q.attempt /\ p.nodes = q.nodes /\ p.index = q.index
      /\ p.id = q.id /\ p.wait = 0 /\ q.elapsed \in Nat /\ q.wait \in Nat
      /\ p.updates = q.updates /\ p.backoff = q.backoff /\ p.elapsed = q.elapsed
  BY DEF Frame, Requests
<1> HIDE DEF p
<1>3. Frame(p)
  BY <1>1, <1>2, Numbers DEF Frame, InList, InAttempt, InBudget
<1> QED
  BY <1>2, <1>3 DEF p

\* An attempt that may begin: the backoff is doubled, and the node is asked or waited for.
LEMMA AttemptFrame ==
  ASSUME NEW r \in Request, Frame(req[r]), req[r].pc = "attempt", InTime(r)
  PROVE  LET q == [req[r] EXCEPT !.backoff = Doubled(req[r])] IN
         /\ Frame(q) /\ q.pc = "attempt" /\ q.attempt < MaxAttempts
         /\ q.elapsed < RequestTimeout + GrpcDeadline
         /\ Frame([q EXCEPT !.pc = "channel"])
<1> DEFINE o == req[r]
           q == [o EXCEPT !.backoff = Doubled(o)]
           p == [q EXCEPT !.pc = "channel"]
<1>1. /\ o \in Requests /\ o.backoff \in Nat /\ o.attempt \in Nat /\ o.elapsed \in Nat
      /\ o.attempt < MaxAttempts /\ o.elapsed < RequestTimeout /\ o.backoff <= 2 * MaxBackoff
  BY DEF Frame, Requests, InTime, InBudget
<1>2. Doubled(o) \in Nat /\ Doubled(o) <= 2 * MaxBackoff
  BY <1>1, Numbers DEF Doubled
<1> HIDE DEF o
<1>3. q \in Requests
  BY <1>1, <1>2 DEF Requests
<1>4. /\ q.pc = o.pc /\ q.attempt = o.attempt /\ q.nodes = o.nodes /\ q.index = o.index
      /\ q.id = o.id /\ q.wait = o.wait
      /\ q.updates = o.updates /\ q.backoff = Doubled(o) /\ q.elapsed = o.elapsed
  BY <1>1 DEF Requests
<1> HIDE DEF q
<1>5. p \in Requests
  <2>1. "channel" \in Labels
    BY DEF Labels
  <2> QED
    BY <1>3, <2>1 DEF Requests
<1>6. /\ p.pc = "channel" /\ p.attempt = o.attempt /\ p.nodes = o.nodes /\ p.index = o.index
      /\ p.id = o.id /\ p.updates = o.updates /\ p.backoff = Doubled(o) /\ p.elapsed = o.elapsed
  BY <1>3, <1>4 DEF Requests
<1> HIDE DEF p
<1>7. o.pc = "attempt" /\ Frame(o)
  BY DEF o
<1>8. Frame(q)
  BY <1>2, <1>3, <1>4, <1>7 DEF Frame, InList, InAttempt, InBudget
<1>9. Frame(p)
  BY <1>1, <1>2, <1>5, <1>6, <1>7 DEF Frame, InList, InAttempt, InBudget, Running
<1>10. q.pc = "attempt" /\ q.attempt < MaxAttempts /\ q.elapsed < RequestTimeout + GrpcDeadline
  BY <1>1, <1>4, <1>7, Numbers
<1> QED
  BY <1>8, <1>9, <1>10 DEF o, q, p
-----------------------------------------------------------------------------
(* Steps *)

\* A list that FreezeWith or Query.execute settles on is a list of nodes.
LEMMA ListsForType ==
  ASSUME NEW r, NEW S \in SUBSET Node, NEW l \in ListsFor(r, S)
  PROVE  l \in Seq(Node)
<1>1. PICK T \in SUBSET S : l \in SetToSeqs(T)
  BY DEF ListsFor, kSubset
<1>2. IsFiniteSet(T) /\ Cardinality(T) \in Nat
  BY NodeAssumption, FS_Subset, FS_CardinalityType
<1>3. l \in [1..Cardinality(T) -> T]
  BY <1>1 DEF SetToSeqs
<1> QED
  BY <1>2, <1>3

\* The steps of a request outside the loop.
LEMMA RestFrames ==
  ASSUME Frames, network \subseteq Node, healthyNodes \subseteq Node, NEW r \in Request,
         ChooseNodes(r) \/ Call(r) \/ CallWithoutNodes(r) \/ UpdateAddressBook(r)
  PROVE  Frames'
<1> DEFINE q == req[r]
<1>0. req \in [Request -> Requests] /\ Frame(q) /\ q \in Requests
  BY DEF Frames
<1>1. SUFFICES \E p : Frame(p) /\ req' = [req EXCEPT ![r] = p]
  BY <1>0 DEF Frames, Frame
<1>2. CASE ChooseNodes(r)
  <2>1. PICK S \in Readmissions : \E l \in ListsFor(r, S) : req' = [req EXCEPT ![r].nodes = l]
    BY <1>2 DEF ChooseNodes
  <2>2. PICK l \in ListsFor(r, S) : req' = [req EXCEPT ![r].nodes = l]
    BY <2>1
  <2>3. l \in Seq(Node)
    <3>1. S \in SUBSET Node
      BY DEF Readmissions
    <3> QED
      BY <3>1, ListsForType
  <2> DEFINE p == [q EXCEPT !.nodes = l]
  <2>4. p \in Requests
    BY <1>0, <2>3 DEF Requests
  <2>5. /\ p.pc = q.pc /\ p.attempt = q.attempt /\ p.nodes = l /\ p.index = q.index
        /\ p.id = q.id /\ p.wait = q.wait
        /\ p.updates = q.updates /\ p.backoff = q.backoff /\ p.elapsed = q.elapsed
    BY <1>0 DEF Requests
  <2>6. q.pc = "idle" /\ q.index = 0
    BY <1>0, <1>2 DEF ChooseNodes, Frame, InList, Idle
  <2>7. req' = [req EXCEPT ![r] = p]
    BY <1>0, <2>2
  <2> HIDE DEF p, q
  <2>8. l # << >> => 0 < Len(l)
    BY <2>3
  <2>9. Frame(p)
    BY <1>0, <2>4, <2>5, <2>6, <2>8 DEF Frame, InList, InAttempt, InBudget
  <2> QED
    BY <2>7, <2>9
<1>3. CASE Call(r)
  <2> DEFINE p == [q EXCEPT !.pc = "attempt", !.calls = @ + 1, !.result = None,
                            !.elapsed = 0, !.contacted = {}, !.failed = None]
  <2>1. req' = [req EXCEPT ![r] = p]
    BY <1>0, <1>3 DEF Call
  <2>2. /\ q.calls + 1 \in 0..MaxCalls /\ "attempt" \in Labels /\ None \in Results /\ 0 \in Nat
        /\ {} \in SUBSET Node /\ None \in Node \cup {None}
    <3>1. q.calls \in 0..MaxCalls /\ q.calls < MaxCalls
      BY <1>0, <1>3 DEF Call, Requests
    <3>2. q.calls + 1 \in 0..MaxCalls
      BY <3>1, Numbers
    <3> QED
      BY <3>2 DEF Labels, Results
  <2>3. p \in Requests
    BY <1>0, <2>2 DEF Requests
  <2>4. /\ p.pc = "attempt" /\ p.attempt = q.attempt /\ p.nodes = q.nodes /\ p.index = q.index
        /\ p.id = q.id
        /\ p.updates = q.updates /\ p.backoff = q.backoff /\ p.elapsed = 0
    BY <1>0 DEF Requests
  <2>5. q.pc = "idle" /\ q.nodes # << >>
    BY <1>3 DEF Call, Idle
  <2> HIDE DEF p, q
  <2>6. Frame(p)
    BY <1>0, <2>3, <2>4, <2>5, Numbers DEF Frame, InList, InAttempt, InBudget, Running
  <2> QED
    BY <2>1, <2>6
<1>4. CASE CallWithoutNodes(r)
  <2> DEFINE p == [q EXCEPT !.calls = @ + 1, !.result = "panic"]
  <2>1. req' = [req EXCEPT ![r] = p]
    BY <1>0, <1>4 DEF CallWithoutNodes
  <2>2. q.calls + 1 \in 0..MaxCalls /\ "panic" \in Results
    <3>1. q.calls \in 0..MaxCalls /\ q.calls < MaxCalls
      BY <1>0, <1>4 DEF CallWithoutNodes, Requests
    <3>2. q.calls + 1 \in 0..MaxCalls
      BY <3>1, Numbers
    <3> QED
      BY <3>2 DEF Results
  <2>3. p \in Requests
    BY <1>0, <2>2 DEF Requests
  <2>4. /\ p.pc = q.pc /\ p.attempt = q.attempt /\ p.nodes = q.nodes /\ p.index = q.index
        /\ p.id = q.id /\ p.wait = q.wait
        /\ p.updates = q.updates /\ p.backoff = q.backoff /\ p.elapsed = q.elapsed
    BY <1>0 DEF Requests
  <2> HIDE DEF p, q
  <2>5. Frame(p)
    BY <1>0, <2>3, <2>4 DEF Frame, InList, InAttempt, InBudget
  <2> QED
    BY <2>1, <2>5
<1>5. CASE UpdateAddressBook(r)
  <2> DEFINE p == [q EXCEPT !.updates = @ - 1, !.pc = IF q.updates = 1 THEN "idle" ELSE "update"]
  <2>1. req' = [req EXCEPT ![r] = p]
    BY <1>0, <1>5 DEF UpdateAddressBook
  <2>2. q.pc = "update" /\ q.updates \in 0..MaxAttempts /\ q.updates > 0
    BY <1>0, <1>5 DEF UpdateAddressBook, Frame, InAttempt, Requests
  <2>3. q.updates - 1 \in 0..MaxAttempts /\ (IF q.updates = 1 THEN "idle" ELSE "update") \in Labels
    BY <2>2, Numbers DEF Labels
  <2>4. p \in Requests
    BY <1>0, <2>3 DEF Requests
  <2>5. /\ p.pc = (IF q.updates = 1 THEN "idle" ELSE "update") /\ p.attempt = q.attempt
        /\ p.nodes = q.nodes /\ p.index = q.index /\ p.id = q.id
        /\ p.updates = q.updates - 1 /\ p.backoff = q.backoff /\ p.elapsed = q.elapsed
    BY <1>0 DEF Requests
  <2> HIDE DEF p, q
  <2>6. Frame(p)
    BY <1>0, <2>2, <2>4, <2>5, Numbers DEF Frame, InList, InAttempt, InBudget, Running
  <2> QED
    BY <2>1, <2>6
<1> QED
  BY <1>2, <1>3, <1>4, <1>5

\* The steps of a request in the loop.
LEMMA LoopFrames ==
  ASSUME Frames, NEW r \in Request,
         \/ GiveUp(r) \/ Attempt(r) \/ OpenChannel(r) \/ DeadlineExceeded(r) \/ Wake(r)
         \/ Answer(r)
  PROVE  Frames'
<1> DEFINE q == req[r]
           n == CurrentNode(r)
<1>0. req \in [Request -> Requests] /\ Frame(q) /\ q \in Requests
  BY DEF Frames
<1>1. SUFFICES \E p : Frame(p) /\ req' = [req EXCEPT ![r] = p]
  BY <1>0 DEF Frames, Frame
<1>2. /\ q.pc \in Running
      /\ q.nodes # << >>
  BY <1>0 DEF Frame, InList, Running, GiveUp, Attempt, OpenChannel, DeadlineExceeded, Wake, Answer,
              ChannelError, RetryableError, FatalError, Busy, Expired, Rejected, Accepted,
              InvalidNodeAccount
<1>3. n \in Node
  BY <1>0, <1>2, AtNode
<1>4. {"error", "timeout", "exhausted", "unknown node", "ok"} \subseteq Results
  BY DEF Results
<1>5. CASE GiveUp(r)
  BY <1>0, <1>2, <1>4, <1>5, ReturnedFrame DEF GiveUp
<1>6. CASE Attempt(r)
  <2> DEFINE o == [q EXCEPT !.backoff = Doubled(q)]
  <2>1. /\ q.pc = "attempt" /\ InTime(r)
        /\ req' = [req EXCEPT ![r] = IF n \notin network THEN Returned(o, "unknown node")
                                     ELSE IF Healthy(n) THEN [o EXCEPT !.pc = "channel"]
                                     ELSE Delayed(o)]
    BY <1>6 DEF Attempt
  <2>2. /\ Frame(o) /\ o.pc = "attempt" /\ o.attempt < MaxAttempts
        /\ o.elapsed < RequestTimeout + GrpcDeadline
        /\ Frame([o EXCEPT !.pc = "channel"])
    BY <1>0, <2>1, AttemptFrame
  <2> HIDE DEF o, q
  <2>3. Frame(Returned(o, "unknown node")) /\ Frame(Delayed(o))
    BY <1>4, <2>2, ReturnedFrame, DelayedFrame DEF Running
  <2> QED
    BY <2>1, <2>2, <2>3
<1>7. CASE OpenChannel(r)
  <2> DEFINE p == [q EXCEPT !.pc = "call", !.wait = GrpcDeadline, !.contacted = @ \cup {n}]
  <2>1. req' = [req EXCEPT ![r] = p] /\ q.pc = "channel"
    BY <1>0, <1>7 DEF OpenChannel
  <2>2. "call" \in Labels /\ GrpcDeadline \in Nat /\ q.contacted \cup {n} \in SUBSET Node
    BY <1>0, <1>3, Numbers DEF Labels, Requests
  <2> HIDE DEF n
  <2>3. p \in Requests
    BY <1>0, <2>2 DEF Requests
  <2>4. /\ p.pc = "call" /\ p.attempt = q.attempt /\ p.nodes = q.nodes /\ p.index = q.index
        /\ p.id = q.id /\ p.wait = GrpcDeadline /\ q.elapsed \in Nat
        /\ p.updates = q.updates /\ p.backoff = q.backoff /\ p.elapsed = q.elapsed
    BY <1>0 DEF Requests
  <2> HIDE DEF p, q
  <2>5. Frame(p)
    BY <1>0, <2>1, <2>3, <2>4, Numbers DEF Frame, InList, InAttempt, InBudget, Running
  <2> QED
    BY <2>1, <2>5
<1>8. CASE ChannelError(r) \/ RetryableError(r)
  <2>1. q.pc \in {"channel", "call"} /\ req' = [req EXCEPT ![r] = NextAttempt(FailedCall(q, n))]
    BY <1>8 DEF ChannelError, RetryableError
  <2> HIDE DEF q, n
  <2>2. Frame(NextAttempt(FailedCall(q, n)))
    BY <1>0, <1>3, <2>1, FailedCallFrame, NextAttemptFrame DEF Running
  <2> QED
    BY <2>1, <2>2
<1>9. CASE FatalError(r)
  <2>1. q.pc = "call" /\ req' = [req EXCEPT ![r] = Returned(FailedCall(q, n), "error")]
    BY <1>9 DEF FatalError
  <2> HIDE DEF q, n
  <2>2. Frame(Returned(FailedCall(q, n), "error"))
    BY <1>0, <1>3, <1>4, <2>1, FailedCallFrame, ReturnedFrame DEF Running
  <2> QED
    BY <2>1, <2>2
<1>10. CASE Busy(r)
  <2>1. q.pc = "call" /\ req' = [req EXCEPT ![r] = Delayed(q)]
    BY <1>10 DEF Busy
  <2>2. q.attempt < MaxAttempts /\ q.elapsed < RequestTimeout + GrpcDeadline
    <3>1. q.elapsed + q.wait < RequestTimeout + GrpcDeadline /\ q.elapsed \in Nat /\ q.wait \in Nat
      BY <1>0, <2>1 DEF Frame, InBudget, Requests
    <3>2. q.attempt < MaxAttempts
      BY <1>0, <2>1 DEF Frame, InAttempt, Running
    <3> QED
      BY <3>1, <3>2, Numbers
  <2> QED
    BY <1>0, <2>1, <2>2, DelayedFrame
<1>11. CASE Expired(r)
  <2> DEFINE o == [q EXCEPT !.wait = 0]
  <2>1. /\ q.pc = "call"
        /\ req' = [req EXCEPT ![r] = IF CanRegenerateID(r) THEN NextAttempt(Regenerated(r, o))
                                     ELSE Returned(o, "error")]
    BY <1>11 DEF Expired
  <2>2. Frame(o) /\ o.pc = "call"
    BY <1>0, <2>1, AnsweredFrame
  <2> HIDE DEF o, q
  <2>3. Frame(NextAttempt(Regenerated(r, o))) /\ Frame(Returned(o, "error"))
    BY <1>4, <2>2, RegeneratedFrame, NextAttemptFrame, ReturnedFrame DEF Running
  <2> QED
    BY <2>1, <2>3
<1>12. CASE Rejected(r)
  BY <1>0, <1>2, <1>4, <1>12, ReturnedFrame DEF Rejected
<1>13. CASE Accepted(r)
  <2>1. req' = [req EXCEPT ![r] = Finished(r, Returned(q, "ok"))]
    BY <1>13 DEF Accepted
  <2> HIDE DEF q
  <2>2. Frame(Finished(r, Returned(q, "ok")))
    <3> DEFINE o == Returned(q, "ok")
    <3>1. Frame(o)
      BY <1>0, <1>2, <1>4, ReturnedFrame
    <3> HIDE DEF o
    <3>2. Frame(Finished(r, o))
      BY <3>1, RespondedFrame, RegeneratedFrame DEF Finished
    <3> QED
      BY <3>2 DEF o
  <2> QED
    BY <2>1, <2>2
<1>14. CASE InvalidNodeAccount(r)
  <2>1. /\ q.pc = "call"
        /\ req' = [req EXCEPT ![r] = NextAttempt([FailedCall(q, n) EXCEPT !.updates = @ + 1])]
    BY <1>14 DEF InvalidNodeAccount
  <2> HIDE DEF q, n
  <2>2. Frame(FailedCall(q, n)) /\ FailedCall(q, n).pc = "call"
    BY <1>0, <1>3, <2>1, FailedCallFrame
  <2> QED
    BY <2>1, <2>2, DeferredFrame
<1>15. CASE Wake(r)
  BY <1>0, <1>15, NextAttemptFrame DEF Wake, Running
<1> QED
  BY <1>5, <1>6, <1>7, <1>8, <1>9, <1>10, <1>11, <1>12, <1>13, <1>14, <1>15
  DEF Answer, DeadlineExceeded

\* Time moves on within what is waited for.
LEMMA TickFrames == ASSUME Frames, Tick PROVE Frames'
<1>1. req' = [r \in Request |->
        IF Waiting(r) THEN [req[r] EXCEPT !.wait = @ - 1, !.elapsed = @ + 1] ELSE req[r]]
  BY DEF Tick
<1>2. ASSUME NEW r \in Request
      PROVE  Frame(req'[r])
  <2> DEFINE q == req[r]
             p == [q EXCEPT !.wait = @ - 1, !.elapsed = @ + 1]
  <2>1. Frame(q) /\ q \in Requests
    BY DEF Frames, Frame
  <2>2. CASE ~Waiting(r)
    BY <1>1, <2>1, <2>2
  <2>3. CASE Waiting(r)
    <3>1. q.pc \in {"sleep", "call"} /\ q.wait > 0
      BY <2>3 DEF Tick, Waiting, Idle
    <3>2. q.wait \in Nat /\ q.elapsed \in Nat
      BY <2>1 DEF Requests
    <3>3. req'[r] = p
      BY <1>1, <2>3
    <3> HIDE DEF q
    <3>4. q.wait - 1 \in Nat /\ q.elapsed + 1 \in Nat
      BY <3>1, <3>2
    <3>5. p \in Requests
      BY <2>1, <3>4 DEF Requests
    <3>6. /\ p.pc = q.pc /\ p.attempt = q.attempt /\ p.nodes = q.nodes /\ p.index = q.index
          /\ p.id = q.id /\ p.wait = q.wait - 1 /\ p.elapsed = q.elapsed + 1
          /\ p.updates = q.updates /\ p.backoff = q.backoff
      BY <2>1 DEF Requests
    <3> HIDE DEF p
    <3>7. InBudget(p)
      BY <2>1, <3>1, <3>2, <3>6, Numbers DEF Frame, InBudget, Limit
    <3>8. Frame(p)
      BY <2>1, <3>5, <3>6, <3>7 DEF Frame, InList, InAttempt
    <3> QED
      BY <3>3, <3>8
  <2> QED
    BY <2>2, <2>3
<1> QED
  BY <1>1, <1>2 DEF Frames, Frame
-----------------------------------------------------------------------------
(* What a step does to the outcome of a request and to the ledger *)

SameOutcome(q, p) == p.result = q.result /\ p.id = q.id /\ p.response = q.response
Others(r) == \A t \in Request \ {r} : req'[t] = req[t]

\* The call of a transaction that runs may arrive later, or nothing is sent.
MaySend(r) ==
  \/ UNCHANGED inFlight
  \/ inFlight' = inFlight \cup ({CurrentID(r)} \cap (Transactions \X Nat))

Continues(r) ==
  /\ (req[r].pc \in Running /\ req'[r].pc \in Running) \/ (req[r].pc \notin Running /\ req'[r].pc \notin Running)
  /\ req[r].pc \notin Running => UNCHANGED inFlight
  /\ SameOutcome(req[r], req'[r]) /\ Others(r) /\ MaySend(r) /\ UNCHANGED <<executed, expired>>

Begins(r) ==
  /\ req[r].pc \notin Running /\ req'[r].pc \in Running
  /\ req'[r].result = None /\ req'[r].id = req[r].id /\ req'[r].response = req[r].response
  /\ Others(r) /\ UNCHANGED ledger

Fails(r) ==
  /\ req'[r].pc \notin Running /\ req'[r].result \notin {None, "ok"}
  /\ req'[r].id = req[r].id /\ req'[r].response = req[r].response
  /\ Others(r) /\ MaySend(r) /\ UNCHANGED <<executed, expired>>

Expires(r) ==
  /\ r \in Transactions /\ req[r].pc \in Running
  /\ expired' = expired \cup {CurrentID(r)}
  /\ \/ /\ r \in Regenerating /\ req'[r].pc \in Running /\ req'[r].result = req[r].result
        /\ req'[r].id = req[r].id + 1
     \/ /\ r \notin Regenerating /\ req'[r].pc \notin Running /\ req'[r].result = "error"
        /\ req'[r].id = req[r].id
  /\ req'[r].response = req[r].response
  /\ Others(r) /\ UNCHANGED <<executed, inFlight>>

Succeeds(r) ==
  /\ req[r].pc \in Running
  /\ r \in Transactions => CurrentID(r) \notin executed \cup expired
  /\ executed' = executed \cup ({CurrentID(r)} \cap (Transactions \X Nat))
  /\ req'[r].pc \notin Running /\ req'[r].result = "ok"
  /\ req'[r].response = req[r].id
  /\ req'[r].id = IF r \in Regenerating THEN req[r].id + 1 ELSE req[r].id
  /\ Others(r) /\ UNCHANGED <<expired, inFlight>>

\* Steps outside the loop.
LEMMA RestEffects ==
  ASSUME Frames, NEW r \in Request,
         ChooseNodes(r) \/ Call(r) \/ CallWithoutNodes(r) \/ UpdateAddressBook(r)
  PROVE  Continues(r) \/ Begins(r) \/ Fails(r)
<1>0. req \in [Request -> Requests] /\ req[r] \in Requests
  BY DEF Frames
<1>1. CASE ChooseNodes(r)
  <2>1. PICK l : req' = [req EXCEPT ![r].nodes = l]
    BY <1>1 DEF ChooseNodes
  <2>2. /\ SameOutcome(req[r], req'[r]) /\ req'[r].pc = req[r].pc /\ Others(r)
    BY <1>0, <2>1 DEF Requests, SameOutcome, Others
  <2> QED
    BY <1>1, <2>2 DEF ChooseNodes, ledger, Continues, MaySend
<1>2. CASE Call(r)
  <2>1. /\ req'[r].pc = "attempt" /\ req'[r].result = None /\ req'[r].id = req[r].id
        /\ req'[r].response = req[r].response /\ Others(r)
    BY <1>0, <1>2 DEF Call, Requests, Others
  <2> QED
    BY <1>2, <2>1 DEF Call, Idle, Begins, Running
<1>3. CASE CallWithoutNodes(r)
  <2>1. /\ req'[r].pc = req[r].pc /\ req'[r].result = "panic" /\ req'[r].id = req[r].id
        /\ req'[r].response = req[r].response /\ Others(r)
    BY <1>0, <1>3 DEF CallWithoutNodes, Requests, Others
  <2> QED
    BY <1>3, <2>1 DEF CallWithoutNodes, Idle, Fails, Running, MaySend, ledger, None
<1>4. CASE UpdateAddressBook(r)
  <2>1. /\ req'[r].pc \in {"idle", "update"} /\ SameOutcome(req[r], req'[r]) /\ Others(r)
    BY <1>0, <1>4 DEF UpdateAddressBook, Requests, SameOutcome, Others
  <2> QED
    BY <1>4, <2>1 DEF UpdateAddressBook, Continues, Running, MaySend, ledger
<1> QED
  BY <1>1, <1>2, <1>3, <1>4

\* Steps in the loop.
LEMMA LoopEffects ==
  ASSUME Frames, NEW r \in Request,
         \/ GiveUp(r) \/ Attempt(r) \/ OpenChannel(r) \/ DeadlineExceeded(r) \/ Wake(r)
         \/ Answer(r)
  PROVE  Continues(r) \/ Fails(r) \/ Expires(r) \/ Succeeds(r)
<1> DEFINE q == req[r]
           n == CurrentNode(r)
<1>0. req \in [Request -> Requests] /\ q \in Requests
  BY DEF Frames
<1>1. q.pc \in Running
  BY DEF Running, GiveUp, Attempt, OpenChannel, DeadlineExceeded, Wake, Answer,
         ChannelError, RetryableError, FatalError, Busy, Expired, Rejected, Accepted,
         InvalidNodeAccount
<1>2. ASSUME NEW p, req' = [req EXCEPT ![r] = p]
      PROVE  req'[r] = p /\ Others(r)
  BY <1>0, <1>2 DEF Others
<1>3. ASSUME NEW p, req' = [req EXCEPT ![r] = p], p.pc \in Running, SameOutcome(q, p),
             MaySend(r), UNCHANGED <<executed, expired>>
      PROVE  Continues(r)
  BY <1>1, <1>2, <1>3 DEF Continues
<1>4. ASSUME NEW p, req' = [req EXCEPT ![r] = p], p.pc \notin Running,
             p.result \notin {None, "ok"}, p.id = q.id, p.response = q.response,
             MaySend(r), UNCHANGED <<executed, expired>>
      PROVE  Fails(r)
  BY <1>2, <1>4 DEF Fails
<1>5. CASE GiveUp(r)
  <2> DEFINE p == Returned(q, IF q.attempt < MaxAttempts THEN "timeout" ELSE "exhausted")
  <2>1. /\ p.pc \notin Running /\ p.result \notin {None, "ok"} /\ p.id = q.id
        /\ p.response = q.response
    BY <1>0 DEF Returned, Requests, Running, None
  <2>2. req' = [req EXCEPT ![r] = p] /\ UNCHANGED ledger
    BY <1>5 DEF GiveUp
  <2> HIDE DEF p, q
  <2> QED
    BY <1>4, <2>1, <2>2 DEF MaySend, ledger
<1>6. CASE Attempt(r)
  <2> DEFINE o == [q EXCEPT !.backoff = Doubled(q)]
             p == IF n \notin network THEN Returned(o, "unknown node")
                  ELSE IF Healthy(n) THEN [o EXCEPT !.pc = "channel"] ELSE Delayed(o)
  <2>1. req' = [req EXCEPT ![r] = p] /\ UNCHANGED ledger
    BY <1>6 DEF Attempt
  <2>2. CASE n \notin network
    <3>1. /\ p.pc \notin Running /\ p.result \notin {None, "ok"} /\ p.id = q.id
          /\ p.response = q.response
      BY <1>0, <2>2 DEF Returned, Requests, Running, None
    <3> HIDE DEF p, q
    <3> QED
      BY <1>4, <2>1, <3>1 DEF MaySend, ledger
  <2>3. CASE n \in network
    <3>1. p.pc \in Running /\ SameOutcome(q, p)
      BY <1>0, <2>3 DEF Delayed, Requests, Running, SameOutcome
    <3> HIDE DEF p, q
    <3> QED
      BY <1>3, <2>1, <3>1 DEF MaySend, ledger
  <2> QED
    BY <2>2, <2>3
<1>7. CASE OpenChannel(r)
  <2>1. req'[r].pc = "call" /\ SameOutcome(q, req'[r]) /\ Others(r)
    BY <1>0, <1>7 DEF OpenChannel, Requests, SameOutcome, Others
  <2> QED
    BY <1>1, <1>7, <2>1 DEF OpenChannel, Continues, Running, MaySend, ledger
<1>8. CASE ChannelError(r) \/ RetryableError(r)
  <2> DEFINE p == NextAttempt(FailedCall(q, n))
  <2>1. p.pc \in Running /\ SameOutcome(q, p)
    BY <1>0 DEF NextAttempt, FailedCall, Advanced, Requests, Running, SameOutcome
  <2>2. req' = [req EXCEPT ![r] = p] /\ MaySend(r) /\ UNCHANGED <<executed, expired>>
    BY <1>8 DEF ChannelError, RetryableError, MaySend, MayArrive, ledger
  <2> HIDE DEF p, q
  <2> QED
    BY <1>3, <2>1, <2>2
<1>9. CASE FatalError(r)
  <2> DEFINE p == Returned(FailedCall(q, n), "error")
  <2>1. /\ p.pc \notin Running /\ p.result \notin {None, "ok"} /\ p.id = q.id
        /\ p.response = q.response
    BY <1>0 DEF Returned, FailedCall, Advanced, Requests, Running, None
  <2>2. req' = [req EXCEPT ![r] = p] /\ MaySend(r) /\ UNCHANGED <<executed, expired>>
    BY <1>9 DEF FatalError, MaySend, MayArrive
  <2> HIDE DEF p, q
  <2> QED
    BY <1>4, <2>1, <2>2
<1>10. CASE Busy(r)
  <2>1. Delayed(q).pc \in Running /\ SameOutcome(q, Delayed(q))
    BY <1>0 DEF Delayed, Requests, Running, SameOutcome
  <2> QED
    BY <1>3, <1>10, <2>1 DEF Busy, MaySend, ledger
<1>11. CASE Expired(r)
  <2> DEFINE o == [q EXCEPT !.wait = 0]
             p == IF CanRegenerateID(r) THEN NextAttempt(Regenerated(r, o)) ELSE Returned(o, "error")
  <2>1. /\ r \in Transactions /\ expired' = expired \cup {CurrentID(r)}
        /\ req' = [req EXCEPT ![r] = p] /\ UNCHANGED <<executed, inFlight>>
    BY <1>11 DEF Expired
  <2>2. CASE r \in Regenerating
    <3>1. p.pc \in Running /\ p.result = q.result /\ p.id = q.id + 1 /\ p.response = q.response
      BY <1>0, <2>2 DEF NextAttempt, Regenerated, CanRegenerateID, Requests, Running
    <3> HIDE DEF p
    <3> QED
      BY <1>1, <1>2, <2>1, <2>2, <3>1 DEF Expires
  <2>3. CASE r \notin Regenerating
    <3>1. p.pc \notin Running /\ p.result = "error" /\ p.id = q.id /\ p.response = q.response
      BY <1>0, <2>3 DEF Returned, CanRegenerateID, Requests, Running
    <3> HIDE DEF p
    <3> QED
      BY <1>1, <1>2, <2>1, <2>3, <3>1 DEF Expires
  <2> QED
    BY <2>2, <2>3
<1>12. CASE Rejected(r)
  <2> DEFINE p == Returned(q, "error")
  <2>1. /\ p.pc \notin Running /\ p.result \notin {None, "ok"} /\ p.id = q.id
        /\ p.response = q.response
    BY <1>0 DEF Returned, Requests, Running, None
  <2>2. req' = [req EXCEPT ![r] = p] /\ UNCHANGED ledger
    BY <1>12 DEF Rejected
  <2> HIDE DEF p, q
  <2> QED
    BY <1>4, <2>1, <2>2 DEF MaySend, ledger
<1>13. CASE Accepted(r)
  <2> DEFINE p == Finished(r, Returned(q, "ok"))
  <2>1. /\ p.pc \notin Running /\ p.result = "ok" /\ p.response = q.id
        /\ p.id = IF r \in Regenerating THEN q.id + 1 ELSE q.id
    BY <1>0 DEF Finished, Returned, Regenerated, CanRegenerateID, Requests, Running
  <2>2. req' = [req EXCEPT ![r] = p]
    BY <1>13 DEF Accepted
  <2> HIDE DEF p
  <2> QED
    BY <1>1, <1>2, <1>13, <2>1, <2>2 DEF Accepted, Succeeds
<1>14. CASE InvalidNodeAccount(r)
  <2> DEFINE p == NextAttempt([FailedCall(q, n) EXCEPT !.updates = @ + 1])
  <2>1. p.pc \in Running /\ SameOutcome(q, p)
    BY <1>0 DEF NextAttempt, FailedCall, Advanced, Requests, Running, SameOutcome
  <2>2. req' = [req EXCEPT ![r] = p] /\ UNCHANGED ledger
    BY <1>14 DEF InvalidNodeAccount
  <2> HIDE DEF p, q
  <2> QED
    BY <1>3, <2>1, <2>2 DEF MaySend, ledger
<1>15. CASE Wake(r)
  <2>1. NextAttempt(q).pc \in Running /\ SameOutcome(q, NextAttempt(q))
    BY <1>0 DEF NextAttempt, Requests, Running, SameOutcome
  <2> QED
    BY <1>3, <1>15, <2>1 DEF Wake, MaySend, ledger
<1> QED
  BY <1>5, <1>6, <1>7, <1>8, <1>9, <1>10, <1>11, <1>12, <1>13, <1>14, <1>15
  DEF Answer, DeadlineExceeded
-----------------------------------------------------------------------------
(* The invariant *)

Nodes ==
  /\ network \in SUBSET Node /\ healthyNodes \in SUBSET network
  /\ backoff \in [Node -> 0..NodeBackoff]

\* What is executed or on its way was sent by a request under an ID it has had; a
\* request whose IDs are not regenerated has only one.
Ledger ==
  /\ executed \subseteq Transactions \X Nat /\ expired \subseteq Transactions \X Nat
  /\ inFlight \subseteq Transactions \X Nat
  /\ \A m \in executed \cup inFlight : m[2] \in 1..req[m[1]].id
  /\ \A m \in inFlight : req[m[1]].pc \in Running \/ req[m[1]].result # None
  /\ \A r \in Request \ Regenerating : req[r].id = 1

\* The inductive invariant.
Inv == Frames /\ Nodes /\ Ledger /\ RegeneratedOnlyWhenSpent /\ ResponseWasExecuted

\* In the beginning nothing has been sent.
LEMMA InitInv == Init => Inv
<1> SUFFICES ASSUME Init PROVE Inv
  OBVIOUS
<1>1. ASSUME NEW r \in Request
      PROVE  /\ Frame(req[r]) /\ req[r].id = 1 /\ req[r].result = None
  <2>1. PICK l \in NodeLists : req[r] =
          [pc |-> "idle", calls |-> 0, result |-> None, nodes |-> l, index |-> 0, id |-> 1,
           response |-> 0, attempt |-> 0, backoff |-> MinBackoff, elapsed |-> 0, wait |-> 0,
           updates |-> 0, contacted |-> {}, failed |-> None]
    BY DEF Init
  <2>2. l \in Seq(Node) /\ (l # << >> => 0 < Len(l))
    BY ListAssumption
  <2>3. req[r] \in Requests
    <3>1. /\ 0 \in 0..MaxCalls /\ 0 \in 0..MaxAttempts /\ "idle" \in Labels /\ None \in Results
          /\ 0 \in Nat /\ 1 \in Nat /\ MinBackoff \in Nat
      BY Numbers DEF Labels, Results
    <3> QED
      BY <2>1, <2>2, <3>1 DEF Requests
  <2>4. InList(req[r]) /\ InAttempt(req[r])
    BY <2>1, <2>2 DEF InList, InAttempt, Running
  <2>5. InBudget(req[r])
    BY <2>1, Numbers DEF InBudget
  <2> QED
    BY <2>1, <2>3, <2>4, <2>5 DEF Frame
<1>2. Frames
  <2>1. req \in [Request -> Requests]
    <3>1. \A r \in Request : req[r] \in Requests
      BY <1>1 DEF Frame
    <3>2. req = [r \in Request |-> req[r]]
      BY DEF Init
    <3> QED
      BY <3>1, <3>2
  <2> QED
    BY <1>1, <2>1 DEF Frames
<1>3. Nodes
  BY Numbers DEF Init, Nodes
<1>4. Ledger
  BY <1>1 DEF Init, Ledger
<1>5. RegeneratedOnlyWhenSpent
  BY <1>1, RequestAssumption DEF RegeneratedOnlyWhenSpent
<1>6. ResponseWasExecuted
  BY <1>1, RequestAssumption DEF ResponseWasExecuted, None
<1> QED
  BY <1>2, <1>3, <1>4, <1>5, <1>6 DEF Inv

\* The node a request works with when it runs.
LEMMA RunsAtNode ==
  ASSUME Frames, NEW r \in Request, req[r].pc \in Running
  PROVE  CurrentNode(r) \in Node
BY AtNode DEF Frames, Frame, InList, Running

\* The nodes of the network keep their types.
LEMMA NextNodes == ASSUME Frames, Nodes, [Next]_vars PROVE Nodes'
<1>1. ASSUME NEW r \in Request, ChooseNodes(r) PROVE Nodes'
  BY <1>1 DEF ChooseNodes, Readmissions, Nodes
<1>2. ASSUME NEW n \in Node, IncreaseBackoff(n) PROVE Nodes'
  <2>1. PICK b \in 1..NodeBackoff : backoff' = [backoff EXCEPT ![n] = b]
    BY <1>2 DEF IncreaseBackoff
  <2>2. b \in 0..NodeBackoff
    BY Numbers
  <2>3. backoff' \in [Node -> 0..NodeBackoff]
    BY <2>1, <2>2 DEF Nodes
  <2> QED
    BY <1>2, <2>3 DEF IncreaseBackoff, Nodes
<1>3. ASSUME NEW r \in Request, ChannelError(r) \/ RetryableError(r) \/ InvalidNodeAccount(r)
      PROVE  Nodes'
  <2>1. CurrentNode(r) \in Node
    BY <1>3, RunsAtNode DEF ChannelError, RetryableError, InvalidNodeAccount, Running
  <2>2. IncreaseBackoff(CurrentNode(r))
    BY <1>3 DEF ChannelError, RetryableError, InvalidNodeAccount
  <2> QED
    BY <1>2, <2>1, <2>2
<1>4. ASSUME NEW r \in Request, UpdateAddressBook(r) PROVE Nodes'
  <2>1. CASE UNCHANGED nodeState
    BY <2>1 DEF nodeState, Nodes
  <2>2. CASE ~UNCHANGED nodeState
    <3>1. /\ network' \in SUBSET Node \ {{}}
          /\ backoff' = [n \in Node |-> IF n \in network' \cap network THEN backoff[n] ELSE 0]
          /\ healthyNodes' = {n \in network' : backoff'[n] = 0}
      BY <1>4, <2>2 DEF UpdateAddressBook
    <3>2. 0 \in 0..NodeBackoff
      BY Numbers
    <3> QED
      BY <3>1, <3>2 DEF Nodes
  <2> QED
    BY <2>1, <2>2
<1>5. CASE Tick
  <2>1. ASSUME NEW n \in Node PROVE Max({0, backoff[n] - 1}) \in 0..NodeBackoff
    <3>1. backoff[n] \in 0..NodeBackoff
      BY DEF Nodes
    <3> DEFINE b == backoff[n] - 1
    <3>2. b \in Int /\ b <= NodeBackoff /\ 0 \in 0..NodeBackoff
      BY <3>1, Numbers
    <3> HIDE DEF b
    <3>3. \E x \in {0, b} : \A y \in {0, b} : x >= y
      BY <3>2
    <3>4. Max({0, b}) \in {0, b} /\ Max({0, b}) >= 0
      BY <3>2, <3>3 DEF Max
    <3>5. Max({0, b}) \in 0..NodeBackoff
      BY <3>2, <3>4, Numbers
    <3> QED
      BY <3>5 DEF b
  <2> QED
    BY <1>5, <2>1 DEF Tick, Nodes
<1>6. ASSUME UNCHANGED nodeState PROVE Nodes'
  BY <1>6 DEF nodeState, Nodes
<1>7. ASSUME NEW r \in Request,
             \/ Call(r) \/ CallWithoutNodes(r) \/ GiveUp(r) \/ Attempt(r) \/ OpenChannel(r) \/ Wake(r)
             \/ FatalError(r) \/ Busy(r) \/ Expired(r) \/ Rejected(r) \/ Accepted(r)
      PROVE  Nodes'
  BY <1>6, <1>7 DEF Call, CallWithoutNodes, GiveUp, Attempt, OpenChannel, Wake, FatalError, Busy,
                    Expired, Rejected, Accepted
<1>8. CASE Arrive \/ Finish \/ UNCHANGED vars
  BY <1>6, <1>8 DEF Arrive, Finish, vars, nodeState
<1> QED
  BY <1>1, <1>3, <1>4, <1>5, <1>7, <1>8 DEF Next, Step, Answer, DeadlineExceeded

\* A late call that is executed, and steps that change no outcome.
Arrives ==
  /\ \E m \in inFlight \ (executed \cup expired) : executed' = executed \cup {m}
  /\ UNCHANGED <<req, expired, inFlight>>

Quiet ==
  /\ \A r \in Request : SameOutcome(req[r], req'[r]) /\ req'[r].pc = req[r].pc
  /\ UNCHANGED ledger

\* Every step does one of these.
LEMMA Effects ==
  ASSUME Frames, [Next]_vars
  PROVE  \/ \E r \in Request : Continues(r) \/ Begins(r) \/ Fails(r) \/ Expires(r) \/ Succeeds(r)
         \/ Arrives \/ Quiet
<1>1. CASE Arrive
  BY <1>1 DEF Arrive, Arrives
<1>2. CASE Tick
  <2>1. ASSUME NEW r \in Request PROVE SameOutcome(req[r], req'[r]) /\ req'[r].pc = req[r].pc
    BY <1>2 DEF Tick, SameOutcome, Frames, Requests
  <2> QED
    BY <1>2, <2>1 DEF Tick, Quiet
<1>3. CASE Finish \/ UNCHANGED vars
  BY <1>3 DEF Finish, vars, Quiet, SameOutcome, ledger
<1> QED
  BY <1>1, <1>2, <1>3, RestEffects, LoopEffects DEF Next, Step

\* A step of r that sends at most its current call and never goes back to an
\* earlier ID, and what it keeps of the ledger.
Advances(r) ==
  /\ Others(r) /\ MaySend(r)
  /\ req'[r].id \in Nat /\ req'[r].id >= req[r].id
  /\ r \notin Regenerating => req'[r].id = req[r].id
  /\ \/ req'[r].pc \in Running \/ req'[r].result # None
     \/ UNCHANGED inFlight /\ \A m \in inFlight : m[1] # r

KeepsLedger ==
  /\ inFlight' \subseteq Transactions \X Nat
  /\ \A m \in inFlight' : m[2] \in 1..req'[m[1]].id
  /\ \A m \in executed : m[2] \in 1..req'[m[1]].id
  /\ \A m \in inFlight' : req'[m[1]].pc \in Running \/ req'[m[1]].result # None
  /\ \A t \in Request \ Regenerating : req'[t].id = 1

\* A request that keeps or raises its ID keeps what is said of IDs on the wire and the ledger.
LEMMA AdvanceKeepsLedger ==
  ASSUME Frames, Ledger, NEW r \in Request, Advances(r)
  PROVE  KeepsLedger
<1>0. /\ Transactions \subseteq Request /\ Regenerating \subseteq Transactions
      /\ \A t \in Request : req[t].id \in Nat /\ req[t].id > 0
  BY RequestAssumption DEF Frames, Frame, Requests
<1> USE DEF Advances
<1>1. ASSUME NEW m \in executed \cup inFlight
      PROVE  m[1] \in Request /\ m[2] \in 1..req'[m[1]].id
  <2>1. m[1] \in Request /\ m[2] \in 1..req[m[1]].id
    BY <1>0 DEF Ledger
  <2>2. req'[m[1]].id \in Nat /\ req'[m[1]].id >= req[m[1]].id
    BY <1>0, <2>1 DEF Others
  <2> QED
    BY <1>0, <2>1, <2>2
<1>2. ASSUME NEW m \in inFlight'
      PROVE  m \in inFlight \/ (m = <<r, req[r].id>> /\ m \in Transactions \X Nat /\ inFlight' # inFlight)
  BY <1>2 DEF MaySend, CurrentID
<1>3. inFlight' \subseteq Transactions \X Nat
  BY <1>2 DEF Ledger
<1>4. ASSUME NEW m \in inFlight' PROVE m[2] \in 1..req'[m[1]].id
  <2>1. CASE m \in inFlight
    BY <1>1, <2>1
  <2>2. CASE m = <<r, req[r].id>>
    BY <1>0, <2>2
  <2> QED
    BY <1>2, <2>1, <2>2
<1>5. ASSUME NEW m \in inFlight' PROVE req'[m[1]].pc \in Running \/ req'[m[1]].result # None
  <2>1. CASE m[1] = r
    BY <1>2, <2>1
  <2>2. CASE m[1] # r
    <3>1. m \in inFlight
      BY <1>2, <2>2
    <3> QED
      BY <1>0, <2>2, <3>1 DEF Ledger, Others
  <2> QED
    BY <2>1, <2>2
<1>6. \A t \in Request \ Regenerating : req'[t].id = 1
  BY DEF Ledger, Others
<1> QED
  BY <1>1, <1>3, <1>4, <1>5, <1>6 DEF KeepsLedger

\* The ledger and the IDs.
LEMMA NextLedger ==
  ASSUME Inv, [Next]_vars
  PROVE  Ledger' /\ RegeneratedOnlyWhenSpent' /\ ResponseWasExecuted'
<1>0. /\ Transactions \subseteq Request /\ Regenerating \subseteq Transactions
      /\ \A r \in Request : req[r].id \in Nat /\ req[r].id > 0
  BY RequestAssumption DEF Inv, Frames, Frame, Requests
<1> USE DEF Inv
<1>2. ASSUME NEW r \in Request, Continues(r) \/ Begins(r) \/ Fails(r)
      PROVE  Ledger' /\ RegeneratedOnlyWhenSpent' /\ ResponseWasExecuted'
  <2>1. /\ Others(r) /\ MaySend(r) /\ req'[r].id = req[r].id /\ req'[r].response = req[r].response
        /\ UNCHANGED <<executed, expired>>
        /\ req'[r].result = "ok" => req[r].result = "ok"
    BY <1>2 DEF Continues, Begins, Fails, SameOutcome, MaySend, ledger, None
  <2>2. \/ req'[r].pc \in Running \/ req'[r].result # None
        \/ UNCHANGED inFlight /\ \A m \in inFlight : m[1] # r
    <3>1. CASE Continues(r)
      BY <3>1 DEF Continues, SameOutcome, Ledger
    <3>2. CASE Begins(r) \/ Fails(r)
      BY <3>2 DEF Begins, Fails
    <3> QED
      BY <1>2, <3>1, <3>2
  <2>3. Ledger'
    <3>1. Advances(r)
      BY <1>0, <2>1, <2>2 DEF Advances
    <3>2. KeepsLedger
      BY <3>1, AdvanceKeepsLedger
    <3> QED
      BY <2>1, <3>2 DEF Ledger, KeepsLedger
  <2>4. RegeneratedOnlyWhenSpent' /\ ResponseWasExecuted'
    BY <1>0, <2>1 DEF RegeneratedOnlyWhenSpent, ResponseWasExecuted, Others
  <2> QED
    BY <2>3, <2>4
<1>3. ASSUME NEW r \in Request, Expires(r)
      PROVE  Ledger' /\ RegeneratedOnlyWhenSpent' /\ ResponseWasExecuted'
  <2>1. /\ Others(r) /\ MaySend(r) /\ req'[r].response = req[r].response
        /\ expired' = expired \cup {<<r, req[r].id>>} /\ UNCHANGED executed
        /\ req'[r].result = "ok" => req[r].result = "ok"
        /\ req'[r].pc \in Running \/ req'[r].result # None
        /\ req'[r].id \in Nat /\ req'[r].id \in {req[r].id, req[r].id + 1}
        /\ r \notin Regenerating => req'[r].id = req[r].id
        /\ r \in Transactions
    BY <1>0, <1>3 DEF Expires, MaySend, CurrentID, None
  <2>2. Ledger'
    <3>1. expired' \subseteq Transactions \X Nat
      BY <1>0, <2>1 DEF Ledger
    <3>2. req'[r].id >= req[r].id
      BY <1>0, <2>1
    <3>3. Advances(r)
      BY <2>1, <3>2 DEF Advances
    <3>4. KeepsLedger
      BY <3>3, AdvanceKeepsLedger
    <3> QED
      BY <2>1, <3>1, <3>4 DEF Ledger, KeepsLedger
  <2>3. RegeneratedOnlyWhenSpent'
    <3>1. ASSUME NEW t \in Transactions, NEW i \in 1..(req'[t].id - 1)
          PROVE  <<t, i>> \in expired' \cup executed'
      <4>1. CASE t # r
        BY <1>0, <2>1, <4>1 DEF RegeneratedOnlyWhenSpent, Others
      <4>2. CASE t = r /\ i = req[r].id
        BY <2>1, <4>2
      <4>3. CASE t = r /\ i # req[r].id
        <5>1. i \in 1..(req[r].id - 1)
          BY <1>0, <2>1, <4>3
        <5> QED
          BY <2>1, <4>3, <5>1 DEF RegeneratedOnlyWhenSpent
      <4> QED
        BY <4>1, <4>2, <4>3
    <3> QED
      BY <3>1 DEF RegeneratedOnlyWhenSpent
  <2>4. ResponseWasExecuted'
    BY <1>0, <2>1 DEF ResponseWasExecuted, Others
  <2> QED
    BY <2>2, <2>3, <2>4
<1>4. ASSUME NEW r \in Request, Succeeds(r)
      PROVE  Ledger' /\ RegeneratedOnlyWhenSpent' /\ ResponseWasExecuted'
  <2>1. /\ Others(r) /\ MaySend(r) /\ req'[r].response = req[r].id
        /\ executed' = executed \cup ({<<r, req[r].id>>} \cap (Transactions \X Nat))
        /\ UNCHANGED expired
        /\ req'[r].result # None
        /\ req'[r].id \in Nat /\ req'[r].id \in {req[r].id, req[r].id + 1}
        /\ r \notin Regenerating => req'[r].id = req[r].id
    BY <1>0, <1>4 DEF Succeeds, MaySend, CurrentID, None
  <2>2. req'[r].id >= req[r].id
    BY <1>0, <2>1
  <2>10. Advances(r)
    BY <2>1, <2>2 DEF Advances
  <2>11. KeepsLedger
    BY <2>10, AdvanceKeepsLedger
  <2>3. \A m \in executed' : m[2] \in 1..req'[m[1]].id
    <3>1. ASSUME NEW m \in executed', m \notin executed PROVE m[2] \in 1..req'[m[1]].id
      <4>1. m = <<r, req[r].id>>
        BY <2>1, <3>1
      <4> QED
        BY <1>0, <2>1, <2>2, <4>1
    <3> QED
      BY <2>11, <3>1 DEF KeepsLedger
  <2>4. Ledger'
    BY <2>1, <2>11, <2>3 DEF Ledger, KeepsLedger
  <2>5. RegeneratedOnlyWhenSpent'
    <3>1. ASSUME NEW t \in Transactions, NEW i \in 1..(req'[t].id - 1)
          PROVE  <<t, i>> \in expired' \cup executed'
      <4>1. CASE t # r
        BY <1>0, <2>1, <4>1 DEF RegeneratedOnlyWhenSpent, Others
      <4>2. CASE t = r /\ i = req[r].id
        BY <1>0, <2>1, <4>2
      <4>3. CASE t = r /\ i # req[r].id
        <5>1. i \in 1..(req[r].id - 1)
          BY <1>0, <2>1, <4>3
        <5> QED
          BY <2>1, <4>3, <5>1 DEF RegeneratedOnlyWhenSpent
      <4> QED
        BY <4>1, <4>2, <4>3
    <3> QED
      BY <3>1 DEF RegeneratedOnlyWhenSpent
  <2>6. ResponseWasExecuted'
    BY <1>0, <2>1 DEF ResponseWasExecuted, Others
  <2> QED
    BY <2>4, <2>5, <2>6
<1>5. CASE Arrives
  BY <1>5 DEF Arrives, Ledger, RegeneratedOnlyWhenSpent, ResponseWasExecuted
<1>6. CASE Quiet
  <2>1. /\ \A t \in Request : /\ req'[t].id = req[t].id /\ req'[t].result = req[t].result
                             /\ req'[t].response = req[t].response /\ req'[t].pc = req[t].pc
        /\ UNCHANGED <<executed, expired, inFlight>>
    BY <1>6 DEF Quiet, SameOutcome, ledger
  <2>2. \A m \in executed \cup inFlight : m[1] \in Request
    BY <1>0 DEF Ledger
  <2> QED
    BY <1>0, <2>1, <2>2 DEF Ledger, RegeneratedOnlyWhenSpent, ResponseWasExecuted
<1> QED
  BY <1>2, <1>3, <1>4, <1>5, <1>6, Effects

\* Every step keeps the invariant.
LEMMA NextInv == ASSUME Inv, [Next]_vars PROVE Inv'
<1>1. Frames'
  <2>1. CASE Arrive \/ Finish \/ UNCHANGED vars
    BY <2>1 DEF Inv, Frames, Arrive, Finish, vars
  <2>2. network \subseteq Node /\ healthyNodes \subseteq Node
    BY DEF Inv, Nodes
  <2> QED
    BY <2>1, <2>2, RestFrames, LoopFrames, TickFrames DEF Inv, Next, Step
<1>2. Nodes'
  BY NextNodes DEF Inv
<1> QED
  BY <1>1, <1>2, NextLedger DEF Inv

\* The invariant holds at every moment.
LEMMA SpecInv == Spec => []Inv
BY InitInv, NextInv, PTL DEF Spec

\* The requests, the shared network and the ledger have the types of the fields in
\* executable.go, and the index stays within the node list.
THEOREM TypeCorrect == Spec => []TypeOK
<1>1. ASSUME Inv, NEW r \in Request PROVE req[r] \in Requests /\ req[r].index <= Len(req[r].nodes)
  <2>1. req[r] \in Requests /\ InList(req[r]) /\ req[r].index \in Nat /\ req[r].nodes \in Seq(Node)
    BY <1>1 DEF Inv, Frames, Frame, Requests
  <2>2. Len(req[r].nodes) \in Nat /\ Len(<<>>) = 0
    BY <2>1
  <2> QED
    BY <2>1, <2>2 DEF InList
<1>2. Inv => TypeOK
  BY <1>1 DEF Inv, Nodes, Ledger, TypeOK
<1> QED
  BY <1>2, SpecInv, PTL

\* No request runs longer than the request timeout, one gRPC deadline and one
\* delay together, whatever the limits, the number of nodes and the answers are.
THEOREM CallsAreBounded == Spec => []TimeIsBounded
<1>1. Inv => TimeIsBounded
  BY Numbers DEF Inv, Frames, Frame, InBudget, Requests, TimeIsBounded, Limit
<1> QED
  BY <1>1, SpecInv, PTL

\* A transaction that may not regenerate its ID is executed at most once.
THEOREM AtMostOnce == Spec => []ExecutedAtMostOnce
<1>1. Inv => ExecutedAtMostOnce
  <2> SUFFICES ASSUME Inv, NEW m \in executed, NEW k \in executed, m[1] = k[1], m[1] \notin Regenerating
               PROVE  m = k
    BY DEF ExecutedAtMostOnce
  <2>1. m \in Request \X Nat /\ k \in Request \X Nat
    BY RequestAssumption DEF Inv, Ledger
  <2>2. m[2] = 1 /\ k[2] = 1
    BY <2>1 DEF Inv, Ledger
  <2> QED
    BY <2>1, <2>2
<1> QED
  BY <1>1, SpecInv, PTL

\* An ID is given up only when it cannot be executed any more or has been executed.
THEOREM RegenerationIsSafe == Spec => []RegeneratedOnlyWhenSpent
BY SpecInv, PTL DEF Inv

\* A successful call returns the ID that was executed.
THEOREM ResponseIsTrue == Spec => []ResponseWasExecuted
BY SpecInv, PTL DEF Inv
-----------------------------------------------------------------------------
(* Refinement *)

\* What a caller sees of a transaction.
At(t) == req[t].pc \in Running

\* The mapped functions after a step of r, when only r has changed.
LEMMA StepMap ==
  ASSUME Frames, Frames', NEW r \in Request, Others(r)
  PROVE  /\ \A t \in Transactions : (req[t].pc \notin {"idle", "update"}) = At(t)
         /\ \A t \in Transactions : (req'[t].pc \notin {"idle", "update"}) = At(t)'
         /\ \A t \in Transactions \ {r} : req'[t] = req[t]
<1>1. \A t \in Transactions : req[t].pc \in Labels /\ req'[t].pc \in Labels
  BY RequestAssumption DEF Frames, Requests
<1>2. \A t \in Transactions \ {r} : req'[t] = req[t]
  BY RequestAssumption DEF Others
<1> QED
  BY <1>1, <1>2 DEF At, Running, Labels

\* The loop implements the promise: an attempt, a wait or an update of the network
\* is no step of it.
LEMMA NextRefines ==
  ASSUME Inv, Inv', [Next]_vars
  PROVE  [Submitted!Next]_(Submitted!vars)
<1> DEFINE run(t) == req[t].pc \notin {"idle", "update"}
           out(t) == Outcome(req[t].result)
<1>0. Frames /\ Frames' /\ Transactions \subseteq Request /\ Regenerating \subseteq Transactions
  BY RequestAssumption DEF Inv
<1>1. ASSUME NEW r \in Request, Continues(r)
      PROVE  UNCHANGED Submitted!vars
  <2>1. \A t \in Transactions : run(t)' = run(t) /\ out(t)' = out(t) /\ req'[t].id = req[t].id /\ req'[t].response = req[t].response
    <3> SUFFICES ASSUME NEW t \in Transactions
                 PROVE  run(t)' = run(t) /\ out(t)' = out(t) /\ req'[t].id = req[t].id /\ req'[t].response = req[t].response
      OBVIOUS
    <3>1. CASE t # r
      BY <1>0, <1>1, <3>1 DEF Continues, Others
    <3>2. CASE t = r
      <4>1. run(r)' = run(r)
        BY <1>0, <1>1, <3>2, StepMap DEF Continues, At
      <4>2. SameOutcome(req[r], req'[r])
        BY <1>1 DEF Continues
      <4> QED
        BY <3>2, <4>1, <4>2 DEF SameOutcome
    <3> QED
      BY <3>1, <3>2
  <2> QED
    BY <1>1, <2>1 DEF Submitted!vars, Continues
<1>2. ASSUME NEW r \in Request, r \notin Transactions, Begins(r) \/ Fails(r) \/ Expires(r) \/ Succeeds(r)
      PROVE  UNCHANGED Submitted!vars
  <2>1. \A t \in Transactions : req'[t] = req[t]
    BY <1>0, <1>2 DEF Begins, Fails, Expires, Succeeds, Others
  <2>2. executed' = executed /\ expired' = expired
    <3>1. <<r, req[r].id>> \notin Transactions \X Nat
      BY <1>2
    <3>2. CASE Succeeds(r)
      BY <3>1, <3>2 DEF Succeeds, CurrentID
    <3>3. CASE Begins(r) \/ Fails(r)
      BY <3>3 DEF Begins, Fails, ledger
    <3> QED
      BY <1>2, <3>2, <3>3 DEF Expires
  <2> QED
    BY <2>1, <2>2 DEF Submitted!vars
<1>3. ASSUME NEW r \in Transactions, Begins(r)
      PROVE  Submitted!Begin(r)
  <2>1. ~run(r) /\ run(r)' /\ out(r)' = "none"
    BY <1>0, <1>3, StepMap DEF Begins, At, Outcome, None
  <2>2. \A t \in Transactions \ {r} : req'[t] = req[t]
    BY <1>0, <1>3 DEF Begins, Others
  <2>3. req'[r].id = req[r].id /\ req'[r].response = req[r].response /\ UNCHANGED <<executed, expired>>
    BY <1>3 DEF Begins, ledger
  <2> QED
    BY <2>1, <2>2, <2>3 DEF Submitted!Begin
<1>4. ASSUME NEW r \in Transactions, Fails(r)
      PROVE  Submitted!Fail(r)
  <2>1. ~run(r)' /\ out(r)' = "error"
    BY <1>0, <1>4, StepMap DEF Fails, At, Outcome, None
  <2>2. \A t \in Transactions \ {r} : req'[t] = req[t]
    BY <1>0, <1>4 DEF Fails, Others
  <2>3. req'[r].id = req[r].id /\ req'[r].response = req[r].response /\ UNCHANGED <<executed, expired>>
    BY <1>4 DEF Fails
  <2> QED
    BY <2>1, <2>2, <2>3 DEF Submitted!Fail
<1>5. ASSUME NEW r \in Transactions, Expires(r)
      PROVE  Submitted!Expire(r)
  <2>1. /\ run(r)
        /\ \/ r \in Regenerating /\ run(r)' /\ out(r)' = out(r) /\ req'[r].id = req[r].id + 1
           \/ r \notin Regenerating /\ ~run(r)' /\ out(r)' = "error" /\ req'[r].id = req[r].id
    BY <1>0, <1>5, StepMap DEF Expires, At, Outcome, None
  <2>2. \A t \in Transactions \ {r} : req'[t] = req[t]
    BY <1>0, <1>5 DEF Expires, Others
  <2>3. /\ req'[r].response = req[r].response /\ UNCHANGED executed
        /\ expired' = expired \cup {<<r, req[r].id>>}
    BY <1>5 DEF Expires, CurrentID
  <2> QED
    BY <2>1, <2>2, <2>3 DEF Submitted!Expire
<1>6. ASSUME NEW r \in Transactions, Succeeds(r)
      PROVE  Submitted!Succeed(r)
  <2>1. run(r) /\ ~run(r)' /\ out(r)' = "ok"
    BY <1>0, <1>6, StepMap DEF Succeeds, At, Outcome, None
  <2>2. \A t \in Transactions \ {r} : req'[t] = req[t]
    BY <1>0, <1>6 DEF Succeeds, Others
  <2>3. /\ req'[r].response = req[r].id /\ UNCHANGED expired
        /\ req'[r].id = IF r \in Regenerating THEN req[r].id + 1 ELSE req[r].id
        /\ <<r, req[r].id>> \notin executed \cup expired
    BY <1>6 DEF Succeeds, CurrentID
  <2>4. executed' = executed \cup {<<r, req[r].id>>}
    <3>1. req[r].id \in Nat
      BY <1>0 DEF Frames, Requests
    <3> QED
      BY <1>6, <3>1 DEF Succeeds, CurrentID
  <2> QED
    BY <2>1, <2>2, <2>3, <2>4 DEF Submitted!Succeed
<1>7. CASE Arrives
  <2>1. PICK m \in inFlight \ (executed \cup expired) : executed' = executed \cup {m}
    BY <1>7 DEF Arrives
  <2>2. m \in Transactions \X Nat /\ m[2] \in 1..req[m[1]].id
    BY DEF Inv, Ledger
  <2>3. PICK t \in Transactions, i \in Nat : m = <<t, i>>
    BY <2>2
  <2>4. i \in 1..req[t].id
    BY <2>2, <2>3
  <2>5. run(t) \/ out(t) # "none"
    <3>1. req[t].pc \in Running \/ req[t].result # None
      BY <2>1, <2>3 DEF Inv, Ledger
    <3> QED
      BY <3>1 DEF Running, Outcome, None
  <2>6. Submitted!Take(t, i)
    BY <1>7, <2>1, <2>3, <2>5 DEF Submitted!Take, Arrives
  <2> QED
    BY <2>4, <2>6 DEF Submitted!Next
<1>8. CASE Quiet
  <2>1. \A t \in Transactions : run(t)' = run(t) /\ out(t)' = out(t) /\ req'[t].id = req[t].id /\ req'[t].response = req[t].response
    BY <1>0, <1>8 DEF Quiet, SameOutcome
  <2> QED
    BY <1>8, <2>1 DEF Submitted!vars, Quiet, ledger
<1> QED
  <2>1. ASSUME NEW r \in Request, Continues(r) \/ Begins(r) \/ Fails(r) \/ Expires(r) \/ Succeeds(r)
        PROVE  [Submitted!Next]_(Submitted!vars)
    BY <1>1, <1>2, <1>3, <1>4, <1>5, <1>6, <2>1 DEF Submitted!Next
  <2> QED
    BY <1>0, <1>7, <1>8, <2>1, Effects

\* Every execution of the loop, with any number of requests and nodes, is one that
\* Submission allows.
THEOREM ExecuteImplementsSubmission == Spec => ImplementsSubmission
<1>1. Init => Submitted!Init
  <2> SUFFICES ASSUME Init PROVE Submitted!Init
    OBVIOUS
  <2>1. ASSUME NEW t \in Transactions
        PROVE  req[t].pc = "idle" /\ req[t].result = None /\ req[t].id = 1 /\ req[t].response = 0
    <3>1. t \in Request
      BY RequestAssumption
    <3> QED
      BY <3>1 DEF Init
  <2>2. executed = {} /\ expired = {}
    BY DEF Init
  <2> QED
    BY <2>1, <2>2 DEF Submitted!Init, Outcome, None
<1>2. Inv /\ Inv' /\ [Next]_vars => [Submitted!Next]_(Submitted!vars)
  BY NextRefines
<1> QED
  BY <1>1, <1>2, SpecInv, PTL DEF Spec, ImplementsSubmission, Submitted!Spec
=============================================================================
