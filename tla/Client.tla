------------------------------- MODULE Client -------------------------------
(***************************************************************************)
(* A Client and the updates of its address book: the goroutine that        *)
(* _ScheduleNetworkUpdate runs, updates that a request defers after        *)
(* INVALID_NODE_ACCOUNT, address book queries of the application, the      *)
(* connections of the mirror nodes they use, and the calls that cancel,    *)
(* restart or close all this while updates are in progress.                *)
(*                                                                         *)
(* An update reads the stream of a mirror node (processProtoMessageStream) *)
(* under the context the client has when the query begins, which need not  *)
(* be the one its goroutine was started with.  The goroutine that reads    *)
(* and the one that collects the results take turns and are one process    *)
(* here; TopicSubscription has them apart.  Replacing the nodes of the     *)
(* network is one step; NetworkLocking has its parts.                      *)
(***************************************************************************)
EXTENDS Integers, FiniteSets

CONSTANTS
  Constructors,   \* "_NewClient", "ClientFromConfigWithoutScheduleNetworkUpdate"
  Updater,        \* goroutines
  Mirror,         \* addresses of mirror nodes
  BookSize,       \* node addresses of an address book
  QueryAttempts,  \* maxAttempts of a query of the application
  MaxVersion,     \* bound: versions of the address book
  MaxContexts     \* bound: contexts

ASSUME ConstructorAssumption == Constructors \subseteq {"_NewClient", "ClientFromConfigWithoutScheduleNetworkUpdate"}
ASSUME SizeAssumption == BookSize \in Nat \ {0} /\ QueryAttempts \in Nat
ASSUME BoundAssumption == MaxVersion \in Nat /\ MaxContexts \in Nat \ {0, 1}

VARIABLES
  context,     \* networkUpdateContext
  cancelled,   \* contexts that have been cancelled
  up,          \* the goroutines
  mirrors,     \* addresses of the mirror network
  node,        \* the mirror node of each address: its connection and consensus stub
  latest,      \* newest version of the address book that was read
  book,        \* the book applied last: its version and the addresses it had
  app          \* the call of the application that is in progress

vars == <<context, cancelled, up, mirrors, node, latest, book, app>>

Idle == [pc |-> "none", kind |-> "none", ctx |-> 0, query |-> 0, mirror |-> {}, version |-> 0,
         got |-> 0, err |-> "nil", attempt |-> 0, broken |-> FALSE]
NewNode == [client |-> "nil", consensus |-> FALSE]
Scheduled(ctx) == [Idle EXCEPT !.pc = "select", !.kind = "schedule", !.ctx = ctx]

\* _NewClient with mirror nodes, after its first update; and the constructor that
\* calls SetNetworkUpdatePeriod(0) on a client without a schedule.
Init ==
  /\ \E constructor \in Constructors :
       LET ctx == IF constructor = "_NewClient" THEN 1 ELSE 2
           first == CHOOSE u \in Updater : TRUE
       IN /\ context = ctx
          /\ cancelled = 1..(ctx - 1)
          /\ up = [u \in Updater |-> IF u = first THEN Scheduled(ctx) ELSE Idle]
  /\ mirrors = Mirror
  /\ node = [m \in Mirror |-> NewNode]
  /\ latest = 1
  /\ book = [version |-> 1, size |-> BookSize]
  /\ app = "idle"
-----------------------------------------------------------------------------
(* AddressBookQuery.Execute *)

\* The goroutine of a schedule goes back to its select; the others are done.
After(u) == IF up[u].kind = "schedule" THEN Scheduled(up[u].ctx) ELSE Idle

\* A query that ends with an error: _UpdateAddressBook leaves the network alone.
Fails(u) == up' = [up EXCEPT ![u] = After(u)]

\* _GetNextMirrorNode and _GetNetworkServiceClient: there may be no mirror node, and
\* a connection is made when the node has none.  A call under a cancelled context,
\* or over a connection that was closed, fails.  The book that is read is at least as
\* new as those that were read before.
Begin(u) ==
  /\ up[u].pc = "begin"
  /\ \/ Fails(u) /\ UNCHANGED <<node, latest>>
     \/ \E m \in mirrors :
          /\ node' = [node EXCEPT ![m].client = IF @ = "nil" THEN "open" ELSE @]
          /\ \/ (context \in cancelled \/ node[m].client = "closed") /\ Fails(u) /\ UNCHANGED latest
             \/ /\ context \notin cancelled /\ node[m].client # "closed"
                /\ latest' \in latest..MaxVersion
                /\ up' = [up EXCEPT ![u].pc = "top", ![u].query = context, ![u].mirror = {m},
                                    ![u].version = latest']
  /\ UNCHANGED <<context, cancelled, mirrors, book, app>>

\* Faulty variant of Top: the end of the stream is looked at before the context.
TopErrorFirst(u) ==
  /\ up[u].pc = "top"
  /\ CASE up[u].err = "EOF" -> up' = [up EXCEPT ![u].pc = "whole"]
       [] up[u].err # "EOF" /\ up[u].query \in cancelled -> Fails(u)
       [] OTHER -> \/ up[u].err = "nil" /\ up' = [up EXCEPT ![u].pc = "recv"]
                   \/ up[u].err = "error" /\ Fails(u)
  /\ UNCHANGED <<context, cancelled, mirrors, node, latest, book, app>>

\* Faulty variant of Top: an error ends the stream like EOF.
TopErrorIsEnd(u) ==
  /\ up[u].pc = "top"
  /\ CASE up[u].query \in cancelled -> Fails(u)
       [] up[u].query \notin cancelled /\ up[u].err # "nil" -> up' = [up EXCEPT ![u].pc = "whole"]
       [] OTHER -> up' = [up EXCEPT ![u].pc = "recv"]
  /\ UNCHANGED <<context, cancelled, mirrors, node, latest, book, app>>

\* The head of the loop of processProtoMessageStream.  An error that is not retried,
\* or not any more, is the result of the query.
Top(u) ==
  /\ up[u].pc = "top"
  /\ CASE up[u].query \in cancelled -> Fails(u)
       [] up[u].query \notin cancelled /\ up[u].err = "EOF" -> up' = [up EXCEPT ![u].pc = "whole"]
       [] OTHER -> \/ up[u].err = "nil" /\ up' = [up EXCEPT ![u].pc = "recv"]
                   \/ up[u].err = "error" /\ Fails(u)
                   \/ /\ up[u].err = "error" /\ up[u].kind = "query" /\ up[u].attempt < QueryAttempts
                      /\ up' = [up EXCEPT ![u].pc = "recv", ![u].attempt = @ + 1]
  /\ UNCHANGED <<context, cancelled, mirrors, node, latest, book, app>>

\* Recv: the next address, the end of the stream, or an error.  A stream that has
\* failed, or whose connection was closed, only returns errors.
Recv(u) ==
  /\ up[u].pc = "recv"
  /\ \/ /\ ~ up[u].broken /\ up[u].got < BookSize
        /\ up' = [up EXCEPT ![u].pc = "top", ![u].got = @ + 1]
     \/ /\ ~ up[u].broken /\ up[u].got = BookSize
        /\ up' = [up EXCEPT ![u].pc = "top", ![u].err = "EOF"]
     \/ up' = [up EXCEPT ![u].pc = "top", ![u].err = "error", ![u].broken = TRUE]
  /\ UNCHANGED <<context, cancelled, mirrors, node, latest, book, app>>

\* The channel is closed.  _UpdateAddressBook applies the book when it is not empty;
\* a query of the application returns it.
Apply(u) ==
  /\ up[u].pc = "whole"
  /\ book' = IF up[u].kind # "query" /\ up[u].got > 0
             THEN [version |-> up[u].version, size |-> up[u].got] ELSE book
  /\ up' = [up EXCEPT ![u] = After(u)]
  /\ UNCHANGED <<context, cancelled, mirrors, node, latest, app>>
-----------------------------------------------------------------------------
(* _ScheduleNetworkUpdate, and the other ways to begin a query *)

\* The cases of the select: both may be ready.
TimerFires(u) ==
  /\ up[u].pc = "select"
  /\ up' = [up EXCEPT ![u].pc = "begin"]
  /\ UNCHANGED <<context, cancelled, mirrors, node, latest, book, app>>

ScheduleReturns(u) ==
  /\ up[u].pc = "select" /\ up[u].ctx \in cancelled
  /\ up' = [up EXCEPT ![u] = Idle]
  /\ UNCHANGED <<context, cancelled, mirrors, node, latest, book, app>>

\* An update deferred by _Execute, or a query of the application.
Start(u, kind) ==
  /\ up[u].pc = "none" /\ app = "idle"
  /\ up' = [up EXCEPT ![u].pc = "begin", ![u].kind = kind]
  /\ UNCHANGED <<context, cancelled, mirrors, node, latest, book, app>>

-----------------------------------------------------------------------------
(* The application *)

CancelScheduledNetworkUpdate ==
  /\ app = "idle"
  /\ cancelled' = cancelled \cup {context}
  /\ UNCHANGED <<context, up, mirrors, node, latest, book, app>>

\* Faulty variant of SetNetworkUpdatePeriod: the schedule in force goes on.
SetNetworkUpdatePeriodOnly ==
  /\ app = "idle" /\ context < MaxContexts
  /\ app' = "period"
  /\ UNCHANGED <<context, cancelled, up, mirrors, node, latest, book>>

\* SetNetworkUpdatePeriod cancels the context, then makes another one.
SetNetworkUpdatePeriod ==
  /\ app = "idle" /\ context < MaxContexts
  /\ cancelled' = cancelled \cup {context}
  /\ app' = "period"
  /\ UNCHANGED <<context, up, mirrors, node, latest, book>>

StartSchedule(u) ==
  /\ app = "period" /\ up[u].pc = "none"
  /\ context' = context + 1
  /\ up' = [up EXCEPT ![u] = Scheduled(context + 1)]
  /\ app' = "idle"
  /\ UNCHANGED <<cancelled, mirrors, node, latest, book>>

\* _Close of a mirror node closes the connection when there is a consensus stub.
CloseNode(n) == [n EXCEPT !.client = IF n.consensus THEN "closed" ELSE @]

\* The mirror nodes M are closed: a stream over a connection that is closed breaks,
\* any other one goes on over a connection that nobody will close.
Break(M) ==
  [u \in Updater |-> [up[u] EXCEPT !.broken = @ \/ \E m \in up[u].mirror \cap M : node[m].consensus,
                                  !.mirror = @ \ M]]

\* SetMirrorNetwork: nodes that go are closed, nodes that come are new.
SetMirrorNetwork(M) ==
  /\ app = "idle"
  /\ mirrors' = M
  /\ node' = [m \in Mirror |-> IF m \in mirrors \cap M THEN node[m] ELSE NewNode]
  /\ up' = Break(mirrors \ M)
  /\ UNCHANGED <<context, cancelled, latest, book, app>>

\* A subscription: _GetConsensusServiceClient.
Subscribe(m) ==
  /\ app = "idle" /\ m \in mirrors
  /\ node' = [node EXCEPT ![m] = [client |-> IF @.client = "nil" THEN "open" ELSE @.client, consensus |-> TRUE]]
  /\ UNCHANGED <<context, cancelled, up, mirrors, latest, book, app>>

\* Faulty variant of Close: the update is not cancelled.
CloseNetworkOnly ==
  /\ app = "idle" /\ app' = "closing"
  /\ UNCHANGED <<context, cancelled, up, mirrors, node, latest, book>>

\* Close, which the application calls last.
Close ==
  /\ app = "idle" /\ app' = "closing"
  /\ cancelled' = cancelled \cup {context}
  /\ UNCHANGED <<context, up, mirrors, node, latest, book>>

CloseMirrorNetwork ==
  /\ app = "closing" /\ app' = "closed"
  /\ node' = [m \in Mirror |-> IF m \in mirrors THEN CloseNode(node[m]) ELSE node[m]]
  /\ up' = Break(mirrors)
  /\ UNCHANGED <<context, cancelled, mirrors, latest, book>>

End == app = "closed" /\ (\A u \in Updater : up[u].pc = "none") /\ UNCHANGED vars
-----------------------------------------------------------------------------
Update(u) == Begin(u) \/ Top(u) \/ Recv(u) \/ Apply(u)

Next ==
  \/ \E u \in Updater : Update(u) \/ TimerFires(u) \/ ScheduleReturns(u) \/ StartSchedule(u)
                          \/ Start(u, "deferred") \/ Start(u, "query")
  \/ CancelScheduledNetworkUpdate \/ SetNetworkUpdatePeriod \/ Close \/ CloseMirrorNetwork
  \/ \E M \in SUBSET Mirror : SetMirrorNetwork(M)
  \/ \E m \in Mirror : Subscribe(m)
  \/ End

Spec == Init /\ [][Next]_vars

\* The goroutines run, and the mirror nodes answer or their streams fail (a Recv
\* under a cancelled context fails).  A select chooses among the ready cases at
\* random, so it does not pass over ctx.Done() for ever.
FairSpec ==
  /\ Spec
  /\ \A u \in Updater : WF_vars(Update(u)) /\ SF_vars(ScheduleReturns(u))
  /\ WF_vars(CloseMirrorNetwork)
-----------------------------------------------------------------------------
(* Properties *)

\* Type invariant.
TypeOK ==
  /\ context \in 1..MaxContexts /\ cancelled \subseteq 1..MaxContexts
  /\ \A u \in Updater :
       /\ up[u].pc \in {"none", "select", "begin", "top", "recv", "whole"}
       /\ up[u].kind \in {"none", "schedule", "deferred", "query"}
       /\ up[u].ctx \in 0..context /\ up[u].query \in 0..context
       /\ up[u].mirror \subseteq mirrors /\ up[u].got \in 0..BookSize
       /\ up[u].err \in {"nil", "EOF", "error"} /\ up[u].attempt \in 0..QueryAttempts
  /\ mirrors \subseteq Mirror
  /\ node \in [Mirror -> [client : {"nil", "open", "closed"}, consensus : BOOLEAN]]
  /\ latest \in 1..MaxVersion /\ book.version \in 1..latest
  /\ app \in {"idle", "period", "closing", "closed"}

\* The book that is applied, and the one a query of the application returns, is
\* whole: a stream that fails, is cancelled or loses its connection half way leaves
\* the network as it was (AddressBookQuery.Execute, _UpdateAddressBook).
BookIsWhole ==
  /\ book.size = BookSize
  /\ \A u \in Updater : up[u].pc = "whole" => up[u].got = BookSize

\* However often the period is set, one schedule at most goes on; the others have
\* been told to stop (SetNetworkUpdatePeriod, CancelScheduledNetworkUpdate).
OneSchedule ==
  \A u, v \in Updater :
    up[u].kind = "schedule" /\ up[v].kind = "schedule" /\ {up[u].ctx, up[v].ctx} \cap cancelled = {} => u = v

\* After Close no query ends well, under whichever context it runs; all that can
\* still be applied is a book that had been read to its end.
ClosedIsFinal ==
  [][\A u \in Updater : app \in {"closing", "closed"} /\ up'[u].pc = "whole" => up[u].pc = "whole"]_vars

\* After Close every goroutine that updates the address book returns, also one that
\* an earlier SetNetworkUpdatePeriod has cancelled and that reads under a newer
\* context.
UpdatesEnd == app = "closing" ~> \A u \in Updater : up[u].pc = "none"

\* client.go: "ClientFromConfigWithoutScheduleNetworkUpdate does not schedule network
\* update the user has to call SetNetworkUpdatePeriod manually" (for a client made by
\* it whose user has not called it).
NotScheduled == \A u \in Updater : up[u].kind # "schedule"

\* client.go: "CancelScheduledNetworkUpdate cancels the scheduled network update": it
\* leaves alone the other updates of a client that is not closed.
OnlyScheduleIsCancelled ==
  \A u \in Updater : app = "idle" /\ up[u].pc = "begin" /\ up[u].kind # "schedule" => context \notin cancelled

\* client.go: "Close is used to disconnect the Client from the _Network".
MirrorsAreDisconnected == app = "closed" => \A m \in Mirror : node[m].client # "open"

\* An update does not take back a newer book that another one has applied.
BookMovesForward == [][book'.version >= book.version]_vars
=============================================================================
