--------------------------- MODULE NetworkLocking ---------------------------
(***************************************************************************)
(* The list of healthy nodes under concurrent use, at the granularity of   *)
(* healthyNodesMutex.  Goroutines that execute requests take the mutex to  *)
(* pick a node, to list the accounts a transaction is frozen for, and to   *)
(* take a failed node off the list.  Goroutines that replace the network   *)
(* (SetNetwork, an address book update) do not take it: they assign the    *)
(* fields of _ManagedNetwork one after the other.                          *)
(*                                                                         *)
(* A node's readmitTime is abstracted to nil, waiting (in the future) and  *)
(* over.  Whether a readmission pass is due is left open.  Each assignment *)
(* of a slice is one step; that a torn slice header is possible when two   *)
(* goroutines race is not modelled.                                        *)
(***************************************************************************)
EXTENDS Naturals, SequencesExt

CONSTANTS
  Host,        \* entries of an address book
  NodeObj,     \* identities of _Node objects
  HostOf,      \* the entry an object is made for
  Request,     \* goroutines that execute requests
  Updater,     \* goroutines that replace the network
  Books,       \* the address books they replace it by
  Scenarios,   \* which goroutines are at work, and the nodes they start with
  Nil

ASSUME HostOfAssumption == HostOf \in [NodeObj -> Host]
ASSUME BooksAssumption == Books \subseteq SUBSET Host
ASSUME ScenariosAssumption ==
  Scenarios \subseteq [goroutines : SUBSET (Request \cup Updater), nodes : SUBSET NodeObj]
ASSUME NilAssumption == Nil \notin NodeObj /\ Nil \notin Request
ASSUME FiniteAssumption == IsFiniteSet(NodeObj)

VARIABLES
  nodes,          \* mn.nodes
  network,        \* the objects that mn.network leads to
  healthyNodes,   \* mn.healthyNodes
  readmitTime,    \* of every object: "nil", "waiting" or "over"
  mutex,          \* the writer that holds healthyNodesMutex, or Nil
  made,           \* objects created so far
  pc,             \* where each goroutine is
  op,             \* the method a request is in
  held,           \* the node a request works with, or Nil
  snapshot,       \* the list a request is about to assign
  number,         \* the index or the count a request has read
  update,         \* what an updater is about to assign
  panics          \* kinds of runtime panics that have happened

shared == <<nodes, network, healthyNodes, readmitTime, mutex, made>>
local == <<pc, op, held, snapshot, number, update, panics>>
vars == <<shared, local>>

Methods == {"GetNode", "GetNodeAccountIDsForExecute", "IncreaseBackoff"}
Healthy(n) == readmitTime[n] # "waiting"
NoUpdate == [nodes |-> {}, list |-> << >>]
Unlisted == nodes \ ToSet(healthyNodes)

\* The first network is in place, and all of its nodes are listed.
Init ==
  /\ \E s \in Scenarios :
       /\ nodes = s.nodes
       /\ pc = [p \in Request \cup Updater |-> IF p \in s.goroutines THEN "idle" ELSE "absent"]
  /\ network = nodes
  /\ healthyNodes = SetToSeq(nodes)
  /\ readmitTime = [n \in NodeObj |-> "nil"]
  /\ mutex = Nil
  /\ made = nodes
  /\ op = [r \in Request |-> "GetNode"]
  /\ held = [r \in Request |-> Nil]
  /\ snapshot = [r \in Request |-> << >>]
  /\ number = [r \in Request |-> 0]
  /\ update = [u \in Updater |-> NoUpdate]
  /\ panics = {}

Goto(p, label) == pc' = [pc EXCEPT ![p] = label]
-----------------------------------------------------------------------------
(* Requests *)

Call(r) ==
  /\ pc[r] = "idle"
  /\ \E m \in Methods :
       /\ m = "GetNode" => held[r] = Nil
       /\ m = "IncreaseBackoff" => held[r] # Nil
       /\ op' = [op EXCEPT ![r] = m]
  /\ Goto(r, "lock")
  /\ UNCHANGED <<shared, held, snapshot, number, update, panics>>

\* The node answered, or its error is not one that marks it.
Release(r) ==
  /\ pc[r] = "idle" /\ held[r] # Nil
  /\ held' = [held EXCEPT ![r] = Nil]
  /\ UNCHANGED <<shared, pc, op, snapshot, number, update, panics>>

\* Faulty variant of Lock: the mutex is taken without waiting for it.
LockWithoutWaiting(r) ==
  /\ pc[r] = "lock"
  /\ mutex' = r
  /\ Goto(r, IF op[r] = "IncreaseBackoff" THEN "mark" ELSE "readmit")
  /\ UNCHANGED <<nodes, network, healthyNodes, readmitTime, made,
                 op, held, snapshot, number, update, panics>>

Lock(r) ==
  /\ pc[r] = "lock" /\ mutex = Nil
  /\ mutex' = r
  /\ Goto(r, IF op[r] = "IncreaseBackoff" THEN "mark" ELSE "readmit")
  /\ UNCHANGED <<nodes, network, healthyNodes, readmitTime, made,
                 op, held, snapshot, number, update, panics>>

\* _ReadmitNodesLocked: reads the readmit time of every unlisted node.  Where
\* one is nil the method panics; _GetNode then leaves the mutex locked, and
\* _ReadmitNodes unlocks it on the way out.
Readmit(r) ==
  LET over == {n \in Unlisted : readmitTime[n] = "over"} IN
  /\ pc[r] = "readmit"
  /\ \/ /\ Goto(r, "leave")         \* no pass is due
        /\ UNCHANGED <<shared, snapshot, panics>>
     \/ /\ over # {} /\ \A n \in Unlisted : readmitTime[n] # "nil"
        /\ snapshot' = [snapshot EXCEPT ![r] = healthyNodes \o SetToSeq(over)]
        /\ Goto(r, "publish")
        /\ UNCHANGED <<shared, panics>>
     \/ /\ \E n \in Unlisted : readmitTime[n] = "nil"
        /\ panics' = panics \cup {"nil readmitTime"}
        /\ mutex' = IF op[r] = "GetNode" THEN mutex ELSE Nil
        /\ Goto(r, "dead")
        /\ UNCHANGED <<nodes, network, healthyNodes, readmitTime, made, snapshot>>
  /\ UNCHANGED <<op, held, number, update>>

\* Faulty variant of Publish: the mutex is released before the list is assigned.
PublishUnlocked(r) ==
  /\ pc[r] = "publish"
  /\ mutex' = IF mutex = r THEN Nil ELSE mutex
  /\ IF mutex = r THEN UNCHANGED <<healthyNodes, snapshot, pc>>
     ELSE /\ healthyNodes' = snapshot[r]
          /\ snapshot' = [snapshot EXCEPT ![r] = << >>]
          /\ Goto(r, "idle")
  /\ UNCHANGED <<nodes, network, readmitTime, made, op, held, number, update, panics>>

Publish(r) ==
  /\ pc[r] = "publish"
  /\ healthyNodes' = snapshot[r]
  /\ snapshot' = [snapshot EXCEPT ![r] = << >>]
  /\ Goto(r, "leave")
  /\ UNCHANGED <<nodes, network, readmitTime, mutex, made, op, held, number, update, panics>>

\* Faulty variant of Leave: with an empty list, try again under the mutex.
LeaveOrRetry(r) ==
  /\ pc[r] = "leave"
  /\ mutex' = IF healthyNodes = << >> THEN mutex ELSE Nil
  /\ \/ /\ op[r] = "GetNode" /\ healthyNodes # << >>
        /\ \E n \in ToSet(healthyNodes) : held' = [held EXCEPT ![r] = n]
        /\ Goto(r, "idle")
     \/ /\ healthyNodes = << >>
        /\ Goto(r, "readmit")
        /\ UNCHANGED held
     \/ /\ op[r] = "GetNodeAccountIDsForExecute" /\ healthyNodes # << >>
        /\ Goto(r, "count")
        /\ UNCHANGED held
  /\ UNCHANGED <<nodes, network, healthyNodes, readmitTime, made, op, snapshot, number, update, panics>>

\* The end of the locked part.  _GetNode picks a node, or panics after
\* unlocking when the list is empty; the caller recovers from that panic.
Leave(r) ==
  /\ pc[r] = "leave"
  /\ mutex' = Nil
  /\ \/ /\ op[r] = "GetNode" /\ healthyNodes # << >>
        /\ \E n \in ToSet(healthyNodes) : held' = [held EXCEPT ![r] = n]
        /\ Goto(r, "idle")
     \/ /\ op[r] = "GetNode" /\ healthyNodes = << >>
        /\ Goto(r, "idle")
        /\ UNCHANGED held
     \/ /\ op[r] = "GetNodeAccountIDsForExecute"
        /\ Goto(r, "count")
        /\ UNCHANGED held
  /\ UNCHANGED <<nodes, network, healthyNodes, readmitTime, made, op, snapshot, number, update, panics>>

\* _GetNumberOfNodesForTransaction reads the length without the mutex.
Count(r) ==
  /\ pc[r] = "count"
  /\ number' = [number EXCEPT ![r] = Len(healthyNodes)]
  /\ Goto(r, "copy")
  /\ UNCHANGED <<shared, op, held, snapshot, update, panics>>

\* Under the read lock, as many entries as were counted are taken from a copy.
Copy(r) ==
  /\ pc[r] = "copy" /\ mutex = Nil
  /\ panics' = IF number[r] > Len(healthyNodes) THEN panics \cup {"index out of range"} ELSE panics
  /\ Goto(r, IF number[r] > Len(healthyNodes) THEN "dead" ELSE "idle")
  /\ number' = [number EXCEPT ![r] = 0]
  /\ UNCHANGED <<shared, op, held, snapshot, update>>

\* _Network._IncreaseBackoff: mark the node and look it up in the list ...
Mark(r) ==
  /\ pc[r] = "mark"
  /\ readmitTime' = [readmitTime EXCEPT ![held[r]] = "waiting"]
  /\ number' = [number EXCEPT ![r] = SelectInSeq(healthyNodes, LAMBDA n : n = held[r])]
  /\ Goto(r, "remove")
  /\ UNCHANGED <<nodes, network, healthyNodes, mutex, made, op, held, snapshot, update, panics>>

\* ... and remove what is at its index.
RemoveEntry(r) ==
  /\ pc[r] = "remove"
  /\ healthyNodes' = IF number[r] \in DOMAIN healthyNodes
                      THEN RemoveAt(healthyNodes, number[r]) ELSE healthyNodes
  /\ mutex' = Nil
  /\ held' = [held EXCEPT ![r] = Nil]
  /\ number' = [number EXCEPT ![r] = 0]
  /\ Goto(r, "idle")
  /\ UNCHANGED <<nodes, network, readmitTime, made, op, snapshot, update, panics>>

Elapse(n) ==
  /\ readmitTime[n] = "waiting"
  /\ readmitTime' = [readmitTime EXCEPT ![n] = "over"]
  /\ UNCHANGED <<nodes, network, healthyNodes, mutex, made, local>>
-----------------------------------------------------------------------------
(* Replacement of the network *)

\* _SetNetwork up to its three assignments.
Prepare(u) ==
  /\ pc[u] = "idle"
  /\ \E book \in Books, fresh \in SUBSET (NodeObj \ made) :
       LET kept == {n \in nodes : HostOf[n] \in book}
           new == kept \cup fresh
       IN
       /\ \A h \in book : Cardinality({n \in fresh : HostOf[n] = h}) =
                            IF \E n \in kept : HostOf[n] = h THEN 0 ELSE 1
       /\ \A n \in fresh : HostOf[n] \in book
       /\ made' = made \cup fresh
       /\ \E list \in SetToSeqs({n \in new : Healthy(n)}) :
            update' = [update EXCEPT ![u] = [nodes |-> new, list |-> list]]
  /\ Goto(u, "nodes")
  /\ UNCHANGED <<nodes, network, healthyNodes, readmitTime, mutex,
                 op, held, snapshot, number, panics>>

AssignNodes(u) ==
  /\ pc[u] = "nodes"
  /\ nodes' = update[u].nodes
  /\ Goto(u, "network")
  /\ UNCHANGED <<network, healthyNodes, readmitTime, mutex, made,
                 op, held, snapshot, number, update, panics>>

AssignNetwork(u) ==
  /\ pc[u] = "network"
  /\ network' = update[u].nodes
  /\ Goto(u, "list")
  /\ UNCHANGED <<nodes, healthyNodes, readmitTime, mutex, made,
                 op, held, snapshot, number, update, panics>>

AssignList(u) ==
  /\ pc[u] = "list"
  /\ healthyNodes' = update[u].list
  /\ update' = [update EXCEPT ![u] = NoUpdate]
  /\ Goto(u, "idle")
  /\ UNCHANGED <<nodes, network, readmitTime, mutex, made, op, held, snapshot, number, panics>>
-----------------------------------------------------------------------------
RequestStep(r) ==
  \/ Lock(r) \/ Readmit(r) \/ Publish(r) \/ Leave(r) \/ Count(r) \/ Copy(r)
  \/ Mark(r) \/ RemoveEntry(r)

UpdaterStep(u) == AssignNodes(u) \/ AssignNetwork(u) \/ AssignList(u)

Next ==
  \/ \E r \in Request : Call(r) \/ Release(r) \/ RequestStep(r)
  \/ \E u \in Updater : Prepare(u) \/ UpdaterStep(u)
  \/ \E n \in NodeObj : Elapse(n)

Spec == Init /\ [][Next]_vars

\* A goroutine that is not blocked runs, and a mutex that is released again
\* and again is granted to everyone who waits (sync.Mutex is starvation free).
FairSpec ==
  /\ Spec
  /\ \A r \in Request : SF_vars(RequestStep(r))
-----------------------------------------------------------------------------
(* Properties *)

\* Type invariant.
TypeOK ==
  /\ nodes \subseteq made /\ network \subseteq made /\ made \subseteq NodeObj
  /\ healthyNodes \in Seq(made)
  /\ readmitTime \in [NodeObj -> {"nil", "waiting", "over"}]
  /\ mutex \in Request \cup {Nil}
  /\ held \in [Request -> made \cup {Nil}]
  /\ number \in [Request -> 0 .. Cardinality(made)]

NoReplacement == \A u \in Updater : pc[u] = "absent"

\* Outside the locked parts, as long as nobody replaces the network, every node is
\* either listed, exactly once, or has a readmit time that brings it back, and no
\* listed node is in backoff: no two failures of one node, and no failure beside a
\* readmission pass, lose or duplicate an entry.
NoEntryLostOrDuplicated ==
  NoReplacement /\ mutex = Nil =>
    /\ IsInjective(healthyNodes)
    /\ \A n \in Unlisted : readmitTime[n] # "nil"
    /\ \A n \in ToSet(healthyNodes) : Healthy(n)

\* The list without the node that is being taken off it.
Listed == ToSet(healthyNodes) \ {held[r] : r \in {q \in Request : pc[q] = "remove"}}

List == INSTANCE HealthyList WITH
  Node <- NodeObj, members <- nodes, listed <- Listed, replaced <- ~NoReplacement

\* The sections under the mutex implement a list on which a failure and a
\* readmission pass are single steps (_IncreaseBackoff, _ReadmitNodesLocked).
ImplementsHealthyList == List!Spec

\* Every call on the network returns: the mutex is released on every path.
CallsReturn ==
  \A r \in Request : (pc[r] \notin {"idle", "absent"}) ~> (pc[r] = "idle" \/ pc[r] = "dead")
-----------------------------------------------------------------------------
(* What the change log says was fixed *)

\* "Panic when too many nodes are not healthy".
NoIndexOutOfRange == "index out of range" \notin panics

\* "Network concurrency issues".
NoNilReadmitTime == "nil readmitTime" \notin panics

\* client.go: "SetNetwork replaces all nodes in this Client with a new set of
\* nodes": once no replacement is under way the lookup by account leads to
\* the nodes of the network.
LookupMatchesNodes ==
  (\A u \in Updater : pc[u] \in {"idle", "absent"}) => network = nodes
=============================================================================
