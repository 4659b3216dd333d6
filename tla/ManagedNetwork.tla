--------------------------- MODULE ManagedNetwork ---------------------------
(***************************************************************************)
(* The consensus network a Client holds (_ManagedNetwork, _ManagedNode,    *)
(* _Network and _Node in sdk/): its node objects, the list of healthy      *)
(* nodes, the exponential backoff that takes a node out of that list, the  *)
(* readmission pass that puts it back, the replacement of the node set and *)
(* the switch of the transport.  Every method is one action; a request in  *)
(* progress is represented by the node object it holds, so that the        *)
(* methods of one request interleave with every other call on the client.  *)
(*                                                                         *)
(* Times.  Every instant the code stores is kept relative to the present:  *)
(* readmitTime 2 means "two units from now".  Tick moves the present.  The *)
(* code only asks whether a stored instant is After or Before now, so all  *)
(* past instants are represented by -1.                                    *)
(***************************************************************************)
EXTENDS Integers, FiniteSets, Functions

CONSTANTS
  Host,             \* host names of consensus nodes
  AccountID,        \* node account IDs, the keys of mn.network
  NodeObj,          \* identities of _Node objects in memory
  Networks,         \* the maps address -> AccountID given to SetNetwork
  Durations,        \* the arguments given to the setters of durations
  MinDefault,       \* 8 s: initial minBackoff and minNodeReadmitPeriod
  MaxDefault,       \* 1 h: initial maxBackoff and maxNodeReadmitPeriod
  MaxBad,           \* bound on badGrpcStatusCount of a node object
  MaxCalls,         \* bound on the number of configuration calls
  Nil

Address == Host \X Nat

ASSUME NilAssumption == Nil \notin Int /\ Nil \notin NodeObj /\ Nil \notin Address

ASSUME DurationAssumption ==
  /\ Durations \subseteq Nat
  /\ MinDefault \in Nat
  /\ MaxDefault \in Nat
  /\ MinDefault <= MaxDefault

ASSUME BoundAssumption == MaxBad \in Nat /\ MaxCalls \in Nat

ASSUME NetworksAssumption ==
  \A net \in Networks : DOMAIN net \subseteq Address /\ net \in [DOMAIN net -> AccountID]

VARIABLES
  node,                  \* the reachable _Node objects and their fields
  nodes,                 \* mn.nodes
  network,               \* the head of each list of mn.network: only node[0] is ever read
  healthyNodes,          \* mn.healthyNodes
  minBackoff,
  maxBackoff,
  minNodeReadmitPeriod,
  maxNodeReadmitPeriod,
  earliestReadmitTime,
  transportSecurity,
  inUse,                 \* the node object the request in progress holds, or Nil
  applied,               \* history: the map of the last SetNetwork
  calls                  \* number of configuration calls made so far

config == <<minBackoff, maxBackoff, minNodeReadmitPeriod, maxNodeReadmitPeriod,
            transportSecurity>>
vars == <<node, nodes, network, healthyNodes, config, earliestReadmitTime,
          inUse, applied, calls>>

Instant == {-1} \cup Nat
NodeRecord ==
  [key: AccountID, address: Address, channel: Address \cup {Nil},
   currentBackoff: Nat, minBackoff: Nat, maxBackoff: Nat,
   readmitTime: Instant \cup {Nil}, badGrpcStatusCount: Nat]

Held(o) == {o} \ {Nil}
-----------------------------------------------------------------------------
(* managed_node.go, node.go, managed_node_address.go *)

\* _NewNode: a node starts with the network's minBackoff and a maxBackoff of
\* one hour, whatever the network's maxBackoff is.
NewNode(a, id) ==
  [key |-> id, address |-> a, channel |-> Nil,
   currentBackoff |-> minBackoff, minBackoff |-> minBackoff,
   maxBackoff |-> MaxDefault, readmitTime |-> Nil, badGrpcStatusCount |-> 0]

\* Strict: a node whose readmitTime is exactly now is not healthy yet.
IsHealthy(n) == n.readmitTime # Nil => n.readmitTime < 0

\* Faulty variant of IncreasedBackoff: the maximum is tested before the doubling.
IncreasedBeyondMaximum(n) ==
  IF n.currentBackoff > n.maxBackoff THEN n.maxBackoff ELSE 2 * n.currentBackoff

\* Backoff after a failure: doubled and capped by the node's own maxBackoff.
IncreasedBackoff(n) ==
  IF 2 * n.currentBackoff > n.maxBackoff THEN n.maxBackoff ELSE 2 * n.currentBackoff

\* Backoff after an answer: halved, and at least the node's own minBackoff.
DecreasedBackoff(n) ==
  IF n.currentBackoff \div 2 < n.minBackoff THEN n.minBackoff ELSE n.currentBackoff \div 2

\* Faulty variant of Failed: the readmit time is not set.
FailedWithoutReadmitTime(n) ==
  [n EXCEPT !.badGrpcStatusCount = @ + 1, !.currentBackoff = IncreasedBackoff(n)]

Failed(n) ==
  [n EXCEPT !.badGrpcStatusCount = @ + 1,
            !.currentBackoff = IncreasedBackoff(n),
            !.readmitTime = IncreasedBackoff(n)]

Answered(n) == [n EXCEPT !.currentBackoff = DecreasedBackoff(n)]

\* The two ports that _ToSecure and _ToInsecure exchange; others stay.
SwitchPort(a, tls) ==
  IF tls /\ a[2] = 50211 THEN <<a[1], 50212>>
  ELSE IF ~tls /\ a[2] = 50212 THEN <<a[1], 50211>>
  ELSE a

\* _ToSecure and _ToInsecure copy a node field by field; maxBackoff is not
\* among the fields they copy and starts from Go's zero value.
Switched(n, tls) == [n EXCEPT !.address = SwitchPort(@, tls), !.maxBackoff = 0]

Closed(n) == [n EXCEPT !.channel = Nil]
-----------------------------------------------------------------------------
EmptyMap == [x \in {} |-> x]

Init ==
  /\ node = EmptyMap /\ nodes = {} /\ network = EmptyMap /\ healthyNodes = {}
  /\ minBackoff = MinDefault /\ maxBackoff = MaxDefault
  /\ minNodeReadmitPeriod = MinDefault /\ maxNodeReadmitPeriod = MaxDefault
  /\ earliestReadmitTime = -1
  /\ transportSecurity = FALSE
  /\ inUse = Nil
  /\ applied = EmptyMap
  /\ calls = 0

Configure == calls < MaxCalls /\ calls' = calls + 1

\* Faulty variant of NodesToRemove: a replacement rebuilds every node.
RemoveAllNodes(net) == nodes

\* _GetNodesToRemove: nodes whose address is gone, or has another account.
NodesToRemove(net) ==
  {o \in nodes : \/ node[o].address \notin DOMAIN net
                 \/ net[node[o].address] # node[o].key}

\* Faulty variant of AddressesToAdd: an entry is skipped when its account or
\* its address is known, not only when both are.
AddUnknownOnly(net, kept) ==
  {a \in DOMAIN net : ~ \/ \E o \in kept : node[o].key = net[a]
                        \/ \E o \in kept : node[o].address = a}

\* The entries of the incoming map that no kept node stands for.
AddressesToAdd(net, kept) ==
  {a \in DOMAIN net : ~ /\ \E o \in kept : node[o].key = net[a]
                        /\ \E o \in kept : node[o].address = a}

\* Faulty variant of IsNetworkOf: a node is filed under any account.
IsUnkeyedNetworkOf(h, ns, obj, kept) == \A k \in DOMAIN h : h[k] \in ns

\* _CreateNetworkFromNodes: the list of each key in the order of mn.nodes, in
\* which kept nodes precede new ones and stay in their order.
IsNetworkOf(h, ns, obj, kept) ==
  /\ DOMAIN h = {obj[o].key : o \in ns}
  /\ \A k \in DOMAIN h :
       /\ h[k] \in ns /\ obj[h[k]].key = k
       /\ (\E o \in kept : obj[o].key = k) => h[k] \in kept
       /\ k \in DOMAIN network /\ network[k] \in kept => h[k] = network[k]

\* The list as a replacement and a transport switch build it anew.
HealthyOf(ns, obj) == {o \in ns : IsHealthy(obj[o])}

\* _SetNetwork keeps the nodes that are in the incoming map, closes the
\* others and adds a new object for each remaining entry.  A removed object
\* that a request still holds stays reachable.  The error return of _Close is
\* not taken: a grpc connection fails to close only when it is closed already,
\* and _Close forgets the channel as it closes it.
SetNetwork(net) ==
  LET removed == NodesToRemove(net)
      kept == nodes \ removed
      added == AddressesToAdd(net, kept)
  IN
  /\ Configure
  /\ \E fresh \in SUBSET (NodeObj \ DOMAIN node) :
     \E addr \in Bijection(fresh, added) :
       /\ nodes' = kept \cup fresh
       /\ node' = [o \in nodes' \cup Held(inUse) |->
                     IF o \in fresh THEN NewNode(addr[o], net[addr[o]])
                     ELSE IF o \in removed THEN Closed(node[o])
                     ELSE node[o]]
       /\ network' \in [{node'[o].key : o \in nodes'} -> nodes']
       /\ IsNetworkOf(network', nodes', node', kept)
       /\ healthyNodes' = HealthyOf(nodes', node')
  /\ applied' = net
  /\ UNCHANGED <<config, earliestReadmitTime, inUse>>

\* _ManagedNetwork._Close: only the nodes listed as healthy are closed.
CloseListed == [o \in DOMAIN node |-> IF o \in healthyNodes THEN Closed(node[o]) ELSE node[o]]

Close ==
  /\ Configure
  /\ node' = CloseListed
  /\ UNCHANGED <<nodes, network, healthyNodes, config, earliestReadmitTime, inUse, applied>>

\* _SetTransportSecurity: close, then replace every node object by its copy
\* at the other port.  The copy shares the address with the original, which
\* therefore changes too in the eyes of a request that still holds it.
SetTransportSecurity(tls) ==
  /\ Configure
  /\ tls # transportSecurity
  /\ \E fresh \in SUBSET (NodeObj \ DOMAIN node) :
     \E orig \in Bijection(fresh, nodes) :
       /\ nodes' = fresh
       /\ node' = [o \in fresh \cup Held(inUse) |->
                     IF o \in fresh THEN Switched(CloseListed[orig[o]], tls)
                     ELSE IF o \in nodes
                       THEN [CloseListed[o] EXCEPT !.address = SwitchPort(@, tls)]
                       ELSE node[o]]
       /\ network' = [k \in DOMAIN network |-> CHOOSE o \in fresh : orig[o] = network[k]]
       /\ healthyNodes' = HealthyOf(fresh, node')
  /\ transportSecurity' = tls
  /\ UNCHANGED <<minBackoff, maxBackoff, minNodeReadmitPeriod, maxNodeReadmitPeriod,
                 earliestReadmitTime, inUse, applied>>
-----------------------------------------------------------------------------
(* Setters.  The bounds of the backoff reach the listed nodes only. *)

SetMinBackoff(d) ==
  /\ Configure
  /\ minBackoff' = d
  /\ node' = [o \in DOMAIN node |->
                IF o \in healthyNodes THEN [node[o] EXCEPT !.minBackoff = d] ELSE node[o]]
  /\ UNCHANGED <<nodes, network, healthyNodes, maxBackoff, minNodeReadmitPeriod,
                 maxNodeReadmitPeriod, transportSecurity, earliestReadmitTime, inUse, applied>>

SetMaxBackoff(d) ==
  /\ Configure
  /\ maxBackoff' = d
  /\ node' = [o \in DOMAIN node |->
                IF o \in healthyNodes THEN [node[o] EXCEPT !.maxBackoff = d] ELSE node[o]]
  /\ UNCHANGED <<nodes, network, healthyNodes, minBackoff, minNodeReadmitPeriod,
                 maxNodeReadmitPeriod, transportSecurity, earliestReadmitTime, inUse, applied>>

SetMinNodeReadmitPeriod(d) ==
  /\ Configure
  /\ minNodeReadmitPeriod' = d
  /\ earliestReadmitTime' = d
  /\ UNCHANGED <<node, nodes, network, healthyNodes, minBackoff, maxBackoff,
                 maxNodeReadmitPeriod, transportSecurity, inUse, applied>>

SetMaxNodeReadmitPeriod(d) ==
  /\ Configure
  /\ maxNodeReadmitPeriod' = d
  /\ UNCHANGED <<node, nodes, network, healthyNodes, minBackoff, maxBackoff,
                 minNodeReadmitPeriod, transportSecurity, earliestReadmitTime, inUse, applied>>
-----------------------------------------------------------------------------
(* Readmission and the methods a request calls *)

\* The instants the next readmission pass may be due at: the end of the
\* longest period, and every readmitTime that falls before it.
NextPass ==
  {maxNodeReadmitPeriod} \cup
  {t \in 1 .. maxNodeReadmitPeriod : \E o \in nodes : node[o].readmitTime = t}

\* Faulty variant of Readmitted: only the nodes whose backoff ends at this instant.
ReadmittedOnTimeOnly == {o \in nodes \ healthyNodes : node[o].readmitTime = 0}

\* The unlisted nodes whose readmit time is not after now.
Readmitted == {o \in nodes \ healthyNodes : node[o].readmitTime <= 0}

\* _ReadmitNodesLocked: nothing before earliestReadmitTime; otherwise compute
\* the next pass and list every node whose backoff is over.
ReadmitNodesLocked ==
  IF earliestReadmitTime > 0
  THEN UNCHANGED <<earliestReadmitTime, healthyNodes>>
  ELSE /\ \E next \in NextPass :
            /\ \A t \in NextPass : next <= t
            /\ earliestReadmitTime' =
                 IF next < minNodeReadmitPeriod THEN minNodeReadmitPeriod ELSE next
       /\ healthyNodes' = healthyNodes \cup Readmitted

\* _ReadmitNodes, as _GetNumberOfNodesForTransaction calls it.
ReadmitNodes ==
  /\ ReadmitNodesLocked
  /\ UNCHANGED <<node, nodes, network, config, inUse, applied, calls>>

\* _GetNode: readmit, then pick any listed node; with none listed it panics.
GetNode ==
  /\ inUse = Nil
  /\ ReadmitNodesLocked
  /\ \/ healthyNodes' = {} /\ inUse' = Nil
     \/ inUse' \in healthyNodes'
  /\ UNCHANGED <<node, nodes, network, config, applied, calls>>

\* _GetNodeForAccountID: the head of the account's list, listed as healthy or not.
GetNodeForAccountID(id) ==
  /\ inUse = Nil
  /\ id \in DOMAIN network
  /\ inUse' = network[id]
  /\ UNCHANGED <<node, nodes, network, healthyNodes, config, earliestReadmitTime, applied, calls>>

\* _GetChannel, which _Execute calls on a healthy node only: the cached
\* channel, or a new one dialled at the node's address.
GetChannel ==
  /\ inUse # Nil
  /\ IsHealthy(node[inUse])
  /\ node' = [node EXCEPT ![inUse].channel = IF @ = Nil THEN node[inUse].address ELSE @]
  /\ UNCHANGED <<nodes, network, healthyNodes, config, earliestReadmitTime, inUse, applied, calls>>

\* The request drops the object: one that left the network is then collected.
Drop(obj) ==
  /\ inUse' = Nil
  /\ node' = Restrict(obj, nodes)

\* Faulty variant of IncreaseBackoff: the node stays on the list.
IncreaseBackoffKeepsListed ==
  /\ inUse # Nil
  /\ node[inUse].badGrpcStatusCount < MaxBad
  /\ Drop([node EXCEPT ![inUse] = Failed(node[inUse])])
  /\ UNCHANGED <<nodes, network, healthyNodes, config, earliestReadmitTime, applied, calls>>

\* _Network._IncreaseBackoff after a failure of the node in use.  Another
\* request may have marked the node already, so its health is no guard.
IncreaseBackoff ==
  /\ inUse # Nil
  /\ node[inUse].badGrpcStatusCount < MaxBad
  /\ healthyNodes' = healthyNodes \ {inUse}
  /\ Drop([node EXCEPT ![inUse] = Failed(node[inUse])])
  /\ UNCHANGED <<nodes, network, config, earliestReadmitTime, applied, calls>>

\* _ManagedNode._DecreaseBackoff after an answer; the readmitTime stays.
DecreaseBackoff ==
  /\ inUse # Nil
  /\ Drop([node EXCEPT ![inUse] = Answered(node[inUse])])
  /\ UNCHANGED <<nodes, network, healthyNodes, config, earliestReadmitTime, applied, calls>>

\* A request that ends without touching the backoff: the node is unhealthy,
\* or the error of the call is not retryable.
Release ==
  /\ inUse # Nil
  /\ Drop(node)
  /\ UNCHANGED <<nodes, network, healthyNodes, config, earliestReadmitTime, applied, calls>>
-----------------------------------------------------------------------------
Earlier(t) == IF t = Nil \/ t = -1 THEN t ELSE t - 1

Tick ==
  /\ node' = [o \in DOMAIN node |-> [node[o] EXCEPT !.readmitTime = Earlier(@)]]
  /\ earliestReadmitTime' = Earlier(earliestReadmitTime)
  /\ UNCHANGED <<nodes, network, healthyNodes, config, inUse, applied, calls>>

ConfigurationCall ==
  \/ \E net \in Networks : SetNetwork(net)
  \/ \E tls \in BOOLEAN : SetTransportSecurity(tls)
  \/ Close
  \/ \E d \in Durations :
       \/ SetMinBackoff(d)
       \/ SetMaxBackoff(d)
       \/ SetMinNodeReadmitPeriod(d)
       \/ SetMaxNodeReadmitPeriod(d)

Next ==
  \/ ConfigurationCall
  \/ ReadmitNodes
  \/ GetNode
  \/ \E id \in AccountID : GetNodeForAccountID(id)
  \/ GetChannel
  \/ IncreaseBackoff
  \/ DecreaseBackoff
  \/ Release
  \/ Tick

Spec == Init /\ [][Next]_vars
-----------------------------------------------------------------------------
(* Fairness: time passes, a request ends, and among the requests that an    *)
(* application keeps making some let the network choose their node.         *)
Fairness ==
  /\ WF_vars(Tick)
  /\ SF_vars(GetNode)
  /\ WF_vars(Release)

FairSpec == Spec /\ Fairness
-----------------------------------------------------------------------------
(* Properties *)

\* Type invariant: the reachable node objects are those of mn.nodes and the
\* one a request holds.
TypeOK ==
  /\ nodes \subseteq NodeObj
  /\ inUse \in NodeObj \cup {Nil}
  /\ node \in [nodes \cup Held(inUse) -> NodeRecord]
  /\ healthyNodes \subseteq nodes
  /\ minBackoff \in Nat /\ maxBackoff \in Nat
  /\ minNodeReadmitPeriod \in Nat /\ maxNodeReadmitPeriod \in Nat
  /\ earliestReadmitTime \in Instant
  /\ transportSecurity \in BOOLEAN
  /\ calls \in 0 .. MaxCalls

\* A node that is not listed as healthy has a readmit time.  The readmission
\* pass dereferences it without a test for nil.
UnlistedHasReadmitTime ==
  \A o \in nodes \ healthyNodes : node[o].readmitTime # Nil

\* No node is listed as healthy while its backoff lasts, so _GetNode and
\* _GetNodeAccountIDsForExecute never offer one: every way into the list
\* (replacement, readmission, transport switch) and the failure of a node
\* that was picked earlier agree on it.
ListedIsOutOfBackoff ==
  \A o \in healthyNodes : node[o].readmitTime # Nil => node[o].readmitTime <= 0

\* _GetNodeForAccountID answers for exactly the accounts of the current
\* nodes, and with a current node of that account, never with an object that
\* an address book update or a transport switch has replaced.
AccountLookupIsCurrent ==
  /\ DOMAIN network = {node[o].key : o \in nodes}
  /\ \A id \in DOMAIN network : network[id] \in nodes /\ node[network[id]].key = id

\* Up to the port, which a transport switch moves, the client's nodes are
\* exactly the entries of the last map given to SetNetwork: no entry is
\* skipped because its account and its address belong to two kept nodes.
NodesAreAppliedNetwork ==
  {<<node[o].address[1], node[o].key>> : o \in nodes}
    = {<<a[1], applied[a]>> : a \in DOMAIN applied}

\* The periods an application can have configured.
Periods == Durations \cup {MaxDefault}

\* A removed node is reconsidered within a readmit period that was configured,
\* however failures, passes and setters interleave, and no node waits longer than
\* such a period: doubling and halving never leave the bounds, although the setters
\* change the bounds of some nodes only and a transport switch loses one of them.
WaitIsBounded ==
  /\ \E d \in Periods : earliestReadmitTime <= d
  /\ \A o \in DOMAIN node : \E d \in Periods :
       node[o].currentBackoff <= d /\ (node[o].readmitTime # Nil => node[o].readmitTime <= d)

\* A replacement of the network leaves every node that stays in it alone: the
\* same object, with its connection, its backoff and its readmit time.
ReplacementPreservesNodes ==
  [][\A net \in Networks : SetNetwork(net) =>
       \A o \in nodes : node[o].address \in DOMAIN net /\ net[node[o].address] = node[o].key
                       => o \in nodes' /\ node'[o] = node[o]]_vars

\* Only elapsed time brings an unlisted node back: no step lists a node
\* object that was unlisted before the step and still in backoff.
BackoffIsServed ==
  [][\A o \in healthyNodes' \cap (nodes \ healthyNodes) : node[o].readmitTime <= 0]_vars

\* Every node that was taken off the list returns to it, or leaves the
\* network, once its failures end: readmission is never forgotten.
Readmission ==
  \A o \in NodeObj : (o \in nodes \ healthyNodes) ~> (o \in healthyNodes \/ o \notin nodes)
-----------------------------------------------------------------------------
(* What the documentation and the tests of the repository say *)

\* client.go: "readmission happens when the backoff elapses".  A readmission
\* pass (of _GetNode or of freezing a transaction) leaves no node out whose
\* backoff is over.
ReadmittedWhenBackoffElapses ==
  [][ReadmitNodes \/ GetNode =>
       \A o \in nodes : node[o].readmitTime # Nil /\ node[o].readmitTime <= 0
                       => o \in healthyNodes']_vars

\* client.go: SetNodeMaxBackoff "sets the maximum amount of time to wait
\* between retries on a single node": no failure of a current node makes it
\* wait longer.
NodeMaxBackoffIsMaximum ==
  [][IncreaseBackoff /\ inUse \in nodes => node'[inUse].readmitTime <= maxBackoff]_vars

\* client.go: SetNodeMinBackoff "sets the minimum amount of time to wait
\* between retries on a single node": with the bounds in order, no failure of
\* a current node makes it wait less.
NodeMinBackoffIsMinimum ==
  [][IncreaseBackoff /\ inUse \in nodes /\ minBackoff <= maxBackoff
       => node'[inUse].readmitTime >= minBackoff]_vars

\* network_unit_test.go: "Re-applying an unchanged network must keep the
\* existing nodes and their open connections".
UnchangedNetworkKeepsNodes ==
  [][\A net \in Networks : net = applied /\ SetNetwork(net) => nodes' = nodes]_vars

\* client.go: "Close is used to disconnect the Client from the _Network": no
\* current node keeps its connection.
CloseDisconnects ==
  [][Close => \A o \in nodes : node'[o].channel = Nil]_vars

\* client.go: "SetNetwork replaces all nodes in this Client with a new set of
\* nodes": one node for each entry of the map.
OneNodePerEntry ==
  [][\A net \in Networks : SetNetwork(net) => Cardinality(nodes') = Cardinality(DOMAIN net)]_vars
=============================================================================
