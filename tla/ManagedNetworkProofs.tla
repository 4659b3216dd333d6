------------------------ MODULE ManagedNetworkProofs ------------------------
(***************************************************************************)
(* Proofs about ManagedNetwork, for every set of nodes, maps and bounds.   *)
(***************************************************************************)
EXTENDS ManagedNetwork, TLAPS

\* The inductive invariant.  UnlistedHasReadmitTime needs ListedIsOutOfBackoff
\* and the types only; the lookup needs the types of the node objects.
Inv ==
  /\ TypeOK
  /\ UnlistedHasReadmitTime
  /\ ListedIsOutOfBackoff
  /\ AccountLookupIsCurrent
  /\ NodesAreAppliedNetwork

\* A new client, which has no nodes yet, satisfies the invariant.
LEMMA InitInv == Init => Inv
<1> SUFFICES ASSUME Init PROVE Inv
  OBVIOUS
<1>1. TypeOK
  <2>1. nodes \cup Held(inUse) = {}
    BY DEF Init, Held
  <2>2. node \in [nodes \cup Held(inUse) -> NodeRecord]
    BY <2>1 DEF Init, EmptyMap
  <2>3. earliestReadmitTime \in Instant /\ calls \in 0 .. MaxCalls
    BY BoundAssumption DEF Init, Instant
  <2>4. transportSecurity \in BOOLEAN
    BY DEF Init
  <2> HIDE DEF EmptyMap
  <2> QED
    BY <2>2, <2>3, <2>4, DurationAssumption DEF Init, TypeOK
<1>2. UnlistedHasReadmitTime /\ ListedIsOutOfBackoff
  BY DEF Init, UnlistedHasReadmitTime, ListedIsOutOfBackoff
<1>3. AccountLookupIsCurrent /\ NodesAreAppliedNetwork
  BY DEF Init, EmptyMap, AccountLookupIsCurrent, NodesAreAppliedNetwork
<1> QED
  BY <1>1, <1>2, <1>3 DEF Inv

\* Steps that change neither the nodes nor the lookup keep the lookup and the
\* match with the applied map, if the keys and addresses stay.
LEMMA SameNodes ==
  ASSUME Inv, UNCHANGED <<nodes, network, applied>>,
         \A o \in nodes : node'[o].key = node[o].key /\ node'[o].address = node[o].address
  PROVE  AccountLookupIsCurrent' /\ NodesAreAppliedNetwork'
<1>1. AccountLookupIsCurrent'
  <2>1. {node'[o].key : o \in nodes} = {node[o].key : o \in nodes}
    OBVIOUS
  <2> QED
    BY <2>1 DEF Inv, AccountLookupIsCurrent
<1>2. {<<node'[o].address[1], node'[o].key>> : o \in nodes}
        = {<<node[o].address[1], node[o].key>> : o \in nodes}
  OBVIOUS
<1> QED
  BY <1>1, <1>2 DEF Inv, NodesAreAppliedNetwork

-----------------------------------------------------------------------------
\* Steps that leave the readmit times and the list alone keep the two facts
\* about the list.
LEMMA SameHealth ==
  ASSUME Inv, UNCHANGED <<nodes, healthyNodes>>,
         \A o \in nodes : node'[o].readmitTime = node[o].readmitTime
  PROVE  UnlistedHasReadmitTime' /\ ListedIsOutOfBackoff'
  BY DEF Inv, TypeOK, UnlistedHasReadmitTime, ListedIsOutOfBackoff

\* A readmission pass lists only nodes whose backoff is over.
LEMMA ReadmitInv ==
  ASSUME Inv, ReadmitNodesLocked, UNCHANGED <<node, nodes, network, applied>>
  PROVE  /\ healthyNodes' \subseteq nodes /\ healthyNodes \subseteq healthyNodes'
         /\ earliestReadmitTime' \in Instant
         /\ UnlistedHasReadmitTime' /\ ListedIsOutOfBackoff'
         /\ AccountLookupIsCurrent' /\ NodesAreAppliedNetwork'
<1>1. AccountLookupIsCurrent' /\ NodesAreAppliedNetwork'
  BY SameNodes
<1>2. healthyNodes' \subseteq nodes /\ healthyNodes \subseteq healthyNodes'
  BY DEF Inv, TypeOK, ReadmitNodesLocked, Readmitted
<1>3. earliestReadmitTime' \in Instant
  BY DEF Inv, TypeOK, ReadmitNodesLocked, NextPass, Instant
<1>4. UnlistedHasReadmitTime'
  BY <1>2 DEF Inv, UnlistedHasReadmitTime
<1>5. ListedIsOutOfBackoff'
  BY <1>2 DEF Inv, ListedIsOutOfBackoff, ReadmitNodesLocked, Readmitted
<1> QED
  BY <1>1, <1>2, <1>3, <1>4, <1>5

\* _ReadmitNodes keeps the invariant.
LEMMA ReadmitNodesInv == Inv /\ ReadmitNodes => Inv'
  BY ReadmitInv DEF ReadmitNodes, Inv, TypeOK, Held, config

\* _GetNode keeps the invariant: a readmission pass, then a choice.
LEMMA GetNodeInv == Inv /\ GetNode => Inv'
<1> SUFFICES ASSUME Inv, GetNode PROVE Inv'
  OBVIOUS
<1>1. healthyNodes' \subseteq nodes /\ UNCHANGED <<node, nodes>>
  BY ReadmitInv DEF GetNode
<1>2. inUse' \in nodes \cup {Nil}
  BY <1>1 DEF GetNode
<1>3. nodes' \cup Held(inUse') = nodes \cup Held(inUse)
  BY <1>1, <1>2, NilAssumption DEF GetNode, Held, Inv, TypeOK
<1>4. TypeOK'
  BY <1>1, <1>2, <1>3, ReadmitInv DEF GetNode, Inv, TypeOK, config
<1> QED
  BY <1>4, ReadmitInv DEF GetNode, Inv

\* _GetNodeForAccountID keeps the invariant: it only picks a node object.
LEMMA GetNodeForAccountIDInv ==
  ASSUME Inv, NEW id \in AccountID, GetNodeForAccountID(id)
  PROVE  Inv'
<1>1. inUse' \in nodes /\ UNCHANGED <<node, nodes, healthyNodes>>
  BY DEF GetNodeForAccountID, Inv, AccountLookupIsCurrent
<1>2. nodes' \cup Held(inUse') = nodes \cup Held(inUse)
  BY <1>1, NilAssumption DEF GetNodeForAccountID, Held, Inv, TypeOK
<1>3. TypeOK'
  BY <1>1, <1>2 DEF GetNodeForAccountID, Inv, TypeOK, config
<1> QED
  BY <1>1, <1>3, SameNodes, SameHealth DEF GetNodeForAccountID, Inv

\* An operation on the fields of the node in use keeps the types, and so does
\* the collection of the object when the request drops it.
LEMMA DropType ==
  ASSUME Inv, inUse # Nil, NEW rec \in NodeRecord,
         Drop([node EXCEPT ![inUse] = rec]), UNCHANGED nodes
  PROVE  /\ nodes' \cup Held(inUse') = nodes
         /\ node' \in [nodes -> NodeRecord]
         /\ \A o \in nodes : node'[o] = IF o = inUse THEN rec ELSE node[o]
  BY NilAssumption DEF Inv, TypeOK, Drop, Restrict, Held

\* The node a request holds has a record, in the network or not.
LEMMA InUseRecord ==
  ASSUME Inv, inUse # Nil
  PROVE  node[inUse] \in NodeRecord /\ inUse \in DOMAIN node
  BY DEF Inv, TypeOK, Held

\* The doubled and the halved backoff of a node are durations.
LEMMA BackoffType ==
  ASSUME NEW n \in NodeRecord
  PROVE  IncreasedBackoff(n) \in Nat /\ DecreasedBackoff(n) \in Nat
  BY DEF NodeRecord, IncreasedBackoff, DecreasedBackoff

\* A failed node is still a node, with a readmit time.
LEMMA FailedType ==
  ASSUME NEW n \in NodeRecord
  PROVE  /\ Failed(n) \in NodeRecord /\ Failed(n).key = n.key /\ Failed(n).address = n.address
         /\ Failed(n).readmitTime # Nil
<1>1. IncreasedBackoff(n) \in Nat
  BY BackoffType
<1>2. IncreasedBackoff(n) # Nil /\ IncreasedBackoff(n) \in Instant \cup {Nil}
  BY <1>1, NilAssumption DEF Instant
<1>3. n.badGrpcStatusCount + 1 \in Nat
  BY DEF NodeRecord
<1> QED
  BY <1>1, <1>2, <1>3 DEF Failed, NodeRecord

\* _IncreaseBackoff keeps the invariant: the node that gets a readmit time
\* leaves the list in the same step.
LEMMA IncreaseBackoffInv == Inv /\ IncreaseBackoff => Inv'
<1> SUFFICES ASSUME Inv, IncreaseBackoff PROVE Inv'
  OBVIOUS
<1> DEFINE n == node[inUse]
           rec == Failed(n)
<1>1. n \in NodeRecord
  BY InUseRecord DEF IncreaseBackoff
<1>2. /\ rec \in NodeRecord /\ rec.key = n.key /\ rec.address = n.address
      /\ rec.readmitTime # Nil
  BY <1>1, FailedType
<1>3. /\ nodes' \cup Held(inUse') = nodes
      /\ node' \in [nodes -> NodeRecord]
      /\ \A o \in nodes : node'[o] = IF o = inUse THEN rec ELSE node[o]
  BY <1>2, DropType DEF IncreaseBackoff
<1>4. TypeOK'
  BY <1>3 DEF IncreaseBackoff, Drop, Inv, TypeOK, config
<1>5. UnlistedHasReadmitTime' /\ ListedIsOutOfBackoff'
  BY <1>2, <1>3 DEF IncreaseBackoff, Inv, TypeOK, UnlistedHasReadmitTime, ListedIsOutOfBackoff
<1>6. AccountLookupIsCurrent' /\ NodesAreAppliedNetwork'
  BY <1>2, <1>3, SameNodes DEF IncreaseBackoff
<1> QED
  BY <1>4, <1>5, <1>6 DEF Inv

\* _DecreaseBackoff keeps the invariant: the readmit time stays.
LEMMA DecreaseBackoffInv == Inv /\ DecreaseBackoff => Inv'
<1> SUFFICES ASSUME Inv, DecreaseBackoff PROVE Inv'
  OBVIOUS
<1> DEFINE n == node[inUse]
           rec == Answered(n)
<1>1. n \in NodeRecord
  BY InUseRecord DEF DecreaseBackoff
<1>2. /\ rec \in NodeRecord /\ rec.key = n.key /\ rec.address = n.address
      /\ rec.readmitTime = n.readmitTime
  BY <1>1, BackoffType DEF Answered, NodeRecord
<1>3. /\ nodes' \cup Held(inUse') = nodes
      /\ node' \in [nodes -> NodeRecord]
      /\ \A o \in nodes : node'[o] = IF o = inUse THEN rec ELSE node[o]
  BY <1>2, DropType DEF DecreaseBackoff
<1>4. TypeOK'
  BY <1>3 DEF DecreaseBackoff, Drop, Inv, TypeOK, config
<1>5. AccountLookupIsCurrent' /\ NodesAreAppliedNetwork'
  BY <1>2, <1>3, SameNodes DEF DecreaseBackoff
<1>6. UnlistedHasReadmitTime' /\ ListedIsOutOfBackoff'
  BY <1>2, <1>3, SameHealth DEF DecreaseBackoff
<1> QED
  BY <1>4, <1>5, <1>6 DEF Inv

\* A request that ends keeps the invariant.
LEMMA ReleaseInv == Inv /\ Release => Inv'
<1> SUFFICES ASSUME Inv, Release PROVE Inv'
  OBVIOUS
<1>1. /\ nodes' \cup Held(inUse') = nodes /\ UNCHANGED nodes
      /\ node' \in [nodes -> NodeRecord]
      /\ \A o \in nodes : node'[o] = node[o]
  BY NilAssumption DEF Release, Drop, Restrict, Held, Inv, TypeOK
<1>2. TypeOK'
  BY <1>1 DEF Release, Drop, Inv, TypeOK, config
<1> QED
  BY <1>1, <1>2, SameNodes, SameHealth DEF Release, Inv

\* _GetChannel keeps the invariant: only the channel changes.
LEMMA GetChannelInv == Inv /\ GetChannel => Inv'
<1> SUFFICES ASSUME Inv, GetChannel PROVE Inv'
  OBVIOUS
<1>1. node[inUse] \in NodeRecord /\ inUse \in DOMAIN node
  BY InUseRecord DEF GetChannel
<1>2. /\ node' \in [nodes \cup Held(inUse) -> NodeRecord]
      /\ \A o \in nodes : /\ node'[o].key = node[o].key
                          /\ node'[o].address = node[o].address
                          /\ node'[o].readmitTime = node[o].readmitTime
  BY <1>1 DEF GetChannel, Inv, TypeOK, NodeRecord
<1>3. TypeOK'
  BY <1>2 DEF GetChannel, Inv, TypeOK, config, Held
<1> QED
  BY <1>2, <1>3, SameNodes, SameHealth DEF GetChannel, Inv

\* The passage of time keeps the invariant: a backoff that is over stays over.
LEMMA TickInv == Inv /\ Tick => Inv'
<1> SUFFICES ASSUME Inv, Tick PROVE Inv'
  OBVIOUS
<1>1. ASSUME NEW o \in nodes \cup Held(inUse)
      PROVE  /\ node'[o] \in NodeRecord
             /\ node'[o].key = node[o].key /\ node'[o].address = node[o].address
             /\ node[o].readmitTime = Nil <=> node'[o].readmitTime = Nil
             /\ node[o].readmitTime # Nil /\ node[o].readmitTime <= 0
                  => node'[o].readmitTime <= 0
  BY <1>1, NilAssumption DEF Tick, Earlier, Inv, TypeOK, NodeRecord, Instant
<1>2. TypeOK'
  <2>1. earliestReadmitTime' \in Instant
    BY NilAssumption DEF Tick, Earlier, Inv, TypeOK, Instant
  <2>2. node' \in [nodes \cup Held(inUse) -> NodeRecord]
    BY <1>1 DEF Tick, Inv, TypeOK
  <2> QED
    BY <2>1, <2>2 DEF Tick, Inv, TypeOK, config, Held
<1>3. UnlistedHasReadmitTime' /\ ListedIsOutOfBackoff'
  BY <1>1 DEF Tick, Inv, TypeOK, UnlistedHasReadmitTime, ListedIsOutOfBackoff
<1> QED
  BY <1>1, <1>2, <1>3, SameNodes DEF Tick, Inv

-----------------------------------------------------------------------------
\* Close and the setters rewrite fields of the listed nodes that the facts
\* about the list, the lookup and the applied map do not read.

\* A configuration call stays within the bound on calls.
LEMMA ConfigureType == ASSUME Inv, Configure PROVE calls' \in 0 .. MaxCalls
  BY BoundAssumption DEF Inv, TypeOK, Configure

\* A setter that reaches the listed nodes keeps the invariant once the types hold.
LEMMA ListedUpdate ==
  ASSUME Inv, UNCHANGED <<nodes, network, healthyNodes, applied>>,
         \A o \in nodes : /\ node'[o].key = node[o].key
                         /\ node'[o].address = node[o].address
                         /\ node'[o].readmitTime = node[o].readmitTime,
         TypeOK'
  PROVE  Inv'
  BY SameNodes, SameHealth DEF Inv

\* _Close changes the channels only.
LEMMA CloseListedType ==
  ASSUME Inv
  PROVE  /\ CloseListed \in [nodes \cup Held(inUse) -> NodeRecord]
         /\ \A o \in nodes \cup Held(inUse) :
              /\ CloseListed[o].key = node[o].key
              /\ CloseListed[o].address = node[o].address
              /\ CloseListed[o].readmitTime = node[o].readmitTime
  BY DEF Inv, TypeOK, CloseListed, Closed, NodeRecord

\* _Close keeps the invariant.
LEMMA CloseInv == Inv /\ Close => Inv'
<1> SUFFICES ASSUME Inv, Close PROVE Inv'
  OBVIOUS
<1>1. TypeOK'
  BY CloseListedType, ConfigureType DEF Close, Inv, TypeOK, config, Held
<1> QED
  BY <1>1, CloseListedType, ListedUpdate DEF Close

\* _SetMinBackoff keeps the invariant.
LEMMA SetMinBackoffInv == ASSUME Inv, NEW d \in Durations, SetMinBackoff(d) PROVE Inv'
<1>1. /\ node' \in [nodes \cup Held(inUse) -> NodeRecord]
      /\ \A o \in nodes : /\ node'[o].key = node[o].key
                          /\ node'[o].address = node[o].address
                          /\ node'[o].readmitTime = node[o].readmitTime
  BY DurationAssumption DEF SetMinBackoff, Inv, TypeOK, NodeRecord
<1>2. TypeOK'
  BY <1>1, DurationAssumption, ConfigureType DEF SetMinBackoff, Inv, TypeOK, Held
<1> QED
  BY <1>1, <1>2, ListedUpdate DEF SetMinBackoff

\* _SetMaxBackoff keeps the invariant.
LEMMA SetMaxBackoffInv == ASSUME Inv, NEW d \in Durations, SetMaxBackoff(d) PROVE Inv'
<1>1. /\ node' \in [nodes \cup Held(inUse) -> NodeRecord]
      /\ \A o \in nodes : /\ node'[o].key = node[o].key
                          /\ node'[o].address = node[o].address
                          /\ node'[o].readmitTime = node[o].readmitTime
  BY DurationAssumption DEF SetMaxBackoff, Inv, TypeOK, NodeRecord
<1>2. TypeOK'
  BY <1>1, DurationAssumption, ConfigureType DEF SetMaxBackoff, Inv, TypeOK, Held
<1> QED
  BY <1>1, <1>2, ListedUpdate DEF SetMaxBackoff

\* The setters of the readmit periods keep the invariant.
LEMMA SetReadmitPeriodInv ==
  ASSUME Inv, NEW d \in Durations,
         SetMinNodeReadmitPeriod(d) \/ SetMaxNodeReadmitPeriod(d)
  PROVE  Inv'
<1>1. CASE SetMinNodeReadmitPeriod(d)
  <2>1. TypeOK'
    BY <1>1, DurationAssumption, ConfigureType
    DEF SetMinNodeReadmitPeriod, Inv, TypeOK, Held, Instant
  <2> QED
    BY <1>1, <2>1, ListedUpdate DEF SetMinNodeReadmitPeriod
<1>2. CASE SetMaxNodeReadmitPeriod(d)
  <2>1. TypeOK'
    BY <1>2, DurationAssumption, ConfigureType DEF SetMaxNodeReadmitPeriod, Inv, TypeOK, Held
  <2> QED
    BY <1>2, <2>1, ListedUpdate DEF SetMaxNodeReadmitPeriod
<1> QED
  BY <1>1, <1>2

\* A node whose health was just computed from its readmit time.
LEMMA FreshHealth ==
  ASSUME NEW obj, NEW S, \A o \in S : obj[o] \in NodeRecord
  PROVE  /\ \A o \in S \ HealthyOf(S, obj) : obj[o].readmitTime # Nil
         /\ \A o \in HealthyOf(S, obj) :
              obj[o].readmitTime # Nil => obj[o].readmitTime <= 0
<1>1. ASSUME NEW o \in S, ~IsHealthy(obj[o])
      PROVE  obj[o].readmitTime # Nil
  BY <1>1 DEF IsHealthy
<1>2. ASSUME NEW o \in S, IsHealthy(obj[o]), obj[o].readmitTime # Nil
      PROVE  obj[o].readmitTime <= 0
  <2>1. obj[o].readmitTime \in Instant
    BY <1>2 DEF NodeRecord
  <2> QED
    BY <1>2, <2>1 DEF IsHealthy, Instant
<1> QED
  BY <1>1, <1>2 DEF HealthyOf

-----------------------------------------------------------------------------
\* Switching the port of an address keeps its host.
LEMMA SwitchPortType ==
  ASSUME NEW a \in Address, NEW tls
  PROVE  SwitchPort(a, tls) \in Address /\ SwitchPort(a, tls)[1] = a[1]
  BY DEF Address, SwitchPort

\* _SetTransportSecurity keeps the invariant: each copy has the account and
\* the host of its original, and its health is computed anew.
LEMMA SetTransportSecurityInv ==
  ASSUME Inv, NEW tls \in BOOLEAN, SetTransportSecurity(tls)
  PROVE  Inv'
<1>1. PICK fresh \in SUBSET (NodeObj \ DOMAIN node) :
      \E orig \in Bijection(fresh, nodes) :
        /\ nodes' = fresh
        /\ node' = [o \in fresh \cup Held(inUse) |->
                      IF o \in fresh THEN Switched(CloseListed[orig[o]], tls)
                      ELSE IF o \in nodes
                        THEN [CloseListed[o] EXCEPT !.address = SwitchPort(@, tls)]
                        ELSE node[o]]
        /\ network' = [k \in DOMAIN network |-> CHOOSE o \in fresh : orig[o] = network[k]]
        /\ healthyNodes' = HealthyOf(fresh, node')
  BY DEF SetTransportSecurity
<1>2. PICK orig \in Bijection(fresh, nodes) :
        /\ nodes' = fresh
        /\ node' = [o \in fresh \cup Held(inUse) |->
                      IF o \in fresh THEN Switched(CloseListed[orig[o]], tls)
                      ELSE IF o \in nodes
                        THEN [CloseListed[o] EXCEPT !.address = SwitchPort(@, tls)]
                        ELSE node[o]]
        /\ network' = [k \in DOMAIN network |-> CHOOSE o \in fresh : orig[o] = network[k]]
        /\ healthyNodes' = HealthyOf(fresh, node')
  BY <1>1
<1>3. orig \in [fresh -> nodes] /\ \A m \in nodes : \E o \in fresh : orig[o] = m
  BY DEF Bijection, Injection, Surjection
<1>4. ASSUME NEW r \in NodeRecord
      PROVE  /\ Switched(r, tls) \in NodeRecord
             /\ Switched(r, tls).key = r.key
             /\ Switched(r, tls).address[1] = r.address[1]
             /\ [r EXCEPT !.address = SwitchPort(@, tls)] \in NodeRecord
  <2>1. SwitchPort(r.address, tls) \in Address /\ SwitchPort(r.address, tls)[1] = r.address[1]
    BY SwitchPortType DEF NodeRecord
  <2> QED
    BY <2>1 DEF Switched, NodeRecord
<1>5. ASSUME NEW o \in fresh \cup Held(inUse)
      PROVE  node'[o] \in NodeRecord
  BY <1>2, <1>3, <1>4, CloseListedType DEF Inv, TypeOK
<1>6. ASSUME NEW o \in fresh
      PROVE  /\ node'[o].key = node[orig[o]].key
             /\ node'[o].address[1] = node[orig[o]].address[1]
  <2>1. orig[o] \in nodes /\ node'[o] = Switched(CloseListed[orig[o]], tls)
    BY <1>2, <1>3
  <2>2. /\ CloseListed[orig[o]] \in NodeRecord
        /\ CloseListed[orig[o]].key = node[orig[o]].key
        /\ CloseListed[orig[o]].address = node[orig[o]].address
    BY <2>1, CloseListedType
  <2>3. /\ Switched(CloseListed[orig[o]], tls).key = CloseListed[orig[o]].key
        /\ Switched(CloseListed[orig[o]], tls).address[1] = CloseListed[orig[o]].address[1]
    BY <2>2, <1>4
  <2> QED
    BY <2>1, <2>2, <2>3
<1>7. TypeOK'
  <2>1. node' \in [nodes' \cup Held(inUse') -> NodeRecord]
    BY <1>2, <1>5 DEF SetTransportSecurity
  <2>2. healthyNodes' \subseteq nodes' /\ nodes' \subseteq NodeObj
    BY <1>2 DEF HealthyOf
  <2>3. transportSecurity' \in BOOLEAN
    BY DEF SetTransportSecurity
  <2> QED
    BY <2>1, <2>2, <2>3, ConfigureType DEF SetTransportSecurity, Inv, TypeOK
<1>8. UnlistedHasReadmitTime' /\ ListedIsOutOfBackoff'
  <2>1. \A o \in fresh : node'[o] \in NodeRecord
    BY <1>5
  <2> QED
    BY <1>2, <2>1, FreshHealth DEF UnlistedHasReadmitTime, ListedIsOutOfBackoff
<1>9. AccountLookupIsCurrent'
  <2>1. {node'[o].key : o \in nodes'} = {node[m].key : m \in nodes}
    BY <1>2, <1>3, <1>6
  <2>2. ASSUME NEW k \in DOMAIN network
        PROVE  network'[k] \in fresh /\ orig[network'[k]] = network[k]
    <3>1. \E o \in fresh : orig[o] = network[k]
      BY <1>3 DEF Inv, AccountLookupIsCurrent
    <3>2. network'[k] = CHOOSE o \in fresh : orig[o] = network[k]
      BY <1>2
    <3> QED
      BY <3>1, <3>2
  <2>3. DOMAIN network' = {node'[o].key : o \in nodes'}
    BY <1>2, <2>1 DEF Inv, AccountLookupIsCurrent
  <2>4. ASSUME NEW k \in DOMAIN network
        PROVE  network'[k] \in nodes' /\ node'[network'[k]].key = k
    <3>1. node'[network'[k]].key = node[network[k]].key
      BY <1>6, <2>2
    <3> QED
      BY <1>2, <2>2, <3>1 DEF Inv, AccountLookupIsCurrent
  <2>5. DOMAIN network' = DOMAIN network
    BY <1>2
  <2> QED
    BY <2>3, <2>4, <2>5 DEF AccountLookupIsCurrent
<1>10. NodesAreAppliedNetwork'
  <2>1. {<<node'[o].address[1], node'[o].key>> : o \in nodes'}
          = {<<node[m].address[1], node[m].key>> : m \in nodes}
    BY <1>2, <1>3, <1>6
  <2> QED
    BY <2>1 DEF SetTransportSecurity, Inv, NodesAreAppliedNetwork
<1> QED
  BY <1>7, <1>8, <1>9, <1>10 DEF Inv

\* _SetNetwork keeps the invariant: the kept nodes and the new ones together
\* stand for the entries of the map, each with its account.
LEMMA SetNetworkInv ==
  ASSUME Inv, NEW net \in Networks, SetNetwork(net)
  PROVE  Inv'
<1> DEFINE removed == NodesToRemove(net)
           kept == nodes \ removed
           added == AddressesToAdd(net, kept)
<1>0. PICK fresh \in SUBSET (NodeObj \ DOMAIN node) : \E addr \in Bijection(fresh, added) :
        /\ nodes' = kept \cup fresh
        /\ node' = [o \in nodes' \cup Held(inUse) |->
                      IF o \in fresh THEN NewNode(addr[o], net[addr[o]])
                      ELSE IF o \in removed THEN Closed(node[o])
                      ELSE node[o]]
        /\ network' \in [{node'[o].key : o \in nodes'} -> nodes']
        /\ IsNetworkOf(network', nodes', node', kept)
        /\ healthyNodes' = HealthyOf(nodes', node')
  BY DEF SetNetwork
<1>1. PICK addr \in Bijection(fresh, added) :
        /\ nodes' = kept \cup fresh
        /\ node' = [o \in nodes' \cup Held(inUse) |->
                      IF o \in fresh THEN NewNode(addr[o], net[addr[o]])
                      ELSE IF o \in removed THEN Closed(node[o])
                      ELSE node[o]]
        /\ network' \in [{node'[o].key : o \in nodes'} -> nodes']
        /\ IsNetworkOf(network', nodes', node', kept)
        /\ healthyNodes' = HealthyOf(nodes', node')
  BY <1>0
<1> HIDE DEF removed, kept, added
<1>2. /\ addr \in [fresh -> added] /\ \A a \in added : \E o \in fresh : addr[o] = a
      /\ added \subseteq DOMAIN net
      /\ kept \subseteq nodes /\ fresh \cap nodes = {} /\ removed \cap kept = {}
  BY DEF Bijection, Injection, Surjection, added, AddressesToAdd, kept, Inv, TypeOK
<1>3. \A a \in DOMAIN net : a \in Address /\ net[a] \in AccountID
  BY NetworksAssumption
<1>4. ASSUME NEW a \in DOMAIN net
      PROVE  /\ NewNode(a, net[a]) \in NodeRecord
             /\ NewNode(a, net[a]).key = net[a] /\ NewNode(a, net[a]).address = a
  BY <1>3, DurationAssumption DEF NewNode, NodeRecord, Instant, Inv, TypeOK
<1>5. ASSUME NEW o \in fresh
      PROVE  node'[o].key = net[addr[o]] /\ node'[o].address = addr[o]
  BY <1>1, <1>2, <1>4
<1>6. \A o \in kept : node'[o] = node[o]
  BY <1>1, <1>2 DEF Inv, TypeOK
<1>7. ASSUME NEW o \in nodes' \cup Held(inUse)
      PROVE  node'[o] \in NodeRecord
  <2>1. CASE o \in fresh
    BY <1>1, <1>2, <1>4, <2>1
  <2>2. CASE o \notin fresh
    <3>1. node[o] \in NodeRecord
      BY <1>1, <1>2, <2>2 DEF Inv, TypeOK
    <3>2. Closed(node[o]) \in NodeRecord
      BY <3>1 DEF Closed, NodeRecord
    <3> QED
      BY <1>1, <2>2, <3>1, <3>2
  <2> QED
    BY <2>1, <2>2
<1>8. TypeOK'
  <2>1. node' \in [nodes' \cup Held(inUse') -> NodeRecord]
    BY <1>1, <1>7 DEF SetNetwork
  <2>2. healthyNodes' \subseteq nodes' /\ nodes' \subseteq NodeObj
    BY <1>1, <1>2 DEF Inv, TypeOK, HealthyOf
  <2> QED
    BY <2>1, <2>2, ConfigureType DEF SetNetwork, Inv, TypeOK, config
<1>9. UnlistedHasReadmitTime' /\ ListedIsOutOfBackoff'
  <2>1. \A o \in nodes' : node'[o] \in NodeRecord
    BY <1>7
  <2> QED
    BY <1>1, <2>1, FreshHealth DEF UnlistedHasReadmitTime, ListedIsOutOfBackoff
<1>10. AccountLookupIsCurrent'
  BY <1>1 DEF IsNetworkOf, AccountLookupIsCurrent
<1>11. ASSUME NEW o \in kept
       PROVE  node[o].address \in DOMAIN net /\ net[node[o].address] = node[o].key
  BY <1>2 DEF kept, removed, NodesToRemove
<1>12. ASSUME NEW o \in nodes'
       PROVE  node'[o].address \in DOMAIN net /\ net[node'[o].address] = node'[o].key
  BY <1>1, <1>2, <1>5, <1>6, <1>11
<1>13. ASSUME NEW a \in DOMAIN net
       PROVE  \E o \in nodes' : node'[o].address = a /\ node'[o].key = net[a]
  <2>1. CASE a \in added
    BY <1>1, <1>2, <1>5, <2>1
  <2>2. CASE a \notin added
    <3>1. PICK o \in kept : node[o].address = a
      BY <2>2 DEF added, AddressesToAdd
    <3> QED
      BY <1>1, <1>6, <1>11, <3>1
  <2> QED
    BY <2>1, <2>2
<1>14. NodesAreAppliedNetwork'
  <2>1. applied' = net
    BY DEF SetNetwork
  <2>2. ASSUME NEW o \in nodes'
        PROVE  <<node'[o].address[1], node'[o].key>> \in {<<a[1], net[a]>> : a \in DOMAIN net}
    BY <1>12
  <2>3. ASSUME NEW a \in DOMAIN net
        PROVE  <<a[1], net[a]>> \in {<<node'[o].address[1], node'[o].key>> : o \in nodes'}
    BY <1>13
  <2> QED
    BY <2>1, <2>2, <2>3 DEF NodesAreAppliedNetwork
<1> QED
  BY <1>8, <1>9, <1>10, <1>14 DEF Inv

-----------------------------------------------------------------------------
\* Every step of the client keeps the inductive invariant.
LEMMA NextInv == Inv /\ [Next]_vars => Inv'
<1> SUFFICES ASSUME Inv, [Next]_vars PROVE Inv'
  OBVIOUS
<1>1. CASE ConfigurationCall
  BY <1>1, SetNetworkInv, SetTransportSecurityInv, CloseInv, SetMinBackoffInv,
     SetMaxBackoffInv, SetReadmitPeriodInv DEF ConfigurationCall
<1>2. CASE ReadmitNodes
  BY <1>2, ReadmitNodesInv
<1>3. CASE GetNode
  BY <1>3, GetNodeInv
<1>4. ASSUME NEW id \in AccountID, GetNodeForAccountID(id) PROVE Inv'
  BY <1>4, GetNodeForAccountIDInv
<1>5. CASE GetChannel
  BY <1>5, GetChannelInv
<1>6. CASE IncreaseBackoff
  BY <1>6, IncreaseBackoffInv
<1>7. CASE DecreaseBackoff
  BY <1>7, DecreaseBackoffInv
<1>8. CASE Release
  BY <1>8, ReleaseInv
<1>9. CASE Tick
  BY <1>9, TickInv
<1>10. CASE UNCHANGED vars
  BY <1>10 DEF vars, config, Inv, TypeOK, UnlistedHasReadmitTime, ListedIsOutOfBackoff,
     AccountLookupIsCurrent, NodesAreAppliedNetwork, Held
<1> QED
  BY <1>1, <1>2, <1>3, <1>4, <1>5, <1>6, <1>7, <1>8, <1>9, <1>10 DEF Next

\* The inductive invariant holds in every reachable state.
LEMMA SpecInv == Spec => []Inv
  BY InitInv, NextInv, PTL DEF Spec

\* The fields of the network and of its node objects keep their types, and
\* the node objects in memory are the current ones and the one in use.
THEOREM TypeCorrect == Spec => []TypeOK
<1>1. Inv => TypeOK
  BY DEF Inv
<1> QED
  BY <1>1, SpecInv, PTL

\* The readmission pass never dereferences a nil readmit time.
THEOREM ReadmissionIsSafe == Spec => []UnlistedHasReadmitTime
<1>1. Inv => UnlistedHasReadmitTime
  BY DEF Inv
<1> QED
  BY <1>1, SpecInv, PTL

\* No node is offered by _GetNode or _GetNodeAccountIDsForExecute while its
\* backoff lasts.
THEOREM NodesInBackoffAreNotOffered == Spec => []ListedIsOutOfBackoff
<1>1. Inv => ListedIsOutOfBackoff
  BY DEF Inv
<1> QED
  BY <1>1, SpecInv, PTL

\* _GetNodeForAccountID always answers with a current node of the account.
THEOREM LookupIsCurrent == Spec => []AccountLookupIsCurrent
<1>1. Inv => AccountLookupIsCurrent
  BY DEF Inv
<1> QED
  BY <1>1, SpecInv, PTL

\* _SetNetwork makes the nodes those of the map it is given, and nothing else
\* changes which hosts and accounts they stand for.
THEOREM NetworkIsApplied == Spec => []NodesAreAppliedNetwork
<1>1. Inv => NodesAreAppliedNetwork
  BY DEF Inv
<1> QED
  BY <1>1, SpecInv, PTL

-----------------------------------------------------------------------------
\* A SetNetwork leaves the nodes it keeps untouched.
THEOREM ReplacementLeavesKeptNodes == Spec => ReplacementPreservesNodes
<1> DEFINE Kept(net) ==
      \A o \in nodes : node[o].address \in DOMAIN net /\ net[node[o].address] = node[o].key
                      => o \in nodes' /\ node'[o] = node[o]
           Step == \A net \in Networks : SetNetwork(net) => Kept(net)
<1>1. Inv /\ [Next]_vars => [Step]_vars
  <2> SUFFICES ASSUME Inv, NEW net \in Networks, SetNetwork(net), NEW o \in nodes,
                      node[o].address \in DOMAIN net, net[node[o].address] = node[o].key
               PROVE  o \in nodes' /\ node'[o] = node[o]
    OBVIOUS
  <2>1. o \in nodes \ NodesToRemove(net) /\ o \in DOMAIN node
    BY DEF NodesToRemove, Inv, TypeOK
  <2> QED
    BY <2>1 DEF SetNetwork
<1> QED
  BY <1>1, SpecInv, PTL DEF Spec, ReplacementPreservesNodes

\* Whatever step lists an unlisted node, its backoff is over: readmission and
\* SetNetwork look at the readmit time, and nothing else lists an old object.
THEOREM UnlistedNodesServeBackoff == Spec => BackoffIsServed
<1> DEFINE Served == \A o \in healthyNodes' \cap (nodes \ healthyNodes) : node[o].readmitTime <= 0
<1>1. Inv /\ [Next]_vars => [Served]_vars
  <2> SUFFICES ASSUME Inv, Next, NEW o \in healthyNodes' \cap (nodes \ healthyNodes)
               PROVE  node[o].readmitTime <= 0
    OBVIOUS
  <2>1. node[o].readmitTime \in Instant /\ o \in DOMAIN node
    BY DEF Inv, TypeOK, UnlistedHasReadmitTime, NodeRecord
  <2>2. ASSUME NEW net \in Networks, SetNetwork(net)
        PROVE  node[o].readmitTime <= 0
    <3>1. o \in nodes \ NodesToRemove(net) => node'[o] = node[o]
      BY <2>1, <2>2 DEF SetNetwork
    <3>2. o \in nodes' /\ IsHealthy(node'[o])
      BY <2>2 DEF SetNetwork, HealthyOf
    <3>3. o \in nodes \ NodesToRemove(net)
      BY <2>1, <2>2, <3>2 DEF SetNetwork
    <3> QED
      BY <2>1, <3>1, <3>2, <3>3, NilAssumption DEF IsHealthy, Instant
  <2>3. ASSUME NEW tls \in BOOLEAN, SetTransportSecurity(tls)
        PROVE  FALSE
    BY <2>1, <2>3 DEF SetTransportSecurity, HealthyOf
  <2>4. CASE ReadmitNodesLocked
    BY <2>4 DEF ReadmitNodesLocked, Readmitted
  <2>5. CASE healthyNodes' \subseteq healthyNodes
    BY <2>5
  <2>6. ConfigurationCall =>
          \/ \E net \in Networks : SetNetwork(net)
          \/ \E tls \in BOOLEAN : SetTransportSecurity(tls)
          \/ healthyNodes' \subseteq healthyNodes
    BY DEF ConfigurationCall, Close, SetMinBackoff, SetMaxBackoff,
           SetMinNodeReadmitPeriod, SetMaxNodeReadmitPeriod
  <2> QED
    BY <2>2, <2>3, <2>4, <2>5, <2>6
    DEF Next, ReadmitNodes, GetNode, GetNodeForAccountID, GetChannel, IncreaseBackoff,
        DecreaseBackoff, Release, Tick
<1> QED
  BY <1>1, SpecInv, PTL DEF Spec, BackoffIsServed
-----------------------------------------------------------------------------
(* Waiting times *)

Bounded(t) == \E d \in Periods : t <= d

BoundedNode(n) ==
  /\ Bounded(n.currentBackoff) /\ Bounded(n.minBackoff) /\ Bounded(n.maxBackoff)
  /\ n.readmitTime # Nil => Bounded(n.readmitTime)

\* WaitIsBounded is not inductive: the bounds of a node come from the network, the
\* times from the bounds, and all of them stay within the periods.
WaitInv ==
  /\ Bounded(minBackoff) /\ Bounded(minNodeReadmitPeriod) /\ Bounded(maxNodeReadmitPeriod)
  /\ Bounded(earliestReadmitTime)
  /\ \A o \in DOMAIN node : BoundedNode(node[o])

\* What is configured, and what is less than something bounded, is bounded.
LEMMA BoundedBelow ==
  /\ \A d \in Durations : Bounded(d)
  /\ Bounded(0) /\ Bounded(MinDefault) /\ Bounded(MaxDefault)
  /\ \A t \in Int, u \in Int : Bounded(u) /\ t <= u => Bounded(t)
<1>1. Periods \subseteq Nat
  BY DurationAssumption DEF Periods
<1>2. \A d \in Periods : Bounded(d)
  BY <1>1 DEF Bounded
<1>3. \A t \in Int, u \in Int : Bounded(u) /\ t <= u => Bounded(t)
  BY <1>1 DEF Bounded
<1>4. Bounded(MaxDefault) /\ \A d \in Durations : Bounded(d)
  BY <1>2 DEF Periods
<1>5. Bounded(0) /\ Bounded(MinDefault)
  BY <1>3, <1>4, DurationAssumption
<1> QED
  BY <1>3, <1>4, <1>5

\* A node stays within the periods when it fails, answers, is switched, closed, or
\* grows older.
LEMMA BoundedNodes ==
  ASSUME NEW n \in NodeRecord, BoundedNode(n)
  PROVE  /\ BoundedNode(Failed(n))
         /\ BoundedNode(Answered(n))
         /\ BoundedNode(Closed(n))
         /\ \A tls \in BOOLEAN : BoundedNode(Switched(n, tls))
         /\ \A tls \in BOOLEAN : BoundedNode([n EXCEPT !.address = SwitchPort(@, tls)])
         /\ BoundedNode([n EXCEPT !.readmitTime = Earlier(@)])
<1>1. /\ n.currentBackoff \in Nat /\ n.minBackoff \in Nat /\ n.maxBackoff \in Nat
      /\ n.readmitTime # Nil => n.readmitTime \in Instant
  BY DEF NodeRecord
<1>2. Bounded(IncreasedBackoff(n)) /\ Bounded(DecreasedBackoff(n))
  <2>1. IncreasedBackoff(n) \in Nat /\ IncreasedBackoff(n) <= n.maxBackoff
    BY <1>1 DEF IncreasedBackoff
  <2>2. /\ DecreasedBackoff(n) \in Nat
        /\ DecreasedBackoff(n) = n.minBackoff \/ DecreasedBackoff(n) <= n.currentBackoff
    BY <1>1 DEF DecreasedBackoff
  <2> QED
    BY <1>1, <2>1, <2>2, BoundedBelow DEF BoundedNode
<1>3. BoundedNode(Failed(n)) /\ BoundedNode(Answered(n))
  BY <1>2 DEF BoundedNode, Failed, Answered, NodeRecord
<1>4. BoundedNode(Closed(n))
  BY DEF BoundedNode, Closed, NodeRecord
<1>5. ASSUME NEW tls \in BOOLEAN
      PROVE  BoundedNode(Switched(n, tls)) /\ BoundedNode([n EXCEPT !.address = SwitchPort(@, tls)])
  BY BoundedBelow DEF BoundedNode, Switched, NodeRecord
<1>6. BoundedNode([n EXCEPT !.readmitTime = Earlier(@)])
  <2>1. n.readmitTime # Nil => Earlier(n.readmitTime) \in Int /\ Earlier(n.readmitTime) <= n.readmitTime
    BY <1>1 DEF Earlier, Instant
  <2>2. n.readmitTime # Nil => Bounded(Earlier(n.readmitTime))
    BY <1>1, <2>1, BoundedBelow DEF BoundedNode, Instant
  <2>3. n.readmitTime = Nil => Earlier(n.readmitTime) = Nil
    BY DEF Earlier
  <2> QED
    BY <2>2, <2>3 DEF BoundedNode, NodeRecord
<1> QED
  BY <1>3, <1>4, <1>5, <1>6

\* The next readmission pass is due within the periods.
LEMMA NextPassBounded ==
  ASSUME Inv, WaitInv, ReadmitNodesLocked
  PROVE  Bounded(earliestReadmitTime')
<1>1. CASE earliestReadmitTime > 0
  BY <1>1 DEF ReadmitNodesLocked, WaitInv
<1>2. CASE ~(earliestReadmitTime > 0)
  <2>1. PICK next \in NextPass :
          earliestReadmitTime' = IF next < minNodeReadmitPeriod THEN minNodeReadmitPeriod ELSE next
    BY <1>2 DEF ReadmitNodesLocked
  <2>2. next \in Nat /\ next <= maxNodeReadmitPeriod
    BY DEF NextPass, Inv, TypeOK
  <2> QED
    BY <2>1, <2>2, BoundedBelow DEF WaitInv, Inv, TypeOK
<1> QED
  BY <1>1, <1>2

\* No step leaves the periods.
LEMMA NextWait ==
  ASSUME Inv, WaitInv, [Next]_vars
  PROVE  WaitInv'
<1> DEFINE Nodes == \A o \in DOMAIN node : BoundedNode(node[o])
<1>1. \A o \in DOMAIN node : node[o] \in NodeRecord /\ BoundedNode(node[o])
  BY DEF Inv, TypeOK, WaitInv
<1>2. ASSUME NEW net \in Networks, SetNetwork(net)
      PROVE  WaitInv'
  <2>1. ASSUME NEW a \in DOMAIN net PROVE BoundedNode(NewNode(a, net[a]))
    BY BoundedBelow DEF WaitInv, BoundedNode, NewNode
  <2>2. Nodes'
    <3>1. PICK fresh, addr :
            /\ fresh \in SUBSET (NodeObj \ DOMAIN node)
            /\ addr \in Bijection(fresh, AddressesToAdd(net, nodes \ NodesToRemove(net)))
            /\ nodes' = (nodes \ NodesToRemove(net)) \cup fresh
            /\ node' = [o \in nodes' \cup Held(inUse) |->
                          IF o \in fresh THEN NewNode(addr[o], net[addr[o]])
                          ELSE IF o \in NodesToRemove(net) THEN Closed(node[o])
                          ELSE node[o]]
      BY <1>2 DEF SetNetwork
    <3>2. ASSUME NEW o \in fresh PROVE addr[o] \in DOMAIN net
      BY <3>1 DEF Bijection, Injection, AddressesToAdd
    <3>3. ASSUME NEW o \in DOMAIN node', o \notin fresh PROVE o \in DOMAIN node
      BY <3>1, <3>3 DEF Inv, TypeOK
    <3>4. ASSUME NEW o \in DOMAIN node' PROVE BoundedNode(node'[o])
      <4>1. CASE o \in fresh
        BY <2>1, <3>1, <3>2, <4>1
      <4>2. CASE o \notin fresh
        BY <1>1, <3>1, <3>3, <4>2, BoundedNodes
      <4> QED
        BY <4>1, <4>2
    <3> QED
      BY <3>4
  <2> QED
    BY <1>2, <2>2 DEF SetNetwork, WaitInv, config
<1>3. \A o \in DOMAIN node : CloseListed[o] \in NodeRecord /\ BoundedNode(CloseListed[o])
  BY <1>1, CloseListedType, BoundedNodes DEF CloseListed, Inv, TypeOK
<1>4. ASSUME NEW tls \in BOOLEAN, SetTransportSecurity(tls)
      PROVE  WaitInv'
  <2>1. PICK fresh, orig :
          /\ fresh \in SUBSET (NodeObj \ DOMAIN node) /\ orig \in Bijection(fresh, nodes)
          /\ node' = [o \in fresh \cup Held(inUse) |->
                        IF o \in fresh THEN Switched(CloseListed[orig[o]], tls)
                        ELSE IF o \in nodes
                          THEN [CloseListed[o] EXCEPT !.address = SwitchPort(@, tls)]
                          ELSE node[o]]
    BY <1>4 DEF SetTransportSecurity
  <2>2. ASSUME NEW o \in fresh PROVE orig[o] \in DOMAIN node
    BY <2>1 DEF Bijection, Injection, Inv, TypeOK
  <2>3. ASSUME NEW o \in DOMAIN node' PROVE BoundedNode(node'[o])
    <3>1. CASE o \in fresh
      BY <1>3, <2>1, <2>2, <3>1, BoundedNodes
    <3>2. CASE o \notin fresh
      <4>1. o \in DOMAIN node
        BY <2>1, <3>2 DEF Inv, TypeOK
      <4> QED
        BY <1>1, <1>3, <2>1, <3>2, <4>1, BoundedNodes
    <3> QED
      BY <3>1, <3>2
  <2> QED
    BY <1>4, <2>3 DEF SetTransportSecurity, WaitInv
<1>5. CASE Close
  BY <1>3, <1>5 DEF Close, CloseListed, WaitInv, config
<1>6. ASSUME NEW d \in Durations, SetMinBackoff(d) \/ SetMaxBackoff(d)
      PROVE  WaitInv'
  <2>1. ASSUME NEW o \in DOMAIN node
        PROVE  BoundedNode([node[o] EXCEPT !.minBackoff = d]) /\ BoundedNode([node[o] EXCEPT !.maxBackoff = d])
    BY <1>1, BoundedBelow DEF BoundedNode, NodeRecord
  <2> QED
    BY <1>1, <1>6, <2>1, BoundedBelow DEF SetMinBackoff, SetMaxBackoff, WaitInv
<1>7. ASSUME NEW d \in Durations, SetMinNodeReadmitPeriod(d) \/ SetMaxNodeReadmitPeriod(d)
      PROVE  WaitInv'
  BY <1>7, BoundedBelow DEF SetMinNodeReadmitPeriod, SetMaxNodeReadmitPeriod, WaitInv
<1>8. CASE ReadmitNodes \/ GetNode
  BY <1>8, NextPassBounded DEF ReadmitNodes, GetNode, WaitInv, config
<1>9. CASE (\E id \in AccountID : GetNodeForAccountID(id)) \/ UNCHANGED vars
  BY <1>9 DEF GetNodeForAccountID, WaitInv, config, vars
<1>10. CASE GetChannel
  <2>1. \A o \in DOMAIN node : BoundedNode(node'[o])
    BY <1>1, <1>10 DEF GetChannel, BoundedNode, NodeRecord
  <2> QED
    BY <1>10, <2>1 DEF GetChannel, WaitInv, config
<1>11. ASSUME NEW rec \in NodeRecord, BoundedNode(rec), inUse # Nil,
              Drop([node EXCEPT ![inUse] = rec]), UNCHANGED <<nodes, config, earliestReadmitTime>>
       PROVE  WaitInv'
  <2>1. \A o \in DOMAIN node' : BoundedNode(node'[o])
    BY <1>1, <1>11 DEF Drop, Restrict, Inv, TypeOK
  <2> QED
    BY <1>11, <2>1 DEF WaitInv, config
<1>12. CASE IncreaseBackoff
  <2>1. node[inUse] \in NodeRecord /\ inUse \in DOMAIN node
    BY <1>12, InUseRecord DEF IncreaseBackoff
  <2>2. Failed(node[inUse]) \in NodeRecord
    BY <2>1, FailedType
  <2> QED
    BY <1>1, <1>11, <1>12, <2>1, <2>2, BoundedNodes DEF IncreaseBackoff
<1>13. CASE DecreaseBackoff
  <2>1. node[inUse] \in NodeRecord /\ inUse \in DOMAIN node
    BY <1>13, InUseRecord DEF DecreaseBackoff
  <2>2. Answered(node[inUse]) \in NodeRecord
    BY <2>1, BackoffType DEF Answered, NodeRecord
  <2> QED
    BY <1>1, <1>11, <1>13, <2>1, <2>2, BoundedNodes DEF DecreaseBackoff
<1>14. CASE Release
  <2>1. \A o \in DOMAIN node' : BoundedNode(node'[o])
    BY <1>1, <1>14 DEF Release, Drop, Restrict, Inv, TypeOK
  <2> QED
    BY <1>14, <2>1 DEF Release, WaitInv, config
<1>15. CASE Tick
  <2>1. Bounded(earliestReadmitTime')
    <3>1. earliestReadmitTime' \in Int /\ earliestReadmitTime' <= earliestReadmitTime
      BY <1>15, NilAssumption DEF Tick, Earlier, Inv, TypeOK, Instant
    <3> QED
      BY <3>1, BoundedBelow DEF WaitInv, Inv, TypeOK, Instant
  <2>2. \A o \in DOMAIN node' : BoundedNode(node'[o])
    BY <1>1, <1>15, BoundedNodes DEF Tick
  <2> QED
    BY <1>15, <2>1, <2>2 DEF Tick, WaitInv, config
<1> QED
  BY <1>2, <1>4, <1>5, <1>6, <1>7, <1>8, <1>9, <1>10, <1>12, <1>13, <1>14, <1>15
  DEF Next, ConfigurationCall

\* However failures, passes, setters and switches interleave, no node waits and no
\* readmission pass is put off for longer than a period that was configured.
THEOREM WaitingIsBounded == Spec => []WaitIsBounded
<1>1. Init => WaitInv
  BY BoundedBelow, DurationAssumption DEF Init, EmptyMap, WaitInv
<1>2. Inv /\ WaitInv => WaitIsBounded
  <2> SUFFICES ASSUME Inv, WaitInv, NEW o \in DOMAIN node
               PROVE  \E d \in Periods :
                        /\ node[o].currentBackoff <= d
                        /\ node[o].readmitTime # Nil => node[o].readmitTime <= d
    BY DEF WaitIsBounded, WaitInv, Bounded
  <2>1. node[o] \in NodeRecord /\ BoundedNode(node[o]) /\ Periods \subseteq Nat
    BY DurationAssumption DEF Inv, TypeOK, WaitInv, Periods
  <2>2. PICK c \in Periods : node[o].currentBackoff <= c
    BY <2>1 DEF BoundedNode, Bounded
  <2>3. CASE node[o].readmitTime = Nil
    BY <2>2, <2>3
  <2>4. CASE node[o].readmitTime # Nil
    <3>1. PICK d \in Periods : node[o].readmitTime <= d
      BY <2>1, <2>4 DEF BoundedNode, Bounded
    <3>2. node[o].currentBackoff \in Nat /\ node[o].readmitTime \in Instant
      BY <2>1, <2>4 DEF NodeRecord
    <3>3. CASE c <= d
      BY <2>1, <2>2, <3>1, <3>2, <3>3
    <3>4. CASE d <= c
      BY <2>1, <2>2, <3>1, <3>2, <3>4 DEF Instant
    <3> QED
      BY <2>1, <3>3, <3>4
  <2> QED
    BY <2>3, <2>4
<1> QED
  BY <1>1, <1>2, NextWait, SpecInv, PTL DEF Spec
=============================================================================
