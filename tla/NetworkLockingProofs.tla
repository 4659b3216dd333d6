------------------------ MODULE NetworkLockingProofs ------------------------
(***************************************************************************)
(* What the mutex of the healthy list achieves, for any number of nodes    *)
(* and of concurrent requests: outside the locked parts no entry is lost   *)
(* or duplicated and no listed node is in backoff, and the locked parts    *)
(* together implement HealthyList.                                         *)
(***************************************************************************)
EXTENDS NetworkLocking, FiniteSetTheorems, TLAPS

Labels == {"absent", "idle", "lock", "readmit", "publish", "leave", "count", "copy",
           "mark", "remove", "dead", "nodes", "network", "list"}

\* The parts of the methods that run under the mutex.
Locked(r) == pc[r] \in {"readmit", "publish", "leave", "mark", "remove"}

Types ==
  /\ nodes \subseteq NodeObj
  /\ healthyNodes \in Seq(NodeObj)
  /\ readmitTime \in [NodeObj -> {"nil", "waiting", "over"}]
  /\ op \in [Request -> Methods]
  /\ held \in [Request -> NodeObj \cup {Nil}]
  /\ snapshot \in [Request -> Seq(NodeObj)]
  /\ number \in [Request -> Nat]

\* The mutex is held by whoever is in a locked part.
Exclusion == \A r \in Request : Locked(r) => mutex = r

\* A request that marks a node has one.
Holds ==
  \A r \in Request :
    /\ pc[r] \in {"mark", "remove"} => held[r] # Nil
    /\ pc[r] = "lock" /\ op[r] = "IncreaseBackoff" => held[r] # Nil

\* What Mark has found is what RemoveEntry removes, a node with a readmit time.
Found ==
  \A r \in Request : pc[r] = "remove" =>
    /\ IF number[r] \in DOMAIN healthyNodes THEN healthyNodes[number[r]] = held[r]
       ELSE held[r] \notin ToSet(healthyNodes)
    /\ readmitTime[held[r]] # "nil"

\* A list that is about to be assigned has the present one and nodes readmitted.
Snapshot ==
  \A r \in Request : pc[r] = "publish" =>
    /\ IsInjective(snapshot[r])
    /\ ToSet(healthyNodes) \subseteq ToSet(snapshot[r])
    /\ \A n \in ToSet(snapshot[r]) \ ToSet(healthyNodes) : n \in nodes /\ readmitTime[n] = "over"

\* At every moment, the locked parts included.
ListInv ==
  /\ IsInjective(healthyNodes)
  /\ \A n \in Unlisted : readmitTime[n] # "nil"
  /\ \A n \in Listed : readmitTime[n] # "waiting"

Core == Types /\ Exclusion /\ Holds /\ Found /\ Snapshot /\ ListInv

\* The inductive invariant.
Inv ==
  /\ pc \in [Request \cup Updater -> Labels]
  /\ NoReplacement => Core
-----------------------------------------------------------------------------
(* Lists *)

\* SetToSeq lists every element of a finite set once.
LEMMA SetToSeqLists ==
  ASSUME NEW S, IsFiniteSet(S)
  PROVE  /\ SetToSeq(S) \in Seq(S)
         /\ IsInjective(SetToSeq(S))
         /\ ToSet(SetToSeq(S)) = S
<1> DEFINE n == Cardinality(S)
           f == SetToSeq(S)
<1>1. n \in Nat /\ ExistsBijection(1..n, S)
  BY FS_CardinalityType
<1>2. \E g \in [1..n -> S] : IsInjective(g)
  BY <1>1 DEF ExistsBijection, Bijection, Injection, IsInjective
<1>3. f \in [1..n -> S] /\ IsInjective(f)
  BY <1>2 DEF SetToSeq
<1>4. f \in Injection(1..n, S)
  BY <1>3 DEF Injection
<1>5. f \in Surjection(1..n, S)
  <2>1. IsFiniteSet(1..n) /\ Cardinality(1..n) = n
    BY <1>1, FS_Interval
  <2> QED
    BY <1>4, <2>1, FS_Injection
<1>6. \A x \in S : \E i \in 1..n : f[i] = x
  BY <1>5 DEF Surjection
<1>7. f \in Seq(S)
  BY <1>1, <1>3
<1>8. ToSet(f) = S
  BY <1>3, <1>6 DEF ToSet
<1> QED
  BY <1>3, <1>7, <1>8

\* Putting two lists without common entries together.
LEMMA ConcatLists ==
  ASSUME NEW S, NEW s \in Seq(S), NEW t \in Seq(S), IsInjective(s), IsInjective(t),
         ToSet(s) \cap ToSet(t) = {}
  PROVE  /\ s \o t \in Seq(S)
         /\ IsInjective(s \o t)
         /\ ToSet(s \o t) = ToSet(s) \cup ToSet(t)
<1> DEFINE u == s \o t
<1>1. /\ u \in Seq(S) /\ Len(u) = Len(s) + Len(t)
      /\ \A i \in 1..Len(u) : u[i] = IF i <= Len(s) THEN s[i] ELSE t[i - Len(s)]
  OBVIOUS
<1>2. Len(s) \in Nat /\ Len(t) \in Nat /\ DOMAIN s = 1..Len(s) /\ DOMAIN t = 1..Len(t)
      /\ DOMAIN u = 1..(Len(s) + Len(t))
  BY <1>1
<1>3. IsInjective(u)
  <2> SUFFICES ASSUME NEW i \in DOMAIN u, NEW j \in DOMAIN u, u[i] = u[j] PROVE i = j
    BY DEF IsInjective
  <2>1. CASE i <= Len(s) /\ j <= Len(s)
    BY <1>1, <1>2, <2>1 DEF IsInjective
  <2>2. CASE ~(i <= Len(s)) /\ ~(j <= Len(s))
    <3>1. i - Len(s) \in DOMAIN t /\ j - Len(s) \in DOMAIN t /\ t[i - Len(s)] = t[j - Len(s)]
      BY <1>1, <1>2, <2>2
    <3>2. i - Len(s) = j - Len(s)
      BY <3>1 DEF IsInjective
    <3> QED
      BY <1>2, <3>2
  <2>3. CASE i <= Len(s) /\ ~(j <= Len(s))
    <3>1. j - Len(s) \in DOMAIN t /\ i \in DOMAIN s /\ s[i] = t[j - Len(s)]
      BY <1>1, <1>2, <2>3
    <3> QED
      BY <3>1 DEF ToSet
  <2>4. CASE ~(i <= Len(s)) /\ j <= Len(s)
    <3>1. i - Len(s) \in DOMAIN t /\ j \in DOMAIN s /\ s[j] = t[i - Len(s)]
      BY <1>1, <1>2, <2>4
    <3> QED
      BY <3>1 DEF ToSet
  <2> QED
    BY <2>1, <2>2, <2>3, <2>4
<1>4. ToSet(u) \subseteq ToSet(s) \cup ToSet(t)
  <2> SUFFICES ASSUME NEW i \in DOMAIN u PROVE u[i] \in ToSet(s) \cup ToSet(t)
    BY DEF ToSet
  <2>1. i \in DOMAIN s \/ i - Len(s) \in DOMAIN t
    BY <1>2
  <2> QED
    BY <1>1, <1>2, <2>1 DEF ToSet
<1>5. ToSet(s) \subseteq ToSet(u)
  BY <1>1, <1>2 DEF ToSet
<1>6. ToSet(t) \subseteq ToSet(u)
  <2> SUFFICES ASSUME NEW i \in DOMAIN t PROVE t[i] \in ToSet(u)
    BY DEF ToSet
  <2>1. i + Len(s) \in DOMAIN u /\ u[i + Len(s)] = t[i]
    BY <1>1, <1>2
  <2> QED
    BY <2>1 DEF ToSet
<1> QED
  BY <1>1, <1>3, <1>4, <1>5, <1>6

\* Taking one entry off a list without duplicates.
LEMMA RemoveLists ==
  ASSUME NEW S, NEW s \in Seq(S), IsInjective(s), NEW k \in DOMAIN s
  PROVE  /\ RemoveAt(s, k) \in Seq(S)
         /\ IsInjective(RemoveAt(s, k))
         /\ ToSet(RemoveAt(s, k)) = ToSet(s) \ {s[k]}
<1> DEFINE a == SubSeq(s, 1, k - 1)
           b == SubSeq(s, k + 1, Len(s))
<1>1. Len(s) \in Nat /\ DOMAIN s = 1..Len(s) /\ k \in 1..Len(s)
  OBVIOUS
<1>2. /\ a \in Seq(S) /\ Len(a) = k - 1
      /\ \A i \in 1..(k - 1) : a[i] = s[i]
  BY <1>1
<1>3. /\ b \in Seq(S) /\ Len(b) = Len(s) - k
      /\ \A i \in 1..(Len(s) - k) : b[i] = s[k + i]
  BY <1>1
<1> HIDE DEF a, b
<1>4. DOMAIN a = 1..(k - 1) /\ DOMAIN b = 1..(Len(s) - k)
  BY <1>2, <1>3
<1>5. IsInjective(a)
  BY <1>1, <1>2, <1>4 DEF IsInjective
<1>6. IsInjective(b)
  <2> SUFFICES ASSUME NEW i \in DOMAIN b, NEW j \in DOMAIN b, b[i] = b[j] PROVE i = j
    BY DEF IsInjective
  <2>1. k + i \in DOMAIN s /\ k + j \in DOMAIN s /\ s[k + i] = s[k + j]
    BY <1>1, <1>3, <1>4
  <2>2. k + i = k + j
    BY <2>1 DEF IsInjective
  <2> QED
    BY <1>1, <1>4, <2>2
<1>7. ASSUME NEW i \in DOMAIN a PROVE i \in DOMAIN s /\ i < k /\ a[i] = s[i]
  BY <1>1, <1>2, <1>4
<1>8. ASSUME NEW i \in DOMAIN b PROVE k + i \in DOMAIN s /\ k + i > k /\ b[i] = s[k + i]
  BY <1>1, <1>3, <1>4
<1>9. ToSet(a) \cap ToSet(b) = {}
  <2> SUFFICES ASSUME NEW i \in DOMAIN a, NEW j \in DOMAIN b, a[i] = b[j] PROVE FALSE
    BY DEF ToSet
  <2>1. i = k + j
    BY <1>7, <1>8 DEF IsInjective
  <2> QED
    BY <1>1, <1>7, <1>8, <2>1
<1>10. ToSet(a) \cup ToSet(b) = ToSet(s) \ {s[k]}
  <2>1. ASSUME NEW i \in DOMAIN a PROVE a[i] \in ToSet(s) \ {s[k]}
    <3>1. i # k
      BY <1>1, <1>7
    <3> QED
      BY <1>7, <3>1 DEF ToSet, IsInjective
  <2>2. ASSUME NEW i \in DOMAIN b PROVE b[i] \in ToSet(s) \ {s[k]}
    <3>1. k + i # k
      BY <1>1, <1>8
    <3> QED
      BY <1>8, <3>1 DEF ToSet, IsInjective
  <2>3. ASSUME NEW i \in DOMAIN s, s[i] # s[k] PROVE s[i] \in ToSet(a) \cup ToSet(b)
    <3>1. CASE i < k
      BY <1>1, <1>2, <1>4, <3>1 DEF ToSet
    <3>2. CASE i > k
      <4>1. PICK j \in 1..(Len(s) - k) : k + j = i
        <5>1. i - k \in 1..(Len(s) - k) /\ k + (i - k) = i
          BY <1>1, <3>2
        <5> QED
          BY <5>1
      <4>2. j \in DOMAIN b /\ b[j] = s[i]
        BY <1>3, <1>4, <4>1
      <4> QED
        BY <4>2 DEF ToSet
    <3> QED
      BY <1>1, <2>3, <3>1, <3>2
  <2> QED
    BY <2>1, <2>2, <2>3 DEF ToSet
<1>11. RemoveAt(s, k) = a \o b
  BY DEF RemoveAt, a, b
<1> QED
  BY <1>2, <1>3, <1>5, <1>6, <1>9, <1>10, <1>11, ConcatLists

\* The index that _IncreaseBackoff looks up.
LEMMA SelectFinds ==
  ASSUME NEW S, NEW s \in Seq(S), IsInjective(s), NEW x
  PROVE  LET I == {i \in 1..Len(s) : s[i] = x}
             k == IF I # {} THEN Min(I) ELSE 0
         IN /\ k \in Nat
            /\ IF k \in DOMAIN s THEN s[k] = x ELSE x \notin ToSet(s)
<1> DEFINE I == {i \in 1..Len(s) : s[i] = x}
           k == IF I # {} THEN Min(I) ELSE 0
<1>1. Len(s) \in Nat /\ DOMAIN s = 1..Len(s)
  OBVIOUS
<1>2. CASE I = {}
  <2>1. k = 0
    BY <1>2
  <2>2. x \notin ToSet(s)
    BY <1>1, <1>2 DEF ToSet
  <2> QED
    BY <1>1, <2>1, <2>2
<1>3. CASE I # {}
  <2>1. PICK m \in I : \A j \in I : j = m
    BY <1>1, <1>3 DEF IsInjective
  <2>2. Min(I) \in I
    BY <2>1 DEF Min
  <2>3. k \in I
    BY <1>3, <2>2
  <2> QED
    BY <1>1, <2>3
<1> QED
  BY <1>2, <1>3
-----------------------------------------------------------------------------
(* The invariant *)

\* In the beginning every node is listed and nobody is in a method.
LEMMA InitInv == Init => Inv
<1> SUFFICES ASSUME Init PROVE Inv
  OBVIOUS
<1>1. PICK s \in Scenarios :
        /\ nodes = s.nodes
        /\ pc = [p \in Request \cup Updater |-> IF p \in s.goroutines THEN "idle" ELSE "absent"]
  BY DEF Init
<1>2. nodes \subseteq NodeObj /\ IsFiniteSet(nodes)
  BY <1>1, ScenariosAssumption, FiniteAssumption, FS_Subset
<1>3. healthyNodes \in Seq(nodes) /\ IsInjective(healthyNodes) /\ ToSet(healthyNodes) = nodes
  BY <1>2, SetToSeqLists DEF Init
<1>4. pc \in [Request \cup Updater -> {"idle", "absent"}]
  BY <1>1
<1>5. Types
  <2>1. healthyNodes \in Seq(NodeObj)
    BY <1>2, <1>3
  <2> QED
    BY <1>2, <2>1 DEF Init, Types, Methods
<1>6. Exclusion /\ Holds /\ Found /\ Snapshot
  BY <1>4 DEF Exclusion, Locked, Holds, Found, Snapshot
<1>7. ListInv
  <2>1. Unlisted = {} /\ Listed \subseteq nodes
    BY <1>3 DEF Unlisted, Listed
  <2> QED
    BY <1>2, <1>3, <2>1 DEF ListInv, Init
<1> QED
  BY <1>4, <1>5, <1>6, <1>7 DEF Inv, Core, Labels

\* A step moves at most one goroutine, and only one that is at work.
LEMMA OneMoves ==
  ASSUME [Next]_vars
  PROVE  \/ pc' = pc
         \/ \E p \in Request \cup Updater, label \in Labels \ {"absent"} :
              pc[p] # "absent" /\ pc' = [pc EXCEPT ![p] = label]
<1> DEFINE Moves(p) ==
      \E label \in Labels \ {"absent"} : pc[p] # "absent" /\ pc' = [pc EXCEPT ![p] = label]
<1>1. ASSUME NEW r \in Request, Call(r) \/ Lock(r) \/ Publish(r) \/ Leave(r) \/ Count(r) \/ Copy(r)
      PROVE  Moves(r)
  BY <1>1 DEF Call, Lock, Publish, Leave, Count, Copy, Goto, Labels
<1>2. ASSUME NEW r \in Request, Readmit(r) \/ Mark(r) \/ RemoveEntry(r)
      PROVE  Moves(r)
  BY <1>2 DEF Readmit, Mark, RemoveEntry, Goto, Labels, SelectInSeq
<1>3. ASSUME NEW u \in Updater, Prepare(u) \/ UpdaterStep(u)
      PROVE  Moves(u)
  BY <1>3 DEF Prepare, UpdaterStep, AssignNodes, AssignNetwork, AssignList, Goto, Labels
<1>4. ASSUME NEW r \in Request, Release(r) PROVE pc' = pc
  BY <1>4 DEF Release
<1>5. ASSUME NEW n \in NodeObj, Elapse(n) PROVE pc' = pc
  BY <1>5 DEF Elapse, local
<1>6. CASE UNCHANGED vars
  BY <1>6 DEF vars, local
<1> QED
  BY <1>1, <1>2, <1>3, <1>4, <1>5, <1>6 DEF Next, RequestStep

\* Goroutines that replace the network do not come or go.
LEMMA ReplacementStays ==
  ASSUME pc \in [Request \cup Updater -> Labels], [Next]_vars
  PROVE  /\ pc' \in [Request \cup Updater -> Labels]
         /\ NoReplacement' <=> NoReplacement
<1>1. pc' \in [Request \cup Updater -> Labels]
  BY OneMoves
<1>2. ASSUME NEW u \in Updater PROVE pc'[u] = "absent" <=> pc[u] = "absent"
  BY OneMoves
<1>3. NoReplacement' <=> \A u \in Updater : pc'[u] = "absent"
  BY DEF NoReplacement
<1> QED
  BY <1>1, <1>2, <1>3 DEF NoReplacement

\* Two goroutines are never in locked parts at the same time.
LEMMA Alone ==
  ASSUME Exclusion, NEW r \in Request, Locked(r), NEW q \in Request, q # r
  PROVE  ~Locked(q)
BY DEF Exclusion

\* Steps that leave the nodes, the list and the readmit times alone.
LEMMA QuietStep ==
  ASSUME pc \in [Request \cup Updater -> Labels], Core, NEW r \in Request,
         Call(r) \/ Release(r) \/ Lock(r) \/ Leave(r) \/ Count(r) \/ Copy(r)
  PROVE  Core'
<1> USE DEF Core
<1>0. UNCHANGED <<nodes, healthyNodes, readmitTime, snapshot>>
  BY DEF Call, Release, Lock, Leave, Count, Copy, shared
<1>1. Types'
  <2>1. op' \in [Request -> Methods]
    BY DEF Types, Call, Release, Lock, Leave, Count, Copy
  <2>2. held' \in [Request -> NodeObj \cup {Nil}]
    <3>1. CASE Leave(r)
      <4>1. ToSet(healthyNodes) \subseteq NodeObj
        BY DEF Types, ToSet
      <4> QED
        BY <3>1, <4>1 DEF Types, Leave
    <3> QED
      BY <3>1 DEF Types, Call, Release, Lock, Count, Copy
  <2>3. number' \in [Request -> Nat]
    <3>1. Len(healthyNodes) \in Nat
      BY DEF Types
    <3>2. CASE Count(r)
      BY <3>1, <3>2, Zenon DEF Types, Count
    <3>3. CASE Copy(r)
      BY <3>3 DEF Types, Copy
    <3> QED
      BY <3>2, <3>3 DEF Types, Call, Release, Lock, Leave
  <2> QED
    BY <1>0, <2>1, <2>2, <2>3 DEF Types
<1>2. Exclusion'
  <2>1. CASE Call(r) \/ Release(r) \/ Count(r) \/ Copy(r)
    BY <2>1 DEF Exclusion, Locked, Call, Release, Count, Copy, Goto, shared
  <2>2. CASE Lock(r)
    BY <2>2, NilAssumption DEF Exclusion, Locked, Lock, Goto
  <2>3. CASE Leave(r)
    BY <2>3, NilAssumption DEF Exclusion, Locked, Leave, Goto
  <2> QED
    BY <2>1, <2>2, <2>3
<1>3. Holds'
  <2>1. CASE Call(r)
    BY <2>1 DEF Types, Holds, Call, Goto
  <2>2. CASE Release(r) \/ Lock(r)
    BY <2>2 DEF Types, Holds, Release, Lock, Goto
  <2>3. CASE Leave(r)
    BY <2>3 DEF Types, Holds, Leave, Goto
  <2>4. CASE Count(r) \/ Copy(r)
    BY <2>4 DEF Types, Holds, Count, Copy, Goto
  <2> QED
    BY <2>1, <2>2, <2>3, <2>4
<1>4. ASSUME NEW q \in Request
      PROVE  /\ pc'[q] = "remove" <=> pc[q] = "remove"
             /\ pc'[q] = "publish" <=> pc[q] = "publish"
             /\ pc[q] = "remove" => held'[q] = held[q] /\ number'[q] = number[q]
  <2>1. CASE Call(r) \/ Release(r) \/ Lock(r)
    BY <2>1 DEF Types, Call, Release, Lock, Goto
  <2>2. CASE Leave(r)
    BY <2>2 DEF Types, Leave, Goto
  <2>3. CASE Count(r) \/ Copy(r)
    BY <2>3 DEF Types, Count, Copy, Goto
  <2> QED
    BY <2>1, <2>2, <2>3
<1>5. Found'
  BY <1>0, <1>4 DEF Found
<1>6. Snapshot'
  BY <1>0, <1>4 DEF Snapshot
<1>7. ListInv'
  <2>1. Listed' = Listed
    BY <1>0, <1>4 DEF Listed
  <2>2. Unlisted' = Unlisted
    BY <1>0 DEF Unlisted
  <2> QED
    BY <1>0, <2>1, <2>2 DEF ListInv
<1> QED
  BY <1>1, <1>2, <1>3, <1>5, <1>6, <1>7

\* A readmission pass prepares the list with what has served its backoff; the
\* panic for a nil readmit time does not happen.
LEMMA ReadmitStep ==
  ASSUME pc \in [Request \cup Updater -> Labels], Core, NEW r \in Request, Readmit(r)
  PROVE  Core'
<1> USE DEF Core
<1> DEFINE over == {n \in Unlisted : readmitTime[n] = "over"}
<1>1. \/ Goto(r, "leave") /\ UNCHANGED snapshot
      \/ /\ snapshot' = [snapshot EXCEPT ![r] = healthyNodes \o SetToSeq(over)]
         /\ Goto(r, "publish")
  BY DEF Readmit, ListInv
<1>2. /\ pc[r] = "readmit"
      /\ UNCHANGED <<nodes, healthyNodes, readmitTime, mutex, op, held, number>>
  BY DEF Readmit, ListInv, shared
<1>3. /\ SetToSeq(over) \in Seq(over) /\ IsInjective(SetToSeq(over)) /\ ToSet(SetToSeq(over)) = over
      /\ over \subseteq NodeObj
  <2>1. over \subseteq NodeObj
    BY DEF Unlisted, Types
  <2>2. IsFiniteSet(over)
    BY <2>1, FiniteAssumption, FS_Subset
  <2> HIDE DEF over
  <2> QED
    BY <2>1, <2>2, SetToSeqLists
<1>4. LET l == healthyNodes \o SetToSeq(over) IN
        l \in Seq(NodeObj) /\ IsInjective(l) /\ ToSet(l) = ToSet(healthyNodes) \cup over
  <2>1. SetToSeq(over) \in Seq(NodeObj)
    <3> HIDE DEF over
    <3> QED
      BY <1>3
  <2>2. ToSet(healthyNodes) \cap ToSet(SetToSeq(over)) = {}
    <3>1. ToSet(healthyNodes) \cap over = {}
      BY DEF Unlisted
    <3> QED
      BY <1>3, <3>1
  <2> HIDE DEF over
  <2> QED
    BY <1>3, <2>1, <2>2, ConcatLists DEF Types, ListInv
<1>5. \A n \in over : n \in nodes /\ readmitTime[n] = "over"
  BY DEF Unlisted
<1> HIDE DEF over
<1>6. ASSUME NEW q \in Request, q # r PROVE pc'[q] = pc[q] /\ snapshot'[q] = snapshot[q]
  BY <1>1, <1>6 DEF Goto, Types
<1>7. pc'[r] \in {"leave", "publish"}
  BY <1>1 DEF Goto
<1>8. Types'
  BY <1>1, <1>2, <1>4 DEF Types
<1>9. Exclusion'
  BY <1>2, <1>6, <1>7 DEF Exclusion, Locked
<1>10. Holds'
  BY <1>2, <1>6, <1>7 DEF Holds
<1>11. Found'
  BY <1>2, <1>6, <1>7 DEF Found
<1>12. Snapshot'
  <2>1. ASSUME pc'[r] = "publish"
        PROVE  /\ IsInjective(snapshot'[r])
               /\ ToSet(snapshot'[r]) = ToSet(healthyNodes) \cup over
    BY <1>1, <1>4, <2>1 DEF Goto, Types
  <2> QED
    BY <1>2, <1>5, <1>6, <2>1 DEF Snapshot
<1>13. ListInv'
  <2>1. Listed' = Listed
    BY <1>2, <1>6, <1>7 DEF Listed
  <2> QED
    BY <1>2, <2>1 DEF ListInv, Unlisted
<1> QED
  BY <1>8, <1>9, <1>10, <1>11, <1>12, <1>13

\* The prepared list takes the place of the list it was prepared from.
LEMMA PublishStep ==
  ASSUME pc \in [Request \cup Updater -> Labels], Core, NEW r \in Request, Publish(r)
  PROVE  /\ Core'
         /\ Listed = ToSet(healthyNodes) /\ Listed' = ToSet(snapshot[r])
<1> USE DEF Core
<1>1. /\ pc[r] = "publish" /\ healthyNodes' = snapshot[r]
      /\ UNCHANGED <<nodes, readmitTime, mutex, op, held, number>>
  BY DEF Publish
<1>2. pc'[r] = "leave" /\ \A q \in Request : q # r => pc'[q] = pc[q] /\ ~Locked(q)
  BY <1>1, Alone DEF Publish, Goto, Locked
<1>3. Listed = ToSet(healthyNodes) /\ Listed' = ToSet(healthyNodes)'
  BY <1>1, <1>2 DEF Listed, Locked
<1>4. Types'
  <2>1. << >> \in Seq(NodeObj)
    OBVIOUS
  <2> QED
    BY <1>1, <2>1 DEF Types, Publish
<1>5. Exclusion'
  BY <1>1, <1>2 DEF Exclusion, Locked
<1>6. Holds'
  BY <1>1, <1>2 DEF Holds
<1>7. Found' /\ Snapshot'
  BY <1>2 DEF Found, Snapshot, Locked
<1>8. ListInv'
  BY <1>1, <1>3 DEF ListInv, Snapshot, Unlisted
<1> QED
  BY <1>1, <1>3, <1>4, <1>5, <1>6, <1>7, <1>8

\* The failed node is marked and found in the list.
LEMMA MarkStep ==
  ASSUME pc \in [Request \cup Updater -> Labels], Core, NEW r \in Request, Mark(r)
  PROVE  /\ Core'
         /\ held[r] \in NodeObj /\ Listed' = Listed \ {held[r]}
         /\ readmitTime' = [readmitTime EXCEPT ![held[r]] = "waiting"]
<1> USE DEF Core
<1> DEFINE found == SelectInSeq(healthyNodes, LAMBDA n : n = held[r])
<1>1. /\ found \in Nat
      /\ IF found \in DOMAIN healthyNodes THEN healthyNodes[found] = held[r]
         ELSE held[r] \notin ToSet(healthyNodes)
  BY SelectFinds DEF SelectInSeq, Types, ListInv
<1>2. /\ pc[r] = "mark" /\ readmitTime' = [readmitTime EXCEPT ![held[r]] = "waiting"]
      /\ number' = [number EXCEPT ![r] = found]
      /\ pc' = [pc EXCEPT ![r] = "remove"]
      /\ UNCHANGED <<nodes, healthyNodes, mutex, op, held, snapshot>>
  BY DEF Mark, Goto, SelectInSeq
<1> HIDE DEF found
<1>3. pc'[r] = "remove" /\ \A q \in Request : q # r => pc'[q] = pc[q] /\ ~Locked(q)
  BY <1>2, Alone DEF Locked
<1>4. held[r] \in NodeObj /\ readmitTime'[held[r]] = "waiting"
  BY <1>2 DEF Types, Holds
<1>5. Listed = ToSet(healthyNodes) /\ Listed' = ToSet(healthyNodes) \ {held[r]}
  BY <1>2, <1>3 DEF Listed, Locked
<1>6. Types'
  BY <1>1, <1>2, <1>4 DEF Types
<1>7. Exclusion'
  BY <1>2, <1>3 DEF Exclusion, Locked
<1>8. Holds'
  BY <1>2, <1>3 DEF Holds
<1>9. Found'
  <2>1. number'[r] = found
    BY <1>2 DEF Types
  <2> QED
    BY <1>1, <1>2, <1>3, <1>4, <2>1 DEF Found, Locked
<1>10. Snapshot'
  BY <1>3 DEF Snapshot, Locked
<1>11. ListInv'
  BY <1>2, <1>4, <1>5 DEF ListInv, Unlisted, Types
<1> QED
  BY <1>2, <1>4, <1>5, <1>6, <1>7, <1>8, <1>9, <1>10, <1>11

\* The entry that was found is removed.
LEMMA RemoveStep ==
  ASSUME pc \in [Request \cup Updater -> Labels], Core, NEW r \in Request, RemoveEntry(r)
  PROVE  /\ Core'
         /\ Listed' = Listed /\ UNCHANGED <<nodes, readmitTime>>
<1> USE DEF Core
<1>1. /\ pc[r] = "remove" /\ mutex' = Nil
      /\ healthyNodes' = IF number[r] \in DOMAIN healthyNodes
                          THEN RemoveAt(healthyNodes, number[r]) ELSE healthyNodes
      /\ held' = [held EXCEPT ![r] = Nil]
      /\ number' = [number EXCEPT ![r] = 0]
      /\ pc' = [pc EXCEPT ![r] = "idle"]
      /\ UNCHANGED <<nodes, readmitTime, op, snapshot>>
  BY DEF RemoveEntry, Goto
<1>2. /\ pc'[r] = "idle"
      /\ \A q \in Request : q # r => pc'[q] = pc[q] /\ held'[q] = held[q] /\ ~Locked(q)
  BY <1>1, Alone DEF Locked, Types
<1>3. /\ healthyNodes' \in Seq(NodeObj) /\ IsInjective(healthyNodes')
      /\ ToSet(healthyNodes') = ToSet(healthyNodes) \ {held[r]}
  <2>1. CASE number[r] \in DOMAIN healthyNodes
    <3>1. healthyNodes[number[r]] = held[r]
      BY <1>1, <2>1 DEF Found
    <3> QED
      BY <1>1, <2>1, <3>1, RemoveLists DEF Types, ListInv
  <2>2. CASE number[r] \notin DOMAIN healthyNodes
    BY <1>1, <2>2 DEF Types, ListInv, Found
  <2> QED
    BY <2>1, <2>2
<1>4. Listed = ToSet(healthyNodes) \ {held[r]} /\ Listed' = ToSet(healthyNodes')
  BY <1>1, <1>2 DEF Listed, Locked
<1>5. Types'
  BY <1>1, <1>3 DEF Types
<1>6. Exclusion'
  BY <1>2 DEF Exclusion, Locked
<1>7. Holds'
  BY <1>1, <1>2 DEF Holds, Locked
<1>8. Found' /\ Snapshot'
  BY <1>2 DEF Found, Snapshot, Locked
<1>9. ListInv'
  <2>1. readmitTime[held[r]] # "nil"
    BY <1>1 DEF Found
  <2>2. Unlisted' \subseteq Unlisted \cup {held[r]}
    BY <1>1, <1>3 DEF Unlisted
  <2> QED
    BY <1>1, <1>3, <1>4, <2>1, <2>2 DEF ListInv
<1> QED
  BY <1>1, <1>3, <1>4, <1>5, <1>6, <1>7, <1>8, <1>9

\* A backoff that elapses changes nothing about the list.
LEMMA ElapseStep ==
  ASSUME pc \in [Request \cup Updater -> Labels], Core, NEW n \in NodeObj, Elapse(n)
  PROVE  Core' /\ Listed' = Listed
<1> USE DEF Core
<1>1. /\ readmitTime' = [readmitTime EXCEPT ![n] = "over"]
      /\ UNCHANGED <<nodes, healthyNodes, mutex, pc, op, held, snapshot, number>>
  BY DEF Elapse, local
<1>2. \A k \in NodeObj : readmitTime'[k] = IF k = n THEN "over" ELSE readmitTime[k]
  BY <1>1 DEF Types
<1>3. Types'
  BY <1>1 DEF Types
<1>4. Exclusion' /\ Holds'
  BY <1>1 DEF Exclusion, Locked, Holds
<1>5. Found'
  BY <1>1, <1>2 DEF Found, Types, Holds
<1>6. Snapshot'
  BY <1>1, <1>2 DEF Snapshot, Types
<1>7. Listed' = Listed /\ Listed \subseteq NodeObj
  <2>1. ToSet(healthyNodes) \subseteq NodeObj
    BY DEF Types, ToSet
  <2> QED
    BY <1>1, <2>1 DEF Listed
<1>8. ListInv'
  BY <1>1, <1>2, <1>7 DEF ListInv, Unlisted, Types
<1> QED
  BY <1>3, <1>4, <1>5, <1>6, <1>7, <1>8

\* Every step keeps the invariant.
LEMMA NextInv ==
  ASSUME Inv, [Next]_vars
  PROVE  Inv'
<1>1. /\ pc' \in [Request \cup Updater -> Labels]
      /\ NoReplacement' => NoReplacement
  BY ReplacementStays DEF Inv
<1>2. ASSUME NoReplacement PROVE Core'
  <2>1. Core /\ pc \in [Request \cup Updater -> Labels]
    BY <1>2 DEF Inv
  <2>2. ASSUME NEW u \in Updater, Prepare(u) \/ UpdaterStep(u) PROVE FALSE
    BY <1>2, <2>2 DEF NoReplacement, Prepare, UpdaterStep, AssignNodes, AssignNetwork, AssignList
  <2>3. ASSUME NEW r \in Request, Call(r) \/ Release(r) \/ RequestStep(r) PROVE Core'
    BY <2>1, <2>3, QuietStep, ReadmitStep, PublishStep, MarkStep, RemoveStep DEF RequestStep
  <2>4. CASE UNCHANGED vars
    BY <2>1, <2>4 DEF vars, shared, local, Core, Types, Exclusion, Locked, Holds, Found, Snapshot,
                       ListInv, Listed, Unlisted
  <2> QED
    BY <2>1, <2>2, <2>3, <2>4, ElapseStep DEF Next
<1> QED
  BY <1>1, <1>2 DEF Inv

\* The invariant holds at every moment.
THEOREM Invariance == Spec => []Inv
BY InitInv, NextInv, PTL DEF Spec
-----------------------------------------------------------------------------
(* Results *)

\* For any number of nodes and of concurrent requests, every node is listed once
\* or has a readmit time, and no listed node is in backoff, whenever the mutex is
\* free (_IncreaseBackoff, _ReadmitNodesLocked).
THEOREM EntriesAreKept == Spec => []NoEntryLostOrDuplicated
<1>1. ASSUME Inv PROVE NoEntryLostOrDuplicated
  <2> SUFFICES ASSUME NoReplacement, mutex = Nil
               PROVE  /\ IsInjective(healthyNodes)
                      /\ \A n \in Unlisted : readmitTime[n] # "nil"
                      /\ \A n \in ToSet(healthyNodes) : Healthy(n)
    BY DEF NoEntryLostOrDuplicated
  <2>1. \A r \in Request : pc[r] # "remove"
    BY <1>1, NilAssumption DEF Inv, Core, Exclusion, Locked
  <2>2. Listed = ToSet(healthyNodes)
    BY <2>1 DEF Listed
  <2> QED
    BY <1>1, <2>2 DEF Inv, Core, ListInv, Healthy
<1> QED
  BY <1>1, Invariance, PTL

\* The initial states are initial states of the list.
LEMMA InitImplements == Init => List!Init
<1> SUFFICES ASSUME Init PROVE List!Init
  OBVIOUS
<1>1. nodes \in SUBSET NodeObj
  BY ScenariosAssumption DEF Init
<1>2. ToSet(healthyNodes) = nodes
  BY <1>1, FiniteAssumption, FS_Subset, SetToSeqLists DEF Init
<1>3. Listed = nodes
  <2>1. \A r \in Request : pc[r] # "remove"
    BY DEF Init
  <2> QED
    BY <1>2, <2>1 DEF Listed
<1>4. readmitTime = [n \in NodeObj |-> "nil"]
  BY DEF Init
<1>5. (~NoReplacement) \in BOOLEAN
  OBVIOUS
<1> QED
  BY <1>1, <1>3, <1>4, <1>5 DEF List!Init

\* A step is a step of the list, or one that it does not notice.
LEMMA StepImplements ==
  ASSUME Inv, [Next]_vars
  PROVE  [List!Next]_(List!vars)
<1>1. pc \in [Request \cup Updater -> Labels] /\ (NoReplacement' <=> NoReplacement)
  BY ReplacementStays DEF Inv
<1>2. CASE ~NoReplacement
  BY <1>1, <1>2 DEF List!Next, List!Anything
<1>3. CASE NoReplacement
  <2>1. Core
    BY <1>3 DEF Inv
  <2>2. ASSUME NEW u \in Updater, Prepare(u) \/ UpdaterStep(u) PROVE FALSE
    BY <1>3, <2>2 DEF NoReplacement, Prepare, UpdaterStep, AssignNodes, AssignNetwork, AssignList
  <2>3. ASSUME UNCHANGED <<nodes, readmitTime>>, Listed' = Listed
        PROVE  UNCHANGED List!vars
    BY <1>1, <2>3 DEF List!vars
  <2>4. ASSUME NEW r \in Request,
               Call(r) \/ Release(r) \/ Lock(r) \/ Leave(r) \/ Count(r) \/ Copy(r) \/ Readmit(r)
        PROVE  UNCHANGED <<nodes, readmitTime>> /\ Listed' = Listed
    <3>1. UNCHANGED <<nodes, healthyNodes, readmitTime>>
      BY <2>4 DEF Call, Release, Lock, Leave, Count, Copy, Readmit, shared
    <3>2. ASSUME NEW q \in Request
          PROVE  /\ pc'[q] = "remove" <=> pc[q] = "remove"
                 /\ pc[q] = "remove" => held'[q] = held[q]
      <4>1. CASE Call(r) \/ Release(r) \/ Lock(r)
        BY <1>1, <2>1, <4>1 DEF Core, Types, Call, Release, Lock, Goto
      <4>2. CASE Leave(r) \/ Readmit(r)
        BY <1>1, <2>1, <4>2 DEF Core, Types, Leave, Readmit, Goto
      <4>3. CASE Count(r) \/ Copy(r)
        BY <1>1, <2>1, <4>3 DEF Core, Types, Count, Copy, Goto
      <4> QED
        BY <2>4, <4>1, <4>2, <4>3
    <3> QED
      BY <3>1, <3>2 DEF Listed
  <2>5. ASSUME NEW r \in Request, Publish(r)
        PROVE  List!Next
    <3> DEFINE S == ToSet(snapshot[r]) \ ToSet(healthyNodes)
    <3>1. /\ Listed = ToSet(healthyNodes) /\ Listed' = ToSet(snapshot[r])
          /\ pc[r] = "publish" /\ UNCHANGED <<nodes, readmitTime>>
      BY <1>1, <2>1, <2>5, PublishStep DEF Publish
    <3>2. /\ S \subseteq {n \in nodes \ Listed : readmitTime[n] = "over"}
          /\ Listed' = Listed \cup S
      BY <2>1, <3>1 DEF Core, Snapshot
    <3>3. S \in SUBSET NodeObj
      BY <2>1, <3>2 DEF Core, Types
    <3> HIDE DEF S
    <3>4. List!Readmit(S)
      BY <1>1, <1>3, <3>1, <3>2 DEF List!Readmit
    <3> QED
      BY <3>3, <3>4 DEF List!Next
  <2>6. ASSUME NEW r \in Request, Mark(r)
        PROVE  List!Next
    <3>1. /\ held[r] \in NodeObj /\ Listed' = Listed \ {held[r]} /\ UNCHANGED nodes
          /\ readmitTime' = [readmitTime EXCEPT ![held[r]] = "waiting"]
      BY <1>1, <2>1, <2>6, MarkStep DEF Mark, SelectInSeq
    <3>2. List!Fail(held[r])
      BY <1>1, <1>3, <3>1 DEF List!Fail
    <3> QED
      BY <3>1, <3>2 DEF List!Next
  <2>7. ASSUME NEW r \in Request, RemoveEntry(r)
        PROVE  UNCHANGED <<nodes, readmitTime>> /\ Listed' = Listed
    BY <1>1, <2>1, <2>7, RemoveStep
  <2>8. ASSUME NEW n \in NodeObj, Elapse(n)
        PROVE  List!Next
    <3>1. Listed' = Listed
      BY <1>1, <2>1, <2>8, ElapseStep
    <3>2. List!Elapse(n)
      BY <1>1, <1>3, <2>8, <3>1 DEF List!Elapse, Elapse
    <3> QED
      BY <3>2 DEF List!Next
  <2>9. CASE UNCHANGED vars
    BY <2>3, <2>9 DEF vars, shared, local, Listed
  <2> QED
    BY <2>2, <2>3, <2>4, <2>5, <2>6, <2>7, <2>8, <2>9 DEF Next, RequestStep
<1> QED
  BY <1>2, <1>3

\* The methods, section by section under the mutex, implement a list on which a
\* failure and a readmission pass are single steps, for any number of nodes and
\* of concurrent requests.
THEOREM LockingImplementsHealthyList == Spec => ImplementsHealthyList
<1>1. Spec => List!Init /\ [][List!Next]_(List!vars)
  BY InitImplements, StepImplements, Invariance, PTL DEF Spec
<1> QED
  BY <1>1 DEF ImplementsHealthyList, List!Spec
=============================================================================
