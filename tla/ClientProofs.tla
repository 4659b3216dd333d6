----------------------------- MODULE ClientProofs -----------------------------
(***************************************************************************)
(* Theorems about Client: for any number of goroutines, mirror nodes and   *)
(* addresses in a book, books are whole, one schedule goes on, and Close   *)
(* is final.                                                               *)
(***************************************************************************)
EXTENDS Client, TLAPS

Goroutines ==
  [pc : {"none", "select", "begin", "top", "recv", "whole"},
   kind : {"none", "schedule", "deferred", "query"},
   ctx : Nat, query : Nat, mirror : SUBSET Mirror, version : Nat,
   got : Nat, err : {"nil", "EOF", "error"}, attempt : Nat, broken : BOOLEAN]

\* A stream ends after its last address, and a query that reads one has begun under
\* a context of the client.
Reading(g) ==
  /\ g \in Goroutines
  /\ g.err = "EOF" \/ g.pc = "whole" => g.got = BookSize
  /\ g.pc \in {"top", "recv"} => g.query \in 1..context
  /\ g.kind = "schedule" => g.ctx \in 1..context

\* Every context but the present one has been cancelled, and that one too while the
\* period is set and after Close.
Contexts ==
  /\ context \in Nat \ {0}
  /\ 1..(context - 1) \subseteq cancelled
  /\ app # "idle" => context \in cancelled

\* A context is given to one goroutine.
Owners ==
  \A u, v \in Updater :
    up[u].kind = "schedule" /\ up[v].kind = "schedule" /\ up[u].ctx = up[v].ctx => u = v

Readers == up \in [Updater -> Goroutines] /\ \A u \in Updater : Reading(up[u])

Books == latest \in Nat /\ mirrors \subseteq Mirror /\ book.size = BookSize

Inv == Contexts /\ Readers /\ Owners /\ Books
-----------------------------------------------------------------------------
(* Steps of one goroutine *)

\* What a goroutine may become in a step: it keeps its schedule or gives it up.
Moves(u, g) ==
  /\ up' = [up EXCEPT ![u] = g] /\ UNCHANGED context
  /\ Reading(g)
  /\ g.kind = "schedule" => up[u].kind = "schedule" /\ g.ctx = up[u].ctx

\* Such a step keeps the goroutines well formed and the contexts with their owners.
LEMMA MoveKeeps ==
  ASSUME Readers, Owners, NEW u \in Updater, NEW g, Moves(u, g)
  PROVE  Readers' /\ Owners'
<1>1. /\ up'[u] = g /\ \A v \in Updater \ {u} : up'[v] = up[v]
      /\ g \in Goroutines
  BY DEF Moves, Readers, Reading
<1>2. Readers'
  BY <1>1 DEF Moves, Readers, Reading
<1>3. Owners'
  BY <1>1 DEF Moves, Owners
<1> QED
  BY <1>2, <1>3

\* Idle goroutines and schedules are well formed.
LEMMA Ends ==
  ASSUME Contexts, Readers, NEW u \in Updater
  PROVE  /\ Reading(Idle)
         /\ Reading(After(u))
         /\ After(u).kind = "schedule" => up[u].kind = "schedule" /\ After(u).ctx = up[u].ctx
         /\ After(u).pc # "whole"
<1>1. Idle \in Goroutines /\ Reading(Idle)
  BY DEF Idle, Goroutines, Reading
<1>2. ASSUME NEW c \in 1..context PROVE Reading(Scheduled(c))
  <2>1. c \in Nat
    BY DEF Contexts
  <2> QED
    BY <1>2, <2>1 DEF Scheduled, Idle, Goroutines, Reading
<1>3. up[u].kind = "schedule" => up[u].ctx \in 1..context
  BY DEF Readers, Reading
<1> QED
  BY <1>1, <1>2, <1>3 DEF After, Scheduled, Idle

\* The steps of goroutines.
LEMMA GoroutineMoves ==
  ASSUME Inv, NEW u \in Updater,
         Update(u) \/ TimerFires(u) \/ ScheduleReturns(u) \/ Start(u, "deferred") \/ Start(u, "query")
  PROVE  \E g : Moves(u, g)
<1>0. /\ up \in [Updater -> Goroutines] /\ up[u] \in Goroutines /\ Reading(up[u])
      /\ context \in Nat /\ context > 0 /\ latest \in Nat /\ mirrors \subseteq Mirror
  BY DEF Inv, Readers, Contexts, Books
<1> DEFINE g == up[u]
<1>a. /\ g.pc \in {"none", "select", "begin", "top", "recv", "whole"} /\ g.query \in Nat
      /\ g.mirror \in SUBSET Mirror /\ g.version \in Nat /\ g.got \in Nat
      /\ g.err \in {"nil", "EOF", "error"} /\ g.attempt \in Nat /\ g.broken \in BOOLEAN
      /\ g.kind \in {"none", "schedule", "deferred", "query"} /\ g.ctx \in Nat
  BY <1>0 DEF Goroutines
<1>b. /\ g.err = "EOF" \/ g.pc = "whole" => g.got = BookSize
      /\ g.pc \in {"top", "recv"} => g.query \in 1..context
      /\ g.kind = "schedule" => g.ctx \in 1..context
  BY <1>0 DEF Reading
<1>1. Reading(Idle) /\ Reading(After(u)) /\ Idle.kind # "schedule"
      /\ (After(u).kind = "schedule" => up[u].kind = "schedule" /\ After(u).ctx = up[u].ctx)
  BY Ends DEF Idle, Inv
<1>2. ASSUME Fails(u), UNCHANGED context PROVE \E h : Moves(u, h)
  BY <1>1, <1>2 DEF Fails, Moves
<1>3. CASE Begin(u) /\ ~ Fails(u)
  <2>1. PICK m \in mirrors :
          /\ latest' \in latest..MaxVersion
          /\ up' = [up EXCEPT ![u].pc = "top", ![u].query = context, ![u].mirror = {m}, ![u].version = latest']
    BY <1>3 DEF Begin
  <2> DEFINE h == [g EXCEPT !.pc = "top", !.query = context, !.mirror = {m}, !.version = latest']
  <2>2. {m} \in SUBSET Mirror /\ latest' \in Nat /\ context \in 1..context
    BY <1>0, <2>1, BoundAssumption
  <2>3. up' = [up EXCEPT ![u] = h] /\ UNCHANGED context
    BY <1>0, <1>3, <2>1 DEF Begin
  <2>4. h \in Goroutines
    BY <1>0, <2>2 DEF Goroutines
  <2>5. /\ h.kind = g.kind /\ h.ctx = g.ctx /\ h.err = g.err /\ h.got = g.got
        /\ h.query = context /\ h.pc = "top"
    BY <1>0 DEF Goroutines
  <2> HIDE DEF h
  <2>6. Moves(u, h)
    BY <1>b, <2>2, <2>3, <2>4, <2>5 DEF Moves, Reading
  <2> QED
    BY <2>6
<1>4. CASE Top(u) /\ ~ Fails(u)
  <2>1. PICK h \in {[g EXCEPT !.pc = "whole"], [g EXCEPT !.pc = "recv"], [g EXCEPT !.pc = "recv", !.attempt = @ + 1]} :
          /\ up' = [up EXCEPT ![u] = h]
          /\ h.pc = "whole" => g.err = "EOF"
    BY <1>0, <1>4 DEF Top, Goroutines
  <2>2. g.attempt + 1 \in Nat
    BY <1>a
  <2>3. h \in Goroutines
    BY <1>0, <2>1, <2>2 DEF Goroutines
  <2>4. /\ h.kind = g.kind /\ h.ctx = g.ctx /\ h.err = g.err /\ h.got = g.got /\ h.query = g.query
        /\ h.pc \in {"whole", "recv"}
    BY <1>0, <2>1 DEF Goroutines
  <2>5. g.pc = "top" /\ UNCHANGED context
    BY <1>4 DEF Top
  <2>6. Moves(u, h)
    BY <1>b, <2>1, <2>3, <2>4, <2>5 DEF Moves, Reading
  <2> QED
    BY <2>6
<1>5. CASE Recv(u)
  <2>1. PICK h \in {[g EXCEPT !.pc = "top", !.got = @ + 1], [g EXCEPT !.pc = "top", !.err = "EOF"],
                    [g EXCEPT !.pc = "top", !.err = "error", !.broken = TRUE]} :
          /\ up' = [up EXCEPT ![u] = h]
          /\ h.got # g.got => g.got < BookSize
          /\ h.err = "EOF" => h.got = BookSize
    <3>1. CASE up' = [up EXCEPT ![u].pc = "top", ![u].got = @ + 1] /\ g.got < BookSize
      <4> DEFINE h == [g EXCEPT !.pc = "top", !.got = @ + 1]
      <4>1. h.got # g.got /\ h.err = g.err
        BY <1>0, <1>a DEF Goroutines
      <4>2. h.err # "EOF"
        BY <1>b, <3>1, <1>a, <4>1, SizeAssumption
      <4> QED
        BY <1>0, <3>1, <4>1, <4>2
    <3>2. CASE up' = [up EXCEPT ![u].pc = "top", ![u].err = "EOF"] /\ g.got = BookSize
      BY <1>0, <3>2 DEF Goroutines
    <3>3. CASE up' = [up EXCEPT ![u].pc = "top", ![u].err = "error", ![u].broken = TRUE]
      BY <1>0, <3>3 DEF Goroutines
    <3> QED
      BY <1>5, <3>1, <3>2, <3>3 DEF Recv
  <2>2. g.got + 1 \in Nat
    BY <1>a
  <2>3. h \in Goroutines
    <3>1. CASE h = [g EXCEPT !.pc = "top", !.got = @ + 1]
      BY <1>0, <2>2, <3>1 DEF Goroutines
    <3>2. CASE h = [g EXCEPT !.pc = "top", !.err = "EOF"]
      BY <1>0, <3>2 DEF Goroutines
    <3>3. CASE h = [g EXCEPT !.pc = "top", !.err = "error", !.broken = TRUE]
      <4>1. TRUE \in BOOLEAN
        OBVIOUS
      <4> QED
        BY <1>0, <3>3, <4>1 DEF Goroutines
    <3> QED
      BY <2>1, <3>1, <3>2, <3>3
  <2>4. h.kind = g.kind /\ h.ctx = g.ctx /\ h.query = g.query /\ h.pc = "top"
    BY <1>0, <2>1 DEF Goroutines
  <2>5. g.pc = "recv" /\ UNCHANGED context
    BY <1>5 DEF Recv
  <2>6. Moves(u, h)
    BY <1>b, <2>1, <2>3, <2>4, <2>5 DEF Moves, Reading
  <2> QED
    BY <2>6
<1>6. CASE TimerFires(u)
  <2> DEFINE h == [g EXCEPT !.pc = "begin"]
  <2>1. /\ up' = [up EXCEPT ![u] = h] /\ UNCHANGED context /\ h \in Goroutines
        /\ h.kind = g.kind /\ h.ctx = g.ctx /\ h.err = g.err /\ h.got = g.got /\ h.pc = "begin"
    BY <1>0, <1>6 DEF TimerFires, Goroutines
  <2> HIDE DEF h
  <2>2. Moves(u, h)
    BY <1>b, <2>1 DEF Moves, Reading
  <2> QED
    BY <2>2
<1>7. ASSUME NEW kind \in {"deferred", "query"}, Start(u, kind)
      PROVE  \E h : Moves(u, h)
  <2> DEFINE h == [g EXCEPT !.pc = "begin", !.kind = kind]
  <2>1. /\ up' = [up EXCEPT ![u] = h] /\ UNCHANGED context /\ h \in Goroutines
        /\ h.kind = kind /\ h.err = g.err /\ h.got = g.got /\ h.pc = "begin"
    BY <1>0, <1>7 DEF Start, Goroutines
  <2> HIDE DEF h
  <2>2. Moves(u, h)
    BY <1>b, <2>1 DEF Moves, Reading
  <2> QED
    BY <2>2
<1>8. CASE Apply(u)
  BY <1>2, <1>8 DEF Apply, Fails
<1>9. CASE ScheduleReturns(u)
  BY <1>1, <1>9 DEF ScheduleReturns, Moves
<1> QED
  BY <1>2, <1>3, <1>4, <1>5, <1>6, <1>7, <1>8, <1>9 DEF Update, Begin, Top
-----------------------------------------------------------------------------
(* The invariant *)

\* A new client has one schedule at most, under its own context.
LEMMA InitInv == Init => Inv
<1> SUFFICES ASSUME Init PROVE Inv
  OBVIOUS
<1> DEFINE first == CHOOSE u \in Updater : TRUE
<1>1. PICK ctx \in {1, 2} :
        /\ context = ctx /\ cancelled = 1..(ctx - 1)
        /\ up = [u \in Updater |-> IF u = first THEN Scheduled(ctx) ELSE Idle]
  BY DEF Init
<1> HIDE DEF first
<1>2. Contexts
  BY <1>1 DEF Init, Contexts
<1>3. Idle \in Goroutines
  BY DEF Idle, Goroutines
<1>6. Scheduled(ctx) \in Goroutines
  <2>1. ctx \in Nat
    BY <1>1
  <2> QED
    BY <1>3, <2>1 DEF Scheduled, Goroutines
<1>4. Readers
  BY <1>1, <1>3, <1>6 DEF Readers, Reading, Idle, Scheduled
<1>5. Owners
  BY <1>1 DEF Owners, Idle
<1> QED
  BY <1>2, <1>4, <1>5 DEF Inv, Books, Init

\* Every step keeps the invariant.
LEMMA NextInv == ASSUME Inv, [Next]_vars PROVE Inv'
<1>0. Contexts /\ Readers /\ Owners /\ Books
  BY DEF Inv
<1>1. Contexts'
  <2>1. ASSUME NEW u \in Updater, StartSchedule(u) PROVE Contexts'
    <3>1. /\ context' = context + 1 /\ context \in cancelled /\ cancelled' = cancelled /\ app' = "idle"
      BY <1>0, <2>1 DEF StartSchedule, Contexts
    <3> QED
      BY <1>0, <3>1 DEF Contexts
  <2>2. ASSUME NEW u \in Updater, Update(u) \/ TimerFires(u) \/ ScheduleReturns(u) \/ Start(u, "deferred") \/ Start(u, "query")
        PROVE  UNCHANGED <<context, cancelled, app>>
    BY <2>2 DEF Update, Begin, Top, Recv, Apply, TimerFires, ScheduleReturns, Start
  <2>3. CASE CancelScheduledNetworkUpdate \/ SetNetworkUpdatePeriod \/ Close \/ CloseMirrorNetwork
    BY <1>0, <2>3 DEF CancelScheduledNetworkUpdate, SetNetworkUpdatePeriod, Close, CloseMirrorNetwork, Contexts
  <2>4. ASSUME NEW M, SetMirrorNetwork(M) PROVE UNCHANGED <<context, cancelled, app>>
    BY <2>4 DEF SetMirrorNetwork
  <2>5. ASSUME NEW m, Subscribe(m) PROVE UNCHANGED <<context, cancelled, app>>
    BY <2>5 DEF Subscribe
  <2>6. CASE End \/ UNCHANGED vars
    BY <1>0, <2>6 DEF End, vars, Contexts
  <2>7. ASSUME UNCHANGED <<context, cancelled, app>> PROVE Contexts'
    BY <1>0, <2>7 DEF Contexts
  <2> QED
    BY <2>1, <2>2, <2>3, <2>4, <2>5, <2>6, <2>7 DEF Next
<1>2. Readers' /\ Owners'
  <2>1. ASSUME NEW u \in Updater, StartSchedule(u) PROVE Readers' /\ Owners'
    <3>1. /\ context' = context + 1 /\ context \in Nat /\ up' = [up EXCEPT ![u] = Scheduled(context + 1)]
          /\ context + 1 \in Nat /\ up \in [Updater -> Goroutines]
      BY <1>0, <2>1 DEF StartSchedule, Contexts, Readers
    <3>2. /\ Scheduled(context + 1) \in Goroutines
          /\ Scheduled(context + 1).kind = "schedule" /\ Scheduled(context + 1).ctx = context + 1
          /\ Scheduled(context + 1).err = "nil" /\ Scheduled(context + 1).pc = "select"
      BY <3>1 DEF Scheduled, Idle, Goroutines
    <3>3. up'[u] = Scheduled(context + 1) /\ \A v \in Updater \ {u} : up'[v] = up[v]
      BY <3>1
    <3>4. \A v \in Updater : up[v].kind = "schedule" => up[v].ctx \in 1..context
      BY <1>0 DEF Readers, Reading
    <3>5. ASSUME NEW v \in Updater PROVE Reading(up[v])'
      <4>1. CASE v = u
        BY <3>1, <3>2, <3>3, <4>1 DEF Reading
      <4>2. CASE v # u
        <5>1. Reading(up[v]) /\ up'[v] = up[v]
          BY <1>0, <3>3, <4>2 DEF Readers
        <5>2. \A i \in 1..context : i \in 1..context'
          BY <3>1
        <5> QED
          BY <5>1, <5>2 DEF Reading
      <4> QED
        BY <4>1, <4>2
    <3>6. Readers'
      BY <3>1, <3>2, <3>5 DEF Readers
    <3>7. Owners'
      BY <1>0, <3>1, <3>2, <3>3, <3>4 DEF Owners
    <3> QED
      BY <3>6, <3>7
  <2>2. ASSUME NEW u \in Updater, Update(u) \/ TimerFires(u) \/ ScheduleReturns(u) \/ Start(u, "deferred") \/ Start(u, "query")
        PROVE  Readers' /\ Owners'
    BY <1>0, <2>2, GoroutineMoves, MoveKeeps
  <2>3. ASSUME NEW M, up' = Break(M), UNCHANGED context PROVE Readers' /\ Owners'
    <3>1. ASSUME NEW u \in Updater
          PROVE  /\ up'[u] \in Goroutines
                 /\ up'[u].kind = up[u].kind /\ up'[u].ctx = up[u].ctx /\ up'[u].pc = up[u].pc
                 /\ up'[u].query = up[u].query /\ up'[u].err = up[u].err /\ up'[u].got = up[u].got
      <4> DEFINE b == up[u].broken \/ \E m \in up[u].mirror \cap M : node[m].consensus
      <4>1. up[u] \in Goroutines
        BY <1>0 DEF Readers
      <4>2. b \in BOOLEAN /\ up[u].mirror \ M \in SUBSET Mirror
        BY <4>1 DEF Goroutines
      <4>3. up'[u] = [up[u] EXCEPT !.broken = b, !.mirror = up[u].mirror \ M]
        BY <2>3, <4>1 DEF Break, Goroutines
      <4> HIDE DEF b
      <4> QED
        BY <4>1, <4>2, <4>3 DEF Goroutines
    <3>2. up' \in [Updater -> Goroutines]
      BY <2>3, <3>1 DEF Break
    <3> QED
      BY <1>0, <2>3, <3>1, <3>2 DEF Readers, Reading, Owners
  <2>4. ASSUME UNCHANGED <<up, context>> PROVE Readers' /\ Owners'
    BY <1>0, <2>4 DEF Readers, Reading, Owners
  <2>5. CASE CancelScheduledNetworkUpdate \/ SetNetworkUpdatePeriod \/ Close \/ CloseMirrorNetwork
    BY <2>3, <2>4, <2>5 DEF CancelScheduledNetworkUpdate, SetNetworkUpdatePeriod, Close, CloseMirrorNetwork
  <2>6. ASSUME NEW M, SetMirrorNetwork(M) PROVE Readers' /\ Owners'
    BY <2>3, <2>6 DEF SetMirrorNetwork
  <2>7. ASSUME NEW m, Subscribe(m) PROVE Readers' /\ Owners'
    BY <2>4, <2>7 DEF Subscribe
  <2>8. CASE End \/ UNCHANGED vars
    BY <2>4, <2>8 DEF End, vars
  <2> QED
    BY <2>1, <2>2, <2>5, <2>6, <2>7, <2>8 DEF Next
<1>3. Books'
  <2>1. ASSUME NEW u \in Updater, Apply(u) PROVE Books'
    <3>1. up[u].got = BookSize
      BY <1>0, <2>1 DEF Apply, Readers, Reading
    <3> QED
      BY <1>0, <2>1, <3>1 DEF Apply, Books
  <2>2. ASSUME NEW u \in Updater, Begin(u) PROVE Books'
    <3>1. latest' \in Nat
      <4>1. latest' = latest \/ latest' \in latest..MaxVersion
        BY <2>2 DEF Begin
      <4> QED
        BY <1>0, <4>1, BoundAssumption DEF Books
    <3> QED
      BY <1>0, <2>2, <3>1 DEF Begin, Books
  <2>3. ASSUME NEW u \in Updater,
               Top(u) \/ Recv(u) \/ TimerFires(u) \/ ScheduleReturns(u) \/ StartSchedule(u) \/ Start(u, "deferred") \/ Start(u, "query")
        PROVE  Books'
    BY <1>0, <2>3 DEF Top, Recv, TimerFires, ScheduleReturns, StartSchedule, Start, Books
  <2>4. CASE CancelScheduledNetworkUpdate \/ SetNetworkUpdatePeriod \/ Close \/ CloseMirrorNetwork
    BY <1>0, <2>4 DEF CancelScheduledNetworkUpdate, SetNetworkUpdatePeriod, Close, CloseMirrorNetwork, Books
  <2>5. ASSUME NEW M \in SUBSET Mirror, SetMirrorNetwork(M) PROVE Books'
    BY <1>0, <2>5 DEF SetMirrorNetwork, Books
  <2>6. ASSUME NEW m, Subscribe(m) PROVE Books'
    BY <1>0, <2>6 DEF Subscribe, Books
  <2>7. CASE End \/ UNCHANGED vars
    BY <1>0, <2>7 DEF End, vars, Books
  <2> QED
    BY <2>1, <2>2, <2>3, <2>4, <2>5, <2>6, <2>7 DEF Next, Update
<1> QED
  BY <1>1, <1>2, <1>3 DEF Inv

\* The invariant holds at every moment.
LEMMA SpecInv == Spec => []Inv
BY InitInv, NextInv, PTL DEF Spec
-----------------------------------------------------------------------------
(* Theorems *)

\* _UpdateAddressBook applies whole address books only, whatever fails, is cancelled
\* or is closed while they are read.
THEOREM BooksAreWhole == Spec => []BookIsWhole
<1>1. Inv => BookIsWhole
  BY DEF Inv, Readers, Reading, Books, BookIsWhole
<1> QED
  BY <1>1, SpecInv, PTL

\* However often SetNetworkUpdatePeriod is called, the schedules before the last one
\* have been cancelled.
THEOREM SchedulesAreCancelled == Spec => []OneSchedule
<1>1. ASSUME Inv PROVE OneSchedule
  <2>1. ASSUME NEW u \in Updater, up[u].kind = "schedule", up[u].ctx \notin cancelled
        PROVE  up[u].ctx = context
    <3>1. up[u].ctx \in 1..context /\ context \in Nat /\ 1..(context - 1) \subseteq cancelled
      BY <1>1, <2>1 DEF Inv, Readers, Reading, Contexts
    <3> QED
      BY <2>1, <3>1
  <2> QED
    BY <1>1, <2>1 DEF Inv, Owners, OneSchedule
<1> QED
  BY <1>1, SpecInv, PTL

\* After Close no query comes to the end of its book.
THEOREM CloseIsFinal == Spec => ClosedIsFinal
<1>1. ASSUME Inv, [Next]_vars, NEW u \in Updater, app \in {"closing", "closed"}, up'[u].pc = "whole"
      PROVE  up[u].pc = "whole"
  <2> SUFFICES ASSUME up[u].pc # "whole" PROVE FALSE
    OBVIOUS
  <2>0. Contexts /\ Readers /\ up \in [Updater -> Goroutines] /\ up[u] \in Goroutines /\ context \in Nat
    BY <1>1 DEF Inv, Readers, Contexts
  <2>1. \A i \in 1..context : i \in cancelled
    BY <1>1, <2>0 DEF Contexts
  <2>2. ASSUME NEW v \in Updater PROVE After(v).pc # "whole"
    BY <2>0, Ends
  <2>3. ASSUME NEW v \in Updater, Top(v) PROVE FALSE
    <3>1. up[v].query \in cancelled
      BY <2>0, <2>1, <2>3 DEF Readers, Reading, Top
    <3>2. up' = [up EXCEPT ![v] = After(v)]
      BY <2>3, <3>1 DEF Top, Fails
    <3> QED
      BY <1>1, <2>0, <2>2, <3>2
  <2>4. ASSUME NEW v \in Updater, Begin(v) \/ Recv(v) PROVE FALSE
    <3>1. CASE Fails(v)
      BY <1>1, <2>0, <2>2, <3>1 DEF Fails
    <3>2. CASE Begin(v) /\ ~ Fails(v)
      <4>1. PICK m : up' = [up EXCEPT ![v].pc = "top", ![v].query = context, ![v].mirror = {m},
                                     ![v].version = latest']
        BY <3>2 DEF Begin
      <4> QED
        BY <1>1, <2>0, <4>1 DEF Goroutines
    <3>3. CASE Recv(v)
      BY <1>1, <2>0, <3>3 DEF Recv, Goroutines
    <3> QED
      BY <2>4, <3>1, <3>2, <3>3
  <2>5. ASSUME NEW v \in Updater, Apply(v) \/ ScheduleReturns(v) PROVE FALSE
    BY <1>1, <2>0, <2>2, <2>5 DEF Apply, ScheduleReturns, Idle
  <2>6. ASSUME NEW v \in Updater, TimerFires(v) \/ StartSchedule(v) \/ Start(v, "deferred") \/ Start(v, "query") PROVE FALSE
    BY <1>1, <2>0, <2>6 DEF TimerFires, StartSchedule, Start, Scheduled, Idle, Goroutines
  <2>7. ASSUME NEW M, up' = Break(M) PROVE FALSE
    BY <1>1, <2>0, <2>7 DEF Break, Goroutines
  <2>8. CASE CancelScheduledNetworkUpdate \/ SetNetworkUpdatePeriod \/ Close \/ CloseMirrorNetwork
    BY <1>1, <2>7, <2>8 DEF CancelScheduledNetworkUpdate, SetNetworkUpdatePeriod, Close, CloseMirrorNetwork
  <2>9. ASSUME NEW M, SetMirrorNetwork(M) PROVE FALSE
    BY <2>7, <2>9 DEF SetMirrorNetwork
  <2>10. ASSUME NEW m, Subscribe(m) PROVE FALSE
    BY <1>1, <2>10 DEF Subscribe
  <2>11. CASE End \/ UNCHANGED vars
    BY <1>1, <2>11 DEF End, vars
  <2> QED
    BY <1>1, <2>3, <2>4, <2>5, <2>6, <2>8, <2>9, <2>10, <2>11 DEF Next, Update
<1>2. Inv /\ [Next]_vars => [\A u \in Updater : app \in {"closing", "closed"} /\ up'[u].pc = "whole" => up[u].pc = "whole"]_vars
  BY <1>1
<1> QED
  BY <1>2, SpecInv, PTL DEF Spec, ClosedIsFinal
=============================================================================
