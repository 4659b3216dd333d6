----------------------------- MODULE FlowsProofs -----------------------------
(***************************************************************************)
(* Theorems about Flows: for contents of any length and parts of any size, *)
(* the final transaction of a flow works on all of the contents, and only  *)
(* after the first one has succeeded, whatever fails in this execution     *)
(* and in earlier ones.                                                    *)
(*                                                                         *)
(* The inductive invariant is FlowInv: that of the append (ChunkInv), and  *)
(* what the object and its file hold at each point of the flow.            *)
(***************************************************************************)
EXTENDS Flows, ChunkedTransactionProofs

FlowRecords ==
  [kind : FlowKinds \cup {"none"}, pc : {"idle", "first", "append", "final", "returned"},
   original : Seq(Nat), data : Seq(Nat), file : Seq(Nat), first : BOOLEAN, runs : Nat,
   result : {"none", "ok", "error"}]

FlowTypes ==
  /\ flow \in FlowRecords
  /\ flow.kind = "none" => flow.pc = "append"
  /\ flow.kind # "none" => Once

\* The object holds what the application has set, or nothing after its Ethereum data
\* went into a file.
Data ==
  /\ IsInjective(flow.original)
  /\ flow.data \in {flow.original, << >>}
  /\ flow.kind # "Ethereum" => flow.data = flow.original

\* What the file holds, and the append is made for.
File ==
  /\ flow.pc = "first" => flow.file = << >> /\ (flow.kind = "Ethereum" => UsesFile)
  /\ flow.pc = "append" /\ flow.kind # "none" =>
       /\ UsesFile /\ flow.data = flow.original /\ FirstPart <= Len(flow.data)
       /\ flow.file = SubSeq(flow.data, 1, FirstPart)
       /\ tx.contents = SubSeq(flow.data, FirstPart + 1, Len(flow.data))
  /\ flow.pc = "final" /\ NotThrottled /\ ~ Final.emptied => Final.contents = flow.original

\* The first transaction of this execution has succeeded.
First == flow.pc \in {"append", "final"} /\ flow.kind \in {"ContractCreate", "TokenReject"} => flow.first

FlowInv == ChunkInv /\ FlowTypes /\ Data /\ File /\ First /\ FinalHasContents /\ FinalFollowsFirst

\* The fields of a flow and the constants, one by one.
LEMMA FlowFields ==
  ASSUME FlowInv
  PROVE  /\ flow \in FlowRecords
         /\ flow.kind \in FlowKinds \cup {"none"} /\ flow.original \in Seq(Nat) /\ flow.data \in Seq(Nat)
         /\ flow.file \in Seq(Nat) /\ flow.first \in BOOLEAN /\ flow.runs \in Nat
         /\ flow.result \in {"none", "ok", "error"} /\ Len(flow.data) \in Nat
         /\ FirstPart \in Nat /\ JumboLimit \in Nat /\ FirstPart <= JumboLimit
         /\ flow.kind \in {"none", "ContractCreate", "Ethereum", "TokenReject"}
<1>1. flow \in FlowRecords
  BY DEF FlowInv, FlowTypes
<1>2. /\ flow.kind \in FlowKinds \cup {"none"} /\ flow.original \in Seq(Nat) /\ flow.data \in Seq(Nat)
      /\ flow.file \in Seq(Nat) /\ flow.first \in BOOLEAN /\ flow.runs \in Nat
      /\ flow.result \in {"none", "ok", "error"}
  BY <1>1 DEF FlowRecords
<1>3. FirstPart \in Nat /\ JumboLimit \in Nat /\ FirstPart <= JumboLimit
  BY FlowAssumption
<1>4. flow.kind \in {"none", "ContractCreate", "Ethereum", "TokenReject"}
  BY <1>2, FlowAssumption
<1>5. Len(flow.data) \in Nat
  BY <1>2
<1> QED
  BY <1>1, <1>2, <1>3, <1>4, <1>5

\* The two parts of the contents.
LEMMA TwoParts ==
  ASSUME NEW d \in Seq(Nat), NEW n \in Nat, IsInjective(d)
  PROVE  /\ SubSeq(d, n + 1, Len(d)) \in Seq(Nat)
         /\ IsInjective(SubSeq(d, n + 1, Len(d)))
         /\ SubSeq(d, n + 1, Len(d)) # << >> => n <= Len(d)
         /\ n <= Len(d) => SubSeq(d, 1, n) \o SubSeq(d, n + 1, Len(d)) = d
         /\ SubSeq(d, n + 1, Len(d)) = << >> => Len(d) <= n
         /\ SubSeq(d, 1, Len(d)) = d
<1> DEFINE m == Len(d)
<1> DEFINE r == SubSeq(d, n + 1, m)
<1>0. m \in Nat /\ DOMAIN d = 1..m /\ \A k \in 1..m : d[k] \in Nat
  OBVIOUS
<1>1. SubSeq(d, 1, m) = d
  BY SubSeqFull
<1> HIDE DEF m
<1>2. ASSUME n <= m
      PROVE  r \in Seq(Nat) /\ IsInjective(r) /\ SubSeq(d, 1, n) \o r = d /\ (r = << >> => m <= n)
  <2>1. r \in Seq(Nat) /\ Len(r) = m - n /\ \A k \in 1..(m - n) : r[k] = d[n + k]
    <3>1. n + 1 \in Int /\ m \in Int /\ \A k \in (n + 1)..m : d[k] \in Nat
      BY <1>0
    <3>2. /\ r \in Seq(Nat) /\ Len(r) = (IF n + 1 <= m THEN m - (n + 1) + 1 ELSE 0)
          /\ \A k \in 1..(m - (n + 1) + 1) : r[k] = d[(n + 1) + k - 1]
      BY <3>1, SubSeqProperties
    <3> HIDE DEF r
    <3>3. m - (n + 1) + 1 = m - n /\ Len(r) = m - n
      BY <1>0, <1>2, <3>2
    <3>4. ASSUME NEW k \in 1..(m - n) PROVE r[k] = d[n + k]
      <4>1. (n + 1) + k - 1 = n + k
        BY <1>0
      <4> QED
        BY <3>2, <3>3, <4>1
    <3> QED
      BY <3>2, <3>3, <3>4
  <2> HIDE DEF r
  <2>2. IsInjective(r)
    <3>1. DOMAIN r = 1..(m - n)
      BY <2>1
    <3>2. ASSUME NEW a \in 1..(m - n), NEW b \in 1..(m - n), r[a] = r[b]
          PROVE  a = b
      <4>1. n + a \in 1..m /\ n + b \in 1..m
        BY <1>0, <1>2
      <4>2. d[n + a] = d[n + b]
        BY <2>1, <3>2
      <4>3. n + a = n + b
        BY <1>0, <4>1, <4>2 DEF IsInjective
      <4> QED
        BY <4>3
    <3> QED
      BY <3>1, <3>2 DEF IsInjective
  <2>3. SubSeq(d, 1, n) \o r = d
    <3>1. 1 \in 1..(Len(d) + 1) /\ n \in (1 - 1)..Len(d) /\ Len(d) \in n..Len(d)
      BY <1>0, <1>2 DEF m
    <3>2. SubSeq(d, 1, n) \o r = SubSeq(d, 1, Len(d))
      BY <3>1, ConcatAdjacentSubSeq DEF r, m
    <3> QED
      BY <1>1, <3>2 DEF m
  <2>4. r = << >> => m <= n
    <3>1. r = << >> => Len(r) = 0
      OBVIOUS
    <3> QED
      BY <1>0, <1>2, <2>1, <3>1
  <2> QED
    BY <2>1, <2>2, <2>3, <2>4
<1>3. ASSUME ~ (n <= m)
      PROVE  r = << >> /\ r \in Seq(Nat) /\ IsInjective(r) /\ m <= n
  <2>1. r = << >>
    <3>1. n + 1 > m
      BY <1>0, <1>3
    <3> QED
      BY <1>0, <3>1, SubSeqEmpty DEF m
  <2> HIDE DEF r
  <2>2. IsInjective(r) /\ r \in Seq(Nat)
    BY <2>1 DEF IsInjective
  <2> QED
    BY <1>0, <1>3, <2>1, <2>2
<1> HIDE DEF r
<1>4. r \in Seq(Nat) /\ IsInjective(r) /\ (r # << >> => n <= m) /\ (n <= m => SubSeq(d, 1, n) \o r = d)
      /\ (r = << >> => m <= n)
  BY <1>2, <1>3
<1> QED
  BY <1>1, <1>4 DEF r, m

\* The append that a flow starts satisfies the invariant of chunks.
LEMMA FreshInvNext == FreshStart' => ChunkInv'
  BY FreshInv, PTL

\* The append begins.
LEMMA StartKeeps ==
  ASSUME FlowInv, StartAppend
  PROVE  ChunkInv' /\ Once' /\ tx'.contents = Rest
<1>1. flow.data \in Seq(Nat) /\ FirstPart \in Nat /\ tx \in Transactions
  BY FlowFields DEF FlowInv, ChunkInv, Shape
<1>2. IsInjective(flow.data)
  BY DEF FlowInv, Data, IsInjective
<1>3. Rest \in Seq(Nat) /\ IsInjective(Rest)
  BY <1>1, <1>2, TwoParts DEF Rest
<1>4. /\ tx' \in Transactions /\ tx'.contents = Rest /\ tx'.ids = << >> /\ tx'.index = 0
  <2>1. tx' = [tx EXCEPT !.contents = Rest, !.ids = << >>, !.index = 0] /\ << >> \in Seq(Nat)
    BY EmptySeq DEF StartAppend
  <2> QED
    BY <1>1, <1>3, <2>1 DEF Transactions
<1>5. FreshStart' /\ Once'
  BY <1>3, <1>4 DEF StartAppend, FreshStart, Once
<1> QED
  BY <1>4, <1>5, FreshInvNext

\* A step of the append leaves the flow alone, and the contents.
LEMMA ContentsStay ==
  ASSUME Shape, Next
  PROVE  tx'.contents = tx.contents /\ (call'.run = call.run \/ ExecuteAgain)
<1>1. tx \in Transactions /\ call \in [pc : Active \cup {"frozen?", "returned"}, i : Nat, chunk : Nat, run : Nat \ {0}]
  BY DEF Shape
<1>2. tx'.contents = tx.contents
  BY <1>1 DEF Next, FreezeWith, ExecuteAgain, Submit, Resubmit, Accepted, Advanced, Expired, Refuse, Success,
              Throttled, Failed, NoReceipt, End, vars, Transactions
<1>3. call'.run = call.run \/ ExecuteAgain
  BY <1>1 DEF Next, FreezeWith, Return, Submit, Resubmit, Accepted, Expired, Refuse, Success,
              Throttled, Failed, NoReceipt, End, vars
<1> QED
  BY <1>2, <1>3

\* A step of the append, or of a chunked transaction alone.
LEMMA AppendingKeeps ==
  ASSUME FlowInv, Next, Appending, ExecuteAgain => flow.kind = "none"
  PROVE  FlowInv'
<1>1. flow.pc = "append" /\ flow' = flow /\ ran' = ran /\ ChunkInv /\ Shape
  BY DEF Appending, flowVars, FlowInv, ChunkInv
<1>2. tx'.contents = tx.contents /\ (call'.run = call.run \/ flow.kind = "none")
  BY <1>1, ContentsStay
<1>3. ChunkInv'
  BY <1>1, StepKeeps
<1>4. FlowTypes'
  BY <1>1, <1>2 DEF FlowInv, FlowTypes, Once
<1>5. Data' /\ First' /\ FinalHasContents' /\ FinalFollowsFirst'
  BY <1>1 DEF FlowInv, Data, First, FinalHasContents, FinalFollowsFirst
<1>6. File'
  BY <1>1, <1>2 DEF FlowInv, File, UsesFile
<1> QED
  BY <1>3, <1>4, <1>5, <1>6 DEF FlowInv

\* A step that is not one of the append.
LEMMA FlowExecuteKeeps ==
  ASSUME FlowInv, FlowExecute
  PROVE  FlowInv'
<1>0. /\ ChunkInv /\ FlowTypes /\ Data /\ File /\ First /\ FinalHasContents /\ FinalFollowsFirst
      /\ flow.kind # "none" /\ UNCHANGED vars /\ ran' = ran /\ UNCHANGED <<tx, call, throttles>>
  BY DEF FlowInv, FlowExecute, vars
<1> DEFINE next == IF UsesFile \/ flow.kind = "TokenReject" THEN "first" ELSE "final"
<1>1. flow' = [flow EXCEPT !.pc = next, !.file = << >>, !.first = FALSE, !.runs = flow.runs + 1, !.result = "none"]
  BY DEF FlowExecute
<1>2. flow.runs + 1 \in Nat /\ << >> \in Seq(Nat) /\ next \in {"first", "final"}
  BY FlowFields, EmptySeq
<1> HIDE DEF next
<1>3. /\ flow' \in FlowRecords /\ flow'.kind = flow.kind /\ flow'.pc = next /\ flow'.original = flow.original
      /\ flow'.data = flow.data /\ flow'.file = << >> /\ flow'.result = "none"
  BY <1>1, <1>2, FlowFields DEF FlowRecords
<1>4. ChunkInv'
  BY <1>0, StutterKeeps
<1>5. FlowTypes' /\ Data'
  BY <1>0, <1>3 DEF FlowTypes, Data, Once
<1>6. UsesFile' = UsesFile
  BY <1>3 DEF UsesFile
<1>7. next = "final" => flow.kind = "Ethereum"
  BY <1>0, FlowFields DEF next, UsesFile
<1>8. File'
  <2>1. next = "first" => (flow.kind = "Ethereum" => UsesFile)
    BY DEF next
  <2>2. ASSUME next = "final", ~ Final'.emptied PROVE Final'.contents = flow.original
    <3>1. flow.kind = "Ethereum" /\ flow.data \in Seq(Nat)
      BY <1>7, <2>2, FlowFields
    <3>2. flow.data = flow.original
      BY <1>3, <2>2 DEF Final
    <3>3. flow.data \o << >> = flow.data
      BY <3>1
    <3> QED
      BY <1>3, <3>1, <3>2, <3>3 DEF Final
  <2> QED
    BY <1>2, <1>3, <1>6, <2>1, <2>2 DEF File
<1>9. First'
  BY <1>2, <1>3, <1>7 DEF First
<1>10. FinalHasContents' /\ FinalFollowsFirst'
  BY <1>0, <1>3 DEF FinalHasContents, FinalFollowsFirst
<1> QED
  BY <1>4, <1>5, <1>8, <1>9, <1>10 DEF FlowInv

\* Execute of the flow returns an error.
LEMMA ErrorKeeps ==
  ASSUME FlowInv, flow.kind # "none", UNCHANGED vars, ran' = ran, NEW file \in Seq(Nat),
         flow' = FlowReturn([flow EXCEPT !.file = file], "error")
  PROVE  FlowInv'
<1>0. /\ FlowTypes /\ Data /\ FinalHasContents /\ FinalFollowsFirst /\ UNCHANGED <<tx, call, throttles>>
  BY DEF FlowInv, vars
<1>1. /\ flow' \in FlowRecords /\ flow'.kind = flow.kind /\ flow'.pc = "returned" /\ flow'.original = flow.original
      /\ flow'.data = flow.data /\ flow'.result = "error"
  BY FlowFields DEF FlowRecords, FlowReturn
<1>2. ChunkInv'
  BY StutterKeeps DEF FlowInv
<1>3. FlowTypes' /\ Data'
  BY <1>0, <1>1 DEF FlowTypes, Data, Once
<1>4. File' /\ First' /\ FinalHasContents' /\ FinalFollowsFirst'
  BY <1>0, <1>1 DEF File, First, FinalHasContents, FinalFollowsFirst
<1> QED
  BY <1>2, <1>3, <1>4 DEF FlowInv

\* An object that uses a file holds what the application has set.
LEMMA FileIsForAll ==
  ASSUME FlowInv, UsesFile
  PROVE  /\ flow.data = flow.original /\ flow.kind \in {"ContractCreate", "Ethereum"}
         /\ IsInjective(flow.data)
         /\ flow.kind = "Ethereum" => Len(flow.data) > FirstPart
<1>1. flow.data \in {flow.original, << >>} /\ (flow.kind # "Ethereum" => flow.data = flow.original)
      /\ IsInjective(flow.original)
  BY DEF FlowInv, Data
<1>2. flow.kind = "ContractCreate" \/ (flow.kind = "Ethereum" /\ Len(flow.data) > JumboLimit)
  BY DEF UsesFile
<1>3. Len(flow.data) \in Nat /\ FirstPart \in Nat /\ JumboLimit \in Nat /\ FirstPart <= JumboLimit
  BY FlowFields
<1>4. flow.kind = "Ethereum" => Len(flow.data) > FirstPart /\ flow.data # << >>
  BY <1>2, <1>3
<1> QED
  BY <1>1, <1>2, <1>4

\* The first transaction: the file holds the first part, the append is made for the rest.
LEMMA FirstKeeps ==
  ASSUME FlowInv, FirstTransaction
  PROVE  FlowInv'
<1>0. /\ FlowTypes /\ Data /\ File /\ First /\ FinalHasContents /\ FinalFollowsFirst
      /\ flow.pc = "first" /\ flow.kind # "none" /\ ran' = ran /\ flow.file = << >>
      /\ (flow.kind = "Ethereum" => UsesFile) /\ flow.result \in {"none", "ok", "error"}
  BY FlowFields DEF FlowInv, FirstTransaction, FlowTypes, File
<1> DEFINE file == IF UsesFile THEN Created ELSE flow.file
<1> DEFINE f == [flow EXCEPT !.first = TRUE, !.file = file]
<1>1. flow.data \in Seq(Nat) /\ Len(flow.data) \in Nat /\ FirstPart \in Nat
  BY FlowFields
<1>2. UsesFile => /\ flow.data = flow.original /\ flow.kind \in {"ContractCreate", "Ethereum"}
                  /\ IsInjective(flow.data)
                  /\ flow.kind = "Ethereum" => Len(flow.data) > FirstPart
  BY FileIsForAll
<1>3. /\ UsesFile /\ Rest # << >> => /\ Created = SubSeq(flow.data, 1, FirstPart) /\ FirstPart <= Len(flow.data)
                                     /\ Created \in Seq(Nat)
      /\ UsesFile /\ Rest = << >> => Created = flow.data /\ flow.kind = "ContractCreate"
  <2> SUFFICES ASSUME UsesFile
               PROVE  /\ Rest # << >> => /\ Created = SubSeq(flow.data, 1, FirstPart) /\ FirstPart <= Len(flow.data)
                                         /\ Created \in Seq(Nat)
                      /\ Rest = << >> => Created = flow.data /\ flow.kind = "ContractCreate"
    OBVIOUS
  <2>1. /\ Rest # << >> => FirstPart <= Len(flow.data)
        /\ Rest = << >> => Len(flow.data) <= FirstPart
        /\ SubSeq(flow.data, 1, Len(flow.data)) = flow.data
    BY <1>1, <1>2, TwoParts DEF Rest
  <2>2. CASE Rest # << >>
    <3>1. FirstPart <= Len(flow.data) /\ ~ (Len(flow.data) < FirstPart)
      BY <1>1, <2>1, <2>2
    <3>2. Created = SubSeq(flow.data, 1, FirstPart)
      BY <3>1 DEF Created
    <3>3. SubSeq(flow.data, 1, FirstPart) \in Seq(Nat)
      BY <1>1, <3>1
    <3> QED
      BY <2>2, <3>1, <3>2, <3>3
  <2>3. CASE Rest = << >>
    <3>1. Len(flow.data) <= FirstPart /\ flow.kind = "ContractCreate"
      BY <1>1, <1>2, <2>1, <2>3
    <3>2. Created = SubSeq(flow.data, 1, Len(flow.data))
      <4>1. Len(flow.data) < FirstPart \/ Len(flow.data) = FirstPart
        BY <1>1, <3>1
      <4> QED
        BY <4>1 DEF Created
    <3> QED
      BY <2>1, <2>3, <3>1, <3>2
  <2> QED
    BY <2>2, <2>3
<1>4. file \in Seq(Nat)
  BY <1>1, <1>3, FlowFields
<1>5. CASE flow' = FlowReturn(flow, "error") /\ UNCHANGED vars
  <2>1. flow = [flow EXCEPT !.file = flow.file] /\ flow.file \in Seq(Nat)
    BY FlowFields DEF FlowRecords
  <2> QED
    BY <1>0, <1>5, <2>1, ErrorKeeps
<1>6. CASE UsesFile /\ Rest # << >> /\ flow' = [f EXCEPT !.pc = "append"] /\ StartAppend
  <2>1. /\ flow' \in FlowRecords /\ flow'.kind = flow.kind /\ flow'.pc = "append" /\ flow'.original = flow.original
        /\ flow'.data = flow.data /\ flow'.file = Created /\ flow'.first = TRUE
        /\ flow'.runs = flow.runs /\ flow'.result = flow.result
    BY <1>4, <1>6, FlowFields DEF FlowRecords
  <2>2. ChunkInv' /\ Once' /\ tx'.contents = Rest
    BY <1>6, StartKeeps
  <2>3. FlowTypes' /\ Data' /\ First' /\ FinalHasContents' /\ FinalFollowsFirst'
    BY <1>0, <2>1, <2>2 DEF FlowTypes, Data, First, FinalHasContents, FinalFollowsFirst
  <2>4. File'
    <3>1. UsesFile' = UsesFile
      BY <2>1 DEF UsesFile
    <3>2. tx'.contents = SubSeq(flow.data, FirstPart + 1, Len(flow.data))
      BY <2>2 DEF Rest
    <3> QED
      BY <1>2, <1>3, <1>6, <2>1, <3>1, <3>2 DEF File
  <2> QED
    BY <2>2, <2>3, <2>4 DEF FlowInv
<1>7. CASE /\ ~ (UsesFile /\ Rest # << >>) /\ UNCHANGED vars
           /\ flow' = IF UsesFile THEN Filed(f) ELSE [f EXCEPT !.pc = "final"]
  <2>1. /\ flow.kind # "Ethereum" /\ file \in Seq(Nat) /\ flow.data = flow.original
        /\ flow.kind = "ContractCreate" => file = flow.data
        /\ flow.kind # "ContractCreate" => file = << >>
    BY <1>0, <1>1, <1>2, <1>3, <1>4, <1>7 DEF UsesFile, Data
  <2> HIDE DEF file
  <2>2. flow' = [flow EXCEPT !.first = TRUE, !.file = file, !.pc = "final"]
    BY <1>7, <2>1, FlowFields DEF Filed, FlowRecords
  <2>3. /\ flow' \in FlowRecords /\ flow'.kind = flow.kind /\ flow'.pc = "final" /\ flow'.original = flow.original
        /\ flow'.data = flow.data /\ flow'.file = file /\ flow'.first = TRUE
        /\ flow'.runs = flow.runs /\ flow'.result = flow.result
    BY <2>1, <2>2, FlowFields DEF FlowRecords
  <2>4. ChunkInv' /\ UNCHANGED <<tx, call, throttles>>
    BY <1>7, StutterKeeps DEF FlowInv, vars
  <2>5. FlowTypes' /\ Data' /\ First' /\ FinalHasContents' /\ FinalFollowsFirst'
    BY <1>0, <2>3, <2>4 DEF FlowTypes, Data, First, FinalHasContents, FinalFollowsFirst, Once
  <2>6. Final'.contents = flow.original
    <3>1. flow.data \o << >> = flow.data
      BY <1>1
    <3> QED
      BY <2>1, <2>3, <3>1 DEF Final
  <2>7. File'
    BY <2>3, <2>6 DEF File
  <2> QED
    BY <2>4, <2>5, <2>7 DEF FlowInv
<1> QED
  BY <1>5, <1>6, <1>7 DEF FirstTransaction

\* The append has returned: the two parts are the whole contents.
LEMMA AppendedKeeps ==
  ASSUME FlowInv, Appended
  PROVE  FlowInv'
<1>0. /\ ChunkInv /\ FlowTypes /\ Data /\ File /\ First /\ FinalHasContents /\ FinalFollowsFirst
      /\ flow.pc = "append" /\ flow.kind # "none" /\ UNCHANGED vars /\ ran' = ran
      /\ UNCHANGED <<tx, call, throttles>> /\ Once
  BY DEF FlowInv, Appended, vars, FlowTypes
<1> DEFINE file == flow.file \o ledger
<1>1. file \in Seq(Nat)
  <2>1. ledger \in Seq(Nat) /\ flow.file \in Seq(Nat)
    BY <1>0, FlowFields DEF ChunkInv, Shape
  <2> QED
    BY <2>1
<1>2. /\ UsesFile /\ flow.data = flow.original /\ FirstPart <= Len(flow.data)
      /\ flow.file = SubSeq(flow.data, 1, FirstPart)
      /\ tx.contents = SubSeq(flow.data, FirstPart + 1, Len(flow.data))
  BY <1>0 DEF File
<1>3. result = "ok" /\ NotThrottled => file = flow.original
  <2>1. result = "ok" /\ NotThrottled => ledger = tx.contents
    BY <1>0 DEF ChunkInv, Progress
  <2>2. flow.data \in Seq(Nat) /\ FirstPart \in Nat /\ IsInjective(flow.data)
    BY <1>2, FileIsForAll, FlowFields
  <2>3. FirstPart <= Len(flow.data) =>
          SubSeq(flow.data, 1, FirstPart) \o SubSeq(flow.data, FirstPart + 1, Len(flow.data)) = flow.data
    BY <2>2, TwoParts
  <2>4. flow.file \o tx.contents = flow.original
    BY <1>2, <2>3
  <2> QED
    BY <2>1, <2>4
<1> HIDE DEF file
<1>4. CASE flow' = FlowReturn([flow EXCEPT !.file = file], "error")
  BY <1>0, <1>1, <1>4, ErrorKeeps
<1>5. CASE result = "ok" /\ flow' = Filed([flow EXCEPT !.file = file])
  <2> DEFINE data == IF flow.kind = "Ethereum" THEN << >> ELSE flow.data
  <2>1. data \in Seq(Nat)
    BY FlowFields, EmptySeq
  <2>2. flow' = [flow EXCEPT !.file = file, !.pc = "final", !.data = data]
    BY <1>5, FlowFields DEF Filed, FlowRecords
  <2> HIDE DEF data
  <2>3. /\ flow' \in FlowRecords /\ flow'.kind = flow.kind /\ flow'.pc = "final" /\ flow'.original = flow.original
        /\ flow'.data = data /\ flow'.file = file /\ flow'.first = flow.first
        /\ flow'.runs = flow.runs /\ flow'.result = flow.result
    BY <1>1, <2>1, <2>2, FlowFields DEF FlowRecords
  <2>4. ChunkInv'
    BY <1>0, StutterKeeps
  <2>5. FlowTypes' /\ Data' /\ First' /\ FinalHasContents' /\ FinalFollowsFirst'
    BY <1>0, <2>3 DEF FlowTypes, Data, First, FinalHasContents, FinalFollowsFirst, Once, data
  <2>6. NotThrottled' => Final'.contents = flow.original
    <3>1. NotThrottled' = NotThrottled
      BY <1>0 DEF NotThrottled, Size
    <3>2. << >> \o file = file
      BY <1>1
    <3>3. flow.kind \in {"ContractCreate", "Ethereum"}
      BY <1>2, FileIsForAll
    <3>4. Final'.contents = file
      BY <2>3, <3>2, <3>3 DEF Final, data
    <3> QED
      BY <1>3, <1>5, <3>1, <3>4
  <2>7. File'
    BY <2>3, <2>6 DEF File
  <2> QED
    BY <2>4, <2>5, <2>7 DEF FlowInv
<1> QED
  BY <1>4, <1>5 DEF Appended, file

\* The final transaction takes effect, or fails.
LEMMA FinalKeeps ==
  ASSUME FlowInv, FinalTransaction
  PROVE  FlowInv'
<1>0. /\ FlowTypes /\ Data /\ File /\ First /\ FinalHasContents /\ FinalFollowsFirst
      /\ flow.pc = "final" /\ flow.kind # "none" /\ UNCHANGED <<tx, call, throttles>> /\ UNCHANGED vars
      /\ ran' \in {ran, ran \cup {Final}}
  BY DEF FlowInv, FinalTransaction, FlowTypes, vars
<1>1. PICK r \in {"ok", "error"} : (r = "ok" => Final \in ran') /\ flow' = FlowReturn(flow, r)
  BY DEF FinalTransaction
<1>2. /\ flow' \in FlowRecords /\ flow'.kind = flow.kind /\ flow'.pc = "returned" /\ flow'.original = flow.original
      /\ flow'.data = flow.data /\ flow'.runs = flow.runs /\ flow'.result = r
  BY <1>1, FlowFields DEF FlowRecords, FlowReturn
<1>3. ChunkInv'
  BY <1>0, StutterKeeps DEF FlowInv
<1>4. FlowTypes' /\ Data' /\ File' /\ First'
  BY <1>0, <1>2 DEF FlowTypes, Data, File, First, Once
<1>5. FinalHasContents'
  <2>1. ~ Final.throttled /\ ~ Final.emptied => Final.contents = flow.original
    BY <1>0 DEF File, Final
  <2> QED
    BY <1>0, <1>2, <2>1 DEF FinalHasContents
<1>6. FinalFollowsFirst'
  <2>1. Final.run = flow.runs /\ (flow.kind \in {"ContractCreate", "TokenReject"} => Final.first)
    BY <1>0 DEF Final, First
  <2> QED
    BY <1>0, <1>1, <1>2, <2>1 DEF FinalFollowsFirst
<1> QED
  BY <1>3, <1>4, <1>5, <1>6 DEF FlowInv

\* A step that changes nothing.
LEMMA FlowStutterKeeps ==
  ASSUME FlowInv, UNCHANGED <<vars, flowVars>>
  PROVE  FlowInv'
<1>1. ChunkInv' /\ UNCHANGED <<tx, call, throttles>> /\ flow' = flow /\ ran' = ran
  BY StutterKeeps DEF FlowInv, vars, flowVars
<1>2. FlowTypes' /\ Data' /\ First' /\ FinalHasContents' /\ FinalFollowsFirst'
  BY <1>1 DEF FlowInv, FlowTypes, Once, Data, First, FinalHasContents, FinalFollowsFirst
<1>3. File'
  BY <1>1 DEF FlowInv, File, UsesFile, Final, NotThrottled, Size
<1> QED
  BY <1>1, <1>2, <1>3 DEF FlowInv

\* The invariant holds at first.
LEMMA FlowInitInv == FlowInit => FlowInv
<1> SUFFICES ASSUME FlowInit PROVE FlowInv
  OBVIOUS
<1>1. ChunkInv /\ Once /\ ran = {}
  BY InitInv DEF FlowInit, Init, Once
<1>2. tx.contents \in Seq(Nat) /\ IsInjective(tx.contents) /\ << >> \in Seq(Nat)
  BY <1>1, Fields, EmptySeq DEF ChunkInv, Shape
<1>3. PICK kind \in FlowKinds \cup {"none"} :
        flow = [kind |-> kind, pc |-> IF kind = "none" THEN "append" ELSE "idle",
                original |-> tx.contents, data |-> tx.contents, file |-> << >>,
                first |-> FALSE, runs |-> 0, result |-> "none"]
  BY DEF FlowInit
<1>4. kind \in {"none", "ContractCreate", "Ethereum", "TokenReject"}
  BY FlowAssumption
<1>5. flow \in FlowRecords
  BY <1>2, <1>3 DEF FlowRecords
<1>6. /\ flow.kind = kind /\ flow.pc = (IF kind = "none" THEN "append" ELSE "idle")
      /\ flow.original = tx.contents /\ flow.data = tx.contents /\ flow.result = "none"
  BY <1>3
<1>7. FlowTypes /\ Data /\ File /\ First
  BY <1>1, <1>2, <1>5, <1>6 DEF FlowTypes, Data, File, First
<1>8. FinalHasContents /\ FinalFollowsFirst
  BY <1>1, <1>6 DEF FinalHasContents, FinalFollowsFirst
<1> QED
  BY <1>1, <1>7, <1>8 DEF FlowInv

\* The invariant of flows and of the append within them holds at all times.
THEOREM FlowsAreKept == FlowSpec => []FlowInv
<1>1. ASSUME FlowInv, FlowNext PROVE FlowInv'
  <2>1. CASE FlowExecute
    BY <1>1, <2>1, FlowExecuteKeeps
  <2>2. CASE FirstTransaction
    BY <1>1, <2>2, FirstKeeps
  <2>3. CASE Appended
    BY <1>1, <2>3, AppendedKeeps
  <2>4. CASE FinalTransaction
    BY <1>1, <2>4, FinalKeeps
  <2>5. CASE FlowEnd
    BY <1>1, <2>5, FlowStutterKeeps DEF FlowEnd
  <2>6. CASE ExecuteAgain /\ Appending /\ flow.kind = "none"
    BY <1>1, <2>6, AppendingKeeps DEF Next
  <2>7. CASE /\ \/ FreezeWith \/ Submit \/ Resubmit \/ Expired \/ Refuse
                \/ Success \/ Throttled \/ Failed \/ NoReceipt
             /\ Appending
    <3>1. ~ ExecuteAgain
      <4>1. call.pc # "returned"
        BY <2>7 DEF FreezeWith, Submit, Resubmit, Expired, Refuse, Success, Throttled, Failed, NoReceipt, Waiting
      <4> QED
        BY <4>1 DEF ExecuteAgain
    <3> QED
      BY <1>1, <2>7, <3>1, AppendingKeeps DEF Next
  <2> QED
    BY <1>1, <2>1, <2>2, <2>3, <2>4, <2>5, <2>6, <2>7 DEF FlowNext
<1>2. FlowInv /\ [FlowNext]_<<vars, flowVars>> => FlowInv'
  BY <1>1, FlowStutterKeeps
<1> QED
  BY <1>2, FlowInitInv, PTL DEF FlowSpec

\* Whatever fails in this execution of a flow or in earlier ones, its final
\* transaction works on all of the contents, for parts of any sizes.
THEOREM FinalIsComplete == FlowSpec => []FinalHasContents
<1>1. FlowInv => FinalHasContents
  BY DEF FlowInv
<1> QED
  BY <1>1, FlowsAreKept, PTL

\* No contract is created and no account dissociated before the first transaction of
\* the same execution has succeeded.
THEOREM FirstIsFirst == FlowSpec => []FinalFollowsFirst
<1>1. FlowInv => FinalFollowsFirst
  BY DEF FlowInv
<1> QED
  BY <1>1, FlowsAreKept, PTL

\* The append of a flow, or a chunked transaction alone, keeps the order of its
\* chunks, reports success only for all of them, and repeats none.
THEOREM FlowChunks == FlowSpec => [](ContentsInOrder /\ OkMeansComplete /\ NothingTwice)
<1>1. FlowInv => ContentsInOrder /\ OkMeansComplete /\ NothingTwice
  BY Kept DEF FlowInv
<1> QED
  BY <1>1, FlowsAreKept, PTL
=============================================================================
