------------------------------- MODULE Flows -------------------------------
(***************************************************************************)
(* Flows: several transactions behind one Execute.  ContractCreateFlow and *)
(* EthereumFlow put contents that are too large for a transaction into a   *)
(* file, by a file creation and a chunked append (ChunkedTransaction), and *)
(* send a transaction that refers to the file.  TokenRejectFlow rejects    *)
(* tokens and then dissociates the account from them.                      *)
(*                                                                         *)
(* A transaction of a flow that is not chunked is one step: its Execute    *)
(* and GetReceipt, which are the subject of Execute and                    *)
(* TransactionResponse.  It succeeds, or an error is returned, with which  *)
(* it may have taken effect all the same.                                  *)
(***************************************************************************)
EXTENDS ChunkedTransaction

CONSTANTS
  FlowKinds,     \* "ContractCreate", "Ethereum", "TokenReject"
  FirstPart,     \* how much of the contents the file creation takes
  JumboLimit,    \* jumboTransactionLimit
  MaxRuns        \* bound: executions of a flow object

ASSUME FlowAssumption ==
  /\ FlowKinds \subseteq {"ContractCreate", "Ethereum", "TokenReject"}
  /\ {FirstPart, JumboLimit, MaxRuns} \subseteq Nat
  /\ FirstPart <= JumboLimit

VARIABLES
  flow,     \* the flow object and its Execute; kind "none" is a chunked transaction alone
  ran       \* final transactions that have taken effect (history)

flowVars == <<flow, ran>>

\* original is what the application has set, data what the object holds of it;
\* first says that the first transaction of this execution has succeeded.
FlowInit ==
  /\ Init
  /\ \E kind \in FlowKinds \cup {"none"} :
       /\ kind # "none" => tx.kind = "FileAppend" /\ tx.regenerate
       /\ flow = [kind |-> kind, pc |-> IF kind = "none" THEN "append" ELSE "idle",
                  original |-> tx.contents, data |-> tx.contents, file |-> << >>,
                  first |-> FALSE, runs |-> 0, result |-> "none"]
  /\ ran = {}
-----------------------------------------------------------------------------
FlowReturn(f, r) == [f EXCEPT !.pc = "returned", !.result = r]

UsesFile == flow.kind = "ContractCreate" \/ (flow.kind = "Ethereum" /\ Len(flow.data) > JumboLimit)

\* Execute of the flow.
FlowExecute ==
  /\ flow.kind # "none" /\ flow.pc \in {"idle", "returned"} /\ flow.runs < MaxRuns
  /\ flow' = [flow EXCEPT !.pc = IF UsesFile \/ flow.kind = "TokenReject" THEN "first" ELSE "final",
                          !.file = << >>, !.first = FALSE, !.runs = @ + 1, !.result = "none"]
  /\ UNCHANGED <<vars, ran>>

\* splitBytecode, or the slices of _CreateFile.
Created == SubSeq(flow.data, 1, IF Len(flow.data) < FirstPart THEN Len(flow.data) ELSE FirstPart)

\* Faulty variant of Rest: one position is in both parts.
RestOverlaps == SubSeq(flow.data, IF FirstPart = 0 THEN 1 ELSE FirstPart, Len(flow.data))

Rest == SubSeq(flow.data, FirstPart + 1, Len(flow.data))

\* The append is a transaction of its own, made for the rest of the contents, and
\* its IDs are counted anew.
StartAppend ==
  /\ tx' = [tx EXCEPT !.contents = Rest, !.ids = << >>, !.index = 0]
  /\ call' = [pc |-> "frozen?", i |-> 0, chunk |-> 0, run |-> 1]
  /\ list' = << >> /\ result' = "none" /\ made' = 0 /\ used' = {}
  /\ ledger' = << >> /\ throttles' = 0

\* The contents are in the file.  EthereumFlow empties the data of the object.
Filed(f) == [f EXCEPT !.pc = "final", !.data = IF f.kind = "Ethereum" THEN << >> ELSE @]

\* Faulty variant of FirstTransaction: the receipt is not looked at.
FirstUnchecked ==
  /\ flow.pc = "first"
  /\ \E ok \in BOOLEAN :
     LET f == [flow EXCEPT !.first = ok, !.file = IF UsesFile /\ ok THEN Created ELSE @]
     IN IF UsesFile /\ Rest # << >>
        THEN flow' = [f EXCEPT !.pc = "append"] /\ StartAppend
        ELSE flow' = (IF UsesFile THEN Filed(f) ELSE [f EXCEPT !.pc = "final"]) /\ UNCHANGED vars
  /\ UNCHANGED ran

\* The creation of the file, or the rejection of the tokens.
FirstTransaction ==
  /\ flow.pc = "first"
  /\ \/ flow' = FlowReturn(flow, "error") /\ UNCHANGED vars
     \/ LET f == [flow EXCEPT !.first = TRUE, !.file = IF UsesFile THEN Created ELSE @]
        IN IF UsesFile /\ Rest # << >>
           THEN flow' = [f EXCEPT !.pc = "append"] /\ StartAppend
           ELSE flow' = (IF UsesFile THEN Filed(f) ELSE [f EXCEPT !.pc = "final"]) /\ UNCHANGED vars
  /\ UNCHANGED ran

\* The append has returned; the receipt of its first chunk is asked for once more.
Appended ==
  /\ flow.kind # "none" /\ flow.pc = "append" /\ call.pc = "returned"
  /\ \/ flow' = FlowReturn([flow EXCEPT !.file = @ \o ledger], "error")
     \/ result = "ok" /\ flow' = Filed([flow EXCEPT !.file = @ \o ledger])
  /\ UNCHANGED <<vars, ran>>

\* What the final transaction of this execution works on: a contract is made from
\* its file, an Ethereum transaction has its data with it or in a file.
Final ==
  [contents |-> IF flow.kind = "ContractCreate" THEN flow.file ELSE flow.data \o flow.file, first |-> flow.first, run |-> flow.runs,
   throttled |-> ~NotThrottled, emptied |-> flow.file = << >> /\ flow.data # flow.original]

\* The creation of the contract, the Ethereum transaction, or the dissociation.
FinalTransaction ==
  /\ flow.pc = "final"
  /\ ran' \in {ran, ran \cup {Final}}
  /\ \E r \in {"ok", "error"} : (r = "ok" => Final \in ran') /\ flow' = FlowReturn(flow, r)
  /\ UNCHANGED vars
-----------------------------------------------------------------------------
(* The steps of the append *)

Appending == flow.pc = "append" /\ UNCHANGED flowVars

FlowEnd ==
  /\ flow.kind = "none" => call.pc = "returned"
  /\ flow.kind # "none" => flow.pc = "returned" /\ flow.runs = MaxRuns
  /\ UNCHANGED <<vars, flowVars>>

FlowNext ==
  \/ FlowExecute \/ FirstTransaction \/ Appended \/ FinalTransaction \/ FlowEnd
  \/ FreezeWith /\ Appending
  \/ ExecuteAgain /\ Appending /\ flow.kind = "none"
  \/ Submit /\ Appending
  \/ Resubmit /\ Appending
  \/ Expired /\ Appending
  \/ Refuse /\ Appending
  \/ Success /\ Appending
  \/ Throttled /\ Appending
  \/ Failed /\ Appending
  \/ NoReceipt /\ Appending

FlowSpec == FlowInit /\ [][FlowNext]_<<vars, flowVars>>
-----------------------------------------------------------------------------
(* Properties *)

\* Type invariant of the flow.
FlowTypeOK ==
  /\ flow.kind \in FlowKinds \cup {"none"}
  /\ flow.pc \in {"idle", "first", "append", "final", "returned"}
  /\ {flow.original, flow.data, flow.file} \subseteq Seq(Nat)
  /\ flow.first \in BOOLEAN /\ flow.runs \in 0..MaxRuns /\ flow.result \in {"none", "ok", "error"}

\* The final transaction of a flow works on all of the contents the application has
\* set and on nothing else, whatever failed before it and in earlier executions:
\* the two parts of the file neither overlap nor leave a gap.  Excepted are an
\* append that was throttled (see ThrottlingIsHandled) and an EthereumFlow that is
\* executed again (see FinalHasContentsAgain).
FinalHasContents ==
  \A f \in ran : ~f.throttled /\ ~f.emptied => f.contents = flow.original

\* The final transaction of a flow takes effect only when the first one of the same
\* execution has succeeded: no account is dissociated from tokens it has not
\* rejected, no contract made from a file that may not be there.  When Execute of a
\* flow returns no error, the final transaction has taken effect.
FinalFollowsFirst ==
  /\ \A f \in ran : flow.kind \in {"ContractCreate", "TokenReject"} => f.first
  /\ flow.result = "ok" => \E f \in ran : f.run = flow.runs

\* ethereum_flow.go: "Execute executes the Transaction with the provided client".
\* An EthereumFlow that is executed once more after an error works on its contents.
FinalHasContentsAgain == \A f \in ran : ~f.throttled => f.contents = flow.original
=============================================================================
