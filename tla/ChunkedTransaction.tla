------------------------- MODULE ChunkedTransaction -------------------------
(***************************************************************************)
(* FileAppendTransaction and TopicMessageSubmitTransaction: contents that  *)
(* are cut into chunks, each with a transaction ID and a body of its own,  *)
(* and executeAll, which submits them one after the other and waits for    *)
(* the receipt of each.                                                    *)
(*                                                                         *)
(* Contents are the sequence of their positions.  The network is left      *)
(* open: it accepts or refuses a submission, and what it has accepted      *)
(* reaches consensus, or not, with the receipt the SDK asks for.  The      *)
(* attempts of one submission are those of Execute and Transaction.        *)
(***************************************************************************)
EXTENDS Integers, SequencesExt

CONSTANTS
  Kinds,          \* "FileAppend", "TopicMessageSubmit"
  Lengths,        \* lengths of contents
  ChunkSizes,     \* chunk sizes set
  MaxChunks,      \* the limit maxChunks
  Regenerate,     \* values of the regeneration flag of the transaction
  MaxThrottles,   \* bound: receipts with THROTTLED_AT_CONSENSUS
  MaxExecutions,  \* bound: executions of an object
  MaxIDs          \* bound: transaction IDs generated

ASSUME KindAssumption == Kinds \subseteq {"FileAppend", "TopicMessageSubmit"}
ASSUME LengthAssumption == Lengths \subseteq Nat /\ ChunkSizes \subseteq Nat \ {0}
ASSUME BoundAssumption ==
  {MaxChunks, MaxThrottles, MaxIDs, MaxExecutions} \subseteq Nat /\ Regenerate \subseteq BOOLEAN

VARIABLES
  tx,          \* kind, flag, contents, chunk size, IDs of the chunks and the index into them
  call,        \* executeAll: pc, chunk it is at, submission that waits for a receipt, which execution
  list,        \* the responses it has collected: the chunk each one is for
  result,      \* what Execute has returned: "none", "ok", "error" or "panic"
  made,        \* IDs generated so far
  used,        \* IDs of accepted submissions
  ledger,      \* what has reached consensus, in order
  throttles    \* throttled receipts so far

vars == <<tx, call, list, result, made, used, ledger, throttles>>

Init ==
  /\ \E kind \in Kinds, flag \in Regenerate, n \in Lengths, s \in ChunkSizes :
       tx = [kind |-> kind, regenerate |-> flag, contents |-> [k \in 1..n |-> k],
             chunkSize |-> s, ids |-> << >>, index |-> 0]
  /\ call = [pc |-> "frozen?", i |-> 0, chunk |-> 0, run |-> 1]
  /\ list = << >>
  /\ result = "none"
  /\ made = 0
  /\ used = {}
  /\ ledger = << >>
  /\ throttles = 0
-----------------------------------------------------------------------------
(* Freezing *)

\* Faulty variant of ChunkCount: a last chunk that is not full is left out.
ChunkCountDown == Len(tx.contents) \div tx.chunkSize

ChunkCount == (Len(tx.contents) + (tx.chunkSize - 1)) \div tx.chunkSize

\* The contents of chunk c, counted from 1.
Slice(c) ==
  LET end == c * tx.chunkSize
  IN SubSeq(tx.contents, (c - 1) * tx.chunkSize + 1, IF end < Len(tx.contents) THEN end ELSE Len(tx.contents))

Return(r) ==
  /\ result' = r
  /\ call' = [call EXCEPT !.pc = "returned"]

\* One ID per chunk, a nanosecond apart.
ChunkIDs == [c \in 1..ChunkCount |-> made + c]

\* FreezeWith.  With no chunk at all executeAll returns an empty list, of which
\* FileAppendTransaction.Execute takes the first element.
FreezeWith ==
  /\ call.pc = "frozen?"
  /\ IF ChunkCount > MaxChunks
     THEN Return("error") /\ UNCHANGED <<tx, made>>
     ELSE /\ made + ChunkCount <= MaxIDs
          /\ tx' = [tx EXCEPT !.ids = ChunkIDs]
          /\ made' = made + ChunkCount
          /\ IF ChunkCount > 0 THEN call' = [call EXCEPT !.pc = "execute"] /\ UNCHANGED result
             ELSE Return(IF tx.kind = "FileAppend" THEN "panic" ELSE "error")
  /\ UNCHANGED <<list, used, ledger, throttles>>
-----------------------------------------------------------------------------
(* executeAll *)

Size == Len(tx.ids)
Fresh(ids) == [ids EXCEPT ![tx.index + 1] = made + 1]

\* mapResponse takes the ID and advances the index.
Advanced(t) == [t EXCEPT !.index = (@ + 1) % Len(t.ids)]

\* _Execute returns a response for the chunk at the index.
Accepted(next) ==
  /\ tx.ids[tx.index + 1] \notin used
  /\ used' = used \cup {tx.ids[tx.index + 1]}
  /\ tx' = Advanced(tx)
  /\ call' = [call EXCEPT !.pc = next, !.chunk = tx.index + 1]

Submit ==
  /\ call.pc = "execute" /\ Accepted("receipt")
  /\ list' = Append(list, tx.index + 1)
  /\ UNCHANGED <<result, made, ledger, throttles>>

\* The submission after a throttled receipt, for which Throttled has regenerated
\* the ID.
Resubmit ==
  /\ call.pc = "resubmit" /\ Accepted("receipt again")
  /\ UNCHANGED <<list, result, made, ledger, throttles>>

\* TRANSACTION_EXPIRED: the submission goes on with another ID.
Expired ==
  /\ call.pc \in {"execute", "resubmit"} /\ tx.regenerate /\ made < MaxIDs
  /\ tx' = [tx EXCEPT !.ids = Fresh(@)]
  /\ made' = made + 1
  /\ UNCHANGED <<call, list, result, used, ledger, throttles>>

\* _Execute returns an error; nothing was accepted.
Refuse ==
  /\ call.pc \in {"execute", "resubmit"}
  /\ Return("error")
  /\ UNCHANGED <<tx, list, made, used, ledger, throttles>>

Waiting == call.pc \in {"receipt", "receipt again"}

\* A resubmission that is not throttled takes the place of the first response.
Listed == IF call.pc = "receipt" THEN list ELSE [list EXCEPT ![call.i + 1] = call.chunk]

\* The receipt says SUCCESS: the next chunk, or the end.
Success ==
  /\ Waiting
  /\ ledger' = ledger \o Slice(call.chunk)
  /\ list' = Listed
  /\ IF call.i + 1 < Size
     THEN call' = [call EXCEPT !.pc = "execute", !.i = @ + 1] /\ UNCHANGED result
     ELSE Return("ok")
  /\ UNCHANGED <<tx, made, used, throttles>>

\* The receipt says THROTTLED_AT_CONSENSUS: regenerateID, and once more.
Throttled ==
  /\ Waiting /\ throttles < MaxThrottles
  /\ throttles' = throttles + 1
  /\ call' = [call EXCEPT !.pc = "resubmit"]
  /\ IF tx.regenerate
     THEN made < MaxIDs /\ made' = made + 1 /\ tx' = [tx EXCEPT !.ids = Fresh(@)]
     ELSE UNCHANGED <<tx, made>>
  /\ UNCHANGED <<list, result, used, ledger>>

\* The receipt has another status; an error of a resubmission is dropped with the
\* status of the receipt kept, and the response listed when there was none.
Failed ==
  /\ Waiting
  /\ list' \in {list, Listed}
  /\ Return("error")
  /\ UNCHANGED <<tx, made, used, ledger, throttles>>

\* Faulty variant of NoReceipt: the chunk is submitted again with another ID.
NoReceiptRetried ==
  /\ Waiting /\ made < MaxIDs
  /\ ledger' \in {ledger, ledger \o Slice(call.chunk)}
  /\ made' = made + 1
  /\ tx' = [tx EXCEPT !.ids = Fresh(@)]
  /\ call' = [call EXCEPT !.pc = "resubmit"]
  /\ UNCHANGED <<list, result, used, throttles>>

\* No receipt could be had; the chunk may have reached consensus all the same.
\* The query drops the error and its empty receipt is not a success.
NoReceipt ==
  /\ Waiting
  /\ ledger' \in {ledger, ledger \o Slice(call.chunk)}
  /\ list' = Listed
  /\ Return("error")
  /\ UNCHANGED <<tx, made, used, throttles>>

\* Faulty variant of ExecuteAgain: the transaction is frozen once more, for new IDs.
ExecuteAgainRefrozen ==
  /\ call.pc = "returned" /\ tx.ids # << >> /\ call.run < MaxExecutions
  /\ made + Size <= MaxIDs
  /\ tx' = [tx EXCEPT !.ids = ChunkIDs]
  /\ made' = made + Size
  /\ call' = [pc |-> "execute", i |-> 0, chunk |-> 0, run |-> call.run + 1]
  /\ list' = << >>
  /\ result' = "none"
  /\ UNCHANGED <<used, ledger, throttles>>

\* Execute on a transaction that is frozen: as many chunks as it has, beginning with
\* the one the index was left at.
ExecuteAgain ==
  /\ call.pc = "returned" /\ tx.ids # << >> /\ call.run < MaxExecutions
  /\ call' = [pc |-> "execute", i |-> 0, chunk |-> 0, run |-> call.run + 1]
  /\ list' = << >>
  /\ result' = "none"
  /\ UNCHANGED <<tx, made, used, ledger, throttles>>

End == call.pc = "returned" /\ UNCHANGED vars

Next ==
  \/ FreezeWith \/ ExecuteAgain \/ Submit \/ Resubmit \/ Expired \/ Refuse
  \/ Success \/ Throttled \/ Failed \/ NoReceipt \/ End

Spec == Init /\ [][Next]_vars
-----------------------------------------------------------------------------
(* Properties *)

\* Type invariant; the index stays within the IDs of the chunks.
TypeOK ==
  /\ tx.contents \in Seq(Nat) /\ tx.ids \in Seq(1..MaxIDs)
  /\ tx.index \in Nat /\ (tx.ids # << >> => tx.index < Len(tx.ids))
  /\ call \in [pc : {"frozen?", "execute", "resubmit", "receipt", "receipt again", "returned"},
               i : 0..MaxChunks, chunk : 0..MaxChunks, run : 1..MaxExecutions]
  /\ list \in Seq(1..MaxChunks)
  /\ result \in {"none", "ok", "error", "panic"}
  /\ made \in 0..MaxIDs /\ used \subseteq 1..MaxIDs
  /\ ledger \in Seq(Nat) /\ throttles \in 0..MaxThrottles

\* No receipt of one chunk of several has been throttled (see ThrottlingIsHandled).
NotThrottled == throttles = 0 \/ Size <= 1

\* The object is executed for the first time.
Once == call.run = 1

\* What reaches consensus is a beginning of the contents: no chunk is lost,
\* repeated or out of place, wherever the execution fails; with a single chunk
\* also when it is throttled and submitted again.
ContentsInOrder == NotThrottled /\ Once => IsPrefix(ledger, tx.contents)

\* When Execute returns no error, all of the contents has reached consensus, and the
\* i-th response is that of the i-th chunk.
OkMeansComplete ==
  NotThrottled /\ Once /\ result = "ok" =>
    ledger = tx.contents /\ \A k \in DOMAIN list : list[k] = k

\* A transaction whose IDs are not regenerated can be executed again after an error,
\* or by mistake, and go on after throttled receipts: the IDs of its chunks are those
\* of its freezing, and no part of the contents reaches consensus twice.  No ID is
\* submitted for two chunks.
NothingTwice ==
  /\ ~tx.regenerate => IsInjective(ledger)
  /\ IsInjective(tx.ids)

\* chunked_executor.go: "executes all chunks of a transaction with proper throttling
\* handling".  When Execute returns no error, all of the contents has reached
\* consensus, after throttled receipts too.
ThrottlingIsHandled == Once /\ result = "ok" => ToSet(ledger) = ToSet(tx.contents)

\* Execute returns a response or an error.
NoPanic == result # "panic"
=============================================================================
