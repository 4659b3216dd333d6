------------------------- MODULE TopicSubscription -------------------------
(***************************************************************************)
(* TopicMessageQuery.Subscribe: the goroutine that reads the stream (see   *)
(* StreamReader), the goroutine that puts messages together from their     *)
(* chunks and calls the handlers, and the application, which may           *)
(* unsubscribe at any time.                                                *)
(*                                                                         *)
(* A response is one chunk of a message.  The messages of different        *)
(* senders interleave, and the chunks of one may come in any order.  The   *)
(* topic is taken to hold every chunk once.                                *)
(***************************************************************************)
EXTENDS StreamReader, SequencesExt

CONSTANTS
  Message,         \* initial transaction IDs of the messages of the topic
  Total,           \* how many chunks each has
  MaxResponses,    \* bound: responses received
  MaxFailures      \* bound: errors of the stream

ASSUME TotalAssumption == Total \in [Message -> Nat \ {0}]
ASSUME BoundAssumption == {MaxResponses, MaxFailures} \subseteq Nat

VARIABLES
  consumer,    \* the goroutine: pc, the chunks it holds, and how many it has taken
  calls        \* what the application has been told, in order (history)

vars == <<cancelled, stream, received, failures, reader, consumer, calls>>

Chunk == {c \in [message : Message, number : 1..MaxResponses] : c.number <= Total[c.message]}

ASSUME ResponseAssumption == Response = Chunk

Init ==
  /\ ReaderInit
  /\ consumer = [pc |-> "select", messages |-> [m \in Message |-> << >>], taken |-> 0]
  /\ calls = << >>
-----------------------------------------------------------------------------
(* The consumer *)

CompletionHandler == Append(calls, [handler |-> "completion"])
ErrorHandler == Append(calls, [handler |-> "error"])

\* The message that onNext gets: every chunk goes to the place of its number.
OnNext(m, parts) ==
  Append(calls, [handler |-> "onNext", message |-> m,
                 chunks |-> [n \in DOMAIN parts |-> {p \in ToSet(parts) : p.number = n}]])

Returned == [consumer EXCEPT !.pc = "returned"]

\* Case ctx.Done() of the select.
Done ==
  /\ consumer.pc = "select" /\ cancelled
  /\ consumer' = Returned
  /\ calls' = CompletionHandler
  /\ UNCHANGED readerVars

\* Faulty variant of Closed: the consumer goes on receiving from the closed channel.
ClosedIgnored == consumer.pc = "select" /\ reader.pc = "done" /\ UNCHANGED vars

\* The channel is closed.
Closed ==
  /\ consumer.pc = "select" /\ reader.pc = "done"
  /\ consumer' = Returned
  /\ calls' = CompletionHandler
  /\ UNCHANGED readerVars

\* Faulty variant of ReceiveError: the consumer goes on after an error.
ReceiveErrorGoesOn ==
  /\ consumer.pc = "select" /\ reader.pc = "send" /\ reader.item.err # "none"
  /\ reader' = Handed
  /\ calls' = ErrorHandler
  /\ UNCHANGED <<cancelled, stream, received, failures, consumer>>

\* An error arrives.
ReceiveError ==
  /\ consumer.pc = "select" /\ reader.pc = "send" /\ reader.item.err # "none"
  /\ reader' = Handed
  /\ consumer' = Returned
  /\ calls' = ErrorHandler
  /\ UNCHANGED <<cancelled, stream, received, failures>>

\* Faulty variant of Completes: chunks are passed on one too early.
CompletesEarly(c, parts) == Len(parts) + 1 >= Total[c.message]

\* With chunk c, the parts are all that its message has.
Completes(c, parts) == Len(parts) = Total[c.message]

\* What the map holds for the message of c afterwards; delete leaves nothing.
Kept(c, parts) == IF Completes(c, parts) THEN << >> ELSE parts

\* A chunk arrives.  A message of one chunk is passed on as it is, which is the
\* same as putting it together.
ReceiveMessage ==
  /\ consumer.pc = "select" /\ reader.pc = "send" /\ reader.item.data # << >>
  /\ LET c == reader.item.data[1]
         parts == Append(consumer.messages[c.message], c)
     IN /\ consumer' = [consumer EXCEPT !.taken = @ + 1, !.messages[c.message] = Kept(c, parts)]
        /\ calls' = IF Completes(c, parts) THEN OnNext(c.message, parts) ELSE calls
  /\ reader' = Handed
  /\ UNCHANGED <<cancelled, stream, received, failures>>
-----------------------------------------------------------------------------
\* Chunks the mirror node can still send; each one is sent once.
Arriving == IF Len(received) < MaxResponses THEN Chunk \ ToSet(received) ELSE {}

RecvChunk == RecvMessage(Arriving) /\ UNCHANGED <<consumer, calls>>
ReaderStep == (ReaderTop \/ Sleep) /\ UNCHANGED <<consumer, calls>>
RecvFails == RecvError(MaxFailures) /\ UNCHANGED <<consumer, calls>>
RecvEnds == (RecvAgain \/ RecvCancelled) /\ UNCHANGED <<consumer, calls>>

\* The handle's Unsubscribe cancels the context; again it does nothing.
Unsubscribe == Cancel /\ UNCHANGED <<consumer, calls>>

\* Nothing is left to do, or the reader waits for a consumer that has returned.
End == consumer.pc = "returned" /\ reader.pc \in {"done", "send"} /\ UNCHANGED vars

Next ==
  \/ RecvChunk \/ ReaderStep \/ RecvFails \/ RecvEnds
  \/ Done \/ Closed \/ ReceiveError \/ ReceiveMessage
  \/ Unsubscribe \/ End

Spec == Init /\ [][Next]_vars

\* The goroutines run; a mirror node need not send or fail, nor the application
\* unsubscribe.
Fairness ==
  /\ WF_vars(ReaderStep) /\ WF_vars(RecvEnds)
  /\ WF_vars(Done) /\ WF_vars(Closed) /\ WF_vars(ReceiveError) /\ WF_vars(ReceiveMessage)

FairSpec == Spec /\ Fairness
-----------------------------------------------------------------------------
(* Properties *)

\* Type invariant.
TypeOK ==
  /\ ReaderTypeOK
  /\ consumer \in [pc : {"select", "returned"}, messages : [Message -> Seq(Chunk)], taken : Nat]
  /\ \A i \in DOMAIN calls :
       \/ calls[i].handler \in {"completion", "error"}
       \/ calls[i].handler = "onNext" /\ calls[i].message \in Message /\ calls[i].chunks \in Seq(SUBSET Chunk)

IsEnd(i) == calls[i].handler \in {"completion", "error"}
Messages == SelectSeq(calls, LAMBDA c : c.handler = "onNext")

\* The end is reported once, by one of the two handlers, when the consumer returns,
\* and no message follows it: Unsubscribe, the end of the stream and its errors race.
EndIsReportedOnce ==
  /\ consumer.pc = "returned" <=> \E i \in DOMAIN calls : IsEnd(i)
  /\ \A i \in DOMAIN calls : IsEnd(i) => i = Len(calls)

\* The reader is left behind only by Unsubscribe: however else the consumer returns,
\* the goroutine that reads has closed the channel, so no send can block for ever.
LeftOnlyByUnsubscribe == consumer.pc = "returned" /\ reader.pc # "done" => cancelled

\* A message that onNext gets has every chunk it was sent in, each in its place,
\* however the chunks of the topic's messages interleave.
MessagesAreComplete ==
  \A i \in DOMAIN calls : calls[i].handler = "onNext" =>
    LET m == calls[i]
    IN /\ Len(m.chunks) = Total[m.message]
       /\ \A n \in DOMAIN m.chunks : m.chunks[n] = {[message |-> m.message, number |-> n]}

\* Position i of the stream is the last chunk of its message.
IsLast(i) ==
  Total[received[i].message] = Len(SelectSeq(SubSeq(received, 1, i), LAMBDA c : c.message = received[i].message))

\* onNext has got the messages whose last chunk the consumer has taken, in the order
\* of those chunks, and the consumer has taken all but at most the last response:
\* retries lose, repeat and reorder nothing.
MessagesArriveInOrder ==
  LET last == SetToSortSeq({i \in 1..consumer.taken : IsLast(i)}, <)
  IN /\ [i \in DOMAIN Messages |-> Messages[i].message] = [i \in DOMAIN last |-> received[last[i]].message]
     /\ consumer.taken = Len(received) - Len(reader.item.data)

\* Each attempt of a query is spent on an error that the stream returned, as long
\* as the stream delivers.
AttemptsAreForErrors == stream = "open" => reader.attempt <= failures

\* The error handler is called for errors of the stream, the completion handler
\* when the application unsubscribes.
UnsubscribeCompletes == (\E i \in DOMAIN calls : calls[i].handler = "error") => failures > 0

\* Once the application has unsubscribed, or the stream has ended, a handler is told.
SubscriptionEnds == (cancelled \/ stream # "open") ~> consumer.pc = "returned"

\* Once the application has unsubscribed, the goroutine that reads the stream returns.
ReaderReturns == cancelled ~> reader.pc = "done"
=============================================================================
