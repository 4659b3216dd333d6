---------------------- MODULE TopicSubscriptionProofs ----------------------
(***************************************************************************)
(* Theorems about TopicSubscription, for any messages, numbers of chunks,  *)
(* attempts and failures: the end is reported once, the reader is left     *)
(* behind only by Unsubscribe, and a message is passed on when it is       *)
(* complete.                                                               *)
(*                                                                         *)
(* The inductive invariant Inv adds to the properties what the channel     *)
(* holds (Item) and what the consumer holds of a message (Parts): different *)
(* chunks of that message, all received, without the one on the channel.   *)
(* As many different chunks as there are numbers are all of them, by the   *)
(* pigeonhole principle (Surjective).                                      *)
(***************************************************************************)
EXTENDS TopicSubscription, FiniteSetTheorems, TLAPS

Readers ==
  [pc : {"top", "sleep", "recv", "send", "done"}, err : StreamError \cup {"none", "cancelled"}, attempt : Nat,
   item : [data : Seq(Chunk), err : {"none", "context", "fatal", "max attempts"}]]

Consumers == [pc : {"select", "returned"}, messages : [Message -> Seq(Chunk)], taken : Nat]

Types ==
  /\ cancelled \in BOOLEAN /\ stream \in StreamError \cup {"open"} /\ received \in Seq(Chunk)
  /\ reader \in Readers /\ consumer \in Consumers
  /\ DOMAIN calls = 1..Len(calls) /\ Len(calls) \in Nat

\* What the channel holds: nothing, one chunk, or an error.
Item ==
  /\ reader.pc # "send" => reader.item = Nothing
  /\ reader.pc = "send" /\ reader.item.data # << >> =>
       reader.item.err = "none" /\ \E c \in Chunk : reader.item.data = <<c>> /\ c \in ToSet(received)
  /\ reader.pc = "send" /\ reader.item.data = << >> => reader.item.err # "none"

\* The parts of message m: different chunks of m that were received.
PartsOf(m, parts, chunks) ==
  /\ IsInjective(parts)
  /\ \A i \in DOMAIN parts : parts[i].message = m /\ parts[i] \in chunks

Parts ==
  /\ \A m \in Message : PartsOf(m, consumer.messages[m], ToSet(received))
  /\ reader.pc = "send" /\ reader.item.data # << >> =>
       LET c == reader.item.data[1]
       IN \A i \in DOMAIN consumer.messages[c.message] : consumer.messages[c.message][i] # c

Inv == Types /\ Item /\ Parts /\ EndIsReportedOnce /\ LeftOnlyByUnsubscribe /\ MessagesAreComplete
-----------------------------------------------------------------------------
\* As many different numbers as there are numbers are all of them.
LEMMA Surjective ==
  ASSUME NEW n \in Nat, NEW f \in [1..n -> 1..n], IsInjective(f)
  PROVE  \A k \in 1..n : \E i \in 1..n : f[i] = k
<1>1. f \in Injection(1..n, 1..n)
  BY DEF Injection
<1>2. IsFiniteSet(1..n)
  BY FS_Interval
<1>3. f \in Surjection(1..n, 1..n)
  BY <1>1, <1>2, FS_Injection
<1> QED
  BY <1>3 DEF Surjection

\* All chunks of a message, each in its place.
Whole(m, parts) ==
  \A n \in 1..Total[m] : {p \in ToSet(parts) : p.number = n} = {[message |-> m, number |-> n]}

\* As many different chunks of a message as it has are all of them.
LEMMA AllParts ==
  ASSUME NEW m \in Message, NEW parts \in Seq(Chunk), IsInjective(parts),
         \A i \in DOMAIN parts : parts[i].message = m, Len(parts) = Total[m]
  PROVE  Whole(m, parts)
<1>1. Total[m] \in Nat /\ DOMAIN parts = 1..Total[m] /\ MaxResponses \in Nat
  BY TotalAssumption, BoundAssumption
<1>2. ASSUME NEW i \in 1..Total[m]
      PROVE  parts[i] = [message |-> m, number |-> parts[i].number] /\ parts[i].number \in 1..Total[m]
  <2>1. parts[i] \in Chunk /\ parts[i].message = m
    BY <1>1
  <2>2. /\ parts[i] \in [message : Message, number : 1..MaxResponses]
        /\ parts[i].number <= Total[m]
    BY <2>1 DEF Chunk
  <2>3. parts[i] = [message |-> parts[i].message, number |-> parts[i].number] /\ parts[i].number \in 1..MaxResponses
    BY <2>2
  <2> QED
    BY <1>1, <2>1, <2>2, <2>3
<1> DEFINE f == [i \in 1..Total[m] |-> parts[i].number]
<1>3. f \in [1..Total[m] -> 1..Total[m]]
  BY <1>2
<1>4. IsInjective(f)
  <2>1. ASSUME NEW i \in 1..Total[m], NEW j \in 1..Total[m], parts[i].number = parts[j].number
        PROVE  i = j
    <3>1. parts[i] = parts[j]
      BY <1>2, <2>1
    <3> QED
      BY <1>1, <3>1 DEF IsInjective
  <2> QED
    BY <2>1 DEF IsInjective
<1>5. \A n \in 1..Total[m] : \E i \in 1..Total[m] : f[i] = n
  <2> HIDE DEF f
  <2> QED
    BY <1>1, <1>3, <1>4, Surjective
<1>6. ASSUME NEW n \in 1..Total[m]
      PROVE  {p \in ToSet(parts) : p.number = n} = {[message |-> m, number |-> n]}
  <2>1. PICK i \in 1..Total[m] : parts[i].number = n
    BY <1>5
  <2>2. parts[i] = [message |-> m, number |-> n] /\ parts[i] \in ToSet(parts)
    BY <1>1, <1>2, <2>1 DEF ToSet
  <2>3. ASSUME NEW p \in ToSet(parts), p.number = n PROVE p = [message |-> m, number |-> n]
    <3>1. PICK j \in 1..Total[m] : parts[j] = p
      BY <1>1 DEF ToSet
    <3> QED
      BY <1>2, <2>3, <3>1
  <2> QED
    BY <2>2, <2>3
<1> QED
  BY <1>6 DEF Whole
-----------------------------------------------------------------------------
\* Inv holds when Subscribe has started both goroutines.
LEMMA InitInv == Init => Inv
<1> SUFFICES ASSUME Init PROVE Inv
  OBVIOUS
<1>0. << >> \in Seq(Chunk) /\ Len(<< >>) = 0 /\ DOMAIN << >> = 1..0 /\ 1..0 = {}
  OBVIOUS
<1>1. /\ cancelled = FALSE /\ stream = "open" /\ received = << >> /\ calls = << >>
      /\ reader = [pc |-> "top", err |-> "none", attempt |-> 0, item |-> Nothing]
      /\ consumer = [pc |-> "select", messages |-> [m \in Message |-> << >>], taken |-> 0]
  BY DEF Init, ReaderInit
<1>2. reader \in Readers /\ consumer \in Consumers
  BY <1>0, <1>1 DEF Readers, Consumers, Nothing
<1>3. Types
  BY <1>0, <1>1, <1>2 DEF Types
<1>4. Item /\ LeftOnlyByUnsubscribe
  BY <1>1 DEF Item, LeftOnlyByUnsubscribe
<1>5. Parts
  BY <1>0, <1>1 DEF Parts, PartsOf, IsInjective
<1>6. EndIsReportedOnce /\ MessagesAreComplete
  BY <1>0, <1>1 DEF EndIsReportedOnce, MessagesAreComplete
<1> QED
  BY <1>3, <1>4, <1>5, <1>6 DEF Inv

\* A step of the reader that receives nothing: it fails, waits, returns, or is about
\* to send an error.
Quiet ==
  /\ reader' \in Readers /\ stream' \in StreamError \cup {"open"} /\ cancelled' \in BOOLEAN
  /\ received' = received /\ consumer' = consumer /\ calls' = calls
  /\ cancelled => cancelled'
  /\ reader.pc = "done" => reader'.pc = "done"
  /\ \/ reader' = reader
     \/ reader'.pc # "send" /\ reader'.item = Nothing
     \/ reader'.pc = "send" /\ reader'.item.data = << >> /\ reader'.item.err # "none"

\* Steps of the reader that receive nothing keep Inv.
LEMMA QuietKeeps ==
  ASSUME Inv, Quiet
  PROVE  Inv'
<1>0. Types /\ Item /\ Parts /\ EndIsReportedOnce /\ LeftOnlyByUnsubscribe /\ MessagesAreComplete
  BY DEF Inv
<1>1. Types' /\ EndIsReportedOnce' /\ LeftOnlyByUnsubscribe' /\ MessagesAreComplete'
  BY <1>0 DEF Quiet, Types, EndIsReportedOnce, LeftOnlyByUnsubscribe, MessagesAreComplete, IsEnd
<1>2. Item' /\ Parts'
  <2>0. received' = received /\ consumer' = consumer
    BY DEF Quiet
  <2>1. CASE reader' = reader
    BY <1>0, <2>0, <2>1 DEF Item, Parts
  <2>2. CASE reader'.pc # "send" /\ reader'.item = Nothing
    BY <1>0, <2>0, <2>2 DEF Item, Parts
  <2>3. CASE reader'.pc = "send" /\ reader'.item.data = << >> /\ reader'.item.err # "none"
    BY <1>0, <2>0, <2>3 DEF Item, Parts
  <2> QED
    BY <2>1, <2>2, <2>3 DEF Quiet
<1> QED
  BY <1>1, <1>2 DEF Inv

\* An error carries no data.
LEMMA NoData == << >> \in Seq(Chunk)
  OBVIOUS

\* An error, and no data, is on its way to the consumer.
LEMMA SendingError ==
  ASSUME Types, NEW e \in {"context", "fatal", "max attempts"}, reader' = Sending(ErrorResult(e))
  PROVE  reader' \in Readers /\ reader'.pc = "send" /\ reader'.item.data = << >> /\ reader'.item.err # "none"
<1>1. ErrorResult(e) \in [data : Seq(Chunk), err : {"none", "context", "fatal", "max attempts"}]
  BY NoData DEF ErrorResult
<1>2. reader \in Readers /\ reader' = [reader EXCEPT !.pc = "send", !.item = ErrorResult(e)]
  BY DEF Sending, Types
<1>3. reader' \in Readers /\ reader'.pc = "send" /\ reader'.item = ErrorResult(e)
  BY <1>1, <1>2 DEF Readers
<1>4. ErrorResult(e).data = << >> /\ ErrorResult(e).err = e /\ e # "none"
  BY DEF ErrorResult
<1> QED
  BY <1>3, <1>4

\* The reader's steps but a response, and Unsubscribe, receive nothing.
LEMMA QuietSteps ==
  ASSUME Inv, ReaderStep \/ RecvFails \/ RecvEnds \/ Unsubscribe
  PROVE  Quiet
<1>0. /\ Types /\ Item /\ reader \in Readers /\ consumer' = consumer /\ calls' = calls
      /\ cancelled \in BOOLEAN /\ stream \in StreamError \cup {"open"}
  BY DEF Inv, Types, ReaderStep, RecvFails, RecvEnds, Unsubscribe
<1>1. reader.pc # "send" => reader.item = Nothing
  BY <1>0 DEF Item
<1>2. ASSUME NEW p \in {"recv", "done", "sleep"}, reader' = [reader EXCEPT !.pc = p], reader.pc # "send"
      PROVE  reader' \in Readers /\ reader'.pc # "send" /\ reader'.item = Nothing
  BY <1>0, <1>1, <1>2 DEF Readers
<1>3. CASE ReaderTop
  <2>1. reader.pc = "top" /\ UNCHANGED <<cancelled, stream, received, failures>>
    BY <1>3 DEF ReaderTop
  <2>2. \/ \E e \in {"context", "fatal", "max attempts"} : reader' = Sending(ErrorResult(e))
        \/ \E p \in {"recv", "done", "sleep"} : reader' = [reader EXCEPT !.pc = p]
    BY <1>3 DEF ReaderTop
  <2>3. CASE \E e \in {"context", "fatal", "max attempts"} : reader' = Sending(ErrorResult(e))
    BY <1>0, <2>1, <2>3, SendingError DEF Quiet
  <2>4. CASE \E p \in {"recv", "done", "sleep"} : reader' = [reader EXCEPT !.pc = p]
    BY <1>0, <1>2, <2>1, <2>4 DEF Quiet
  <2> QED
    BY <2>2, <2>3, <2>4
<1>4. CASE Sleep
  <2>1. reader.attempt + 1 \in Nat
    <3>1. reader.attempt \in Nat
      BY <1>0 DEF Readers
    <3> QED
      BY <3>1
  <2>2. /\ reader.pc = "sleep" /\ reader' = [reader EXCEPT !.pc = "recv", !.attempt = reader.attempt + 1]
        /\ UNCHANGED <<cancelled, stream, received, failures>>
    BY <1>4 DEF Sleep
  <2>3. reader' \in Readers /\ reader'.pc = "recv" /\ reader'.item = Nothing
    BY <1>0, <1>1, <2>1, <2>2 DEF Readers
  <2> QED
    BY <1>0, <2>2, <2>3 DEF Quiet
<1>5. ASSUME NEW e \in StreamError \cup {"cancelled"}, reader' = FailedWith(e), reader.pc = "recv"
      PROVE  reader' \in Readers /\ reader'.pc = "top" /\ reader'.item = Nothing
  <2>1. reader' = [reader EXCEPT !.pc = "top", !.err = e]
    BY <1>5 DEF FailedWith
  <2> QED
    BY <1>0, <1>1, <1>5, <2>1 DEF Readers
<1>6. CASE RecvFails
  <2>1. PICK e \in StreamError : reader' = FailedWith(e) /\ \E recovers \in Recovers : stream' = IF recovers THEN "open" ELSE e
    BY <1>6 DEF RecvFails, RecvError
  <2>2. reader.pc = "recv" /\ cancelled' = cancelled /\ received' = received
    BY <1>6 DEF RecvFails, RecvError
  <2>3. stream' \in StreamError \cup {"open"}
    BY <2>1
  <2> QED
    BY <1>0, <1>5, <2>1, <2>2, <2>3 DEF Quiet
<1>7. CASE RecvEnds
  <2>1. /\ reader.pc = "recv" /\ cancelled' = cancelled /\ received' = received /\ stream' = stream
        /\ reader' = FailedWith("cancelled") \/ (stream # "open" /\ reader' = FailedWith(stream))
    BY <1>7 DEF RecvEnds, RecvAgain, RecvCancelled
  <2> QED
    BY <1>0, <1>5, <2>1 DEF Quiet
<1>8. CASE Unsubscribe
  BY <1>0, <1>8 DEF Quiet, Unsubscribe, Cancel
<1> QED
  BY <1>3, <1>4, <1>6, <1>7, <1>8 DEF ReaderStep
-----------------------------------------------------------------------------
\* The responses received, after one more.
LEMMA AppendToSet ==
  ASSUME NEW S, NEW s \in Seq(S), NEW x \in S
  PROVE  ToSet(Append(s, x)) = ToSet(s) \cup {x}
<1> DEFINE t == Append(s, x)
<1>1. /\ DOMAIN s = 1..Len(s) /\ DOMAIN t = 1..(Len(s) + 1) /\ Len(s) \in Nat
      /\ t[Len(s) + 1] = x /\ \A i \in DOMAIN s : t[i] = s[i]
  OBVIOUS
<1> HIDE DEF t
<1>2. ToSet(t) \subseteq ToSet(s) \cup {x}
  BY <1>1 DEF ToSet
<1>3. ToSet(s) \subseteq ToSet(t)
  BY <1>1 DEF ToSet
<1>4. x \in ToSet(t)
  BY <1>1 DEF ToSet
<1> QED
  BY <1>2, <1>3, <1>4 DEF t

\* Recv returns a chunk: a new one, so no message holds it.
LEMMA RecvChunkKeeps ==
  ASSUME Inv, RecvChunk
  PROVE  Inv'
<1>0. Types /\ Item /\ Parts /\ EndIsReportedOnce /\ LeftOnlyByUnsubscribe /\ MessagesAreComplete
  BY DEF Inv
<1>1. PICK r \in Arriving : received' = Append(received, r) /\ reader' = Sending(DataResult(r))
  BY DEF RecvChunk, RecvMessage
<1>2. /\ reader.pc = "recv" /\ consumer' = consumer /\ calls' = calls
      /\ cancelled' = cancelled /\ stream' = stream
  BY DEF RecvChunk, RecvMessage
<1>3. r \in Chunk /\ r \notin ToSet(received) /\ received \in Seq(Chunk)
  BY <1>0, <1>1 DEF Arriving, Types
<1>4. received' \in Seq(Chunk) /\ ToSet(received') = ToSet(received) \cup {r}
  BY <1>1, <1>3, AppendToSet
<1>5. DataResult(r) \in [data : Seq(Chunk), err : {"none", "context", "fatal", "max attempts"}]
  <2>1. <<r>> \in Seq(Chunk)
    BY <1>3
  <2> QED
    BY <2>1 DEF DataResult
<1>6. reader' \in Readers /\ reader'.pc = "send" /\ reader'.item = DataResult(r)
  <2>1. reader \in Readers
    BY <1>0 DEF Types
  <2> QED
    BY <1>1, <1>5, <2>1 DEF Readers, Sending
<1>7. Types' /\ EndIsReportedOnce' /\ MessagesAreComplete'
  BY <1>0, <1>2, <1>4, <1>6 DEF Types, EndIsReportedOnce, MessagesAreComplete, IsEnd
<1>8. LeftOnlyByUnsubscribe'
  BY <1>0, <1>2, <1>6 DEF LeftOnlyByUnsubscribe
<1>9. reader'.item.data = <<r>> /\ reader'.item.err = "none" /\ <<r>> # << >> /\ <<r>>[1] = r
  BY <1>6 DEF DataResult
<1>10. Item'
  BY <1>3, <1>4, <1>6, <1>9 DEF Item
<1>11. Parts'
  <2>1. \A m \in Message : PartsOf(m, consumer.messages[m], ToSet(received'))
    BY <1>0, <1>4 DEF Parts, PartsOf
  <2>2. r.message \in Message
    BY <1>3 DEF Chunk
  <2>3. \A i \in DOMAIN consumer.messages[r.message] : consumer.messages[r.message][i] # r
    BY <1>0, <1>3, <2>2 DEF Parts, PartsOf
  <2> QED
    BY <1>2, <1>9, <2>1, <2>3 DEF Parts
<1> QED
  BY <1>7, <1>8, <1>10, <1>11 DEF Inv

\* The consumer returns and says so, once: the reader has returned, or the context
\* has been cancelled.
LEMMA ReturnKeeps ==
  ASSUME Inv, consumer.pc = "select", consumer' = Returned,
         NEW h \in {"completion", "error"}, calls' = Append(calls, [handler |-> h]),
         reader' \in Readers, reader' = reader \/ (reader'.pc # "send" /\ reader'.item = Nothing),
         UNCHANGED <<cancelled, stream, received>>, cancelled \/ reader'.pc = "done"
  PROVE  Inv'
<1>0. Types /\ Item /\ Parts /\ EndIsReportedOnce /\ LeftOnlyByUnsubscribe /\ MessagesAreComplete
  BY DEF Inv
<1>1. consumer' \in Consumers /\ consumer'.pc = "returned" /\ consumer'.messages = consumer.messages
  BY <1>0 DEF Types, Consumers, Returned
<1>2. /\ Len(calls') = Len(calls) + 1 /\ Len(calls) \in Nat /\ DOMAIN calls = 1..Len(calls)
      /\ DOMAIN calls' = 1..Len(calls')
      /\ calls'[Len(calls')] = [handler |-> h] /\ \A i \in DOMAIN calls : calls'[i] = calls[i]
  BY <1>0 DEF Types
<1>3. \A i \in DOMAIN calls' : i \in DOMAIN calls \/ i = Len(calls')
  BY <1>2
<1>4. Types'
  BY <1>0, <1>1, <1>2 DEF Types
<1>5. EndIsReportedOnce'
  <2>1. \A i \in DOMAIN calls : ~IsEnd(i)
    BY <1>0 DEF EndIsReportedOnce
  <2>2. calls'[Len(calls')].handler \in {"completion", "error"} /\ Len(calls') \in DOMAIN calls'
    BY <1>2
  <2>3. \A i \in DOMAIN calls : calls'[i].handler \notin {"completion", "error"}
    BY <1>2, <2>1 DEF IsEnd
  <2> QED
    BY <1>1, <1>3, <2>2, <2>3 DEF EndIsReportedOnce, IsEnd
<1>6. MessagesAreComplete'
  BY <1>0, <1>2, <1>3 DEF MessagesAreComplete
<1>7. LeftOnlyByUnsubscribe'
  BY DEF LeftOnlyByUnsubscribe
<1>8. Item' /\ Parts'
  BY <1>0, <1>1 DEF Item, Parts
<1> QED
  BY <1>4, <1>5, <1>6, <1>7, <1>8 DEF Inv

\* Unsubscribe, a closed channel and an error each make the consumer return.
LEMMA ReturningSteps ==
  ASSUME Inv, Done \/ Closed \/ ReceiveError
  PROVE  Inv'
<1>0. Types /\ reader \in Readers
  BY DEF Inv, Types
<1>1. CASE Done
  BY <1>0, <1>1, ReturnKeeps DEF Done, CompletionHandler, readerVars
<1>2. CASE Closed
  BY <1>0, <1>2, ReturnKeeps DEF Closed, CompletionHandler, readerVars
<1>3. CASE ReceiveError
  <2>1. reader.item.err # "none" /\ reader' = [reader EXCEPT !.item = Nothing, !.pc = "done"]
    BY <1>3 DEF ReceiveError, Handed
  <2>2. Nothing \in [data : Seq(Chunk), err : {"none", "context", "fatal", "max attempts"}]
    BY NoData DEF Nothing
  <2>3. reader' \in Readers /\ reader'.pc = "done" /\ reader'.item = Nothing
    BY <1>0, <2>1, <2>2 DEF Readers
  <2>4. calls' = Append(calls, [handler |-> "error"]) /\ consumer.pc = "select" /\ consumer' = Returned
        /\ UNCHANGED <<cancelled, stream, received>>
    BY <1>3 DEF ReceiveError, ErrorHandler
  <2> QED
    BY <2>3, <2>4, ReturnKeeps
<1> QED
  BY <1>1, <1>2, <1>3
-----------------------------------------------------------------------------
\* A chunk joins the parts of its message.
LEMMA JoinedParts ==
  ASSUME NEW m, NEW s \in Seq(Chunk), NEW c \in Chunk, c.message = m, NEW chunks, c \in chunks,
         PartsOf(m, s, chunks), \A i \in DOMAIN s : s[i] # c
  PROVE  Append(s, c) \in Seq(Chunk) /\ PartsOf(m, Append(s, c), chunks)
<1> DEFINE t == Append(s, c)
<1>1. /\ DOMAIN s = 1..Len(s) /\ DOMAIN t = 1..(Len(s) + 1) /\ Len(s) \in Nat
      /\ t[Len(s) + 1] = c /\ \A i \in DOMAIN s : t[i] = s[i]
  OBVIOUS
<1>2. t \in Seq(Chunk)
  OBVIOUS
<1> HIDE DEF t
<1>3. \A i \in DOMAIN t : i \in DOMAIN s \/ i = Len(s) + 1
  BY <1>1
<1>4. IsInjective(t)
  BY <1>1, <1>3 DEF IsInjective, PartsOf
<1>5. \A i \in DOMAIN t : t[i].message = m /\ t[i] \in chunks
  BY <1>1, <1>3 DEF PartsOf
<1> QED
  BY <1>2, <1>4, <1>5 DEF PartsOf, t

\* A chunk arrives: it joins the parts of its message, or completes them.
LEMMA ReceiveMessageKeeps ==
  ASSUME Inv, ReceiveMessage
  PROVE  Inv'
<1>0. Types /\ Item /\ Parts /\ EndIsReportedOnce /\ LeftOnlyByUnsubscribe /\ MessagesAreComplete
  BY DEF Inv
<1> DEFINE c == reader.item.data[1]
           m == c.message
           parts == Append(consumer.messages[m], c)
<1>1. /\ consumer.pc = "select" /\ reader.pc = "send" /\ reader.item.data # << >> /\ reader' = Handed
      /\ UNCHANGED <<cancelled, stream, received, failures>>
      /\ consumer' = [consumer EXCEPT !.taken = @ + 1, !.messages[m] = Kept(c, parts)]
      /\ calls' = IF Completes(c, parts) THEN OnNext(m, parts) ELSE calls
  BY DEF ReceiveMessage
<1>2. reader.item.err = "none" /\ c \in Chunk /\ c \in ToSet(received) /\ m \in Message
  <2>1. PICK d \in Chunk : reader.item.data = <<d>> /\ d \in ToSet(received)
    BY <1>0, <1>1 DEF Item
  <2>2. c = d
    BY <2>1
  <2> QED
    BY <1>0, <1>1, <2>1, <2>2 DEF Item, Chunk
<1>3. reader' \in Readers /\ reader'.pc = "top" /\ reader'.item = Nothing
  <2>1. reader' = [reader EXCEPT !.item = Nothing, !.pc = "top"] /\ reader \in Readers
    BY <1>0, <1>1, <1>2 DEF Handed, Types
  <2>2. Nothing \in [data : Seq(Chunk), err : {"none", "context", "fatal", "max attempts"}]
    BY NoData DEF Nothing
  <2> QED
    BY <2>1, <2>2 DEF Readers
<1>4. /\ consumer \in Consumers /\ consumer.messages \in [Message -> Seq(Chunk)] /\ consumer.taken \in Nat
      /\ consumer.messages[m] \in Seq(Chunk)
  BY <1>0, <1>2 DEF Types, Consumers
<1>5. parts \in Seq(Chunk) /\ PartsOf(m, parts, ToSet(received))
  <2>1. /\ PartsOf(m, consumer.messages[m], ToSet(received))
        /\ \A i \in DOMAIN consumer.messages[m] : consumer.messages[m][i] # c
    BY <1>0, <1>1, <1>2 DEF Parts
  <2> QED
    BY <1>2, <1>4, <2>1, JoinedParts
<1> HIDE DEF c, parts
<1>6. Kept(c, parts) \in Seq(Chunk) /\ PartsOf(m, Kept(c, parts), ToSet(received))
  <2>1. PartsOf(m, << >>, ToSet(received))
    BY DEF PartsOf, IsInjective
  <2> QED
    BY <1>5, <2>1, NoData DEF Kept
<1>7. /\ consumer' \in Consumers /\ consumer'.pc = "select"
      /\ consumer'.messages = [consumer.messages EXCEPT ![m] = Kept(c, parts)]
  <2>1. [consumer.messages EXCEPT ![m] = Kept(c, parts)] \in [Message -> Seq(Chunk)]
    BY <1>4, <1>6
  <2>2. consumer.taken + 1 \in Nat
    BY <1>4
  <2>3. /\ consumer' = [consumer EXCEPT !.taken = consumer.taken + 1,
                                        !.messages = [consumer.messages EXCEPT ![m] = Kept(c, parts)]]
    BY <1>1, <1>4 DEF Consumers
  <2> QED
    BY <1>1, <1>4, <2>1, <2>2, <2>3 DEF Consumers
<1>8. Parts'
  <2>1. \A n \in Message : PartsOf(n, consumer'.messages[n], ToSet(received))
    BY <1>0, <1>2, <1>4, <1>6, <1>7 DEF Parts
  <2> QED
    BY <1>1, <1>3, <2>1 DEF Parts
<1>9. Item' /\ LeftOnlyByUnsubscribe'
  BY <1>3, <1>7 DEF Item, LeftOnlyByUnsubscribe
<1>10. Types' /\ EndIsReportedOnce' /\ MessagesAreComplete'
  <2>0. /\ cancelled' \in BOOLEAN /\ stream' \in StreamError \cup {"open"} /\ received' \in Seq(Chunk)
        /\ Len(calls) \in Nat /\ DOMAIN calls = 1..Len(calls)
    BY <1>0, <1>1 DEF Types
  <2>1. CASE ~Completes(c, parts)
    BY <1>0, <1>1, <1>3, <1>7, <2>0, <2>1 DEF Types, EndIsReportedOnce, MessagesAreComplete, IsEnd
  <2>2. CASE Completes(c, parts)
    <3> DEFINE call == [handler |-> "onNext", message |-> m,
                        chunks |-> [n \in DOMAIN parts |-> {p \in ToSet(parts) : p.number = n}]]
    <3>1. calls' = Append(calls, call)
      BY <1>1, <2>2 DEF OnNext
    <3>2. Len(parts) = Total[m] /\ DOMAIN parts = 1..Total[m] /\ Total[m] \in Nat
      BY <1>2, <1>5, <2>2, TotalAssumption DEF Completes
    <3>3. Whole(m, parts)
      BY <1>2, <1>5, <3>2, AllParts DEF PartsOf
    <3>4. call.handler = "onNext" /\ call.message = m
      OBVIOUS
    <3>5. call.chunks = [n \in 1..Total[m] |-> {p \in ToSet(parts) : p.number = n}]
      BY <3>2
    <3>6. /\ DOMAIN call.chunks = 1..Total[m] /\ Len(call.chunks) = Total[m]
          /\ \A n \in 1..Total[m] : call.chunks[n] = {[message |-> m, number |-> n]}
      BY <3>2, <3>3, <3>5 DEF Whole
    <3> HIDE DEF call, m
    <3>7. /\ Len(calls') = Len(calls) + 1 /\ DOMAIN calls' = 1..Len(calls')
          /\ calls'[Len(calls')] = call /\ \A i \in DOMAIN calls : calls'[i] = calls[i]
      BY <2>0, <3>1
    <3>8. \A i \in DOMAIN calls' : i \in DOMAIN calls \/ i = Len(calls')
      BY <2>0, <3>7
    <3>9. Types'
      BY <1>3, <1>7, <2>0, <3>7 DEF Types
    <3>10. MessagesAreComplete'
      BY <1>0, <3>4, <3>6, <3>7, <3>8 DEF MessagesAreComplete
    <3>11. EndIsReportedOnce'
      <4>1. \A i \in DOMAIN calls : calls[i].handler \notin {"completion", "error"}
        BY <1>0, <1>1 DEF EndIsReportedOnce, IsEnd
      <4>2. \A i \in DOMAIN calls' : calls'[i].handler \notin {"completion", "error"}
        BY <3>4, <3>7, <3>8, <4>1
      <4> QED
        BY <1>7, <4>2 DEF EndIsReportedOnce, IsEnd
    <3> QED
      BY <3>9, <3>10, <3>11
  <2> QED
    BY <2>1, <2>2
<1> QED
  BY <1>8, <1>9, <1>10 DEF Inv
-----------------------------------------------------------------------------
\* Inv holds in every state, for all constants: whatever the stream, the consumer
\* and the application do, in whatever order.
THEOREM SubscriptionIsKept == Spec => []Inv
<1>1. ASSUME Inv, [Next]_vars PROVE Inv'
  <2>1. CASE UNCHANGED vars
    BY <1>1, <2>1 DEF vars, Inv, Types, Item, Parts, EndIsReportedOnce, IsEnd, LeftOnlyByUnsubscribe,
                      MessagesAreComplete
  <2>2. CASE RecvChunk
    BY <1>1, <2>2, RecvChunkKeeps
  <2>3. CASE ReaderStep \/ RecvFails \/ RecvEnds \/ Unsubscribe
    BY <1>1, <2>3, QuietSteps, QuietKeeps
  <2>4. CASE Done \/ Closed \/ ReceiveError
    BY <1>1, <2>4, ReturningSteps
  <2>5. CASE ReceiveMessage
    BY <1>1, <2>5, ReceiveMessageKeeps
  <2> QED
    BY <1>1, <2>1, <2>2, <2>3, <2>4, <2>5 DEF Next, End
<1> QED
  BY <1>1, InitInv, PTL DEF Spec

\* The end of a subscription is reported once, by one handler, and last.
THEOREM EndOnce == Spec => []EndIsReportedOnce
  BY SubscriptionIsKept, PTL DEF Inv

\* The goroutine that reads the stream is left blocked only after Unsubscribe.
THEOREM ReaderIsNotLeft == Spec => []LeftOnlyByUnsubscribe
  BY SubscriptionIsKept, PTL DEF Inv

\* A message that onNext gets has all its chunks, each in its place, for any number
\* of messages and chunks in any order.
THEOREM CompleteMessages == Spec => []MessagesAreComplete
  BY SubscriptionIsKept, PTL DEF Inv
=============================================================================
