---------------------------- MODULE StreamReader ----------------------------
(***************************************************************************)
(* The goroutine that processProtoMessageStream starts: it reads a gRPC    *)
(* stream of a mirror node and hands what it gets to a consumer over a     *)
(* channel without buffer.  A send therefore happens together with the     *)
(* receive of the consumer, which the modules that extend this one add.    *)
(***************************************************************************)
EXTENDS Naturals, Sequences

CONSTANTS
  Response,        \* what the mirror node can send
  MaxAttempts,     \* the limit of the query
  Recovers         \* whether a stream can deliver again after an error (one or both)

ASSUME MaxAttemptsAssumption == MaxAttempts \in Nat
ASSUME RecoversAssumption == Recovers \subseteq BOOLEAN

VARIABLES
  cancelled,   \* the context of the stream has been cancelled
  stream,      \* "open", or the error the stream has ended with
  received,    \* responses that Recv has returned (history)
  failures,    \* errors that Recv has returned (history)
  reader       \* the goroutine: pc, err, attempt and the result it sends

readerVars == <<cancelled, stream, received, failures, reader>>

\* Errors of a stream: its end, one the retry handler accepts, any other.
StreamError == {"eof", "retryable", "fatal"}

\* A streamResult: data of at most one response, or an error.
Nothing == [data |-> << >>, err |-> "none"]
DataResult(r) == [data |-> <<r>>, err |-> "none"]
ErrorResult(e) == [data |-> << >>, err |-> e]

ReaderInit ==
  /\ cancelled = FALSE
  /\ stream = "open"
  /\ received = << >>
  /\ failures = 0
  /\ reader = [pc |-> "top", err |-> "none", attempt |-> 0, item |-> Nothing]

\* The goroutine is about to send x.
Sending(x) == [reader EXCEPT !.pc = "send", !.item = x]

AttemptsLeft == reader.attempt < MaxAttempts

\* The head of the loop: the context, then the error of the last Recv, which is
\* never reset.
ReaderTop ==
  /\ reader.pc = "top"
  /\ reader' = CASE cancelled -> Sending(ErrorResult("context"))
                 [] ~cancelled /\ reader.err = "none" -> [reader EXCEPT !.pc = "recv"]
                 [] ~cancelled /\ reader.err = "eof" -> [reader EXCEPT !.pc = "done"]
                 [] ~cancelled /\ reader.err \in {"fatal", "cancelled"} -> Sending(ErrorResult("fatal"))
                 [] ~cancelled /\ reader.err = "retryable" /\ AttemptsLeft ->
                      [reader EXCEPT !.pc = "sleep"]
                 [] OTHER -> Sending(ErrorResult("max attempts"))
  /\ UNCHANGED <<cancelled, stream, received, failures>>

\* The delay between attempts is over.
Sleep ==
  /\ reader.pc = "sleep"
  /\ reader' = [reader EXCEPT !.pc = "recv", !.attempt = @ + 1]
  /\ UNCHANGED <<cancelled, stream, received, failures>>

\* Faulty variant of RecvMessage: a response is taken for the error before it.
RecvMessageLost(R) ==
  /\ reader.pc = "recv" /\ stream = "open"
  /\ \E r \in R :
       /\ received' = Append(received, r)
       /\ reader' = IF reader.err = "none" THEN Sending(DataResult(r)) ELSE [reader EXCEPT !.pc = "top"]
  /\ UNCHANGED <<cancelled, stream, failures>>

\* Recv returns one of the responses R.
RecvMessage(R) ==
  /\ reader.pc = "recv" /\ stream = "open"
  /\ \E r \in R : received' = Append(received, r) /\ reader' = Sending(DataResult(r))
  /\ UNCHANGED <<cancelled, stream, failures>>

FailedWith(e) == [reader EXCEPT !.pc = "top", !.err = e]

\* Recv returns an error of the stream.
RecvError(limit) ==
  /\ reader.pc = "recv" /\ stream = "open" /\ failures < limit
  /\ \E e \in StreamError :
       /\ reader' = FailedWith(e)
       /\ \E recovers \in Recovers : stream' = IF recovers THEN "open" ELSE e
  /\ failures' = failures + 1
  /\ UNCHANGED <<cancelled, received>>

\* A stream that has ended returns its error again.
RecvAgain ==
  /\ reader.pc = "recv" /\ stream # "open"
  /\ reader' = FailedWith(stream)
  /\ UNCHANGED <<cancelled, stream, received, failures>>

\* Recv returns since the context was cancelled.
RecvCancelled ==
  /\ reader.pc = "recv" /\ cancelled
  /\ reader' = FailedWith("cancelled")
  /\ UNCHANGED <<cancelled, stream, received, failures>>

\* Faulty variant of Handed: the goroutine goes on after an error.
HandedGoesOn == [reader EXCEPT !.item = Nothing, !.pc = "top"]

\* The consumer has taken the item; after an error the goroutine returns and
\* closes the channel.
Handed == [reader EXCEPT !.item = Nothing, !.pc = IF reader.item.err = "none" THEN "top" ELSE "done"]

Cancel ==
  /\ ~cancelled
  /\ cancelled' = TRUE
  /\ UNCHANGED <<stream, received, failures, reader>>

\* Type invariant of the reader.
ReaderTypeOK ==
  /\ cancelled \in BOOLEAN
  /\ stream \in StreamError \cup {"open"}
  /\ received \in Seq(Response)
  /\ failures \in Nat
  /\ reader \in [pc : {"top", "sleep", "recv", "send", "done"},
                 err : StreamError \cup {"none", "cancelled"},
                 attempt : 0..MaxAttempts,
                 item : [data : Seq(Response), err : {"none", "context", "fatal", "max attempts"}]]
=============================================================================
