---------------------------- MODULE BatchUpload ----------------------------
(***************************************************************************)
(* BatchLoad and BatchLoadStream of the Go HTTP driver                     *)
(* (go/arcadedb/batch.go, go/arcadedb/internal/batchrows): the goroutine   *)
(* that encodes the caller's rows through a write buffer into a pipe, the  *)
(* HTTP transport that reads the pipe (external), the server that may      *)
(* answer before it has the whole body (external), and the calling         *)
(* goroutine, which stops the writer and picks the error to report.        *)
(*                                                                         *)
(* An encoded row is one unit or more, <<1, 1>> to <<1, Size(1)>> for the  *)
(* first row; a flush may cut it in two, and one longer than the buffer    *)
(* goes past it.                                                           *)
(***************************************************************************)
EXTENDS Integers, Sequences

CONSTANTS
  MaxRows,   \* bound: rows in a sequence
  RowEnds,   \* where each row ends in a body of all rows, in units; RowEnds[0] = 0
  BufCap     \* units of the writer's buffer (uploadBufferSize)

ASSUME SizesAssumption ==
  /\ MaxRows \in Nat /\ BufCap \in Nat \ {0}
  /\ RowEnds \in [0..(2 * MaxRows) -> Nat] /\ RowEnds[0] = 0
  /\ \A i, j \in 0..(2 * MaxRows) : i < j => RowEnds[i] < RowEnds[j]

VARIABLES
  mode,             \* load (BatchLoad) or stream (BatchLoadStream)
  vertices, edges,  \* what each row of the caller's sequences does
  wpc, at, cur, wbuf, werr,       \* writer: control, rows taken, rest of the row, buffer, failure
  pipe, pclosed, rclosed,         \* pipe: units offered, how the write side closed, read side closed
  wire, sent, resp, body, early,  \* transport and server
  pc, cause, raised, ret  \* calling goroutine

writer == <<wpc, at, cur, wbuf, werr>>
net == <<wire, sent, resp, body, early>>
call == <<pc, cause, raised, ret>>
vars == <<mode, vertices, edges, writer, pipe, pclosed, rclosed, net, call>>

None == "none"
\* A row that encodes, one refused by validation or encoding, a sequence that
\* panics instead of yielding it, or exits its goroutine.
RowKinds == {"ok", "bad", "panic", "goexit"}
Faulty(rows) == {i \in DOMAIN rows : rows[i] # "ok"}
Rows == UNION {[1..n -> RowKinds] : n \in 0..MaxRows}

\* Nothing is taken from the sequences after the first row that is not ok.
Init ==
  /\ mode \in {"load", "stream"}
  /\ vertices \in Rows /\ edges \in Rows
  /\ \A i \in Faulty(vertices) : i = Len(vertices) /\ edges = <<>>
  /\ \A i \in Faulty(edges) : i = Len(edges)
  /\ wpc = "iterate" /\ at = 0 /\ cur = <<>> /\ wbuf = <<>> /\ werr = None
  /\ pipe = <<>> /\ pclosed = None /\ rclosed = FALSE
  /\ wire = <<>> /\ sent = "sending" /\ resp = None /\ body = "open" /\ early = FALSE
  /\ pc = "do" /\ cause = None /\ raised = 0 /\ ret = None

-----------------------------------------------------------------------------
(* The writer goroutine. *)

Row(i) == IF i <= Len(vertices) THEN vertices[i] ELSE edges[i - Len(vertices)]
Size(i) == RowEnds[i] - RowEnds[i - 1]
Encoded(i) == [u \in 1..Size(i) |-> <<i, u>>]
writerFrame == UNCHANGED <<mode, vertices, edges, rclosed, net, call>>

\* Faulty: a row is written as it is encoded.
NextRowUnchecked ==
  /\ wpc = "iterate" /\ at < Len(vertices) + Len(edges)
  /\ at' = at + 1
  /\ \/ /\ Row(at') \in {"ok", "bad"} /\ cur' = Encoded(at') /\ wpc' = "fill" /\ UNCHANGED werr
     \/ /\ Row(at') \in {"panic", "goexit"} /\ werr' = Row(at') /\ wpc' = "close" /\ UNCHANGED cur
  /\ UNCHANGED <<wbuf, pipe, pclosed>> /\ writerFrame

\* Write takes the next vertex, then the next edge: the row is encoded and
\* validated as a whole before any of it is written.
NextRow ==
  /\ wpc = "iterate" /\ at < Len(vertices) + Len(edges)
  /\ at' = at + 1
  /\ \/ /\ Row(at') = "ok" /\ cur' = Encoded(at') /\ wpc' = "fill" /\ UNCHANGED werr
     \/ /\ Row(at') # "ok" /\ werr' = Row(at') /\ wpc' = "close" /\ UNCHANGED cur
  /\ UNCHANGED <<wbuf, pipe, pclosed>> /\ writerFrame

\* bufio.Writer: the rest of the row goes into the buffer, or fills it and
\* flushes it, or is written past an empty buffer it does not fit in.
FillBuffer ==
  /\ wpc = "fill"
  /\ LET room == BufCap - Len(wbuf) IN
     \/ /\ Len(cur) <= room
        /\ wbuf' = wbuf \o cur /\ cur' = <<>> /\ wpc' = "iterate" /\ UNCHANGED pipe
     \/ /\ Len(cur) > room /\ wbuf = <<>>
        /\ pipe' = cur /\ cur' = <<>> /\ wpc' = "blocked" /\ UNCHANGED wbuf
     \/ /\ Len(cur) > room /\ wbuf # <<>>
        /\ pipe' = wbuf \o SubSeq(cur, 1, room) /\ wbuf' = <<>>
        /\ cur' = SubSeq(cur, room + 1, Len(cur)) /\ wpc' = "blocked"
  /\ UNCHANGED <<at, werr, pclosed>> /\ writerFrame

\* Flush, after the last row.
Flush ==
  /\ wpc = "iterate" /\ at = Len(vertices) + Len(edges)
  /\ IF wbuf = <<>> THEN wpc' = "close" ELSE wpc' = "blocked"
  /\ pipe' = wbuf /\ wbuf' = <<>>
  /\ UNCHANGED <<at, cur, werr, pclosed>> /\ writerFrame

\* The write into the pipe returns once everything is read, or with
\* io.ErrClosedPipe once the read side is closed.
WriteReturns ==
  /\ wpc = "blocked"
  /\ \/ pipe = <<>> /\ wpc' = "fill" /\ UNCHANGED <<werr, pipe>>
     \/ pipe # <<>> /\ rclosed /\ werr' = "closed" /\ wpc' = "close" /\ pipe' = <<>>
  /\ UNCHANGED <<at, cur, wbuf, pclosed>> /\ writerFrame

\* Faulty: a writer that did not finish closes the pipe as if it had.
CloseWriterQuietly ==
  /\ wpc = "close" /\ wpc' = "send"
  /\ pclosed' = "eof"
  /\ UNCHANGED <<at, cur, wbuf, werr, pipe>> /\ writerFrame

\* CloseWithError: EOF without a failure, otherwise the failure, which aborts
\* the request. A panic or Goexit gets here through the deferred function.
CloseWriter ==
  /\ wpc = "close" /\ wpc' = "send"
  /\ pclosed' = IF werr = None THEN "eof" ELSE "error"
  /\ UNCHANGED <<at, cur, wbuf, werr, pipe>> /\ writerFrame

\* Faulty: the deferred function sends no result for Goexit.
SendResultUnlessGoexit ==
  /\ wpc = "send" /\ werr # "goexit" /\ wpc' = "ended"
  /\ UNCHANGED <<at, cur, wbuf, werr, pipe, pclosed>> /\ writerFrame

\* The result goes into the channel, which has room for it.
SendResult ==
  /\ wpc = "send" /\ wpc' = "ended"
  /\ UNCHANGED <<at, cur, wbuf, werr, pipe, pclosed>> /\ writerFrame

Writer == NextRow \/ FillBuffer \/ Flush \/ WriteReturns \/ CloseWriter \/ SendResult

-----------------------------------------------------------------------------
(* The transport and the server (external). *)

netFrame == UNCHANGED <<mode, vertices, edges, writer, pclosed, call>>

\* The transport reads some of what the writer offers and sends it.
NetReads ==
  /\ sent = "sending" /\ ~rclosed
  /\ \E n \in 1..Len(pipe) :
       /\ wire' = wire \o SubSeq(pipe, 1, n)
       /\ pipe' = SubSeq(pipe, n + 1, Len(pipe))
  /\ UNCHANGED <<rclosed, sent, resp, body, early>> /\ netFrame

\* It reads the end of the body.
NetReadsEnd ==
  /\ sent = "sending" /\ ~rclosed /\ pclosed = "eof" /\ sent' = "complete"
  /\ UNCHANGED <<pipe, rclosed, wire, resp, body, early>> /\ netFrame

\* What becomes of the exchange when the connection breaks: Do fails, or the
\* response is cut short if it has begun. The transport may close the body
\* only later.
Breaks ==
  /\ sent' = (IF sent = "sending" THEN "broken" ELSE sent)
  /\ resp' = (IF resp = None THEN "failed" ELSE resp)
  /\ body' = (IF body = "open" THEN "cut" ELSE body)
  /\ rclosed' \in {rclosed, TRUE}
  /\ UNCHANGED <<pipe, wire, early>> /\ netFrame

\* It reads the writer's failure, or the closed read side.
NetReadsError ==
  /\ sent = "sending" /\ (rclosed \/ pclosed = "error")
  /\ Breaks

\* The network fails or the context is cancelled.
NetFails == body = "open" /\ resp # "failed" /\ Breaks

\* The server answers, at any moment.
SrvAnswers ==
  /\ resp = None /\ resp' \in {"2xx", "non2xx"}
  /\ UNCHANGED <<pipe, rclosed, wire, sent, body, early>> /\ netFrame

\* The response ends; the transport then stops sending what is left.
SrvEnds ==
  /\ resp \in {"2xx", "non2xx"} /\ body = "open" /\ body' = "eof"
  /\ early' = (sent # "complete")
  /\ rclosed' \in {rclosed, TRUE}
  /\ UNCHANGED <<pipe, wire, sent, resp>> /\ netFrame

Net == NetReads \/ NetReadsEnd \/ NetReadsError \/ NetFails \/ SrvAnswers \/ SrvEnds

-----------------------------------------------------------------------------
(* The calling goroutine. *)

callFrame == UNCHANGED <<mode, vertices, edges, writer, pipe, pclosed, net>>

\* The call heads for stop with the error it would report for c.
Stopping(c) == pc' = "stop" /\ cause' = c /\ UNCHANGED <<raised, ret>>

\* Do returned: an error, or a response whose status decides. An error
\* response is read to its end first.
Responded ==
  /\ pc = "do"
  /\ \/ resp = "failed" /\ Stopping("transport")
     \/ resp = "non2xx" /\ body # "open" /\ Stopping("status")
     \/ resp = "2xx" /\ pc' = "read" /\ UNCHANGED <<cause, raised, ret>>
  /\ UNCHANGED rclosed /\ callFrame

\* The response ended or was cut.
BodyRead ==
  /\ pc = "read"
  /\ \/ body = "eof" /\ Stopping("clean")
     \/ body = "cut" /\ Stopping("body")
  /\ UNCHANGED rclosed /\ callFrame

\* BatchLoadStream: a line that is malformed or an in-band error ends the
\* sequence, the caller may leave its loop at an event.
StreamEnds ==
  /\ pc = "read" /\ mode = "stream"
  /\ \E c \in {"decode", "inband", "break"} : Stopping(c)
  /\ UNCHANGED rclosed /\ callFrame

\* stop closes the read side ...
Stop ==
  /\ pc = "stop" /\ pc' = "join" /\ rclosed' = TRUE
  /\ UNCHANGED <<cause, raised, ret>> /\ callFrame

\* The error of the upload itself: not of a writer that only lost its pipe.
ownError == IF werr \in {"bad", "goexit"} THEN werr ELSE None

\* Faulty: only a clean end of the response looks at the upload's own error.
ReportedByTransport(own) ==
  CASE cause = "clean" /\ own # None -> own
    [] cause = "clean" /\ own = None -> "ok"
    [] OTHER -> cause

\* What fail and the paths to it report.
Reported(own) ==
  CASE cause = "break" -> "break"
    [] cause # "break" /\ own # None -> own
    [] cause = "clean" /\ own = None -> "ok"
    [] OTHER -> cause

\* Faulty: stop does not wait for the writer.
JoinAtOnce ==
  /\ pc = "join"
  /\ IF werr = "panic" THEN raised' = 1 /\ ret' = "panic" ELSE ret' = Reported(ownError) /\ UNCHANGED raised
  /\ pc' = IF mode = "stream" THEN "deferred" ELSE "done"
  /\ UNCHANGED <<cause, rclosed>> /\ callFrame

\* ... and waits for the writer. A panic of a sequence is raised here, on the
\* calling goroutine; otherwise fail prefers the upload's own error. BatchLoad
\* decodes the summary last.
Join ==
  /\ pc = "join" /\ wpc = "ended"
  /\ IF werr = "panic"
       THEN raised' = 1 /\ ret' = "panic"
       ELSE /\ ret' = Reported(ownError) \/ (mode = "load" /\ Reported(ownError) = "ok" /\ ret' = "decode")
            /\ UNCHANGED raised
  /\ pc' = IF mode = "stream" /\ cause # "break" THEN "deferred" ELSE "done"
  /\ UNCHANGED <<cause, rclosed>> /\ callFrame

\* The stop BatchLoadStream defers finds the upload stopped and stays quiet;
\* when the loop was left it is the first one (Join).
DeferredStop ==
  /\ pc = "deferred" /\ pc' = "done"
  /\ UNCHANGED <<cause, raised, ret, rclosed>> /\ callFrame

Call == Responded \/ BodyRead \/ Stop \/ Join \/ DeferredStop

-----------------------------------------------------------------------------
Next == Writer \/ Net \/ Call \/ StreamEnds

Spec == Init /\ [][Next]_vars

\* Goroutines are scheduled, sequences end, and the transport comes to read an
\* aborted body, which takes a peer that goes on taking bytes; nothing makes a
\* server answer.
Fairness == WF_vars(Writer) /\ WF_vars(Call) /\ WF_vars(NetReadsError)
FairSpec == Spec /\ Fairness

-----------------------------------------------------------------------------
(* Properties. *)

Results == {None, "ok", "break", "transport", "status", "body", "decode", "inband", "bad", "goexit", "panic"}
Units == (1..(2 * MaxRows)) \X (Nat \ {0})

\* The variables have their types, and the writer never holds more than its
\* buffer.
TypeOK ==
  /\ mode \in {"load", "stream"} /\ vertices \in Rows /\ edges \in Rows
  /\ wpc \in {"iterate", "fill", "blocked", "close", "send", "ended"}
  /\ at \in 0..(2 * MaxRows) /\ werr \in {None, "bad", "panic", "goexit", "closed"}
  /\ cur \in Seq(Units) /\ wbuf \in Seq(Units) /\ pipe \in Seq(Units) /\ wire \in Seq(Units)
  /\ Len(wbuf) <= BufCap
  /\ pclosed \in {None, "eof", "error"} /\ rclosed \in BOOLEAN
  /\ sent \in {"sending", "complete", "broken"} /\ resp \in {None, "failed", "2xx", "non2xx"}
  /\ body \in {"open", "eof", "cut"} /\ early \in BOOLEAN
  /\ pc \in {"do", "read", "stop", "join", "deferred", "done"}
  /\ cause \in {None, "clean", "break", "transport", "status", "body", "decode", "inband"}
  /\ raised \in 0..2 /\ ret \in Results

\* The rows the server may see, in their order: all vertices that encode, then
\* all edges, up to the first row that is refused or not yielded.
Wanted == {i \in 1..(Len(vertices) + Len(edges)) : Row(i) = "ok"}
IsWire(s) == \A k \in 1..Len(s) : \E i \in Wanted : \E u \in 1..Size(i) :
               s[k] = <<i, u>> /\ k = RowEnds[i - 1] + u

\* What is on the wire is always a prefix of the rows in order: no unit of a
\* refused row, none skipped, repeated or out of place, however the buffer cut
\* the rows or let them past and wherever the upload was aborted.
WireInOrder == IsWire(wire)

\* The call never returns while the writer may still iterate a sequence.
WriterJoined == pc = "done" => wpc = "ended"

\* The request body is closed with EOF only after every row was written: an
\* upload cut short by a refused row, a panic or Goexit can never look
\* complete to the server. Success means that every row was sent, or that the
\* server finished its answer without waiting for the rest.
CompleteMeansAll ==
  /\ sent = "complete" => \A i \in 1..(Len(vertices) + Len(edges)) :
                            Row(i) = "ok" /\ \E k \in 1..Len(wire) : wire[k] = <<i, Size(i)>>
  /\ ret = "ok" => early \/ Len(wire) = RowEnds[Len(vertices) + Len(edges)]

\* A row that was refused is what the call reports, whatever transport or
\* status error the aborted upload caused; a Goexit likewise. A sequence's
\* panic reaches the caller exactly once, and never when there was none.
OwnFaultReported ==
  pc = "done" =>
    /\ cause # "break" /\ werr \in {"bad", "goexit"} => ret = werr
    /\ raised = (IF werr = "panic" THEN 1 ELSE 0)

\* Once the exchange is over, or the caller has left the loop, the call
\* returns, even with the writer blocked on a pipe nobody reads. A refused row,
\* a panic or Goexit ends the call even if the server never answers.
CallReturns ==
  (resp = "failed" \/ body # "open" \/ pc = "stop" \/ werr \in {"bad", "panic", "goexit"}) ~> (pc = "done")
=============================================================================
