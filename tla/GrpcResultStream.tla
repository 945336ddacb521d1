-------------------------- MODULE GrpcResultStream --------------------------
(***************************************************************************)
(* One range over StreamQuery or TimeSeriesQuery of the Go gRPC driver:    *)
(* the server-stream RPC opened lazily under a context of its own, the     *)
(* messages received, the batches of a query flattened into records, and   *)
(* the caller's loop.  A time-series message is yielded whole: it is a     *)
(* message of one item.  grpc-go, which buffers messages ahead of Recv, is *)
(* external, and so is the server.                                         *)
(***************************************************************************)
EXTENDS Naturals, Sequences

CONSTANTS
  MaxMessages,   \* the messages of an answer
  MaxBatch       \* the records of a message

ASSUME BoundsAssumption == MaxMessages \in Nat /\ MaxBatch \in Nat \ {0}

\* the number of items in each message, batches of a query or single messages
Answers == UNION {[1..n -> 0..MaxBatch] : n \in 0..MaxMessages}

VARIABLES
  batches,    \* the answer, as the server means to send it
  sent,       \* the messages grpc-go has of it
  status,     \* "open", "ok", "error": the server's status, the end of the stream
  ctx,        \* "none" before the RPC, "live", "done": the context recvAll derived
  cancelled,  \* the caller's own context was cancelled
  pc,         \* "start", "open", "recv", "batch", "loop", "defer", "done"
  got,        \* the messages received
  next,       \* the records of the last one that were yielded
  seen,       \* the positions of the items yielded
  err         \* "open" or "status": the error yielded; "left": the caller left; "none"

rpc == <<batches, sent, status, cancelled>>
vars == <<rpc, ctx, pc, got, next, seen, err>>

Init ==
  /\ batches \in Answers /\ sent = 0 /\ status = "open" /\ cancelled = FALSE
  /\ ctx = "none" /\ pc = "start" /\ got = 0 /\ next = 0 /\ seen = {} /\ err = "none"

-----------------------------------------------------------------------------
(* The server and grpc-go. *)

Running == ctx = "live" /\ pc # "open"

Message ==
  /\ Running /\ status = "open" /\ sent < Len(batches)
  /\ sent' = sent + 1
  /\ UNCHANGED <<batches, status, cancelled, ctx, pc, got, next, seen, err>>

\* OK only after the last message, an error at any time
Finish(how) ==
  /\ Running /\ status = "open"
  /\ how = "ok" => sent = Len(batches)
  /\ status' = how
  /\ UNCHANGED <<batches, sent, cancelled, ctx, pc, got, next, seen, err>>

Cancel ==
  /\ ~cancelled /\ cancelled' = TRUE
  /\ UNCHANGED <<batches, sent, status, ctx, pc, got, next, seen, err>>

-----------------------------------------------------------------------------
(* recvAll *)

Yields(e) == err' = e /\ pc' = "defer"

\* context.WithCancel
Derive ==
  /\ pc = "start"
  /\ ctx' = "live" /\ pc' = "open"
  /\ UNCHANGED <<rpc, got, next, seen, err>>

Open ==
  /\ pc = "open"
  /\ Yields("open") \/ (pc' = "recv" /\ UNCHANGED err)
  /\ UNCHANGED <<rpc, ctx, got, next, seen>>

\* stream.Recv delivers a message...
Receive ==
  /\ pc = "recv" /\ got < sent
  /\ got' = got + 1 /\ next' = 0 /\ pc' = "batch"
  /\ UNCHANGED <<rpc, ctx, seen, err>>

\* any error of Recv ends the loop as io.EOF does
FaultyEnds ==
  /\ pc = "recv"
  /\ (got = sent /\ status # "open") \/ cancelled
  /\ pc' = "defer"
  /\ UNCHANGED <<rpc, ctx, got, next, seen, err>>

\* ... or io.EOF after the last one, which ends the loop, or an error, which is yielded. A
\* cancelled context may cost messages that had arrived, and the status itself.
Ends ==
  /\ pc = "recv"
  /\ \/ got = sent /\ status = "ok" /\ pc' = "defer" /\ UNCHANGED err
     \/ got = sent /\ status = "error" /\ Yields("status")
     \/ cancelled /\ Yields("status")
  /\ UNCHANGED <<rpc, ctx, got, next, seen>>

-----------------------------------------------------------------------------
(* streamQuery flattens the message; timeSeriesQuery yields it. *)

Position(b, r) == (b - 1) * MaxBatch + r

YieldRecord ==
  /\ pc = "batch" /\ next < batches[got]
  /\ next' = next + 1
  /\ seen' = seen \union {Position(got, next')}
  /\ pc' = "loop"
  /\ UNCHANGED <<rpc, ctx, got, err>>

NextMessage ==
  /\ pc = "batch" /\ next = batches[got]
  /\ pc' = "recv"
  /\ UNCHANGED <<rpc, ctx, got, next, seen, err>>

\* The caller's loop body ends: it goes on, or leaves by break, return or panic.
Continue ==
  /\ pc = "loop" /\ pc' = "batch"
  /\ UNCHANGED <<rpc, ctx, got, next, seen, err>>

Leave ==
  /\ pc = "loop" /\ pc' = "defer" /\ err' = "left"
  /\ UNCHANGED <<rpc, ctx, got, next, seen>>

\* the caller leaving does not reach recvAll
FaultyReturn ==
  /\ pc = "defer"
  /\ ctx' = IF err = "left" THEN ctx ELSE "done"
  /\ pc' = "done"
  /\ UNCHANGED <<rpc, got, next, seen, err>>

\* defer cancel()
Return ==
  /\ pc = "defer"
  /\ ctx' = "done" /\ pc' = "done"
  /\ UNCHANGED <<rpc, got, next, seen, err>>

Next ==
  \/ Message \/ (\E how \in {"ok", "error"} : Finish(how)) \/ Cancel
  \/ Derive \/ Open \/ Receive \/ Ends \/ YieldRecord \/ NextMessage \/ Continue \/ Leave \/ Return

Spec == Init /\ [][Next]_vars

-----------------------------------------------------------------------------
(* Properties. *)

Positions == 1..(MaxMessages * MaxBatch)
Records(n) == UNION {{Position(b, r) : r \in 1..batches[b]} : b \in 1..n}

\* A loop that ends by itself and without an error has seen the whole answer: an RPC that
\* failed, was refused or was cancelled never looks like a shorter answer; and after a
\* status the server sent, without a cancellation, all that came before it was seen.
EndIsWhole ==
  pc = "done" =>
    /\ err = "none" => status = "ok" /\ seen = Records(Len(batches))
    /\ err = "status" /\ ~cancelled /\ status = "error" => seen = Records(sent)

\* A range implements the contract of a result stream: records are seen in order across the
\* batches, without gaps, nothing is seen after an error or after the caller left, and the
\* RPC's context is cancelled on every way out, so that the server stops.
Contract == INSTANCE RecordStream WITH
  Positions <- Positions,
  items <- Records(Len(batches)),
  arrived <- Records(sent),
  verdict <- CASE err = "none" -> (IF pc \in {"defer", "done"} THEN "end" ELSE "none")
               [] err = "left" -> "left"
               [] OTHER -> "error",
  held <- ctx = "live",
  returned <- pc = "done"

ContractSpec == Contract!Spec
=============================================================================
