---------------------------- MODULE InsertStream ----------------------------
(***************************************************************************)
(* InsertStream and TimeSeriesWriteStream of the Go gRPC driver            *)
(* (go/arcadedbgrpc/insert.go): the caller's sequence of batches, pulled   *)
(* on the calling goroutine, one batch ahead for InsertStream; the chunks  *)
(* the wrapper hands to grpc-go; and the server, which may end the stream  *)
(* whenever it likes (external). A batch is its position in the sequence.  *)
(***************************************************************************)
EXTENDS Naturals, Sequences

CONSTANT MaxBatches   \* bound: batches in a sequence

ASSUME MaxBatchesAssumption == MaxBatches \in Nat

VARIABLES
  api, empty, size, ending,  \* the call: wrapper, batches without rows, batches, how the sequence ends
  src, pulled,               \* the caller's sequence: its state, batches it yielded
  pc, held, ahead, ret,      \* the wrapper: control, batch to send, batch after it, result
  sent, half,                \* grpc-go: chunks accepted, CloseSend called on a live stream
  rpc,                       \* the RPC at the client: its state
  srv, got, eos              \* the stream at the server: its state, chunks taken, clean end seen

call == <<api, empty, size, ending>>
wrapper == <<pc, held, ahead, ret>>
remote == <<srv, got, eos>>
vars == <<call, src, pulled, wrapper, sent, half, rpc, remote>>

None == "none"
Chunks == [seq : Nat, batch : Nat, last : BOOLEAN, db : BOOLEAN]

Init ==
  /\ api \in {"insert", "timeseries"}
  /\ size \in 0..MaxBatches /\ empty \in SUBSET (1..size) /\ ending \in {"ends", "panics"}
  /\ src = "idle" /\ pulled = 0
  /\ pc = "open" /\ held = 0 /\ ahead = 0 /\ ret = None
  /\ sent = <<>> /\ half = FALSE
  /\ rpc = None /\ srv = None /\ got = 0 /\ eos = FALSE

-----------------------------------------------------------------------------
(* The wrapper. *)

\* Faulty: returning neither stops the sequence nor cancels the RPC.
ReturnsBare(r) ==
  /\ pc' = "done" /\ ret' = r /\ UNCHANGED <<src, rpc>>

\* The call returns r, or panics: the deferred stop and cancel run. The server learns of the
\* cancel later (SrvAborts), after what is already on the wire.
Returns(r) ==
  /\ pc' = "done" /\ ret' = r
  /\ src' = IF src = "suspended" THEN "stopped" ELSE src
  /\ rpc' = IF rpc = "open" THEN "lost" ELSE rpc

\* TimeSeriesWriteStream without a precision is refused before any RPC; the
\* RPC fails to open; or it opens.
Open ==
  /\ pc = "open"
  /\ \/ api = "timeseries" /\ Returns("usage") /\ UNCHANGED srv
     \/ Returns("status") /\ UNCHANGED srv
     \/ pc' = "pull" /\ rpc' = "open" /\ srv' = "open" /\ UNCHANGED <<ret, src>>
  /\ UNCHANGED <<call, pulled, held, ahead, sent, half, got, eos>>

\* next() yields a batch. InsertStream holds it until it knows whether
\* another one follows; TimeSeriesWriteStream sends it at once.
PullYields ==
  /\ pc = "pull" /\ pulled < size
  /\ pulled' = pulled + 1 /\ src' = "suspended"
  /\ \/ held = 0 /\ held' = pulled' /\ UNCHANGED ahead
        /\ pc' = IF api = "insert" THEN "pull" ELSE "send"
     \/ held # 0 /\ ahead' = pulled' /\ pc' = "send" /\ UNCHANGED held
  /\ UNCHANGED <<call, ret, sent, half, rpc, remote>>

\* Faulty: a sequence that panics is taken for one that ends.
PullEndsAnyhow ==
  /\ pc = "pull" /\ pulled = size
  /\ src' = "finished" /\ pc' = IF api = "insert" THEN "send" ELSE "close"
  /\ UNCHANGED <<call, pulled, held, ahead, ret, sent, half, rpc, remote>>

\* The sequence ends: the held batch is the last, or there is none and
\* InsertStream sends one empty chunk.
PullEnds ==
  /\ pc = "pull" /\ pulled = size /\ ending = "ends"
  /\ src' = "finished" /\ pc' = IF api = "insert" THEN "send" ELSE "close"
  /\ UNCHANGED <<call, pulled, held, ahead, ret, sent, half, rpc, remote>>

\* The sequence panics, and so does the call.
PullPanics ==
  /\ pc = "pull" /\ pulled = size /\ ending = "panics"
  /\ Returns("panic")
  /\ UNCHANGED <<call, pulled, held, ahead, sent, half, remote>>

\* Faulty: a batch without rows is taken for the end of the sequence.
chunkLastIfEmpty ==
  IF api = "insert"
    THEN [seq |-> Len(sent) + 1, batch |-> held, last |-> ahead = 0 \/ held \in empty, db |-> sent = <<>>]
    ELSE [seq |-> 0, batch |-> held, last |-> FALSE, db |-> TRUE]

\* The envelope of the next chunk: TimeSeriesWriteStream has no sequence
\* number and no last flag and repeats the database.
chunk ==
  IF api = "insert"
    THEN [seq |-> Len(sent) + 1, batch |-> held, last |-> ahead = 0, db |-> sent = <<>>]
    ELSE [seq |-> 0, batch |-> held, last |-> FALSE, db |-> TRUE]

\* Send succeeds: grpc-go takes the chunk, on a stream whose end it may not
\* have noticed yet.
SendAccepted ==
  /\ pc = "send"
  /\ sent' = Append(sent, chunk) /\ held' = ahead /\ ahead' = 0
  /\ pc' = IF chunk.last THEN "close" ELSE "pull"
  /\ UNCHANGED <<call, src, pulled, ret, half, rpc, remote>>

\* Faulty: the io.EOF of Send is returned as it is.
SendEOFReturned ==
  /\ pc = "send" /\ rpc # "open"
  /\ Returns("eof")
  /\ UNCHANGED <<call, pulled, held, ahead, sent, half, remote>>

\* Send fails with io.EOF: the stream has ended, and failedSend asks the
\* receive side for the result.
SendEOF ==
  /\ pc = "send" /\ rpc # "open" /\ pc' = "close"
  /\ UNCHANGED <<call, src, pulled, held, ahead, ret, sent, half, rpc, remote>>

\* Send fails with grpc-go's own status, having aborted the stream.
SendFails ==
  /\ pc = "send" /\ Returns("own")
  /\ UNCHANGED <<call, pulled, held, ahead, sent, half, remote>>

\* CloseAndRecv: CloseSend, which a stream that has ended ignores, ...
CloseSend ==
  /\ pc = "close" /\ pc' = "recv" /\ half' = (rpc = "open")
  /\ UNCHANGED <<call, src, pulled, held, ahead, ret, sent, rpc, remote>>

\* Faulty: the RPC does not end with the caller's context.
RecvDetached ==
  /\ pc = "recv" /\ rpc \in {"reply", "status"}
  /\ Returns(IF rpc = "reply" THEN "summary" ELSE "status")
  /\ UNCHANGED <<call, pulled, held, ahead, sent, half, remote>>

\* ... and the wait for the summary or the status.
Recv ==
  /\ pc = "recv" /\ rpc # "open"
  /\ Returns(IF rpc = "reply" THEN "summary" ELSE "status")
  /\ UNCHANGED <<call, pulled, held, ahead, sent, half, remote>>

Wrapper ==
  Open \/ PullYields \/ PullEnds \/ PullPanics \/ SendAccepted \/ SendEOF \/ SendFails \/ CloseSend \/ Recv

-----------------------------------------------------------------------------
(* The server and the network (external). *)

frame == UNCHANGED <<call, src, pulled, wrapper, sent, half>>

\* The server takes what the client sent, also when the client has cancelled since.
SrvTakes ==
  /\ srv = "open" /\ got < Len(sent) /\ got' = got + 1
  /\ UNCHANGED <<rpc, srv, eos>> /\ frame

\* Every chunk taken, the server sees the client's half-close.
SrvSeesEnd ==
  /\ srv = "open" /\ half /\ got = Len(sent) /\ ~eos /\ eos' = TRUE
  /\ UNCHANGED <<rpc, srv, got>> /\ frame

\* The server ends the stream, early or not, with a summary or a status, which a client that
\* has cancelled does not read.
SrvEnds ==
  /\ srv = "open" /\ srv' = "ended"
  /\ IF rpc = "open" THEN rpc' \in {"reply", "status"} ELSE UNCHANGED rpc
  /\ UNCHANGED <<got, eos>> /\ frame

\* The context is cancelled or the connection lost, also before an answer
\* that is under way is read.
Lost ==
  /\ rpc \in {"open", "reply", "status"} /\ pc # "done" /\ rpc' = "lost"
  /\ UNCHANGED remote /\ frame

\* The RST_STREAM of a cancelled RPC, or the loss of the connection, reaches the server: what
\* it has not taken by then it never does.
SrvAborts ==
  /\ srv = "open" /\ rpc # "open" /\ srv' = "ended"
  /\ UNCHANGED <<rpc, got, eos>> /\ frame

Server == SrvTakes \/ SrvSeesEnd \/ SrvEnds \/ Lost \/ SrvAborts

Next == Wrapper \/ Server

Spec == Init /\ [][Next]_vars

\* The calling goroutine runs whenever it can, the caller's sequence yields or
\* ends, and Send and Recv notice an RPC that has ended. No server is assumed
\* to answer.
FairSpec == Spec /\ WF_vars(Wrapper)

-----------------------------------------------------------------------------
(* Properties. *)

CallType ==
  /\ api \in {"insert", "timeseries"} /\ ending \in {"ends", "panics"}
  /\ size \in 0..MaxBatches /\ empty \in SUBSET (1..size)
WrapperType ==
  /\ src \in {"idle", "suspended", "finished", "stopped"} /\ pulled \in 0..size
  /\ pc \in {"open", "pull", "send", "close", "recv", "done"}
  /\ held \in 0..pulled /\ ahead \in {0, held + 1}
  /\ ret \in {None, "usage", "status", "panic", "own", "summary"}
StreamType ==
  /\ sent \in Seq(Chunks) /\ got \in 0..Len(sent)
  /\ rpc \in {None, "open", "reply", "status", "lost"} /\ srv \in {None, "open", "ended"}
FlagType == half \in BOOLEAN /\ eos \in BOOLEAN

\* The variables have their types; a held batch is one the sequence yielded,
\* and the one looked ahead is the next.
TypeOK == CallType /\ WrapperType /\ StreamType /\ FlagType

\* The envelope: chunks carry the batches in order, numbered from 1, with the
\* database on the first, and only the chunk that holds the final batch of a
\* sequence that ended (or none, if it was empty) says last, whatever batches
\* without rows stand before it.
EnvelopeIsExact ==
  \A i \in DOMAIN sent :
    /\ sent[i].batch = (IF size = 0 THEN 0 ELSE i)
    /\ sent[i].db = (api = "timeseries" \/ i = 1)
    /\ api = "insert" =>
         /\ sent[i].seq = i
         /\ sent[i].last = (src = "finished" /\ i = Len(sent) /\ sent[i].batch = size)

\* A torn stream never looks whole: the server sees a clean end only when it
\* has every batch of a sequence that ended. A sequence that panics, a failed
\* Send and a call cancelled before its half-close end in a cancelled RPC
\* instead, whatever of them is still on the wire when the call returns.
CleanEndIsWhole ==
  eos => /\ src = "finished" /\ ending = "ends"
         /\ got = IF api = "insert" /\ size = 0 THEN 1 ELSE size

\* The result is the server's: its summary, or its status, is what the call
\* returns whenever one arrived, unless the caller's sequence panicked or
\* grpc-go refused a chunk. Send's io.EOF never hides it.
ResultIsServers ==
  pc = "done" /\ ret \notin {"panic", "own"} =>
    /\ rpc = "reply" <=> ret = "summary"
    /\ rpc \in {"status", "lost"} => ret = "status"

\* Nothing the call started outlives it: when it returns or panics, the
\* caller's sequence is not left suspended and the RPC is not left open. The
\* remainder of the sequence is never pulled: the wrapper is at most one batch
\* ahead of the one it sends, also when the server ends the stream.
NothingOutlivesCall ==
  /\ pc = "done" => src # "suspended" /\ rpc # "open"
  /\ pulled <= Len(sent) + (IF api = "insert" THEN 2 ELSE 1)

\* A call whose RPC has ended, by the server, the network or a cancelled
\* context, returns.
EndedCallReturns == rpc \in {"reply", "status", "lost"} ~> pc = "done"
=============================================================================
