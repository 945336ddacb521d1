--------------------------- MODULE InsertSession ---------------------------
(***************************************************************************)
(* The duplex insert session of the Go HTTP driver                         *)
(* (go/arcadedb/insertsession.go): the goroutine that owns the session,    *)
(* the readLoop goroutine, the WebSocket connection between them and the   *)
(* server, and the server's side of one session as the driver's comments   *)
(* and tests describe it (external).                                       *)
(*                                                                         *)
(* A record batch handed to SendChunk is the ordinal of that call, so that *)
(* what the server applied can be compared with what the caller was told.  *)
(***************************************************************************)
EXTENDS Naturals, Sequences

CONSTANTS
  Modes,      \* the transaction modes callers ask for
  MaxSends,   \* bound: SendChunk calls of one session
  InCap,      \* capacity of the channel s.in (8 in the code)
  MaxNoise    \* bound: frames outside the protocol the peer may send

AllModes == {"per_stream", "per_batch", "per_row", "none"}

ASSUME ModesAssumption == Modes \subseteq AllModes
ASSUME BoundsAssumption == MaxSends \in Nat /\ InCap \in Nat \ {0} /\ MaxNoise \in Nat

VARIABLES
  handle,     \* the constructor's result: none, opening, held, failed
  cfg,        \* the effective options: transaction mode and join
  open,       \* s.open
  chunkSeq,   \* s.chunkSeq
  call,       \* the method in progress, "none" between calls
  stage,      \* where its exchange is: "write" or "wait"
  ret,        \* what the last method returned
  in,         \* the channel s.in
  reader,     \* readLoop: off, reading, pushing, ended (ended: s.in is closed)
  held,       \* the frame readLoop is pushing, as a sequence of at most one
  aborted,    \* abort() ran: stopRead called and the connection dropped
  toServer, toClient,  \* frames on the wire
  srvClosed,  \* the server's end of the connection is closed
  srv,        \* the server's session: none, active, or how it ended:
              \* committed, discarded (rolled back) or detached (joined)
  watermark,  \* the last chunk sequence number it accepted
  applied,    \* the SendChunk calls it applied, in order
  durable,    \* the SendChunk calls whose rows are durable
  noise,      \* frames outside the protocol sent so far
  sent,       \* history: SendChunk calls that started an exchange
  acked,      \* history: SendChunk calls that returned an accepted chunk
  asked,      \* history: the finish frame the caller asked for
  told        \* history: the Outcome Commit or Rollback returned

session == <<handle, cfg, open, chunkSeq, call, stage, ret>>
readerVars == <<in, reader, held>>
link == <<aborted, toServer, toClient, srvClosed>>
server == <<srv, watermark, applied, durable, noise>>
history == <<sent, acked, asked, told>>
vars == <<session, readerVars, link, server, history>>

-----------------------------------------------------------------------------
(* Frames. *)

Titles == {"expired", "security", "internal", "session", "other"}
Details == {"none", "notFound", "isClosed", "rowCap", "skipsAhead", "malformed"}

Outcomes == {"commit", "rollback", "detached"}

Request(a, q, n) == [action |-> a, seq |-> q, batch |-> n]
Frame(a, i) == [action |-> a, info |-> i, detail |-> "none"]
Error(t, d) == [action |-> "error", info |-> t, detail |-> d]

ClientFrames ==
  [action : {"start", "chunk", "commit", "rollback"}, seq : Nat, batch : 0..MaxSends]
ServerFrames ==
  [action : {"committed"}, info : Outcomes, detail : {"none"}]
    \union [action : {"started", "batchAck", "garbage", "binary"}, info : {"none", "ok", "whole", "replay"}, detail : {"none"}]
    \union [action : {"error"}, info : Titles, detail : Details]

\* Faulty: an internal error is taken for a refusal that leaves the session usable.
endsSessionButInternal(title, detail) ==
  \/ title \in {"expired", "security"}
  \/ title = "session" /\ detail \in {"notFound", "isClosed"}

\* The classification of an error frame by its title and detail.
endsSession(title, detail) ==
  \/ title \in {"expired", "security", "internal"}
  \/ title = "session" /\ detail \in {"notFound", "isClosed"}

\* asError: the frame is an error frame.
asError(f) == f.action = "error"

-----------------------------------------------------------------------------
Init ==
  /\ handle = "none" /\ cfg = [mode |-> "per_stream", join |-> FALSE]
  /\ open = FALSE /\ chunkSeq = 0 /\ call = "none" /\ stage = "write"
  /\ ret = [op |-> "none", kind |-> "none"]
  /\ in = <<>> /\ reader = "off" /\ held = <<>>
  /\ aborted = FALSE /\ toServer = <<>> /\ toClient = <<>> /\ srvClosed = FALSE
  /\ srv = "none" /\ watermark = 0 /\ applied = <<>> /\ durable = <<>> /\ noise = 0
  /\ sent = 0 /\ acked = <<>> /\ asked = "none" /\ told = "none"

Return(op, kind) == ret' = [op |-> op, kind |-> kind] /\ call' = "none" /\ stage' = "write"

\* Faulty: the session is closed and the connection left open.
AbortKeepsConnection == open' = FALSE /\ aborted' = aborted /\ toClient' = toClient

\* abort: the session is closed, the reader's context cancelled and the
\* connection dropped without a handshake; what was not read is lost.
Abort == open' = FALSE /\ aborted' = TRUE /\ toClient' = <<>>
NoAbort == UNCHANGED <<aborted, toClient>>

(* Database.InsertSession. *)

\* Options that cannot be honoured are refused before anything is dialled.
badOptions(join, opt, inTx) == join /\ (opt \notin {"default", "none"} \/ ~inTx)

effectiveMode(join, opt) ==
  IF join THEN "none" ELSE IF opt = "default" THEN "per_stream" ELSE opt

\* Options refused, or the dial failed: the caller gets an error, no session.
OpenFails(join, opt, inTx) ==
  /\ handle = "none"
  /\ handle' = "failed"
  /\ ret' = [op |-> "open", kind |-> IF badOptions(join, opt, inTx) THEN "options" ELSE "transport"]
  /\ UNCHANGED <<cfg, open, chunkSeq, call, stage, readerVars, link, server, history>>

\* The dial succeeds: the reader goroutine starts and the start exchange begins.
OpenDials(join, opt, inTx) ==
  /\ handle = "none" /\ ~badOptions(join, opt, inTx)
  /\ handle' = "opening" /\ cfg' = [mode |-> effectiveMode(join, opt), join |-> join]
  /\ open' = TRUE /\ call' = "start" /\ stage' = "write"
  /\ chunkSeq' = 0 /\ in' = <<>> /\ held' = <<>> /\ reader' = "reading"
  /\ UNCHANGED <<ret, link, server, history>>

Open == \E join, inTx \in BOOLEAN, opt \in Modes \union {"default"} :
          OpenFails(join, opt, inTx) \/ OpenDials(join, opt, inTx)

(* The entry of SendChunk, Commit, Rollback and Close. *)

\* A method on a session that is not open: nothing is sent.
CallClosed(m) ==
  /\ handle = "held" /\ call = "none" /\ ~open
  /\ ret' = [op |-> m, kind |-> "closed"]
  /\ UNCHANGED <<handle, cfg, open, chunkSeq, call, stage, readerVars, link, server, history>>

\* Close on a session that is not open only drops the connection.
CloseClosed ==
  /\ handle = "held" /\ call = "none" /\ ~open
  /\ Abort /\ Return("close", "ok")
  /\ UNCHANGED <<handle, cfg, chunkSeq, readerVars, toServer, srvClosed, server, history>>

SendChunk ==
  /\ handle = "held" /\ call = "none" /\ open /\ sent < MaxSends
  /\ call' = "chunk" /\ stage' = "write" /\ sent' = sent + 1
  /\ UNCHANGED <<handle, cfg, open, chunkSeq, ret, readerVars, link, server, acked, asked, told>>

\* Commit and Rollback; Close of an open session rolls it back.
Finish(m) ==
  /\ handle = "held" /\ call = "none" /\ open
  /\ call' = m /\ stage' = "write" /\ asked' = IF m = "commit" THEN "commit" ELSE "rollback"
  /\ UNCHANGED <<handle, cfg, open, chunkSeq, ret, readerVars, link, server, sent, acked, told>>

(* exchange. *)

\* The frame the method in progress sends.
frame ==
  CASE call = "chunk" -> Request("chunk", chunkSeq + 1, sent)
    [] call = "close" -> Request("rollback", 0, 0)
    [] OTHER -> Request(call, 0, 0)

\* The action of the answer it expects.
want == CASE call = "start" -> "started" [] call = "chunk" -> "batchAck" [] OTHER -> "committed"

\* How a method ends once its exchange failed. The constructor and Close
\* always abort; Commit and Rollback mark the session closed; SendChunk
\* leaves it as the exchange left it. drop: the exchange itself aborted.
ExchangeFails(kind, drop) ==
  /\ IF drop \/ call \in {"start", "close"}
       THEN Abort
       ELSE /\ NoAbort
            /\ open' = (open /\ call = "chunk")
  /\ handle' = IF call = "start" THEN "failed" ELSE handle
  /\ Return(call, IF call = "close" THEN "ok" ELSE kind)
  /\ UNCHANGED <<cfg, chunkSeq, acked, told>>

\* json.Marshal fails (only a chunk's records can): nothing is written.
EncodeFails ==
  /\ call = "chunk" /\ stage = "write"
  /\ ExchangeFails("encode", FALSE)
  /\ UNCHANGED <<readerVars, toServer, srvClosed, server, sent, asked>>

\* conn.Write succeeds. A peer that is gone never sees the frame.
Write ==
  /\ call # "none" /\ stage = "write"
  /\ stage' = "wait"
  /\ toServer' = IF srvClosed THEN toServer ELSE Append(toServer, frame)
  /\ UNCHANGED <<handle, cfg, open, chunkSeq, call, ret, readerVars, aborted, toClient, srvClosed, server, history>>

\* conn.Write fails, on a dead connection or because the context is done; the
\* frame may have left all the same. An error frame the reader already put in
\* s.in is reported instead. Either way the session is aborted.
WriteFails(left) ==
  /\ call # "none" /\ stage = "write"
  /\ toServer' = IF left /\ ~srvClosed THEN Append(toServer, frame) ELSE toServer
  /\ in' = IF in = <<>> THEN in ELSE Tail(in)
  /\ ExchangeFails(IF in # <<>> /\ asError(Head(in)) THEN "ended" ELSE "transport", TRUE)
  /\ UNCHANGED <<reader, held, srvClosed, server, sent, asked>>

\* Faulty: a timeout leaves the session and the connection as they were.
TimeoutKeepsOpen ==
  /\ call # "none" /\ stage = "wait"
  /\ ExchangeFails("timeout", FALSE)
  /\ UNCHANGED <<readerVars, toServer, srvClosed, server, sent, asked>>

\* Faulty: the wait is not bounded by a context while the connection lives.
TimeoutOnlyWhenDead ==
  /\ call # "none" /\ stage = "wait" /\ srvClosed
  /\ ExchangeFails("timeout", TRUE)
  /\ UNCHANGED <<readerVars, toServer, srvClosed, server, sent, asked>>

\* The context (frame timeout or the caller's) is done before an answer.
Timeout ==
  /\ call # "none" /\ stage = "wait"
  /\ ExchangeFails("timeout", TRUE)
  /\ UNCHANGED <<readerVars, toServer, srvClosed, server, sent, asked>>

\* s.in is closed: the connection ended.
ConnectionEnded ==
  /\ call # "none" /\ stage = "wait" /\ in = <<>> /\ reader = "ended"
  /\ ExchangeFails("transport", TRUE)
  /\ UNCHANGED <<readerVars, toServer, srvClosed, server, sent, asked>>

\* Faulty: no error frame ends the session.
ErrorAnswerKeepsOpen ==
  asError(Head(in)) /\ ExchangeFails("refused", FALSE)

\* decode, on an error frame: an error that ends the session aborts it.
ErrorAnswer ==
  LET f == Head(in) IN
  /\ asError(f)
  /\ LET ends == endsSession(f.info, f.detail)
     IN ExchangeFails(IF ends THEN "ended" ELSE "refused", ends)

\* decode, on anything that is not the expected answer.
UnexpectedAnswer ==
  LET f == Head(in) IN
  /\ ~asError(f) /\ f.action # want
  /\ ExchangeFails("unexpected", TRUE)

\* The constructor returns the session.
Started ==
  /\ call = "start" /\ Head(in).action = want
  /\ handle' = "held" /\ Return("open", "ok")
  /\ NoAbort /\ UNCHANGED <<cfg, open, chunkSeq, acked, told>>

\* Faulty: a chunk that failed whole spends its number.
ChunkAckedSpends ==
  LET whole == Head(in).info = "whole" IN
  /\ call = "chunk" /\ Head(in).action = want
  /\ chunkSeq' = chunkSeq + 1
  /\ acked' = IF whole THEN acked ELSE Append(acked, sent)
  /\ Return("chunk", IF whole THEN "whole" ELSE "ok")
  /\ NoAbort /\ UNCHANGED <<handle, cfg, open, told>>

\* SendChunk returns an ack; the number is spent unless the chunk failed whole.
ChunkAcked ==
  LET whole == Head(in).info = "whole" IN
  /\ call = "chunk" /\ Head(in).action = want
  /\ chunkSeq' = IF whole THEN chunkSeq ELSE chunkSeq + 1
  /\ acked' = IF whole THEN acked ELSE Append(acked, sent)
  /\ Return("chunk", IF whole THEN "whole" ELSE "ok")
  /\ NoAbort /\ UNCHANGED <<handle, cfg, open, told>>

\* Faulty: the outcome is taken from the request, not from the answer.
FinishedAsAsked ==
  /\ call \in {"commit", "rollback", "close"} /\ Head(in).action = want
  /\ open' = FALSE
  /\ IF call = "close" THEN Abort ELSE NoAbort
  /\ Return(call, "ok")
  /\ told' = IF call = "close" THEN told ELSE call
  /\ UNCHANGED <<handle, cfg, chunkSeq, acked>>

\* Commit or Rollback returns the server's outcome; Close also aborts.
Finished ==
  /\ call \in {"commit", "rollback", "close"} /\ Head(in).action = want
  /\ open' = FALSE
  /\ IF call = "close" THEN Abort ELSE NoAbort
  /\ Return(call, "ok")
  /\ told' = IF call = "close" THEN told ELSE Head(in).info
  /\ UNCHANGED <<handle, cfg, chunkSeq, acked>>

\* A frame is taken from s.in and decoded.
Answer ==
  /\ call # "none" /\ stage = "wait" /\ in # <<>>
  /\ in' = Tail(in)
  /\ ErrorAnswer \/ UnexpectedAnswer \/ Started \/ ChunkAcked \/ Finished
  /\ UNCHANGED <<reader, held, toServer, srvClosed, server, sent, asked>>

(* readLoop. *)

ReaderReads ==
  /\ reader = "reading" /\ toClient # <<>> /\ ~aborted
  /\ toClient' = Tail(toClient)
  /\ IF Head(toClient).action = "binary"
       THEN UNCHANGED <<reader, held>>
       ELSE reader' = "pushing" /\ held' = <<Head(toClient)>>
  /\ UNCHANGED <<session, in, aborted, toServer, srvClosed, server, history>>

\* Faulty: the channel has no bound.
ReaderPushesUnbounded ==
  /\ reader = "pushing"
  /\ in' = in \o held /\ held' = <<>> /\ reader' = "reading"
  /\ UNCHANGED <<session, link, server, history>>

ReaderPushes ==
  /\ reader = "pushing" /\ Len(in) < InCap
  /\ in' = in \o held /\ held' = <<>> /\ reader' = "reading"
  /\ UNCHANGED <<session, link, server, history>>

\* Read fails: the connection is gone, or it fails on a live one (a frame past
\* the read limit, a protocol error), and what was on its way is never read.
ReaderReadFails ==
  /\ reader = "reading"
  /\ reader' = "ended"
  /\ UNCHANGED <<session, in, held, link, server, history>>

\* The context is done while s.in is full (or the select picks that case).
ReaderCancelled ==
  /\ reader = "pushing" /\ aborted
  /\ reader' = "ended" /\ held' = <<>>
  /\ UNCHANGED <<session, in, link, server, history>>

(* The server's session (external). *)

\* The server's answer reaches a connection that is still up.
Reply(f) ==
  toClient' = IF aborted \/ srvClosed THEN toClient ELSE Append(toClient, f)

over == srv \in {"committed", "discarded", "detached"}

Receives(a) == toServer # <<>> /\ Head(toServer).action = a /\ ~srvClosed

Handled == toServer' = Tail(toServer) /\ UNCHANGED <<session, readerVars, aborted, srvClosed, noise, history>>

SrvStart ==
  /\ Receives("start")
  /\ \/ /\ cfg.mode = "none" => cfg.join
        /\ srv' = "active" /\ Reply(Frame("started", "none"))
     \/ /\ srv' = "discarded"
        /\ \E e \in {Error("session", "none"), Error("security", "none"), Error("other", "malformed")} : Reply(e)
  /\ Handled /\ UNCHANGED <<watermark, applied, durable>>

\* A chunk in sequence is applied, and the per-chunk modes make it durable at
\* once; a number already applied is only acknowledged, one ahead is refused.
SrvChunk ==
  LET q == Head(toServer)
      fresh == q.seq = watermark + 1 IN
  /\ Receives("chunk") /\ srv = "active"
  /\ watermark' = IF fresh THEN q.seq ELSE watermark
  /\ applied' = IF fresh THEN Append(applied, q.batch) ELSE applied
  /\ durable' = IF fresh /\ cfg.mode \in {"per_batch", "per_row"} THEN Append(durable, q.batch) ELSE durable
  /\ Reply(IF fresh THEN Frame("batchAck", "ok")
           ELSE IF q.seq <= watermark THEN Frame("batchAck", "replay")
           ELSE Error("session", "skipsAhead"))
  /\ Handled /\ UNCHANGED srv

\* The chunk's own transaction failed to commit.
SrvWholeChunkFails ==
  /\ Receives("chunk") /\ srv = "active" /\ Head(toServer).seq = watermark + 1 /\ cfg.mode = "per_batch"
  /\ Reply(Frame("batchAck", "whole"))
  /\ Handled /\ UNCHANGED <<srv, watermark, applied, durable>>

\* A chunk refused as a whole: the session stays as it was.
SrvRefuse ==
  /\ Receives("chunk") /\ srv = "active"
  /\ \E e \in {Error("session", "rowCap"), Error("other", "malformed")} : Reply(e)
  /\ Handled /\ UNCHANGED <<srv, watermark, applied, durable>>

\* An internal failure says nothing about what the session holds.
SrvInternal ==
  /\ Receives("chunk") /\ srv = "active"
  /\ applied' \in {applied, Append(applied, Head(toServer).batch)}
  /\ durable' = IF cfg.mode \in {"per_batch", "per_row"} THEN applied' ELSE durable
  /\ Reply(Error("internal", "none"))
  /\ Handled /\ UNCHANGED <<srv, watermark>>

\* A revoked grant: the session is rolled back, whatever the frame was.
SrvSecurity ==
  /\ toServer # <<>> /\ ~srvClosed /\ srv = "active"
  /\ srv' = "discarded" /\ Reply(Error("security", "none"))
  /\ Handled /\ UNCHANGED <<watermark, applied, durable>>

\* A frame for a session the server no longer has.
SrvUnknown ==
  /\ toServer # <<>> /\ ~srvClosed /\ over
  /\ \E d \in {"notFound", "isClosed"} : Reply(Error("session", d))
  /\ Handled /\ UNCHANGED <<srv, watermark, applied, durable>>

\* The commit frame, honoured or refused by the engine.
SrvCommit ==
  /\ Receives("commit") /\ srv = "active"
  /\ \/ /\ durable' = IF cfg.mode = "per_stream" THEN applied ELSE durable
        /\ srv' = IF cfg.mode = "none" THEN "detached" ELSE "committed"
        /\ Reply(Frame("committed", IF cfg.mode = "none" THEN "detached" ELSE "commit"))
     \/ srv' = "discarded" /\ UNCHANGED durable /\ Reply(Error("other", "none"))
  /\ Handled /\ UNCHANGED <<watermark, applied>>

SrvRollback ==
  /\ Receives("rollback") /\ srv = "active"
  /\ srv' = IF cfg.mode = "none" THEN "detached" ELSE "discarded"
  /\ Reply(Frame("committed", IF cfg.mode = "none" THEN "detached" ELSE "rollback"))
  /\ Handled /\ UNCHANGED <<watermark, applied, durable>>

\* The idle sweep rolls the session back and says so unasked.
SrvExpire ==
  /\ srv = "active" /\ ~srvClosed
  /\ srv' = "discarded" /\ Reply(Error("expired", "none"))
  /\ UNCHANGED <<session, readerVars, aborted, toServer, srvClosed, watermark, applied, durable, noise, history>>

\* The connection ends on the server's side: the client's close is noticed, or
\* an oversize frame, a failure or a restart cuts it. The session is rolled
\* back, and frames on the wire may be lost.
SrvCloses ==
  /\ reader # "off" /\ ~srvClosed
  /\ srvClosed' = TRUE /\ srv' = (IF over THEN srv ELSE "discarded") /\ toServer' = <<>>
  /\ \E k \in 0..Len(toClient) : toClient' = SubSeq(toClient, 1, k)
  /\ UNCHANGED <<session, readerVars, aborted, watermark, applied, durable, noise, history>>

\* A frame outside the protocol: text that is no answer, or not text.
PeerNoise ==
  /\ reader # "off" /\ ~srvClosed /\ ~aborted /\ noise < MaxNoise
  /\ noise' = noise + 1
  /\ \E a \in {"garbage", "binary"} : Reply(Frame(a, "none"))
  /\ UNCHANGED <<session, readerVars, aborted, toServer, srvClosed, srv, watermark, applied, durable, history>>

-----------------------------------------------------------------------------
Caller ==
  \/ Open
  \/ \E m \in {"chunk", "commit", "rollback"} : CallClosed(m)
  \/ CloseClosed \/ SendChunk
  \/ \E m \in {"commit", "rollback", "close"} : Finish(m)

Exchange ==
  \/ EncodeFails \/ Write \/ \E left \in BOOLEAN : WriteFails(left)
  \/ Timeout \/ ConnectionEnded \/ Answer

readLoop == ReaderReads \/ ReaderPushes \/ ReaderReadFails \/ ReaderCancelled

Peer ==
  \/ SrvStart \/ SrvChunk \/ SrvWholeChunkFails \/ SrvRefuse \/ SrvInternal
  \/ SrvSecurity \/ SrvUnknown \/ SrvCommit \/ SrvRollback \/ SrvExpire \/ SrvCloses \/ PeerNoise

Next == Caller \/ Exchange \/ readLoop \/ Peer

Spec == Init /\ [][Next]_vars

\* Fairness. Every exchange runs under context.WithTimeout, so a method that
\* has begun always takes its next step; readLoop is a goroutine the runtime
\* keeps scheduling, blocked in Read only while the connection is up and silent;
\* TCP tells the server of a dropped connection.
silent == reader = "reading" /\ toClient = <<>> /\ ~aborted /\ ~srvClosed
FairSpec ==
  Spec /\ WF_vars(Exchange) /\ WF_vars(~silent /\ readLoop) /\ WF_vars(aborted /\ SrvCloses)

-----------------------------------------------------------------------------
(* Properties. *)

\* The variables have their types: s.in never exceeds its capacity, and the
\* reader holds a frame exactly while it waits for room in s.in.
TypeOK ==
  /\ handle \in {"none", "opening", "held", "failed"}
  /\ cfg \in [mode : AllModes, join : BOOLEAN]
  /\ open \in BOOLEAN /\ chunkSeq \in Nat
  /\ call \in {"none", "start", "chunk", "commit", "rollback", "close"}
  /\ stage \in {"write", "wait"}
  /\ ret \in [op : {"none", "open", "start", "chunk", "commit", "rollback", "close"},
             kind : {"none", "ok", "whole", "options", "closed", "encode", "transport",
                     "timeout", "ended", "refused", "unexpected"}]
  /\ in \in Seq(ServerFrames) /\ Len(in) <= InCap
  /\ reader \in {"off", "reading", "pushing", "ended"}
  /\ held \in Seq(ServerFrames) /\ Len(held) = (IF reader = "pushing" THEN 1 ELSE 0)
  /\ aborted \in BOOLEAN /\ srvClosed \in BOOLEAN
  /\ toServer \in Seq(ClientFrames) /\ toClient \in Seq(ServerFrames)
  /\ srv \in {"none", "active", "committed", "discarded", "detached"}
  /\ watermark \in Nat
  /\ applied \in Seq(Nat) /\ durable \in Seq(Nat) /\ acked \in Seq(Nat)
  /\ noise \in 0..MaxNoise /\ sent \in 0..MaxSends
  /\ asked \in {"none", "commit", "rollback"}
  /\ told \in {"none"} \union Outcomes

\* Every frame between the server and the caller, oldest first.
Upstream == in \o held \o toClient

\* Between two calls of an open session whose server side is alive, both ends
\* agree: s.chunkSeq is the server's watermark, and the chunks the server
\* applied are exactly the ones SendChunk reported accepted, in order. The
\* client never causes a replay, nor a refusal for skipping ahead.
SequenceAgreement ==
  /\ handle = "held" /\ open /\ call = "none" /\ srv = "active"
       => watermark = chunkSeq /\ applied = acked
  /\ \A i \in 1..Len(Upstream) : Upstream[i].info # "replay" /\ Upstream[i].detail # "skipsAhead"

\* Whatever failed, the server never applied a chunk twice nor in another
\* order, and only the last chunk sent can be applied without the caller
\* having been told so.
OneChunkInDoubt == applied = acked \/ applied = Append(acked, sent)

\* A per_stream session is all or nothing: rows become durable only if the
\* caller asked for a commit, and then exactly the acknowledged chunks do. The
\* Outcome returned is what happened: after a "commit" every acknowledged
\* chunk is durable, after a "rollback" of a per_stream session none is.
OutcomeIsTrue ==
  /\ cfg.mode = "per_stream" /\ durable # <<>> => asked = "commit" /\ durable = acked
  /\ told = "commit" => srv = "committed" /\ durable = acked
  /\ told = "rollback" => srv = "discarded" /\ (cfg.mode = "per_stream" => durable = <<>>)

\* A session that is open for the caller but over on the server is never
\* silent: an error frame that ends it is on its way, or the connection is
\* down, so that the next call finds out (from s.in, closed, when the reader
\* failed before it came to that frame).
EndIsNoticed ==
  handle = "held" /\ open /\ call = "none" /\ over
    => \/ srvClosed
       \/ \E i \in 1..Len(Upstream) : asError(Upstream[i]) /\ endsSession(Upstream[i].info, Upstream[i].detail)

\* Every method returns, however the server behaves.
CallsReturn == (call # "none") ~> (call = "none")

\* A session given up on is released at both ends: once it is aborted the reader goroutine
\* ends, even with s.in full; and after Close, or a constructor that failed, it does not stay
\* alive on the server: it ends there and no frame still on its way revives it.
AbandonedIsReleased ==
  /\ aborted ~> (reader = "ended")
  /\ (handle = "failed" \/ ret.op = "close") ~> [](srv # "active")

\* A session that does not commit chunk by chunk implements AtomicLoad: the
\* caller's view (accepted chunks, returned outcome) and the server's (durable
\* rows, end of the session) together behave as one atomic load. The modes that
\* commit chunk by chunk promise no such thing: for them nothing is loaded.
atomicMode == cfg.mode \in {"per_stream", "none"}
Load == INSTANCE AtomicLoad WITH
  Chunks <- 1..MaxSends,
  accepted <- IF atomicMode THEN acked ELSE <<>>,
  durable <- IF atomicMode THEN durable ELSE <<>>,
  fate <- IF atomicMode /\ over THEN srv ELSE "open",
  told <- CASE ~atomicMode -> "none"
            [] atomicMode /\ told = "commit" -> "committed"
            [] atomicMode /\ told = "rollback" -> "discarded"
            [] OTHER -> told

AtomicLoadSpec == Load!Spec

\* What the comment of type InsertSession says of a timeout: the connection is
\* closed and the server rolls back.
TimeoutRollsBack == cfg.mode = "per_stream" /\ ret.kind = "timeout" => durable = <<>>
=============================================================================
