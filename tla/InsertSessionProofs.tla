------------------------ MODULE InsertSessionProofs ------------------------
(* Proofs about InsertSession for every set of modes and every bound. *)
EXTENDS InsertSession, SequenceTheorems, TLAPS

LEMMA Empty == ASSUME NEW S PROVE <<>> \in Seq(S)
  OBVIOUS

LEMMA EmptyLen == Len(<<>>) = 0
  OBVIOUS

LEMMA InitType == Init => TypeOK
<1> SUFFICES ASSUME Init PROVE TypeOK
  OBVIOUS
<1>1. /\ in \in Seq(ServerFrames) /\ held \in Seq(ServerFrames) /\ toClient \in Seq(ServerFrames)
      /\ toServer \in Seq(ClientFrames)
      /\ applied \in Seq(Nat) /\ durable \in Seq(Nat) /\ acked \in Seq(Nat)
  BY Empty, Zenon DEF Init
<1>4. Len(in) <= InCap /\ Len(held) = 0
  BY EmptyLen, BoundsAssumption DEF Init
<1>2. cfg \in [mode : AllModes, join : BOOLEAN]
  BY DEF Init, AllModes
<1>3. noise \in 0..MaxNoise /\ sent \in 0..MaxSends /\ InCap >= 0
  BY BoundsAssumption DEF Init
<1>5. open \in BOOLEAN /\ aborted \in BOOLEAN /\ srvClosed \in BOOLEAN
  BY Zenon DEF Init
<1> QED BY <1>1, <1>2, <1>3, <1>4, <1>5 DEF Init, TypeOK

\* What an exchange's outcome sets keeps its type.
LEMMA FailType ==
  ASSUME TypeOK, NEW kind \in {"encode", "transport", "timeout", "ended", "refused", "unexpected"},
         NEW drop \in BOOLEAN, ExchangeFails(kind, drop), call # "none"
  PROVE  /\ handle' \in {"none", "opening", "held", "failed"}
         /\ cfg' \in [mode : AllModes, join : BOOLEAN]
         /\ open' \in BOOLEAN /\ chunkSeq' \in Nat
         /\ call' = "none" /\ stage' = "write"
         /\ ret' \in [op : {"none", "open", "start", "chunk", "commit", "rollback", "close"},
                      kind : {"none", "ok", "whole", "options", "closed", "encode", "transport",
                              "timeout", "ended", "refused", "unexpected"}]
         /\ aborted' \in BOOLEAN /\ toClient' \in Seq(ServerFrames)
         /\ acked' \in Seq(Nat) /\ told' \in {"none"} \union Outcomes
<1>1. open' \in BOOLEAN /\ aborted' \in BOOLEAN
  BY Zenon DEF TypeOK, ExchangeFails, Abort, NoAbort
<1>2. toClient' \in Seq(ServerFrames)
  BY Empty, Zenon DEF TypeOK, ExchangeFails, Abort, NoAbort
<1> QED BY <1>1, <1>2 DEF TypeOK, ExchangeFails, Return

LEMMA CallerType == ASSUME TypeOK, Caller PROVE TypeOK'
<1>1. ASSUME NEW join \in BOOLEAN, NEW inTx \in BOOLEAN, NEW opt \in Modes \union {"default"}, OpenFails(join, opt, inTx)
      PROVE TypeOK'
  BY <1>1 DEF TypeOK, OpenFails, readerVars, link, server, history
<1>2. ASSUME NEW join \in BOOLEAN, NEW inTx \in BOOLEAN, NEW opt \in Modes \union {"default"}, OpenDials(join, opt, inTx)
      PROVE TypeOK'
  <2>1. cfg' \in [mode : AllModes, join : BOOLEAN]
    BY <1>2, ModesAssumption DEF OpenDials, effectiveMode, AllModes
  <2>2. open' \in BOOLEAN
    BY <1>2, Zenon DEF OpenDials
  <2>3. in' \in Seq(ServerFrames) /\ held' \in Seq(ServerFrames) /\ Len(in') = 0 /\ Len(held') = 0
    BY <1>2, Empty, EmptyLen, Zenon DEF OpenDials
  <2> QED BY <1>2, <2>1, <2>2, <2>3, BoundsAssumption DEF TypeOK, OpenDials, link, server, history
<1>3. ASSUME NEW m \in {"chunk", "commit", "rollback"}, CallClosed(m) PROVE TypeOK'
  BY <1>3 DEF TypeOK, CallClosed, readerVars, link, server, history
<1>4. CASE CloseClosed
  <2>1. toClient' \in Seq(ServerFrames)
    BY <1>4, Empty, Zenon DEF CloseClosed, Abort
  <2> QED BY <1>4, <2>1 DEF TypeOK, CloseClosed, Abort, Return, readerVars, server, history
<1>5. CASE SendChunk
  BY <1>5, BoundsAssumption DEF TypeOK, SendChunk, readerVars, link, server
<1>6. ASSUME NEW m \in {"commit", "rollback", "close"}, Finish(m) PROVE TypeOK'
  BY <1>6 DEF TypeOK, Finish, readerVars, link, server
<1> QED BY <1>1, <1>2, <1>3, <1>4, <1>5, <1>6 DEF Caller, Open

LEMMA FrameType == ASSUME TypeOK, call # "none" PROVE frame \in ClientFrames
  BY BoundsAssumption DEF TypeOK, frame, Request, ClientFrames

LEMMA ExchangeType == ASSUME TypeOK, Exchange PROVE TypeOK'
<1>1. CASE EncodeFails
  BY <1>1, FailType DEF TypeOK, EncodeFails, readerVars, server
<1>2. CASE Write
  BY <1>2, FrameType DEF TypeOK, Write, readerVars, server, history
<1>3. ASSUME NEW left \in BOOLEAN, WriteFails(left) PROVE TypeOK'
  <2>1. in' \in Seq(ServerFrames) /\ Len(in') <= InCap
    BY <1>3, BoundsAssumption DEF TypeOK, WriteFails
  <2>2. toServer' \in Seq(ClientFrames)
    BY <1>3, FrameType DEF TypeOK, WriteFails
  <2> QED BY <1>3, <2>1, <2>2, FailType DEF TypeOK, WriteFails, server
<1>4. CASE Timeout
  BY <1>4, FailType DEF TypeOK, Timeout, readerVars, server
<1>5. CASE ConnectionEnded
  BY <1>5, FailType DEF TypeOK, ConnectionEnded, readerVars, server
<1>6. CASE Answer
  <2>1. in' \in Seq(ServerFrames) /\ Len(in') <= InCap /\ Head(in) \in ServerFrames
    BY <1>6, BoundsAssumption DEF TypeOK, Answer
  <2>2. CASE ErrorAnswer
    BY <1>6, <2>1, <2>2, FailType DEF TypeOK, Answer, ErrorAnswer, endsSession, server
  <2>3. CASE UnexpectedAnswer
    BY <1>6, <2>1, <2>3, FailType DEF TypeOK, Answer, UnexpectedAnswer, server
  <2>4. CASE Started
    BY <1>6, <2>1, <2>4 DEF TypeOK, Answer, Started, Return, NoAbort, server
  <2>5. CASE ChunkAcked
    BY <1>6, <2>1, <2>5 DEF TypeOK, Answer, ChunkAcked, Return, NoAbort, server
  <2>6. CASE Finished
    <3>1. Head(in).info \in Outcomes
      BY <2>1, <2>6 DEF Finished, want, ServerFrames
    <3>2. toClient' \in Seq(ServerFrames) /\ aborted' \in BOOLEAN /\ open' \in BOOLEAN
      BY <2>6, Empty, Zenon DEF TypeOK, Finished, Abort, NoAbort
    <3> QED BY <1>6, <2>1, <2>6, <3>1, <3>2 DEF TypeOK, Answer, Finished, Return, server
  <2> QED BY <1>6, <2>2, <2>3, <2>4, <2>5, <2>6 DEF Answer
<1> QED BY <1>1, <1>2, <1>3, <1>4, <1>5, <1>6 DEF Exchange

LEMMA ReaderType == ASSUME TypeOK, readLoop PROVE TypeOK'
<1>1. CASE ReaderReads
  <2>1. toClient' \in Seq(ServerFrames) /\ Head(toClient) \in ServerFrames
    BY <1>1 DEF TypeOK, ReaderReads
  <2>2. held' \in Seq(ServerFrames) /\ Len(held') = (IF reader' = "pushing" THEN 1 ELSE 0)
    <3>1. CASE Head(toClient).action = "binary"
      BY <1>1, <3>1 DEF TypeOK, ReaderReads
    <3>2. CASE Head(toClient).action # "binary"
      <4>1. held' = <<Head(toClient)>> /\ reader' = "pushing"
        BY <1>1, <3>2 DEF ReaderReads
      <4> QED BY <2>1, <4>1
    <3> QED BY <3>1, <3>2
  <2> QED BY <1>1, <2>1, <2>2 DEF TypeOK, ReaderReads, session, server, history
<1>2. CASE ReaderPushes
  <2>1. in' \in Seq(ServerFrames) /\ Len(in') = Len(in) + 1
    <3>1. in \in Seq(ServerFrames) /\ held \in Seq(ServerFrames) /\ Len(held) = 1 /\ in' = in \o held
      BY <1>2 DEF TypeOK, ReaderPushes
    <3>2. in \o held \in Seq(ServerFrames) /\ Len(in \o held) = Len(in) + Len(held)
      BY <3>1, ConcatProperties, Zenon
    <3> QED BY <3>1, <3>2
  <2>2. held' \in Seq(ServerFrames) /\ Len(held') = 0
    BY <1>2, Empty, EmptyLen DEF ReaderPushes
  <2>3. Len(in') <= InCap
    BY <1>2, <2>1, BoundsAssumption DEF TypeOK, ReaderPushes
  <2> QED BY <1>2, <2>1, <2>2, <2>3 DEF TypeOK, ReaderPushes, session, link, server, history
<1>3. CASE ReaderReadFails
  BY <1>3 DEF TypeOK, ReaderReadFails, session, link, server, history
<1>4. CASE ReaderCancelled
  <2>1. held' \in Seq(ServerFrames) /\ Len(held') = 0
    BY <1>4, Empty, EmptyLen DEF ReaderCancelled
  <2> QED BY <1>4, <2>1 DEF TypeOK, ReaderCancelled, session, link, server, history
<1> QED BY <1>1, <1>2, <1>3, <1>4 DEF readLoop

LEMMA ReplyType == ASSUME TypeOK, NEW f \in ServerFrames, Reply(f) PROVE toClient' \in Seq(ServerFrames)
  BY DEF TypeOK, Reply

\* A frame handled by the server changes the link and the server's state only.
LEMMA HandledType ==
  ASSUME TypeOK, toServer # <<>>, Handled, toClient' \in Seq(ServerFrames),
         srv' \in {"none", "active", "committed", "discarded", "detached"},
         watermark' \in Nat, applied' \in Seq(Nat), durable' \in Seq(Nat)
  PROVE  TypeOK'
  BY DEF TypeOK, Handled, session, readerVars, history

LEMMA PeerType == ASSUME TypeOK, Peer PROVE TypeOK'
<1> USE DEF Frame, Error, ServerFrames, Titles, Details, Outcomes
<1>1. CASE SrvStart
  BY <1>1, HandledType, ReplyType DEF TypeOK, SrvStart, Receives
<1>2. CASE SrvChunk
  <2> DEFINE q == Head(toServer)
  <2>1. q \in ClientFrames
    BY <1>2 DEF TypeOK, SrvChunk, Receives
  <2>2. toClient' \in Seq(ServerFrames)
    BY <1>2, ReplyType DEF SrvChunk
  <2>3. applied' \in Seq(Nat) /\ durable' \in Seq(Nat) /\ watermark' \in Nat
    BY <1>2, <2>1, BoundsAssumption DEF TypeOK, SrvChunk, ClientFrames
  <2> QED BY <1>2, <2>2, <2>3, HandledType DEF TypeOK, SrvChunk, Receives
<1>3. CASE SrvWholeChunkFails
  BY <1>3, HandledType, ReplyType DEF TypeOK, SrvWholeChunkFails, Receives
<1>4. CASE SrvRefuse
  BY <1>4, HandledType, ReplyType DEF TypeOK, SrvRefuse, Receives
<1>5. CASE SrvInternal
  <2>1. Head(toServer) \in ClientFrames
    BY <1>5 DEF TypeOK, SrvInternal, Receives
  <2>2. toClient' \in Seq(ServerFrames)
    BY <1>5, ReplyType DEF SrvInternal
  <2>3. applied' \in Seq(Nat) /\ durable' \in Seq(Nat)
    <3>1. Append(applied, Head(toServer).batch) \in Seq(Nat)
      BY <2>1, BoundsAssumption DEF TypeOK, ClientFrames
    <3>2. applied' \in Seq(Nat)
      BY <1>5, <3>1 DEF TypeOK, SrvInternal
    <3> QED BY <1>5, <3>2 DEF TypeOK, SrvInternal
  <2> QED BY <1>5, <2>2, <2>3, HandledType DEF TypeOK, SrvInternal, Receives
<1>6. CASE SrvSecurity
  BY <1>6, HandledType, ReplyType DEF TypeOK, SrvSecurity
<1>7. CASE SrvUnknown
  BY <1>7, HandledType, ReplyType DEF TypeOK, SrvUnknown
<1>8. CASE SrvCommit
  BY <1>8, HandledType, ReplyType DEF TypeOK, SrvCommit, Receives
<1>9. CASE SrvRollback
  BY <1>9, HandledType, ReplyType DEF TypeOK, SrvRollback, Receives
<1>10. CASE SrvExpire
  <2>1. toClient' \in Seq(ServerFrames)
    BY <1>10, ReplyType DEF SrvExpire
  <2> QED BY <1>10, <2>1 DEF TypeOK, SrvExpire, session, readerVars, history
<1>11. CASE SrvCloses
  <2>1. toClient' \in Seq(ServerFrames)
    BY <1>11 DEF TypeOK, SrvCloses
  <2>2. toServer' \in Seq(ClientFrames)
    BY <1>11, Empty, Zenon DEF SrvCloses
  <2> QED BY <1>11, <2>1, <2>2 DEF TypeOK, SrvCloses, session, readerVars, history
<1>12. CASE PeerNoise
  <2>1. toClient' \in Seq(ServerFrames)
    BY <1>12, ReplyType DEF PeerNoise
  <2> QED BY <1>12, <2>1, BoundsAssumption DEF TypeOK, PeerNoise, session, readerVars, history
<1> QED BY <1>1, <1>2, <1>3, <1>4, <1>5, <1>6, <1>7, <1>8, <1>9, <1>10, <1>11, <1>12 DEF Peer

LEMMA NextType == ASSUME TypeOK, [Next]_vars PROVE TypeOK'
<1>1. CASE UNCHANGED vars
  BY <1>1 DEF TypeOK, vars, session, readerVars, link, server, history
<1> QED BY <1>1, CallerType, ExchangeType, ReaderType, PeerType DEF Next

\* Every variable of the session, its reader, the connection and the server
\* keeps its type; in particular s.in never exceeds its capacity and the reader
\* holds one frame exactly while it is pushing.
THEOREM TypeCorrect == Spec => []TypeOK
  BY InitType, NextType, PTL DEF Spec

-----------------------------------------------------------------------------
(***************************************************************************)
(* The inductive invariant. It follows the one exchange that can be under  *)
(* way: while the request is on the wire both ends agree and nothing but   *)
(* unasked frames travels back; then at most one answer does, and it is    *)
(* true of the server.                                                     *)
(***************************************************************************)

Frames(s) == {s[i] : i \in 1..Len(s)}

\* Every frame between the server and the caller, in no order.
Up == Frames(in) \union Frames(held) \union Frames(toClient)

\* A frame that answers no request: noise, or the notice of an expiry.
Unasked(f) == f.action \in {"garbage", "binary"} \/ f = Error("expired", "none")
Quiet == \A f \in Up : Unasked(f)

Agree == watermark = chunkSeq /\ applied = acked
Ends(f) == asError(f) /\ endsSession(f.info, f.detail)
finishing == call \in {"commit", "rollback", "close"}

\* An exchange is under way only on an open session, and what finishing leaves behind.
ControlInv ==
  /\ call # "none" => open
  /\ open => ~aborted /\ handle \in {"opening", "held"}
  /\ handle = "opening" <=> call = "start"
  /\ call = "none" => stage = "write"
  /\ call = "chunk" => sent # 0
  /\ asked # "none" /\ open => finishing
  /\ call = "commit" => asked = "commit"
  /\ told # "none" => ~open

\* Before the session is opened nothing has happened.
FreshInv ==
  handle = "none" => /\ reader = "off" /\ ~aborted
                     /\ toServer = <<>> /\ in = <<>> /\ held = <<>> /\ toClient = <<>>
                     /\ srv = "none" /\ watermark = 0 /\ chunkSeq = 0
                     /\ applied = <<>> /\ acked = <<>> /\ durable = <<>>
                     /\ told = "none" /\ asked = "none"

\* What a request says of the session it was sent in.
Carries(q) ==
  /\ q.action = "chunk" => q.seq = chunkSeq + 1 /\ q.batch = sent /\ sent # 0
  /\ q.action = "start" => srv = "none"
  /\ q.action = "commit" => asked = "commit"

\* The request on the wire, sent in agreement and not answered yet.
RequestOf(q) == (open => stage = "wait" /\ q = frame) /\ Carries(q)

WireInv ==
  /\ toServer # <<>> => Tail(toServer) = <<>> /\ Quiet /\ Agree /\ RequestOf(Head(toServer))
  /\ open /\ stage = "write" => toServer = <<>> /\ Quiet /\ Agree
  /\ call = "start" /\ stage = "write" /\ ~srvClosed => srv = "none"

\* What an answer says of the server.
Truthful(f) ==
  /\ f.action = "started" => Agree
  /\ f.action = "batchAck" /\ f.info = "whole" => Agree
  /\ f.action = "batchAck" /\ f.info # "whole" => applied = Append(acked, sent) /\ watermark = chunkSeq + 1
  /\ f.action = "committed" => srv = (CASE f.info = "commit" -> "committed" [] f.info = "rollback" -> "discarded"
                                        [] OTHER -> "detached")
  /\ asError(f) /\ ~Ends(f) => Agree

AnswerInv == open => \A f \in Up : Unasked(f) \/ Truthful(f)

\* At most one of the frames of s, or of those between the server and the caller, is an answer.
NoneOf(s) == \A f \in Frames(s) : Unasked(f)
OneOf(s) == \A i, j \in 1..Len(s) : Unasked(s[i]) \/ Unasked(s[j]) \/ i = j
LoneInv ==
  \/ OneOf(in) /\ NoneOf(held) /\ NoneOf(toClient)
  \/ NoneOf(in) /\ OneOf(held) /\ NoneOf(toClient)
  \/ NoneOf(in) /\ NoneOf(held) /\ OneOf(toClient)

\* Where the rows are, in each mode and at each end of the server's session.
DurableInv ==
  /\ cfg.mode \in {"per_batch", "per_row"} => durable = applied
  /\ cfg.mode = "per_stream" => durable = (IF srv = "committed" THEN applied ELSE <<>>)
  /\ cfg.mode = "none" => durable = <<>>
  /\ srv = "committed" => applied = acked /\ asked = "commit" /\ cfg.mode # "none"
  /\ srv = "detached" => cfg.mode = "none"

\* What Commit or Rollback returned is how the session ended.
ToldInv ==
  /\ told = "commit" => srv = "committed"
  /\ told = "rollback" => srv = "discarded"
  /\ told = "detached" => srv = "detached"

\* A session that is over on the server and open for the caller: the caller is about to
\* learn it, or is in a call that closes the session whatever comes back.
NoticeInv ==
  open /\ over => \/ srvClosed
                  \/ \E f \in Up : Ends(f)
                  \/ finishing
                  \/ call = "start" /\ \A f \in Up : f.action # "started"

CleanInv == \A f \in Up : f.info # "replay" /\ f.detail # "skipsAhead"

Inv ==
  /\ TypeOK /\ ControlInv /\ FreshInv /\ WireInv /\ AnswerInv /\ LoneInv
  /\ DurableInv /\ OneChunkInDoubt /\ ToldInv /\ NoticeInv /\ CleanInv

-----------------------------------------------------------------------------
(* Frames of a sequence. *)

LEMMA FramesEmpty == Frames(<<>>) = {}
  BY DEF Frames

LEMMA FramesAppend ==
  ASSUME NEW S, NEW s \in Seq(S), NEW e \in S PROVE Frames(Append(s, e)) = Frames(s) \union {e}
  BY DEF Frames

LEMMA FramesTail ==
  ASSUME NEW S, NEW s \in Seq(S), s # <<>>
  PROVE  Head(s) \in Frames(s) /\ Frames(s) = {Head(s)} \union Frames(Tail(s))
<1>1. Len(s) >= 1 /\ Len(Tail(s)) = Len(s) - 1 /\ Head(s) = s[1]
  OBVIOUS
<1>2. \A i \in 1..Len(s) : i = 1 \/ (i - 1 \in 1..Len(Tail(s)) /\ Tail(s)[i - 1] = s[i])
  BY <1>1
<1>3. \A i \in 1..Len(Tail(s)) : i + 1 \in 1..Len(s) /\ Tail(s)[i] = s[i + 1]
  BY <1>1
<1>4. 1 \in 1..Len(s)
  BY <1>1
<1>5. Head(s) \in Frames(s)
  BY <1>1, <1>4 DEF Frames
<1>6. Frames(Tail(s)) \subseteq Frames(s)
  BY <1>3 DEF Frames
<1>7. Frames(s) \subseteq {Head(s)} \union Frames(Tail(s))
  BY <1>1, <1>2 DEF Frames
<1> QED BY <1>5, <1>6, <1>7

LEMMA FramesConcat ==
  ASSUME NEW S, NEW s \in Seq(S), NEW t \in Seq(S) PROVE Frames(s \o t) = Frames(s) \union Frames(t)
<1>1. /\ s \o t \in Seq(S) /\ Len(s \o t) = Len(s) + Len(t)
      /\ \A i \in 1..Len(s) + Len(t) : (s \o t)[i] = IF i <= Len(s) THEN s[i] ELSE t[i - Len(s)]
  BY ConcatProperties, Zenon
<1>2. Len(s) \in Nat /\ Len(t) \in Nat
  OBVIOUS
<1>3. Frames(s \o t) \subseteq Frames(s) \union Frames(t)
  BY <1>1, <1>2 DEF Frames
<1>4. \A i \in 1..Len(s) : i \in 1..Len(s) + Len(t) /\ (s \o t)[i] = s[i]
  BY <1>1, <1>2
<1>5. \A i \in 1..Len(t) : i + Len(s) \in 1..Len(s) + Len(t) /\ (s \o t)[i + Len(s)] = t[i]
  BY <1>1, <1>2
<1>6. Frames(s) \subseteq Frames(s \o t)
  BY <1>1, <1>4 DEF Frames
<1>7. Frames(t) \subseteq Frames(s \o t)
  BY <1>1, <1>5 DEF Frames
<1> QED BY <1>3, <1>6, <1>7

LEMMA FramesPrefix ==
  ASSUME NEW S, NEW s \in Seq(S), NEW k \in 0..Len(s)
  PROVE  Frames(SubSeq(s, 1, k)) \subseteq Frames(s)
<1>1. Len(SubSeq(s, 1, k)) = k /\ \A i \in 1..k : SubSeq(s, 1, k)[i] = s[i]
  OBVIOUS
<1> QED BY <1>1 DEF Frames

LEMMA OneTail ==
  ASSUME NEW S, NEW s \in Seq(S), s # <<>>, OneOf(s)
  PROVE  OneOf(Tail(s)) /\ (Unasked(Head(s)) \/ NoneOf(Tail(s)))
<1>1. Len(s) >= 1 /\ Len(Tail(s)) = Len(s) - 1 /\ Head(s) = s[1]
  OBVIOUS
<1>3. \A i \in 1..Len(Tail(s)) : i + 1 \in 1..Len(s) /\ i + 1 # 1 /\ Tail(s)[i] = s[i + 1]
  BY <1>1
<1>4. OneOf(Tail(s))
  BY <1>1, <1>3 DEF OneOf
<1>5. 1 \in 1..Len(s)
  BY <1>1
<1>6. ASSUME ~Unasked(Head(s)) PROVE NoneOf(Tail(s))
  BY <1>1, <1>3, <1>5, <1>6 DEF OneOf, NoneOf, Frames
<1> QED BY <1>4, <1>6

LEMMA OneAppend ==
  ASSUME NEW S, NEW s \in Seq(S), NEW e \in S, NoneOf(s) \/ (OneOf(s) /\ Unasked(e))
  PROVE  OneOf(Append(s, e))
  BY DEF OneOf, NoneOf, Frames

LEMMA OneConcat ==
  ASSUME NEW S, NEW s \in Seq(S), NEW t \in Seq(S), (OneOf(s) /\ NoneOf(t)) \/ (NoneOf(s) /\ OneOf(t))
  PROVE  OneOf(s \o t)
<1>1. /\ s \o t \in Seq(S) /\ Len(s \o t) = Len(s) + Len(t)
      /\ \A i \in 1..Len(s) + Len(t) : (s \o t)[i] = IF i <= Len(s) THEN s[i] ELSE t[i - Len(s)]
  BY ConcatProperties, Zenon
<1>2. Len(s) \in Nat /\ Len(t) \in Nat
  OBVIOUS
<1> QED BY <1>1, <1>2 DEF OneOf, NoneOf, Frames

LEMMA OnePrefix ==
  ASSUME NEW S, NEW s \in Seq(S), NEW k \in 0..Len(s), OneOf(s) PROVE OneOf(SubSeq(s, 1, k))
<1>1. Len(SubSeq(s, 1, k)) = k /\ \A i \in 1..k : SubSeq(s, 1, k)[i] = s[i]
  OBVIOUS
<1> QED BY <1>1 DEF OneOf

LEMMA NoneIsOne == ASSUME NEW s, NoneOf(s) PROVE OneOf(s)
  BY DEF OneOf, NoneOf, Frames

LEMMA EmptyIsNone == NoneOf(<<>>) /\ OneOf(<<>>)
  BY DEF OneOf, NoneOf, Frames

-----------------------------------------------------------------------------
(* What a step does to the frames between the server and the caller. *)

\* A frame sent by the server, if it is not lost, joins the others.
LEMMA ReplyUp ==
  ASSUME TypeOK, NEW f \in ServerFrames, Reply(f), in' = in, held' = held
  PROVE  /\ Up \subseteq Up' /\ Up' \subseteq Up \union {f}
         /\ ~aborted /\ ~srvClosed => f \in Up'
         /\ LoneInv /\ (Quiet \/ Unasked(f)) => LoneInv'
<1>1. toClient \in Seq(ServerFrames)
  BY DEF TypeOK
<1>2. CASE aborted \/ srvClosed
  BY <1>2 DEF Reply, Up, LoneInv
<1>3. CASE ~(aborted \/ srvClosed)
  <2>1. toClient' = Append(toClient, f)
    BY <1>3 DEF Reply
  <2>2. Frames(toClient') = Frames(toClient) \union {f}
    BY <1>1, <2>1, FramesAppend
  <2>3. Up' = Up \union {f}
    BY <2>2 DEF Up
  <2>4. ASSUME Quiet PROVE LoneInv'
    <3>1. NoneOf(in) /\ NoneOf(held) /\ NoneOf(toClient)
      BY <2>4 DEF Quiet, Up, NoneOf
    <3>2. OneOf(toClient')
      BY <1>1, <2>1, <3>1, OneAppend
    <3> QED BY <3>1, <3>2 DEF LoneInv
  <2>5. ASSUME LoneInv, Unasked(f) PROVE LoneInv'
    <3>1. NoneOf(toClient) => NoneOf(toClient')
      BY <2>2, <2>5 DEF NoneOf
    <3>2. OneOf(toClient) => OneOf(toClient')
      BY <1>1, <2>1, <2>5, OneAppend
    <3> QED BY <2>5, <3>1, <3>2 DEF LoneInv
  <2> QED BY <2>3, <2>4, <2>5
<1> QED BY <1>2, <1>3

\* What is on the wire to the client is kept or dropped as a whole.
LEMMA DropUp ==
  ASSUME in' = in, held' = held, toClient' \in {toClient, <<>>}
  PROVE  /\ Up' \subseteq Up /\ (toClient' = toClient => Up' = Up)
         /\ LoneInv => LoneInv'
<1>1. CASE toClient' = toClient
  BY <1>1 DEF Up, LoneInv
<1>2. CASE toClient' = <<>>
  <2>1. Frames(toClient') = {}
    BY <1>2, FramesEmpty
  <2>2. NoneOf(toClient') /\ OneOf(toClient')
    BY <1>2, EmptyIsNone
  <2>3. toClient' = toClient => Up' = Up
    BY DEF Up
  <2>4. NoneOf(in') = NoneOf(in) /\ NoneOf(held') = NoneOf(held) /\ OneOf(in') = OneOf(in) /\ OneOf(held') = OneOf(held)
    OBVIOUS
  <2>5. LoneInv => LoneInv'
    BY <2>2, <2>4, NoneIsOne DEF LoneInv
  <2>6. Up' \subseteq Up
    BY <2>1 DEF Up
  <2> QED BY <2>3, <2>5, <2>6
<1> QED BY <1>1, <1>2

\* The caller takes the oldest frame: once that was an answer, no other is on its way.
LEMMA TakeUp ==
  ASSUME TypeOK, in # <<>>, in' = Tail(in), held' = held, toClient' \in {toClient, <<>>}
  PROVE  /\ Head(in) \in Up /\ Head(in) \in ServerFrames /\ Up' \subseteq Up
         /\ toClient' = toClient => Up = {Head(in)} \union Up'
         /\ LoneInv => LoneInv'
         /\ LoneInv /\ ~Unasked(Head(in)) => Quiet'
<1>1. in \in Seq(ServerFrames)
  BY DEF TypeOK
<1>2. Head(in) \in Frames(in) /\ Frames(in) = {Head(in)} \union Frames(in')
  BY <1>1, FramesTail
<1>3. Head(in) \in ServerFrames
  BY <1>1
<1>4. Frames(toClient') \subseteq Frames(toClient)
  BY FramesEmpty
<1>5. Head(in) \in Up /\ Up' \subseteq Up /\ (toClient' = toClient => Up = {Head(in)} \union Up')
  BY <1>2, <1>4 DEF Up
<1>6. NoneOf(toClient) => NoneOf(toClient')
  BY <1>4 DEF NoneOf
<1>7. OneOf(toClient) => OneOf(toClient')
  BY EmptyIsNone
<1>8. OneOf(in) => OneOf(in') /\ (Unasked(Head(in)) \/ NoneOf(in'))
  BY <1>1, OneTail
<1>9. NoneOf(in) => NoneOf(in') /\ Unasked(Head(in))
  BY <1>2 DEF NoneOf
<1>10. NoneOf(held') = NoneOf(held) /\ OneOf(held') = OneOf(held)
  OBVIOUS
<1>11. LoneInv => LoneInv'
  BY <1>6, <1>7, <1>8, <1>9, <1>10 DEF LoneInv
<1>12. ASSUME LoneInv, ~Unasked(Head(in)) PROVE Quiet'
  <2>1. NoneOf(in') /\ NoneOf(held') /\ NoneOf(toClient')
    BY <1>6, <1>8, <1>9, <1>10, <1>12 DEF LoneInv
  <2> QED BY <2>1 DEF Quiet, Up, NoneOf
<1> QED BY <1>3, <1>5, <1>11, <1>12

-----------------------------------------------------------------------------
(* Every step preserves the invariant. *)

\* A step that leaves the wire and the server alone.
still == UNCHANGED <<in, held, toClient, toServer, srv, srvClosed, watermark, applied, durable>>

LEMMA InitInv == Init => Inv
<1> SUFFICES ASSUME Init PROVE Inv
  OBVIOUS
<1>1. in = <<>> /\ held = <<>> /\ toClient = <<>>
  BY DEF Init
<1>2. Up = {}
  BY <1>1, FramesEmpty DEF Up
<1>3. LoneInv
  BY <1>1, EmptyIsNone DEF LoneInv
<1>4. ControlInv /\ FreshInv
  BY DEF Init, ControlInv, FreshInv, finishing
<1>5. WireInv /\ AnswerInv /\ NoticeInv /\ CleanInv
  BY <1>2 DEF Init, WireInv, AnswerInv, NoticeInv, CleanInv
<1>6. DurableInv /\ OneChunkInDoubt /\ ToldInv
  BY DEF Init, DurableInv, OneChunkInDoubt, ToldInv
<1> QED BY <1>3, <1>4, <1>5, <1>6, InitType DEF Inv

LEMMA OpenInv ==
  ASSUME Inv, TypeOK', NEW join \in BOOLEAN, NEW inTx \in BOOLEAN, NEW opt \in Modes \union {"default"},
         OpenFails(join, opt, inTx) \/ OpenDials(join, opt, inTx)
  PROVE  Inv'
<1>1. CASE OpenFails(join, opt, inTx)
  <2>1. Up' = Up /\ LoneInv' = LoneInv /\ ~open /\ ~open' /\ handle' = "failed" /\ still
    BY <1>1 DEF Inv, ControlInv, OpenFails, readerVars, link, server, Up, LoneInv, still
  <2>2. ControlInv' /\ FreshInv'
    BY <1>1, <2>1 DEF Inv, ControlInv, OpenFails, history, FreshInv, finishing, link
  <2>3. WireInv' /\ AnswerInv' /\ NoticeInv' /\ CleanInv'
    BY <1>1, <2>1 DEF Inv, WireInv, AnswerInv, NoticeInv, CleanInv, still, FreshInv, ControlInv, OpenFails
  <2>4. DurableInv' /\ OneChunkInDoubt' /\ ToldInv'
    BY <1>1, <2>1 DEF Inv, DurableInv, OneChunkInDoubt, ToldInv, OpenFails, still, history
  <2> QED BY <2>1, <2>2, <2>3, <2>4 DEF Inv
<1>2. CASE OpenDials(join, opt, inTx)
  <2>1. in' = <<>> /\ held' = <<>> /\ toClient' = <<>> /\ toServer' = <<>>
    BY <1>2 DEF Inv, FreshInv, OpenDials, link
  <2>2. Up' = {} /\ LoneInv'
    BY <2>1, FramesEmpty, EmptyIsNone DEF Up, LoneInv
  <2>3. ControlInv' /\ FreshInv'
    BY <1>2 DEF Inv, ControlInv, OpenDials, history, link, FreshInv, finishing
  <2>4. WireInv'
    BY <1>2, <2>1, <2>2 DEF Inv, WireInv, Quiet, Agree, OpenDials, server, history, FreshInv
  <2>5. AnswerInv' /\ CleanInv'
    BY <2>2 DEF AnswerInv, CleanInv
  <2>6. NoticeInv'
    BY <1>2 DEF Inv, NoticeInv, FreshInv, OpenDials, server, over
  <2>7. DurableInv' /\ OneChunkInDoubt' /\ ToldInv'
    BY <1>2 DEF Inv, DurableInv, OneChunkInDoubt, ToldInv, FreshInv, OpenDials, server, history
  <2> QED BY <2>2, <2>3, <2>4, <2>5, <2>6, <2>7 DEF Inv
<1> QED BY <1>1, <1>2

LEMMA CallInv == ASSUME Inv, TypeOK', SendChunk \/ (\E m \in {"commit", "rollback", "close"} : Finish(m)) PROVE Inv'
<1>1. CASE SendChunk
  <2>1. still /\ open /\ stage = "write" /\ UNCHANGED <<handle, cfg, open, chunkSeq, reader, aborted, acked, asked, told>>
        /\ stage' = "write" /\ call' = "chunk" /\ call = "none" /\ sent' = sent + 1 /\ handle = "held"
    BY <1>1 DEF Inv, ControlInv, SendChunk, still, readerVars, link, server
  <2>2. toServer = <<>> /\ Quiet /\ Agree
    BY <2>1 DEF Inv, WireInv
  <2>3. Up' = Up /\ LoneInv' = LoneInv
    BY <2>1 DEF Up, LoneInv, still
  <2>4. ControlInv'
    <3>1. sent' # 0
      BY <2>1 DEF Inv, TypeOK
    <3> QED BY <2>1, <3>1 DEF Inv, ControlInv, finishing
  <2>5. FreshInv'
    BY <2>1 DEF FreshInv
  <2>6. WireInv' /\ AnswerInv' /\ CleanInv'
    BY <2>1, <2>2, <2>3 DEF Inv, WireInv, AnswerInv, CleanInv, Quiet, Agree, still
  <2>7. NoticeInv'
    BY <2>1, <2>3 DEF Inv, NoticeInv, over, finishing, still
  <2>8. DurableInv' /\ ToldInv' /\ OneChunkInDoubt'
    BY <2>1, <2>2 DEF Inv, DurableInv, ToldInv, OneChunkInDoubt, Agree, still
  <2> QED BY <2>3, <2>4, <2>5, <2>6, <2>7, <2>8 DEF Inv
<1>2. ASSUME NEW m \in {"commit", "rollback", "close"}, Finish(m) PROVE Inv'
  <2>1. still /\ open /\ stage = "write" /\ UNCHANGED <<handle, cfg, open, chunkSeq, reader, aborted, acked, sent, told>>
        /\ stage' = "write" /\ call' = m /\ call = "none" /\ asked' = (IF m = "commit" THEN "commit" ELSE "rollback")
        /\ asked = "none" /\ handle = "held"
    BY <1>2 DEF Inv, TypeOK, ControlInv, Finish, still, readerVars, link, server, finishing
  <2>2. toServer = <<>> /\ Quiet /\ Agree
    BY <2>1 DEF Inv, WireInv
  <2>3. Up' = Up /\ LoneInv' = LoneInv
    BY <2>1 DEF Up, LoneInv, still
  <2>4. ControlInv'
    BY <2>1 DEF Inv, ControlInv, finishing
  <2>5. FreshInv'
    BY <2>1 DEF FreshInv
  <2>6. WireInv' /\ AnswerInv' /\ CleanInv'
    BY <2>1, <2>2, <2>3 DEF Inv, WireInv, AnswerInv, CleanInv, Quiet, Agree, still
  <2>7. NoticeInv'
    BY <2>1 DEF NoticeInv, finishing
  <2>8. DurableInv' /\ ToldInv' /\ OneChunkInDoubt'
    BY <2>1, <2>2 DEF Inv, DurableInv, ToldInv, OneChunkInDoubt, Agree, still
  <2> QED BY <2>3, <2>4, <2>5, <2>6, <2>7, <2>8 DEF Inv
<1> QED BY <1>1, <1>2

\* A method called on a session that is not open.
LEMMA ClosedInv == ASSUME Inv, TypeOK', CloseClosed \/ (\E m \in {"chunk", "commit", "rollback"} : CallClosed(m)) PROVE Inv'
<1>1. /\ UNCHANGED <<handle, cfg, chunkSeq, reader, in, held, toServer, srvClosed, server, history>>
      /\ ~open /\ ~open' /\ call = "none" /\ call' = "none" /\ handle = "held" /\ stage' = "write"
      /\ toClient' \in {toClient, <<>>}
  BY DEF Inv, ControlInv, CloseClosed, CallClosed, Abort, Return, readerVars, link
<1>2. Up' \subseteq Up /\ LoneInv'
  BY <1>1, DropUp DEF Inv
<1>3. ControlInv' /\ FreshInv' /\ WireInv' /\ AnswerInv' /\ NoticeInv' /\ CleanInv'
  <2>1. ControlInv' /\ FreshInv' /\ AnswerInv' /\ NoticeInv' /\ CleanInv'
    BY <1>1, <1>2 DEF Inv, ControlInv, FreshInv, AnswerInv, NoticeInv, CleanInv, finishing, history
  <2>2. WireInv'
    BY <1>1, <1>2 DEF Inv, WireInv, Quiet, Agree, RequestOf, Carries, server, history
  <2> QED BY <2>1, <2>2
<1>4. DurableInv' /\ ToldInv' /\ OneChunkInDoubt'
  BY <1>1 DEF Inv, DurableInv, ToldInv, OneChunkInDoubt, server, history
<1> QED BY <1>2, <1>3, <1>4 DEF Inv

\* What an exchange that failed leaves: the session is closed, unless the chunk it was
\* about was refused, with both ends in agreement and nothing but unasked frames behind it.
LEMMA FailInv ==
  ASSUME Inv, TypeOK', call # "none",
         NEW kind \in {"encode", "transport", "timeout", "ended", "refused", "unexpected"}, NEW drop \in BOOLEAN,
         ExchangeFails(kind, drop), UNCHANGED <<reader, held, srvClosed, server, sent, asked>>,
         Up' \subseteq Up, LoneInv',
         toServer' # <<>> => Tail(toServer') = <<>> /\ Quiet /\ Agree /\ Carries(Head(toServer')),
         ~drop /\ call = "chunk" =>
            /\ toServer' = <<>> /\ Quiet' /\ Agree
            /\ over => srvClosed \/ \E f \in Up' : Ends(f)
  PROVE  Inv'
<1>1. open /\ ~aborted /\ told = "none" /\ handle \in {"opening", "held"}
  BY DEF Inv, ControlInv, TypeOK, Outcomes
<1>2. /\ call' = "none" /\ stage' = "write" /\ UNCHANGED <<cfg, chunkSeq, acked, told, sent, asked, server, srvClosed>>
      /\ handle' = IF call = "start" THEN "failed" ELSE handle
  BY DEF ExchangeFails, Return
<1>3. open' => ~drop /\ call = "chunk" /\ ~aborted' /\ open
  BY <1>1 DEF ExchangeFails, Abort, NoAbort
<1>4. ControlInv'
  BY <1>1, <1>2, <1>3 DEF Inv, ControlInv, finishing
<1>5. FreshInv'
  BY <1>1, <1>2 DEF FreshInv
<1>6. Agree' = Agree /\ (Quiet => Quiet')
  BY <1>2 DEF Agree, Quiet, server
<1>7. WireInv'
  <2>1. ASSUME toServer' # <<>> PROVE Tail(toServer') = <<>> /\ Quiet' /\ Agree' /\ RequestOf(Head(toServer))'
    <3>1. ~open'
      BY <1>3, <2>1
    <3> QED BY <1>2, <1>6, <2>1, <3>1 DEF RequestOf, Carries, server
  <2>2. ASSUME open' PROVE toServer' = <<>> /\ Quiet' /\ Agree'
    BY <1>3, <1>6, <2>2
  <2>3. call' # "start"
    BY <1>2
  <2> QED BY <2>1, <2>2, <2>3 DEF WireInv
<1>8. AnswerInv'
  BY <1>3 DEF AnswerInv, Quiet
<1>9. NoticeInv'
  BY <1>2, <1>3 DEF NoticeInv, over, server
<1>10. DurableInv' /\ ToldInv' /\ OneChunkInDoubt'
  BY <1>2 DEF Inv, DurableInv, ToldInv, OneChunkInDoubt, server
<1>11. CleanInv'
  BY DEF Inv, CleanInv
<1> QED BY <1>4, <1>5, <1>7, <1>8, <1>9, <1>10, <1>11 DEF Inv

\* The request about to be written is one both ends agree on.
LEMMA FrameRequest ==
  ASSUME Inv, call # "none", stage = "write", ~srvClosed
  PROVE  /\ toServer = <<>> /\ Quiet /\ Agree
         /\ Carries(frame)
         /\ frame \in ClientFrames
<1>1. open /\ toServer = <<>> /\ Quiet /\ Agree
  BY DEF Inv, ControlInv, WireInv
<1>2. frame.action = (IF call = "close" THEN "rollback" ELSE call)
  BY DEF frame, Request
<1>3. call = "chunk" => frame.seq = chunkSeq + 1 /\ frame.batch = sent
  BY DEF frame, Request
<1>4. frame \in ClientFrames
  BY FrameType DEF Inv
<1> QED BY <1>1, <1>2, <1>3, <1>4 DEF Inv, ControlInv, WireInv, Carries

\* A frame just appended to an empty connection.
LEMMA Single == ASSUME NEW S, NEW e \in S PROVE Append(<<>>, e) # <<>> /\ Tail(Append(<<>>, e)) = <<>> /\ Head(Append(<<>>, e)) = e
  OBVIOUS

LEMMA WriteInv == ASSUME Inv, TypeOK', Write PROVE Inv'
<1>1. /\ UNCHANGED <<handle, cfg, open, chunkSeq, call, in, held, reader, aborted, toClient, srvClosed, server, history>>
      /\ call # "none" /\ open /\ stage = "write" /\ stage' = "wait"
      /\ toServer' = IF srvClosed THEN toServer ELSE Append(toServer, frame)
  BY DEF Inv, ControlInv, Write, readerVars
<1>2. toServer = <<>> /\ Quiet /\ Agree
  BY <1>1 DEF Inv, WireInv
<1>3. Up' = Up /\ LoneInv' = LoneInv /\ Quiet' /\ Agree' /\ frame' = frame
  BY <1>1, <1>2 DEF Up, LoneInv, Quiet, Agree, server, history, frame
<1>4. ControlInv' /\ FreshInv' /\ AnswerInv' /\ CleanInv'
  <2>1. handle # "none"
    BY <1>1 DEF Inv, ControlInv
  <2> QED BY <1>1, <1>3, <2>1 DEF Inv, ControlInv, FreshInv, AnswerInv, CleanInv, Quiet, finishing, history
<1>5. WireInv'
  <2>1. CASE srvClosed
    BY <1>1, <1>2, <2>1 DEF WireInv
  <2>2. CASE ~srvClosed
    <3>1. toServer' # <<>> /\ Tail(toServer') = <<>> /\ Head(toServer') = frame
      BY <1>1, <1>2, <2>2, FrameRequest, Single
    <3>2. RequestOf(frame)'
      BY <1>1, <1>3, <2>2, FrameRequest DEF RequestOf, Carries, server, history
    <3>3. WireInv' = ((toServer' # <<>> => Tail(toServer') = <<>> /\ Quiet' /\ Agree' /\ RequestOf(Head(toServer))')
                      /\ (open' /\ stage' = "write" => toServer' = <<>> /\ Quiet' /\ Agree')
                      /\ (call' = "start" /\ stage' = "write" /\ ~srvClosed' => srv' = "none"))
      BY DEF WireInv
    <3> QED BY <1>1, <1>3, <3>1, <3>2, <3>3
  <2> QED BY <2>1, <2>2
<1>6. NoticeInv'
  BY <1>1, <1>3 DEF Inv, NoticeInv, over, finishing, server
<1>7. DurableInv' /\ ToldInv' /\ OneChunkInDoubt'
  BY <1>1 DEF Inv, DurableInv, ToldInv, OneChunkInDoubt, server, history
<1> QED BY <1>3, <1>4, <1>5, <1>6, <1>7 DEF Inv

LEMMA GiveUpInv ==
  ASSUME Inv, TypeOK', EncodeFails \/ Timeout \/ ConnectionEnded \/ (\E left \in BOOLEAN : WriteFails(left)) PROVE Inv'
<1>1. call # "none" /\ open
  BY DEF Inv, ControlInv, EncodeFails, Timeout, ConnectionEnded, WriteFails
<1>2. toServer # <<>> => Tail(toServer) = <<>> /\ Quiet /\ Agree /\ Carries(Head(toServer))
  BY DEF Inv, WireInv, RequestOf
<1>3. CASE EncodeFails
  <2>1. /\ UNCHANGED <<reader, in, held, toServer, toClient, srvClosed, server, sent, asked>>
        /\ call = "chunk" /\ stage = "write" /\ ExchangeFails("encode", FALSE)
    BY <1>3 DEF EncodeFails, readerVars, ExchangeFails, NoAbort
  <2>2. toServer = <<>> /\ Quiet /\ Agree
    BY <1>1, <2>1 DEF Inv, WireInv
  <2>3. Up' = Up /\ LoneInv' /\ Quiet'
    BY <2>1, <2>2, DropUp DEF Inv, Quiet
  <2>4. over => srvClosed \/ \E f \in Up' : Ends(f)
    BY <1>1, <2>1, <2>3 DEF Inv, NoticeInv, finishing
  <2> QED BY <2>1, <2>2, <2>3, <2>4, FailInv
<1>4. CASE Timeout \/ ConnectionEnded
  <2>1. PICK kind \in {"timeout", "transport"} :
           ExchangeFails(kind, TRUE) /\ UNCHANGED <<reader, in, held, toServer, srvClosed, server, sent, asked>>
    BY <1>4 DEF Timeout, ConnectionEnded, readerVars
  <2>2. Up' \subseteq Up /\ LoneInv'
    BY <2>1, DropUp DEF Inv, ExchangeFails, Abort
  <2> QED BY <1>1, <1>2, <2>1, <2>2, FailInv
<1>5. ASSUME NEW left \in BOOLEAN, WriteFails(left) PROVE Inv'
  <2>1. PICK kind \in {"ended", "transport"} :
           ExchangeFails(kind, TRUE) /\ UNCHANGED <<reader, held, srvClosed, server, sent, asked>>
    BY <1>5 DEF WriteFails
  <2>2. in' = (IF in = <<>> THEN in ELSE Tail(in)) /\ stage = "write"
        /\ toServer' = (IF left /\ ~srvClosed THEN Append(toServer, frame) ELSE toServer)
    BY <1>5 DEF WriteFails
  <2>3. Up' \subseteq Up /\ LoneInv'
    BY <2>1, <2>2, DropUp, TakeUp DEF Inv, ExchangeFails, Abort
  <2>4. toServer' # <<>> => Tail(toServer') = <<>> /\ Quiet /\ Agree /\ Carries(Head(toServer'))
    <3>1. CASE left /\ ~srvClosed
      BY <1>1, <2>2, <3>1, FrameRequest, Single
    <3>2. CASE ~(left /\ ~srvClosed)
      BY <1>2, <2>2, <3>2
    <3> QED BY <3>1, <3>2
  <2> QED BY <1>1, <2>1, <2>3, <2>4, FailInv
<1> QED BY <1>3, <1>4, <1>5

\* The answer in s.in, when it is one: the server has nothing left to answer, no other
\* answer is behind it, and what it says is true.
LEMMA TakenAnswer ==
  ASSUME Inv, call # "none", stage = "wait", in # <<>>, ~Unasked(Head(in)), in' = Tail(in), held' = held,
         toClient' \in {toClient, <<>>}
  PROVE  toServer = <<>> /\ Quiet' /\ Truthful(Head(in))
<1>1. TypeOK /\ open /\ LoneInv /\ Head(in) \in Up /\ Quiet'
  BY TakeUp DEF Inv, ControlInv
<1>2. ~Quiet
  BY <1>1 DEF Quiet
<1> QED BY <1>1, <1>2 DEF Inv, WireInv, AnswerInv

LEMMA ErrorInv == ASSUME Inv, TypeOK', Answer, ErrorAnswer PROVE Inv'
<1> DEFINE f == Head(in)
<1>1. /\ call # "none" /\ stage = "wait" /\ in # <<>> /\ in' = Tail(in) /\ asError(f)
      /\ UNCHANGED <<reader, held, toServer, srvClosed, server, sent, asked>>
  BY DEF Answer, ErrorAnswer
<1>2. toServer # <<>> => Tail(toServer) = <<>> /\ Quiet /\ Agree /\ Carries(Head(toServer))
  BY DEF Inv, WireInv, RequestOf
<1>3. CASE Ends(f)
  <2>1. ExchangeFails("ended", TRUE) /\ toClient' = <<>>
    BY <1>1, <1>3 DEF ErrorAnswer, Ends, ExchangeFails, Abort
  <2>2. Up' \subseteq Up /\ LoneInv'
    BY <1>1, <2>1, TakeUp DEF Inv
  <2> QED BY <1>1, <1>2, <2>1, <2>2, FailInv
<1>4. CASE ~Ends(f)
  <2>1. ExchangeFails("refused", FALSE) /\ toClient' \in {toClient, <<>>}
    BY <1>1, <1>4 DEF ErrorAnswer, Ends, ExchangeFails, Abort, NoAbort
  <2>2. ~Unasked(f)
    BY <1>1, <1>4 DEF Unasked, Ends, asError, Error, endsSession
  <2>3. toServer = <<>> /\ Quiet' /\ Agree
    BY <1>1, <1>4, <2>1, <2>2, TakenAnswer DEF Truthful
  <2>4. Up' \subseteq Up /\ LoneInv' /\ (toClient' = toClient => Up = {f} \union Up')
    BY <1>1, <2>1, TakeUp DEF Inv
  <2>5. call = "chunk" /\ over => srvClosed \/ \E g \in Up' : Ends(g)
    <3>1. ASSUME call = "chunk", over, ~srvClosed PROVE \E g \in Up' : Ends(g)
      <4>1. toClient' = toClient
        BY <2>1, <3>1 DEF ExchangeFails, NoAbort
      <4>2. \E g \in Up : Ends(g)
        BY <1>1, <3>1 DEF Inv, ControlInv, NoticeInv, finishing
      <4> QED BY <1>4, <2>4, <4>1, <4>2
    <3> QED BY <3>1
  <2> QED BY <1>1, <2>1, <2>3, <2>4, <2>5, FailInv
<1> QED BY <1>3, <1>4

LEMMA UnexpectedInv == ASSUME Inv, TypeOK', Answer, UnexpectedAnswer PROVE Inv'
<1>1. /\ call # "none" /\ in # <<>> /\ in' = Tail(in) /\ ExchangeFails("unexpected", TRUE)
      /\ UNCHANGED <<reader, held, toServer, srvClosed, server, sent, asked>>
  BY DEF Answer, UnexpectedAnswer
<1>2. toServer # <<>> => Tail(toServer) = <<>> /\ Quiet /\ Agree /\ Carries(Head(toServer))
  BY DEF Inv, WireInv, RequestOf
<1>3. Up' \subseteq Up /\ LoneInv'
  BY <1>1, TakeUp DEF Inv, ExchangeFails, Abort
<1> QED BY <1>1, <1>2, <1>3, FailInv

\* An expected answer: nothing is left to answer and what it says is true.
LEMMA ExpectedAnswer ==
  ASSUME Inv, Answer, Started \/ ChunkAcked \/ Finished
  PROVE  /\ open /\ ~aborted /\ told = "none" /\ call # "none" /\ stage' = "write" /\ call' = "none"
         /\ UNCHANGED <<cfg, toServer, srvClosed, server, sent, asked>>
         /\ toClient' \in {toClient, <<>>} /\ (toClient' = toClient => Up = {Head(in)} \union Up')
         /\ Head(in) \in Up /\ Up' \subseteq Up /\ LoneInv' /\ Quiet'
         /\ toServer' = <<>> /\ Truthful(Head(in)) /\ Head(in).action = want
<1>1. /\ call # "none" /\ stage = "wait" /\ in # <<>> /\ in' = Tail(in) /\ held' = held
      /\ UNCHANGED <<cfg, toServer, srvClosed, server, sent, asked>>
      /\ stage' = "write" /\ call' = "none" /\ Head(in).action = want
      /\ toClient' \in {toClient, <<>>}
  BY DEF Answer, Started, ChunkAcked, Finished, Return, Abort, NoAbort
<1>2. ~Unasked(Head(in))
  BY <1>1 DEF Unasked, want, Error
<1>3. toServer = <<>> /\ Quiet' /\ Truthful(Head(in))
  BY <1>1, <1>2, TakenAnswer
<1>4. /\ Head(in) \in Up /\ Up' \subseteq Up /\ (toClient' = toClient => Up = {Head(in)} \union Up') /\ LoneInv'
  BY <1>1, TakeUp DEF Inv
<1>5. open /\ ~aborted /\ told = "none"
  BY <1>1 DEF Inv, ControlInv, TypeOK, Outcomes
<1> QED BY <1>1, <1>3, <1>4, <1>5

LEMMA StartedInv == ASSUME Inv, TypeOK', Answer, Started PROVE Inv'
<1>1. /\ open' = open /\ handle' = "held" /\ UNCHANGED <<chunkSeq, acked, told, aborted, toClient>>
      /\ call = "start" /\ Head(in).action = "started"
  BY DEF Started, NoAbort, want
<1>2. Agree
  BY <1>1, ExpectedAnswer DEF Truthful
<1>3. ControlInv' /\ FreshInv'
  BY <1>1, ExpectedAnswer DEF Inv, ControlInv, FreshInv, finishing
<1>4. WireInv'
  BY <1>1, <1>2, ExpectedAnswer DEF WireInv, Agree, server
<1>5. AnswerInv' /\ CleanInv'
  BY ExpectedAnswer DEF Inv, AnswerInv, CleanInv, Quiet
<1>6. NoticeInv'
  <2>1. ASSUME over, ~srvClosed PROVE \E f \in Up' : Ends(f)
    <3>1. \E f \in Up : Ends(f)
      BY <1>1, <2>1, ExpectedAnswer DEF Inv, NoticeInv, finishing
    <3> QED BY <1>1, <3>1, ExpectedAnswer DEF Ends, asError
  <2> QED BY <2>1, ExpectedAnswer DEF NoticeInv, over, server
<1>7. DurableInv' /\ ToldInv' /\ OneChunkInDoubt'
  BY <1>1, ExpectedAnswer DEF Inv, DurableInv, ToldInv, OneChunkInDoubt, server
<1> QED BY <1>3, <1>4, <1>5, <1>6, <1>7, ExpectedAnswer DEF Inv

LEMMA ChunkAckedInv == ASSUME Inv, TypeOK', Answer, ChunkAcked PROVE Inv'
<1> DEFINE whole == Head(in).info = "whole"
<1>1. /\ UNCHANGED <<handle, open, told, aborted, toClient>>
      /\ call = "chunk" /\ Head(in).action = "batchAck"
      /\ chunkSeq' = (IF whole THEN chunkSeq ELSE chunkSeq + 1)
      /\ acked' = (IF whole THEN acked ELSE Append(acked, sent))
  BY DEF ChunkAcked, NoAbort, want
<1>2. /\ UNCHANGED <<cfg, srvClosed, server, sent, asked>> /\ open /\ stage' = "write" /\ call' = "none"
      /\ toServer' = <<>> /\ Quiet' /\ LoneInv' /\ Up' \subseteq Up /\ Up = {Head(in)} \union Up'
  BY <1>1, ExpectedAnswer
<1>3. IF whole THEN Agree ELSE applied = Append(acked, sent) /\ watermark = chunkSeq + 1
  BY <1>1, ExpectedAnswer DEF Truthful
<1>4. Agree'
  BY <1>1, <1>2, <1>3 DEF Agree, server
<1>5. ControlInv' /\ FreshInv'
  BY <1>1, <1>2 DEF Inv, ControlInv, FreshInv, finishing
<1>6. WireInv' /\ AnswerInv' /\ CleanInv'
  BY <1>2, <1>4 DEF Inv, WireInv, AnswerInv, CleanInv, Quiet
<1>7. NoticeInv'
  <2>1. ASSUME over, ~srvClosed PROVE \E f \in Up' : Ends(f)
    <3>1. \E f \in Up : Ends(f)
      BY <1>1, <1>2, <2>1 DEF Inv, NoticeInv, finishing
    <3> QED BY <1>1, <1>2, <3>1 DEF Ends, asError
  <2> QED BY <1>2, <2>1 DEF NoticeInv, over, server
<1>8. DurableInv'
  <2>1. ASSUME srv = "committed" PROVE acked' = acked
    <3>1. applied = acked
      BY <2>1 DEF Inv, DurableInv
    <3>2. acked # Append(acked, sent)
      <4>1. acked \in Seq(Nat) /\ sent \in Nat
        BY DEF Inv, TypeOK
      <4> QED BY <4>1
    <3> QED BY <1>1, <1>3, <3>1, <3>2
  <2> QED BY <1>2, <2>1 DEF Inv, DurableInv, server
<1>9. ToldInv' /\ OneChunkInDoubt'
  BY <1>1, <1>2, <1>4 DEF Inv, ToldInv, OneChunkInDoubt, server, Agree
<1> QED BY <1>2, <1>5, <1>6, <1>7, <1>8, <1>9 DEF Inv

LEMMA FinishedInv == ASSUME Inv, TypeOK', Answer, Finished PROVE Inv'
<1>1. /\ ~open' /\ UNCHANGED <<handle, chunkSeq, acked>>
      /\ finishing /\ Head(in).action = "committed" /\ told' \in {told, Head(in).info}
  BY DEF Finished, want, finishing
<1>2. /\ UNCHANGED <<cfg, srvClosed, server, sent, asked>> /\ open /\ told = "none" /\ stage' = "write" /\ call' = "none"
      /\ toServer' = <<>> /\ LoneInv' /\ Up' \subseteq Up
  BY ExpectedAnswer
<1>3. srv = (CASE Head(in).info = "commit" -> "committed" [] Head(in).info = "rollback" -> "discarded" [] OTHER -> "detached")
  BY <1>1, ExpectedAnswer DEF Truthful
<1>4. ControlInv' /\ FreshInv'
  BY <1>1, <1>2 DEF Inv, ControlInv, FreshInv, finishing
<1>5. WireInv' /\ AnswerInv' /\ CleanInv' /\ NoticeInv'
  BY <1>1, <1>2 DEF Inv, WireInv, AnswerInv, CleanInv, NoticeInv
<1>6. ToldInv'
  BY <1>1, <1>2, <1>3 DEF ToldInv, server
<1>7. DurableInv' /\ OneChunkInDoubt'
  BY <1>1, <1>2 DEF Inv, DurableInv, OneChunkInDoubt, server
<1> QED BY <1>2, <1>4, <1>5, <1>6, <1>7 DEF Inv

LEMMA ExchangeInv == ASSUME Inv, TypeOK', Exchange PROVE Inv'
  BY WriteInv, GiveUpInv, ErrorInv, UnexpectedInv, StartedInv, ChunkAckedInv, FinishedInv DEF Exchange, Answer

LEMMA CallerInv == ASSUME Inv, TypeOK', Caller PROVE Inv'
  BY OpenInv, ClosedInv, CallInv DEF Caller, Open

\* readLoop only moves frames; the one it may drop is not text, or the session is aborted.
LEMMA ReaderInv == ASSUME Inv, TypeOK', readLoop PROVE Inv'
<1>1. UNCHANGED <<session, aborted, toServer, srvClosed, server, history>> /\ reader # "off"
  BY DEF readLoop, ReaderReads, ReaderPushes, ReaderReadFails, ReaderCancelled, link
<1>2. Up' \subseteq Up /\ LoneInv' /\ (~aborted => \A f \in Up : f.action # "binary" => f \in Up')
  <2>1. in \in Seq(ServerFrames) /\ held \in Seq(ServerFrames) /\ toClient \in Seq(ServerFrames)
        /\ Len(held) = (IF reader = "pushing" THEN 1 ELSE 0)
    BY DEF Inv, TypeOK
  <2>2. CASE ReaderReads
    <3>1. toClient # <<>> /\ toClient' = Tail(toClient) /\ in' = in
          /\ (IF Head(toClient).action = "binary" THEN held' = held ELSE held' = <<Head(toClient)>>)
          /\ reader = "reading" /\ Len(held) = 0
      BY <2>1, <2>2 DEF ReaderReads
    <3>2. Frames(toClient) = {Head(toClient)} \union Frames(toClient')
      BY <2>1, <3>1, FramesTail
    <3>3. held = <<>> /\ Frames(held) = {} /\ NoneOf(held)
      BY <2>1, <3>1, FramesEmpty, EmptyIsNone
    <3>4. NoneOf(toClient) => NoneOf(toClient') /\ Unasked(Head(toClient))
      BY <3>2 DEF NoneOf
    <3>5. OneOf(toClient) => OneOf(toClient') /\ (Unasked(Head(toClient)) \/ NoneOf(toClient'))
      BY <2>1, <3>1, OneTail
    <3>6. CASE Head(toClient).action = "binary"
      <4>1. held' = held /\ in' = in
        BY <3>1, <3>6
      <4>2. LoneInv'
        BY <3>3, <3>4, <3>5, <4>1, NoneIsOne DEF Inv, LoneInv
      <4> QED BY <3>2, <3>6, <4>1, <4>2 DEF Up
    <3>7. CASE Head(toClient).action # "binary"
      <4>1. held' = <<Head(toClient)>> /\ in' = in
        BY <3>1, <3>7
      <4>2. Frames(held') = {Head(toClient)} /\ OneOf(held')
        BY <2>1, <3>1, <4>1 DEF Frames, OneOf
      <4>3. Unasked(Head(toClient)) => NoneOf(held')
        BY <4>2 DEF NoneOf
      <4>4. LoneInv'
        BY <3>3, <3>4, <3>5, <4>1, <4>2, <4>3, NoneIsOne DEF Inv, LoneInv
      <4> QED BY <3>2, <3>3, <4>1, <4>2, <4>4 DEF Up
    <3> QED BY <3>6, <3>7
  <2>3. CASE ReaderPushes
    <3>1. in' = in \o held /\ held' = <<>> /\ toClient' = toClient
      BY <2>3 DEF ReaderPushes, link
    <3>2. Frames(in') = Frames(in) \union Frames(held)
      BY <2>1, <3>1, FramesConcat
    <3>3. Up' = Up
      BY <3>1, <3>2, FramesEmpty DEF Up
    <3>4. NoneOf(in) /\ NoneOf(held) => NoneOf(in')
      BY <3>2 DEF NoneOf
    <3>5. (OneOf(in) /\ NoneOf(held)) \/ (NoneOf(in) /\ OneOf(held)) => OneOf(in')
      BY <2>1, <3>1, OneConcat
    <3>6. LoneInv'
      BY <3>1, <3>4, <3>5, EmptyIsNone DEF Inv, LoneInv
    <3> QED BY <3>3, <3>6
  <2>4. CASE ReaderReadFails
    BY <2>4 DEF ReaderReadFails, Inv, LoneInv, Up, link
  <2>5. CASE ReaderCancelled
    <3>1. in' = in /\ held' = <<>> /\ toClient' = toClient /\ aborted
      BY <2>5 DEF ReaderCancelled, link
    <3>2. Frames(held') = {} /\ NoneOf(held') /\ OneOf(held')
      BY <3>1, FramesEmpty, EmptyIsNone
    <3>3. LoneInv'
      BY <3>1, <3>2, NoneIsOne DEF Inv, LoneInv
    <3> QED BY <3>1, <3>2, <3>3 DEF Up
  <2> QED BY <2>2, <2>3, <2>4, <2>5 DEF readLoop
<1>3. ControlInv' /\ FreshInv'
  BY <1>1 DEF Inv, ControlInv, FreshInv, session, history, finishing
<1>4. WireInv'
  <2>1. Quiet => Quiet'
    BY <1>2 DEF Quiet
  <2> QED BY <1>1, <2>1 DEF Inv, WireInv, Agree, RequestOf, Carries, frame, session, server, history
<1>5. AnswerInv'
  BY <1>1, <1>2 DEF Inv, AnswerInv, Truthful, Agree, session, server, history
<1>6. CleanInv'
  BY <1>2 DEF Inv, CleanInv
<1>7. NoticeInv'
  <2>1. open => ~aborted
    BY DEF Inv, ControlInv
  <2>2. open /\ (\E f \in Up : Ends(f)) => \E f \in Up' : Ends(f)
    BY <1>2, <2>1 DEF Ends, asError
  <2> QED BY <1>1, <1>2, <2>2 DEF Inv, NoticeInv, over, finishing, session, server
<1>8. DurableInv' /\ ToldInv' /\ OneChunkInDoubt'
  BY <1>1 DEF Inv, DurableInv, ToldInv, OneChunkInDoubt, session, server, history
<1> QED BY <1>2, <1>3, <1>4, <1>5, <1>6, <1>7, <1>8 DEF Inv

\* The server handles the one request there is: its answer is the only one on its way.
LEMMA HandledInv ==
  ASSUME Inv, TypeOK', toServer # <<>>, ~srvClosed, Handled, NEW f \in ServerFrames, Reply(f),
         f.info # "replay" /\ f.detail # "skipsAhead",
         Truthful(f)',
         over' => Ends(f) \/ finishing \/ (call = "start" /\ f.action # "started") \/ ~open,
         DurableInv', OneChunkInDoubt', ToldInv'
  PROVE  Inv'
<1>1. /\ UNCHANGED <<session, readerVars, aborted, srvClosed, history>> /\ toServer' = Tail(toServer)
      /\ in' = in /\ held' = held
  BY DEF Handled, readerVars
<1>2. Tail(toServer) = <<>> /\ Quiet /\ RequestOf(Head(toServer))
  BY DEF Inv, WireInv
<1>3. open => ~aborted /\ stage = "wait"
  BY <1>2 DEF Inv, ControlInv, RequestOf
<1>4. /\ Up' \subseteq Up \union {f} /\ LoneInv'
      /\ open => f \in Up'
  BY <1>1, <1>2, <1>3, ReplyUp DEF Inv
<1>5. handle # "none"
  BY DEF Inv, FreshInv
<1>6. ControlInv' /\ FreshInv'
  BY <1>1, <1>5 DEF Inv, ControlInv, FreshInv, session, history, finishing
<1>7. WireInv'
  <2>1. call # "none" => open
    BY DEF Inv, ControlInv
  <2> QED BY <1>1, <1>2, <1>3, <2>1 DEF WireInv, session
<1>8. AnswerInv'
  BY <1>2, <1>4 DEF AnswerInv, Quiet
<1>9. NoticeInv'
  <2>1. ASSUME call = "start", f.action # "started" PROVE \A g \in Up' : g.action # "started"
    BY <1>2, <1>4, <2>1 DEF Quiet, Unasked, Error
  <2> QED BY <1>1, <1>4, <2>1 DEF NoticeInv, session, finishing
<1>10. CleanInv'
  BY <1>4 DEF Inv, CleanInv
<1> QED BY <1>4, <1>6, <1>7, <1>8, <1>9, <1>10 DEF Inv

\* What the request at the head of the wire says, while the session is as it was sent in.
LEMMA HeadRequest ==
  ASSUME Inv, toServer # <<>>
  PROVE  /\ Agree /\ Carries(Head(toServer)) /\ Head(toServer) \in ClientFrames
         /\ open /\ Head(toServer).action \in {"commit", "rollback"} => finishing
         /\ open /\ Head(toServer).action = "start" => call = "start"
<1>1. Agree /\ RequestOf(Head(toServer)) /\ (open => Head(toServer) = frame)
  BY DEF Inv, WireInv, RequestOf
<1>2. Head(toServer) \in ClientFrames
  BY DEF Inv, TypeOK
<1>3. frame.action = (IF call = "close" THEN "rollback" ELSE call)
  BY DEF frame, Request
<1>4. call \in {"none", "start", "chunk", "commit", "rollback", "close"}
  BY DEF Inv, TypeOK
<1> QED BY <1>1, <1>2, <1>3, <1>4 DEF RequestOf, finishing

LEMMA AnswersInv ==
  ASSUME Inv, TypeOK',
         SrvStart \/ SrvChunk \/ SrvWholeChunkFails \/ SrvRefuse \/ SrvInternal
           \/ SrvSecurity \/ SrvUnknown \/ SrvCommit \/ SrvRollback
  PROVE  Inv'
<1> DEFINE q == Head(toServer)
<1>1. toServer # <<>> /\ ~srvClosed /\ Handled /\ UNCHANGED <<cfg, chunkSeq, sent, acked, asked, told>>
  BY DEF SrvStart, SrvChunk, SrvWholeChunkFails, SrvRefuse, SrvInternal, SrvSecurity, SrvUnknown, SrvCommit, SrvRollback,
         Receives, Handled, session, history
<1>2. Agree /\ Carries(q) /\ q \in ClientFrames
      /\ (open /\ q.action \in {"commit", "rollback"} => finishing)
      /\ (open /\ q.action = "start" => call = "start")
  BY <1>1, HeadRequest
<1>3. DurableInv /\ OneChunkInDoubt /\ ToldInv
  BY DEF Inv
<1>4. CASE SrvStart
  <2>1. PICK f \in {Frame("started", "none"), Error("session", "none"), Error("security", "none"), Error("other", "malformed")} :
           /\ Reply(f) /\ UNCHANGED <<watermark, applied, durable>> /\ q.action = "start"
           /\ srv' = (IF f = Frame("started", "none") THEN "active" ELSE "discarded")
    BY <1>4 DEF SrvStart, Receives, Frame, Error
  <2>2. f \in ServerFrames /\ f.info # "replay" /\ f.detail # "skipsAhead"
    BY DEF Frame, Error, ServerFrames, Titles, Details
  <2>3. srv = "none"
    BY <1>2, <2>1 DEF Carries
  <2>4. Truthful(f)'
    BY <1>1, <1>2, <2>1 DEF Truthful, Agree, Frame, Error
  <2>5. over' => f.action # "started"
    BY <2>1 DEF over, Frame, Error
  <2>6. DurableInv' /\ OneChunkInDoubt' /\ ToldInv'
    BY <1>1, <1>3, <2>1, <2>3 DEF DurableInv, OneChunkInDoubt, ToldInv
  <2> QED BY <1>1, <1>2, <2>1, <2>2, <2>4, <2>5, <2>6, HandledInv
<1>5. CASE SrvChunk
  <2>1. q.action = "chunk" /\ srv = "active" /\ srv' = "active"
    BY <1>5 DEF SrvChunk, Receives
  <2>2. q.seq = watermark + 1 /\ q.batch = sent
    BY <1>2, <2>1 DEF Carries, Agree
  <2>3. /\ watermark' = chunkSeq + 1 /\ applied' = Append(acked, sent)
        /\ durable' = (IF cfg.mode \in {"per_batch", "per_row"} THEN Append(durable, sent) ELSE durable)
        /\ Reply(Frame("batchAck", "ok"))
    BY <1>2, <1>5, <2>2 DEF SrvChunk, Agree
  <2>4. Frame("batchAck", "ok") \in ServerFrames /\ Frame("batchAck", "ok").info = "ok" /\ Frame("batchAck", "ok").detail = "none"
    BY DEF Frame, ServerFrames
  <2>5. Truthful(Frame("batchAck", "ok"))'
    BY <1>1, <2>3 DEF Truthful, Frame, asError
  <2>6. ~over'
    BY <2>1 DEF over
  <2>7. DurableInv' /\ OneChunkInDoubt' /\ ToldInv'
    BY <1>1, <1>2, <1>3, <2>1, <2>3 DEF DurableInv, OneChunkInDoubt, ToldInv, Agree
  <2> QED BY <1>1, <2>3, <2>4, <2>5, <2>6, <2>7, HandledInv
<1>6. CASE SrvWholeChunkFails
  <2>1. Reply(Frame("batchAck", "whole")) /\ UNCHANGED <<srv, watermark, applied, durable>> /\ srv = "active"
    BY <1>6 DEF SrvWholeChunkFails
  <2>2. Frame("batchAck", "whole") \in ServerFrames /\ Frame("batchAck", "whole").info = "whole" /\ Frame("batchAck", "whole").detail = "none"
    BY DEF Frame, ServerFrames
  <2>3. Truthful(Frame("batchAck", "whole"))'
    BY <1>1, <1>2, <2>1 DEF Truthful, Agree, Frame, asError
  <2>4. ~over' /\ DurableInv' /\ OneChunkInDoubt' /\ ToldInv'
    BY <1>1, <1>3, <2>1 DEF over, DurableInv, OneChunkInDoubt, ToldInv
  <2> QED BY <1>1, <2>1, <2>2, <2>3, <2>4, HandledInv
<1>7. CASE SrvRefuse
  <2>1. PICK f \in {Error("session", "rowCap"), Error("other", "malformed")} :
           Reply(f) /\ UNCHANGED <<srv, watermark, applied, durable>> /\ srv = "active"
    BY <1>7 DEF SrvRefuse
  <2>2. f \in ServerFrames /\ f.info # "replay" /\ f.detail # "skipsAhead"
    BY DEF Error, ServerFrames, Titles, Details
  <2>3. Truthful(f)'
    BY <1>1, <1>2, <2>1 DEF Truthful, Agree, Error
  <2>4. ~over' /\ DurableInv' /\ OneChunkInDoubt' /\ ToldInv'
    BY <1>1, <1>3, <2>1 DEF over, DurableInv, OneChunkInDoubt, ToldInv
  <2> QED BY <1>1, <2>1, <2>2, <2>3, <2>4, HandledInv
<1>8. CASE SrvInternal
  <2> DEFINE f == Error("internal", "none")
  <2>1. q.action = "chunk" /\ srv = "active" /\ UNCHANGED <<srv, watermark>> /\ Reply(f)
        /\ applied' \in {applied, Append(applied, q.batch)}
        /\ durable' = (IF cfg.mode \in {"per_batch", "per_row"} THEN applied' ELSE durable)
    BY <1>8 DEF SrvInternal, Receives
  <2>2. f \in ServerFrames /\ f.info # "replay" /\ f.detail # "skipsAhead"
    BY DEF Error, ServerFrames, Titles, Details
  <2>3. Ends(f) /\ Truthful(f)'
    BY DEF Ends, Truthful, endsSession, asError, Error
  <2>4. applied' \in {acked, Append(acked, sent)}
    BY <1>2, <2>1 DEF Agree, Carries
  <2>5. DurableInv' /\ OneChunkInDoubt' /\ ToldInv'
    BY <1>1, <1>3, <2>1, <2>4 DEF DurableInv, OneChunkInDoubt, ToldInv
  <2> QED BY <1>1, <2>1, <2>2, <2>3, <2>5, HandledInv
<1>9. CASE SrvSecurity
  <2> DEFINE f == Error("security", "none")
  <2>1. srv = "active" /\ srv' = "discarded" /\ UNCHANGED <<watermark, applied, durable>> /\ Reply(f)
    BY <1>9 DEF SrvSecurity
  <2>2. f \in ServerFrames /\ f.info # "replay" /\ f.detail # "skipsAhead"
    BY DEF Error, ServerFrames, Titles, Details
  <2>3. Ends(f) /\ Truthful(f)'
    BY DEF Ends, Truthful, endsSession, asError, Error
  <2>4. DurableInv' /\ OneChunkInDoubt' /\ ToldInv'
    BY <1>1, <1>3, <2>1 DEF DurableInv, OneChunkInDoubt, ToldInv
  <2> QED BY <1>1, <2>1, <2>2, <2>3, <2>4, HandledInv
<1>10. CASE SrvUnknown
  <2>1. PICK f \in {Error("session", "notFound"), Error("session", "isClosed")} :
           Reply(f) /\ UNCHANGED <<srv, watermark, applied, durable>>
    BY <1>10 DEF SrvUnknown
  <2>2. f \in ServerFrames /\ f.info # "replay" /\ f.detail # "skipsAhead"
    BY DEF Error, ServerFrames, Titles, Details
  <2>3. Ends(f) /\ Truthful(f)'
    BY DEF Ends, Truthful, endsSession, asError, Error
  <2>4. DurableInv' /\ OneChunkInDoubt' /\ ToldInv'
    BY <1>1, <1>3, <2>1 DEF DurableInv, OneChunkInDoubt, ToldInv
  <2> QED BY <1>1, <2>1, <2>2, <2>3, <2>4, HandledInv
<1>11. CASE SrvCommit
  <2>1. q.action = "commit" /\ srv = "active" /\ UNCHANGED <<watermark, applied>> /\ asked = "commit"
    BY <1>2, <1>11 DEF SrvCommit, Receives, Carries
  <2>2. PICK f \in {Frame("committed", "commit"), Frame("committed", "detached"), Error("other", "none")} :
           /\ Reply(f)
           /\ \/ /\ f = Frame("committed", IF cfg.mode = "none" THEN "detached" ELSE "commit")
                 /\ srv' = (IF cfg.mode = "none" THEN "detached" ELSE "committed")
                 /\ durable' = (IF cfg.mode = "per_stream" THEN applied ELSE durable)
              \/ f = Error("other", "none") /\ srv' = "discarded" /\ durable' = durable
    BY <1>11 DEF SrvCommit
  <2>3. f \in ServerFrames /\ f.info # "replay" /\ f.detail # "skipsAhead"
    BY DEF Frame, Error, ServerFrames, Titles, Details, Outcomes
  <2>4. Truthful(f)'
    BY <1>1, <1>2, <2>1, <2>2 DEF Truthful, Agree, Frame, Error
  <2>5. DurableInv' /\ OneChunkInDoubt' /\ ToldInv'
    BY <1>1, <1>2, <1>3, <2>1, <2>2 DEF DurableInv, OneChunkInDoubt, ToldInv, Agree
  <2> QED BY <1>1, <1>2, <2>1, <2>2, <2>3, <2>4, <2>5, HandledInv
<1>12. CASE SrvRollback
  <2> DEFINE f == Frame("committed", IF cfg.mode = "none" THEN "detached" ELSE "rollback")
  <2>1. q.action = "rollback" /\ srv = "active" /\ UNCHANGED <<watermark, applied, durable>> /\ Reply(f)
        /\ srv' = (IF cfg.mode = "none" THEN "detached" ELSE "discarded")
    BY <1>12 DEF SrvRollback, Receives
  <2>2. f \in ServerFrames /\ f.info # "replay" /\ f.detail # "skipsAhead"
    BY DEF Frame, ServerFrames, Outcomes
  <2>3. Truthful(f)'
    BY <1>1, <1>2, <2>1 DEF Truthful, Agree, Frame, asError
  <2>4. DurableInv' /\ OneChunkInDoubt' /\ ToldInv'
    BY <1>1, <1>3, <2>1 DEF DurableInv, OneChunkInDoubt, ToldInv
  <2> QED BY <1>1, <1>2, <2>1, <2>2, <2>3, <2>4, HandledInv
<1> QED BY <1>4, <1>5, <1>6, <1>7, <1>8, <1>9, <1>10, <1>11, <1>12

\* The frames the server sends unasked: noise and the notice of an expiry.
LEMMA UnaskedInv == ASSUME Inv, TypeOK', SrvExpire \/ PeerNoise PROVE Inv'
<1>1. /\ UNCHANGED <<session, readerVars, aborted, toServer, srvClosed, watermark, applied, durable, history>>
      /\ in' = in /\ held' = held /\ ~srvClosed /\ handle # "none"
  BY DEF SrvExpire, PeerNoise, readerVars, Inv, FreshInv
<1>2. PICK f \in {Error("expired", "none"), Frame("garbage", "none"), Frame("binary", "none")} :
         /\ Reply(f)
         /\ (srv' = srv \/ (f = Error("expired", "none") /\ srv = "active" /\ srv' = "discarded"))
  BY DEF SrvExpire, PeerNoise
<1>3. f \in ServerFrames /\ Unasked(f) /\ f.info # "replay" /\ f.detail # "skipsAhead" /\ f.action # "started"
  BY DEF Frame, Error, ServerFrames, Titles, Details, Unasked
<1>4. Up \subseteq Up' /\ Up' \subseteq Up \union {f} /\ LoneInv' /\ (~aborted => f \in Up')
  BY <1>1, <1>2, <1>3, ReplyUp DEF Inv
<1>5. Quiet => Quiet'
  BY <1>3, <1>4 DEF Quiet
<1>6. ControlInv' /\ FreshInv'
  BY <1>1 DEF Inv, ControlInv, FreshInv, session, history, finishing
<1>7. WireInv'
  <2>1. srv' = srv \/ srv # "none"
    BY <1>2
  <2> QED BY <1>1, <1>5, <2>1 DEF Inv, WireInv, Agree, RequestOf, Carries, frame, session, history
<1>8. AnswerInv'
  <2>1. ASSUME open, NEW g \in Up PROVE Unasked(g) \/ Truthful(g)'
    <3>1. Unasked(g) \/ Truthful(g)
      BY <2>1 DEF Inv, AnswerInv
    <3>2. CASE srv' = srv
      BY <1>1, <3>1, <3>2 DEF Truthful, Agree, session, history
    <3>3. CASE srv = "active"
      BY <1>1, <3>1, <3>3 DEF Truthful, Agree, session, history
    <3> QED BY <1>2, <3>2, <3>3
  <2> QED BY <1>1, <1>3, <1>4, <2>1 DEF AnswerInv, session
<1>9. NoticeInv'
  <2>1. open => ~aborted
    BY DEF Inv, ControlInv
  <2>2. CASE srv' = srv
    BY <1>1, <1>3, <1>4, <2>2 DEF Inv, NoticeInv, over, finishing, session
  <2>3. CASE f = Error("expired", "none")
    <3>1. Ends(f)
      BY <2>3 DEF Ends, asError, endsSession, Error
    <3> QED BY <1>1, <1>4, <2>1, <3>1 DEF NoticeInv, session
  <2> QED BY <1>2, <2>2, <2>3
<1>10. DurableInv' /\ ToldInv' /\ OneChunkInDoubt'
  BY <1>1, <1>2 DEF Inv, DurableInv, ToldInv, OneChunkInDoubt, session, history
<1>11. CleanInv'
  BY <1>3, <1>4 DEF Inv, CleanInv
<1> QED BY <1>4, <1>6, <1>7, <1>8, <1>9, <1>10, <1>11 DEF Inv

\* The connection ends on the server's side: frames are lost, none appears.
LEMMA ClosesInv == ASSUME Inv, TypeOK', SrvCloses PROVE Inv'
<1>1. /\ UNCHANGED <<session, readerVars, aborted, watermark, applied, durable, history>>
      /\ in' = in /\ held' = held /\ srvClosed' /\ toServer' = <<>> /\ handle # "none"
      /\ (srv' = srv \/ (~over /\ srv' = "discarded"))
  BY DEF SrvCloses, readerVars, Inv, FreshInv
<1>2. PICK k \in 0..Len(toClient) : toClient' = SubSeq(toClient, 1, k)
  BY DEF SrvCloses
<1>3. toClient \in Seq(ServerFrames)
  BY DEF Inv, TypeOK
<1>4. Frames(toClient') \subseteq Frames(toClient) /\ (OneOf(toClient) => OneOf(toClient'))
  BY <1>2, <1>3, FramesPrefix, OnePrefix
<1>5. Up' \subseteq Up /\ LoneInv'
  <2>1. NoneOf(toClient) => NoneOf(toClient')
    BY <1>4 DEF NoneOf
  <2>2. NoneOf(in') = NoneOf(in) /\ NoneOf(held') = NoneOf(held) /\ OneOf(in') = OneOf(in) /\ OneOf(held') = OneOf(held)
    BY <1>1
  <2>3. LoneInv'
    BY <1>4, <2>1, <2>2 DEF Inv, LoneInv
  <2> QED BY <1>1, <1>4, <2>3 DEF Up
<1>6. ControlInv' /\ FreshInv'
  BY <1>1 DEF Inv, ControlInv, FreshInv, session, history, finishing
<1>7. WireInv'
  <2>1. Quiet => Quiet'
    BY <1>5 DEF Quiet
  <2> QED BY <1>1, <2>1 DEF Inv, WireInv, Agree, session, history
<1>8. AnswerInv'
  <2>1. ASSUME open, NEW g \in Up PROVE Unasked(g) \/ Truthful(g)'
    <3>1. Unasked(g) \/ Truthful(g)
      BY <2>1 DEF Inv, AnswerInv
    <3> QED BY <1>1, <3>1 DEF Truthful, Agree, over, session, history
  <2> QED BY <1>1, <1>5, <2>1 DEF AnswerInv, session
<1>9. NoticeInv' /\ CleanInv'
  BY <1>1, <1>5 DEF Inv, NoticeInv, CleanInv
<1>10. DurableInv' /\ ToldInv' /\ OneChunkInDoubt'
  BY <1>1 DEF Inv, DurableInv, ToldInv, OneChunkInDoubt, over, session, history
<1> QED BY <1>5, <1>6, <1>7, <1>8, <1>9, <1>10 DEF Inv

LEMMA NextInv == ASSUME Inv, [Next]_vars PROVE Inv'
<1>1. TypeOK'
  BY NextType DEF Inv
<1>2. CASE UNCHANGED vars
  <2>1. UNCHANGED <<Up, LoneInv>>
    BY <1>2 DEF Up, LoneInv, vars, readerVars, link
  <2>2. ControlInv' /\ FreshInv' /\ WireInv'
    BY <1>2, <2>1 DEF Inv, ControlInv, FreshInv, WireInv, Quiet, Agree, RequestOf, Carries, frame, finishing,
                      vars, session, readerVars, link, server, history
  <2>3. AnswerInv' /\ NoticeInv' /\ CleanInv'
    BY <1>2, <2>1 DEF Inv, AnswerInv, Truthful, Agree, NoticeInv, CleanInv, over, finishing,
                      vars, session, readerVars, link, server, history
  <2>4. DurableInv' /\ ToldInv' /\ OneChunkInDoubt'
    BY <1>2 DEF Inv, DurableInv, ToldInv, OneChunkInDoubt, vars, session, server, history
  <2> QED BY <1>1, <2>1, <2>2, <2>3, <2>4 DEF Inv
<1>3. CASE Peer
  BY <1>1, <1>3, AnswersInv, UnaskedInv, ClosesInv DEF Peer
<1> QED BY <1>1, <1>2, <1>3, CallerInv, ExchangeInv, ReaderInv DEF Next

-----------------------------------------------------------------------------
(* The properties follow from the invariant. *)

LEMMA UpstreamUp == ASSUME TypeOK PROVE Frames(Upstream) = Up
<1>1. in \in Seq(ServerFrames) /\ held \in Seq(ServerFrames) /\ toClient \in Seq(ServerFrames)
  BY DEF TypeOK
<1>2. in \o held \in Seq(ServerFrames)
  BY <1>1, ConcatProperties, Zenon
<1>3. Frames(in \o held) = Frames(in) \union Frames(held)
  BY <1>1, FramesConcat
<1>4. Frames((in \o held) \o toClient) = Frames(in \o held) \union Frames(toClient)
  BY <1>1, <1>2, FramesConcat
<1>5. Upstream = (in \o held) \o toClient
  BY DEF Upstream
<1> QED BY <1>3, <1>4, <1>5 DEF Up

LEMMA Consequences == ASSUME Inv PROVE SequenceAgreement /\ OneChunkInDoubt /\ OutcomeIsTrue /\ EndIsNoticed
<1>1. \A f : f \in Up <=> \E i \in 1..Len(Upstream) : f = Upstream[i]
  BY UpstreamUp DEF Inv, Frames
<1>2. SequenceAgreement
  <2>1. \A i \in 1..Len(Upstream) : Upstream[i].info # "replay" /\ Upstream[i].detail # "skipsAhead"
    BY <1>1 DEF Inv, CleanInv
  <2>2. handle = "held" /\ open /\ call = "none" /\ srv = "active" => Agree
    BY DEF Inv, ControlInv, WireInv
  <2> QED BY <2>1, <2>2 DEF SequenceAgreement, Agree
<1>3. OutcomeIsTrue
  <2>1. cfg.mode \in AllModes
    BY DEF Inv, TypeOK
  <2> QED BY <2>1 DEF Inv, DurableInv, ToldInv, OutcomeIsTrue, AllModes
<1>4. EndIsNoticed
  <2>1. ASSUME handle = "held", open, call = "none", over, ~srvClosed PROVE \E f \in Up : Ends(f)
    BY <2>1 DEF Inv, NoticeInv, finishing
  <2> QED BY <1>1, <2>1 DEF EndIsNoticed, Ends
<1> QED BY <1>2, <1>3, <1>4 DEF Inv

LEMMA Invariance == Spec => []Inv
  BY InitInv, NextInv, PTL DEF Spec

\* For every bound on chunks, channel and noise: between two calls of an open session the
\* client's chunk number and acknowledged chunks are the server's watermark and applied
\* chunks, and no frame on its way ever reports a replay or a skipped number.
THEOREM EndsAgree == Spec => []SequenceAgreement
  BY Invariance, Consequences, PTL

\* Whatever timed out, was cut or was refused, at most the last chunk sent is applied
\* without the caller knowing it, and none twice or out of order.
THEOREM AtMostOneInDoubt == Spec => []OneChunkInDoubt
  BY Invariance, Consequences, PTL

\* A per_stream session is all or nothing, and the Outcome that Commit and Rollback return
\* is what became of the rows.
THEOREM OutcomeTrue == Spec => []OutcomeIsTrue
  BY Invariance, Consequences, PTL

\* A session that ended on the server is never silent for the caller who still holds it open.
THEOREM EndNoticed == Spec => []EndIsNoticed
  BY Invariance, Consequences, PTL

-----------------------------------------------------------------------------
(* The refinement: each step is a step of AtomicLoad, or none. *)

\* A step of the caller's side: an accepted chunk, an outcome returned, or nothing.
LEMMA CallerRefines ==
  ASSUME Inv, UNCHANGED <<cfg, srv, durable>>,
         \/ UNCHANGED <<acked, told>>
         \/ sent \in 1..MaxSends /\ srv # "committed" /\ acked' = Append(acked, sent) /\ told' = told
         \/ told = "none" /\ acked' = acked /\ told' \in Outcomes
              /\ srv = (CASE told' = "commit" -> "committed" [] told' = "rollback" -> "discarded" [] OTHER -> "detached")
  PROVE  [Load!Next]_(Load!vars)
<1>1. CASE ~atomicMode \/ UNCHANGED <<acked, told>>
  BY <1>1 DEF atomicMode, over, Load!vars
<1>2. CASE atomicMode /\ sent \in 1..MaxSends /\ srv # "committed" /\ acked' = Append(acked, sent) /\ told' = told
  <2>1. atomicMode' /\ over' = over
    BY <1>2 DEF atomicMode, over
  <2> QED BY <1>2, <2>1 DEF Load!Next, Load!Accept
<1>3. CASE /\ atomicMode /\ told = "none" /\ acked' = acked /\ told' \in Outcomes
           /\ srv = (CASE told' = "commit" -> "committed" [] told' = "rollback" -> "discarded" [] OTHER -> "detached")
  <2>1. atomicMode' /\ over /\ over'
    BY <1>3 DEF atomicMode, over, Outcomes
  <2> QED BY <1>3, <2>1 DEF Load!Next, Load!Tell, Outcomes
<1> QED BY <1>1, <1>2, <1>3

\* A step of the server: the load is committed whole, or given up, or nothing.
LEMMA PeerRefines ==
  ASSUME Inv, UNCHANGED <<cfg, acked, told>>,
         \/ srv' = srv /\ (atomicMode => durable' = durable)
         \/ ~over /\ srv' = "active" /\ durable' = durable
         \/ ~over /\ srv' = "discarded" /\ durable' = durable
         \/ ~over /\ srv' = "detached" /\ cfg.mode = "none" /\ durable' = durable
         \/ ~over /\ srv' = "committed" /\ cfg.mode # "none" /\ (cfg.mode = "per_stream" => durable' = acked)
  PROVE  [Load!Next]_(Load!vars)
<1>1. atomicMode' = atomicMode
  BY DEF atomicMode
<1>2. CASE ~atomicMode \/ (srv' = srv /\ durable' = durable)
  BY <1>1, <1>2 DEF over, Load!vars
<1>3. CASE atomicMode /\ ~over /\ srv' = "active" /\ durable' = durable
  BY <1>1, <1>3 DEF over, Load!vars
<1>4. CASE atomicMode /\ ~over /\ srv' \in {"discarded", "detached"} /\ durable' = durable
  <2>1. over'
    BY <1>4 DEF over
  <2> QED BY <1>1, <1>4, <2>1 DEF Load!Next, Load!GiveUp
<1>5. CASE atomicMode /\ ~over /\ srv' = "committed" /\ cfg.mode # "none" /\ (cfg.mode = "per_stream" => durable' = acked)
  <2>1. over' /\ durable' = acked
    BY <1>5 DEF over, atomicMode
  <2> QED BY <1>1, <1>5, <2>1 DEF Load!Next, Load!Commit
<1> QED BY <1>2, <1>3, <1>4, <1>5

LEMMA NextRefines == ASSUME Inv, [Next]_vars PROVE [Load!Next]_(Load!vars)
<1>1. CASE Open
  <2>1. PICK join \in BOOLEAN, inTx \in BOOLEAN, opt \in Modes \union {"default"} :
           OpenFails(join, opt, inTx) \/ OpenDials(join, opt, inTx)
    BY <1>1 DEF Open
  <2>2. UNCHANGED <<srv, durable, acked, told>> /\ handle = "none"
    BY <2>1 DEF OpenFails, OpenDials, server, history
  <2>3. acked = <<>> /\ durable = <<>> /\ srv = "none" /\ told = "none"
    BY <2>2 DEF Inv, FreshInv
  <2> QED BY <2>2, <2>3 DEF over, Load!vars
<1>2. CASE Caller /\ ~Open
  BY <1>2, CallerRefines DEF Caller, CallClosed, CloseClosed, SendChunk, Finish, server, history
<1>3. CASE Exchange
  <2>1. CASE EncodeFails \/ Write \/ Timeout \/ ConnectionEnded \/ \E left \in BOOLEAN : WriteFails(left)
    BY <2>1, CallerRefines DEF EncodeFails, Write, Timeout, ConnectionEnded, WriteFails, ExchangeFails, server, history
  <2>2. CASE Answer /\ (ErrorAnswer \/ UnexpectedAnswer \/ Started)
    BY <2>2, CallerRefines DEF Answer, ErrorAnswer, UnexpectedAnswer, Started, ExchangeFails, server
  <2>3. CASE Answer /\ ChunkAcked
    <3>1. UNCHANGED <<cfg, server, told>> /\ Truthful(Head(in)) /\ Head(in).action = "batchAck" /\ call = "chunk"
      BY <2>3, ExpectedAnswer DEF ChunkAcked, want
    <3>2. sent \in 1..MaxSends /\ acked \in Seq(Nat)
      BY <3>1, BoundsAssumption DEF Inv, TypeOK, ControlInv
    <3>3. CASE Head(in).info = "whole"
      BY <2>3, <3>1, <3>3, CallerRefines DEF ChunkAcked, server
    <3>4. CASE Head(in).info # "whole"
      <4>1. applied = Append(acked, sent) /\ acked' = Append(acked, sent)
        BY <2>3, <3>1, <3>4 DEF ChunkAcked, Truthful
      <4>2. acked # Append(acked, sent)
        BY <3>2
      <4>3. srv # "committed"
        BY <4>1, <4>2 DEF Inv, DurableInv
      <4> QED BY <3>1, <3>2, <4>1, <4>3, CallerRefines DEF server
    <3> QED BY <3>3, <3>4
  <2>4. CASE Answer /\ Finished
    <3>1. UNCHANGED <<cfg, server, acked>> /\ told = "none" /\ Truthful(Head(in)) /\ Head(in).action = "committed"
          /\ told' \in {told, Head(in).info}
      BY <2>4, ExpectedAnswer DEF Finished, want
    <3>2. Head(in) \in ServerFrames
      BY <2>4, TakeUp DEF Inv, TypeOK, Answer
    <3>3. Head(in).info \in Outcomes
      BY <3>1, <3>2 DEF ServerFrames
    <3>4. CASE told' = told
      BY <3>1, <3>4, CallerRefines DEF server
    <3>5. CASE told' = Head(in).info
      BY <3>1, <3>3, <3>5, CallerRefines DEF server, Truthful
    <3> QED BY <3>1, <3>4, <3>5
  <2> QED BY <1>3, <2>1, <2>2, <2>3, <2>4 DEF Exchange, Answer
<1>4. CASE readLoop
  BY <1>4, CallerRefines DEF readLoop, ReaderReads, ReaderPushes, ReaderReadFails, ReaderCancelled, session, server, history
<1>5. CASE Peer
  <2>1. UNCHANGED <<cfg, acked, told>>
    BY <1>5 DEF Peer, SrvStart, SrvChunk, SrvWholeChunkFails, SrvRefuse, SrvInternal, SrvSecurity, SrvUnknown, SrvCommit,
                SrvRollback, SrvExpire, SrvCloses, PeerNoise, Handled, session, history
  <2>2. cfg.mode \in AllModes
    BY DEF Inv, TypeOK
  <2>3. CASE SrvStart
    <3>1. srv = "none"
      BY <2>3, HeadRequest DEF SrvStart, Receives, Carries
    <3> QED BY <2>1, <2>3, <3>1, PeerRefines DEF SrvStart, over
  <2>4. CASE SrvChunk \/ SrvInternal
    BY <2>1, <2>4, PeerRefines DEF SrvChunk, SrvInternal, atomicMode
  <2>5. CASE SrvWholeChunkFails \/ SrvRefuse \/ SrvUnknown \/ PeerNoise
    BY <2>1, <2>5, PeerRefines DEF SrvWholeChunkFails, SrvRefuse, SrvUnknown, PeerNoise
  <2>6. CASE SrvSecurity \/ SrvExpire \/ SrvCloses
    BY <2>1, <2>6, PeerRefines DEF SrvSecurity, SrvExpire, SrvCloses, over
  <2>7. CASE SrvRollback
    BY <2>1, <2>7, PeerRefines DEF SrvRollback, over
  <2>8. CASE SrvCommit
    <3>1. applied = acked
      BY <2>8, HeadRequest DEF SrvCommit, Receives, Agree
    <3> QED BY <2>1, <2>8, <3>1, PeerRefines DEF SrvCommit, over
  <2> QED BY <1>5, <2>3, <2>4, <2>5, <2>6, <2>7, <2>8 DEF Peer
<1>6. CASE UNCHANGED vars
  BY <1>6, CallerRefines DEF vars, session, server, history
<1> QED BY <1>1, <1>2, <1>3, <1>4, <1>5, <1>6 DEF Next

\* A session that does not commit chunk by chunk implements AtomicLoad, for every bound:
\* the chunks accepted, the rows durable and the outcome returned are one atomic load.
THEOREM ImplementsAtomicLoad == Spec => AtomicLoadSpec
<1>1. Init => Load!Init
  BY DEF Init, Load!Init, over
<1>2. Inv /\ [Next]_vars => [Load!Next]_(Load!vars)
  BY NextRefines
<1> QED BY <1>1, <1>2, Invariance, PTL DEF Spec, AtomicLoadSpec, Load!Spec
-----------------------------------------------------------------------------
(* What is over stays over. *)

settled == <<srv, durable, applied>>
caller == <<cfg, chunkSeq, sent, acked, asked, told>>
Shut == handle # "none" /\ ~open
Silent == ~open' /\ UNCHANGED caller /\ Len(toServer') <= Len(toServer)

\* The steps of a caller whose session is not open, of readLoop, and of nobody.
LEMMA ShutCaller ==
  ASSUME Inv, Shut, Caller \/ Exchange \/ readLoop \/ UNCHANGED vars PROVE Silent /\ UNCHANGED settled
<1>1. call = "none"
  BY DEF Inv, ControlInv, Shut
<1>2. CASE Caller
  <2>1. ~SendChunk /\ ~Open /\ \A m : ~Finish(m)
    BY DEF Shut, SendChunk, Open, OpenFails, OpenDials, Finish
  <2>2. UNCHANGED <<toServer, caller, settled>> /\ ~open'
    BY <1>2, <2>1 DEF Shut, Caller, CallClosed, CloseClosed, Abort, link, server, history, caller, settled
  <2>3. Len(toServer) \in Nat
    BY DEF Inv, TypeOK
  <2> QED BY <2>2, <2>3 DEF Silent
<1>3. CASE readLoop \/ UNCHANGED vars
  <2>1. UNCHANGED <<toServer, caller, settled, open>>
    BY <1>3 DEF readLoop, ReaderReads, ReaderPushes, ReaderReadFails, ReaderCancelled, session, link, server,
                history, caller, settled, vars
  <2>2. Len(toServer) \in Nat
    BY DEF Inv, TypeOK
  <2> QED BY <2>1, <2>2 DEF Silent, Shut
<1>4. ~Exchange
  BY <1>1 DEF Exchange, EncodeFails, Write, WriteFails, Timeout, ConnectionEnded, Answer
<1> QED BY <1>2, <1>3, <1>4

\* The server writes to the caller only, and takes what is on its way to it.
LEMMA ShutPeer == ASSUME Inv, Shut, Peer PROVE Silent
<1>1. UNCHANGED <<caller, open>>
  BY DEF Peer, SrvStart, SrvChunk, SrvWholeChunkFails, SrvRefuse, SrvInternal, SrvSecurity, SrvUnknown, SrvCommit,
         SrvRollback, SrvExpire, SrvCloses, PeerNoise, Handled, session, history, caller
<1>2. toServer' = toServer \/ toServer' = <<>> \/ (toServer # <<>> /\ toServer' = Tail(toServer))
  BY DEF Peer, SrvStart, SrvChunk, SrvWholeChunkFails, SrvRefuse, SrvInternal, SrvSecurity, SrvUnknown, SrvCommit,
         SrvRollback, SrvExpire, SrvCloses, PeerNoise, Handled, Receives
<1>3. toServer \in Seq(ClientFrames)
  BY DEF Inv, TypeOK
<1>4. Len(toServer') <= Len(toServer)
  BY <1>2, <1>3, EmptyLen
<1> QED BY <1>1, <1>4 DEF Silent, Shut

\* The server changes nothing of a session it has ended.
LEMMA OverIsSettled == ASSUME Inv, over, Peer PROVE UNCHANGED settled
<1>1. srv # "active"
  BY DEF over
<1>2. ~SrvStart
  BY HeadRequest DEF SrvStart, Receives, Carries, over
<1> QED
  BY <1>1, <1>2 DEF over, Peer, SrvChunk, SrvWholeChunkFails, SrvRefuse, SrvInternal, SrvSecurity, SrvUnknown,
     SrvCommit, SrvRollback, SrvExpire, SrvCloses, PeerNoise, settled

\* Action property: a session that is not open any more, after a failed start, a timeout, an error that ends
\* it, Commit, Rollback or Close, is never opened again, puts no frame on its connection, and takes no
\* answer that comes late for one of its own (insertsession.go: abort, and the checks of
\* s.open in SendChunk, Commit and Rollback).
THEOREM ClosedIsFinal == Spec => [][Shut => Silent]_vars
<1>1. Inv /\ [Next]_vars => [Shut => Silent]_vars
  BY ShutCaller, ShutPeer DEF Next
<1> QED BY Invariance, <1>1, PTL DEF Spec

\* Action property: what Commit or Rollback told the caller stays true: in every mode, joined
\* sessions included, no frame, expiry or cut afterwards changes how the session ended, or its rows.
THEOREM ToldIsFinal == Spec => [][told # "none" => UNCHANGED <<settled, acked, told>>]_vars
<1>1. Inv /\ [Next]_vars => [told # "none" => UNCHANGED <<settled, acked, told>>]_vars
  <2> SUFFICES ASSUME Inv, [Next]_vars, told # "none" PROVE UNCHANGED <<settled, acked, told>>
    OBVIOUS
  <2>1. Shut /\ over
    BY DEF Inv, TypeOK, ToldInv, ControlInv, FreshInv, Shut, over, Outcomes
  <2>2. UNCHANGED <<acked, told>>
    BY <2>1, ShutCaller, ShutPeer DEF Next, Silent, caller
  <2>3. UNCHANGED settled
    BY <2>1, ShutCaller, OverIsSettled DEF Next
  <2> QED BY <2>2, <2>3
<1> QED BY Invariance, <1>1, PTL DEF Spec
=============================================================================
