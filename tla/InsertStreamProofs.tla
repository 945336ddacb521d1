------------------------- MODULE InsertStreamProofs -------------------------
(***************************************************************************)
(* Proofs about InsertStream, for every number of batches: the envelope is *)
(* exact, a torn stream never looks whole to the server, the server's      *)
(* answer is the call's result and nothing the call started outlives it.   *)
(*                                                                         *)
(* EnvelopeIsExact and CleanEndIsWhole are not inductive: whether a chunk  *)
(* is the last depends on where the sequence stands when it is sent. PcInv *)
(* says so for every point of the wrapper.                                 *)
(***************************************************************************)
EXTENDS InsertStream, TLAPS

\* Chunks of a whole stream.
Total == IF api = "insert" /\ size = 0 THEN 1 ELSE size

\* Before the RPC is opened nothing has happened.
OpenInv ==
  pc = "open" =>
    /\ src = "idle" /\ pulled = 0 /\ held = 0 /\ ahead = 0
    /\ sent = <<>> /\ rpc = None /\ ~half /\ ~eos /\ ret = None

\* About to pull: InsertStream holds the last batch it took, if it took one,
\* and has sent the ones before it; TimeSeriesWriteStream has sent them all.
PullInv ==
  pc = "pull" =>
    /\ ahead = 0 /\ src \in {"idle", "suspended"}
    /\ api = "insert" => held = pulled /\ Len(sent) = (IF held = 0 THEN 0 ELSE held - 1)
    /\ api = "timeseries" => held = 0 /\ Len(sent) = pulled

\* About to send: with a batch looked ahead, the sequence is suspended at it;
\* without one it has ended and what is held is all that is left.
SendInv ==
  pc = "send" =>
    /\ api = "insert" /\ ahead # 0 =>
         src = "suspended" /\ pulled = ahead /\ held # 0 /\ Len(sent) = held - 1
    /\ api = "insert" /\ ahead = 0 =>
         src = "finished" /\ pulled = size /\ held = size /\ Len(sent) = Total - 1
    /\ api = "timeseries" =>
         src = "suspended" /\ ahead = 0 /\ held = pulled /\ pulled # 0 /\ Len(sent) = pulled - 1

\* A live stream is half-closed only when it is whole, and a sequence that
\* panics never finishes.
CloseInv ==
  /\ src = "finished" => ending = "ends"
  /\ pc = "close" /\ rpc = "open" => src = "finished" /\ Len(sent) = Total
  /\ half => src = "finished" /\ Len(sent) = Total /\ pc \in {"recv", "done"}
  /\ eos => half /\ got = Len(sent)
  /\ rpc = None => pc \in {"open", "done"}

Inv ==
  /\ TypeOK /\ OpenInv /\ PullInv /\ SendInv /\ CloseInv
  /\ EnvelopeIsExact /\ ResultIsServers /\ NothingOutlivesCall

-----------------------------------------------------------------------------
(* One step per action. *)

\* The RPC is opened, or refused.
LEMMA OpenStep == Inv /\ Open => Inv'
<1> SUFFICES ASSUME Inv, Open PROVE Inv'
  OBVIOUS
<1>1. CallType'
  BY DEF Inv, TypeOK, CallType, Open, call
<1>2. WrapperType'
  BY MaxBatchesAssumption DEF Inv, TypeOK, WrapperType, Open, call, Returns
<1>3. StreamType'
  BY DEF Inv, TypeOK, StreamType, Open, Returns
<1>4. FlagType'
  BY DEF Inv, TypeOK, FlagType, Open
<1>5. OpenInv'
  BY DEF Inv, OpenInv, Open, Returns
<1>6. PullInv'
  BY DEF Inv, OpenInv, PullInv, Open, Returns
<1>7. SendInv'
  BY DEF Inv, SendInv, Open, Returns
<1>8. CloseInv'
  BY DEF Inv, CloseInv, None, Open, Returns, call
<1>9. EnvelopeIsExact'
  BY DEF Inv, EnvelopeIsExact, Open, call, Returns
<1>10. ResultIsServers'
  BY DEF Inv, OpenInv, ResultIsServers, None, Open, Returns
<1>11. NothingOutlivesCall'
  BY DEF Inv, NothingOutlivesCall, OpenInv, Open, Returns
<1> QED
  BY <1>1, <1>2, <1>3, <1>4, <1>5, <1>6, <1>7, <1>8, <1>9, <1>10, <1>11 DEF Inv, TypeOK

\* The sequence yields a batch.
LEMMA PullYieldsStep == Inv /\ PullYields => Inv'
<1> SUFFICES ASSUME Inv, PullYields PROVE Inv'
  OBVIOUS
<1>1. CallType'
  BY DEF Inv, TypeOK, CallType, PullYields, call, remote
<1>2. WrapperType'
  BY MaxBatchesAssumption DEF Inv, TypeOK, CallType, WrapperType, PullInv, PullYields, call, remote
<1>3. StreamType'
  BY DEF Inv, TypeOK, StreamType, PullYields, remote
<1>4. FlagType'
  BY DEF Inv, TypeOK, FlagType, PullYields, remote
<1>5. OpenInv'
  BY DEF Inv, OpenInv, PullYields, remote
<1>6. PullInv'
  BY DEF Inv, PullInv, PullYields, call, remote
<1>7. SendInv'
  BY DEF Inv, SendInv, PullInv, TypeOK, WrapperType, PullYields, call, remote
<1>8. CloseInv'
  BY DEF Inv, CloseInv, PullYields, remote
<1>9. EnvelopeIsExact'
  BY DEF Inv, PullInv, EnvelopeIsExact, PullYields, call, remote
<1>10. ResultIsServers'
  BY DEF Inv, ResultIsServers, PullYields, remote
<1>11. NothingOutlivesCall'
  BY DEF Inv, TypeOK, CallType, WrapperType, PullInv, NothingOutlivesCall, PullYields, call, remote
<1> QED
  BY <1>1, <1>2, <1>3, <1>4, <1>5, <1>6, <1>7, <1>8, <1>9, <1>10, <1>11 DEF Inv, TypeOK

\* The sequence ends.
LEMMA PullEndsStep == Inv /\ PullEnds => Inv'
<1> SUFFICES ASSUME Inv, PullEnds PROVE Inv'
  OBVIOUS
<1>1. CallType'
  BY DEF Inv, TypeOK, CallType, PullEnds, call, remote
<1>2. WrapperType'
  BY MaxBatchesAssumption DEF Inv, TypeOK, WrapperType, PullEnds, call, remote
<1>3. StreamType'
  BY DEF Inv, TypeOK, StreamType, PullEnds, remote
<1>4. FlagType'
  BY DEF Inv, TypeOK, FlagType, PullEnds, remote
<1>5. OpenInv'
  BY DEF Inv, OpenInv, PullEnds, remote
<1>6. PullInv'
  BY DEF Inv, PullInv, PullEnds, remote
<1>7. SendInv'
  BY DEF Inv, SendInv, PullInv, Total, PullEnds, call, remote
<1>8. CloseInv'
  BY DEF Inv, TypeOK, CallType, PullInv, CloseInv, Total, PullEnds, call, remote
<1>9. EnvelopeIsExact'
  <2>1. CASE api = "insert"
    BY <2>1 DEF Inv, PullInv, EnvelopeIsExact, PullEnds, call, remote
  <2>2. CASE api = "timeseries"
    BY <2>2 DEF Inv, EnvelopeIsExact, PullEnds, call, remote
  <2> QED
    BY <2>1, <2>2 DEF Inv, TypeOK, CallType
<1>10. ResultIsServers'
  BY DEF Inv, ResultIsServers, PullEnds, remote
<1>11. NothingOutlivesCall'
  BY DEF Inv, NothingOutlivesCall, PullEnds, call, remote
<1> QED
  BY <1>1, <1>2, <1>3, <1>4, <1>5, <1>6, <1>7, <1>8, <1>9, <1>10, <1>11 DEF Inv, TypeOK

\* The sequence panics.
LEMMA PullPanicsStep == Inv /\ PullPanics => Inv'
<1> SUFFICES ASSUME Inv, PullPanics PROVE Inv'
  OBVIOUS
<1>1. CallType'
  BY DEF Inv, TypeOK, CallType, PullPanics, call, remote
<1>2. WrapperType'
  BY MaxBatchesAssumption DEF Inv, TypeOK, WrapperType, PullPanics, call, Returns, remote
<1>3. StreamType'
  BY DEF Inv, TypeOK, StreamType, PullPanics, Returns, remote
<1>4. FlagType'
  BY DEF Inv, TypeOK, FlagType, PullPanics, remote
<1>5. OpenInv'
  BY DEF Inv, OpenInv, PullPanics, Returns, remote
<1>6. PullInv'
  BY DEF Inv, PullInv, PullPanics, Returns, remote
<1>7. SendInv'
  BY DEF Inv, SendInv, PullPanics, Returns, remote
<1>8. CloseInv'
  BY DEF Inv, CloseInv, PullPanics, Returns, remote
<1>9. EnvelopeIsExact'
  BY DEF Inv, EnvelopeIsExact, PullPanics, call, Returns, remote
<1>10. ResultIsServers'
  BY DEF Inv, ResultIsServers, PullPanics, Returns, remote
<1>11. NothingOutlivesCall'
  BY DEF Inv, NothingOutlivesCall, PullPanics, call, Returns, remote
<1> QED
  BY <1>1, <1>2, <1>3, <1>4, <1>5, <1>6, <1>7, <1>8, <1>9, <1>10, <1>11 DEF Inv, TypeOK

\* A chunk is accepted.
LEMMA SendAcceptedStep == Inv /\ SendAccepted => Inv'
<1> SUFFICES ASSUME Inv, SendAccepted PROVE Inv'
  OBVIOUS
<1>1. CallType'
  BY DEF Inv, TypeOK, CallType, SendAccepted, call, remote
<1>2. WrapperType'
  BY DEF Inv, TypeOK, CallType, WrapperType, SendInv, SendAccepted, call, remote
<1>3. StreamType'
  <2>1. chunk \in Chunks
    BY DEF Inv, TypeOK, WrapperType, chunk, Chunks
  <2> QED
    BY <2>1 DEF Inv, TypeOK, StreamType, SendAccepted, remote
<1>4. FlagType'
  BY DEF Inv, TypeOK, FlagType, SendAccepted, remote
<1>5. OpenInv'
  BY DEF Inv, OpenInv, SendAccepted, remote
<1>6. PullInv'
  <2>1. chunk.last = (api = "insert" /\ ahead = 0)
    BY DEF Inv, chunk
  <2>2. Len(sent') = Len(sent) + 1 /\ Len(sent) \in Nat
    BY DEF Inv, SendAccepted, remote
  <2>3. CASE api = "insert" /\ ahead # 0
    BY <2>1, <2>2, <2>3 DEF Inv, TypeOK, WrapperType, SendInv, PullInv, SendAccepted, call, remote
  <2>4. CASE api = "insert" /\ ahead = 0
    BY <2>1, <2>2, <2>4 DEF Inv, PullInv, SendAccepted, remote
  <2>5. CASE api = "timeseries"
    BY <2>1, <2>2, <2>5 DEF Inv, TypeOK, WrapperType, SendInv, PullInv, SendAccepted, call, remote
  <2> QED
    BY <2>3, <2>4, <2>5 DEF Inv, TypeOK, CallType
<1>7. SendInv'
  BY DEF Inv, SendInv, SendAccepted, remote
<1>8. CloseInv'
  <2>1. chunk.last = (api = "insert" /\ ahead = 0)
    BY DEF Inv, chunk
  <2>2. Len(sent') = Len(sent) + 1 /\ Len(sent) \in Nat
    BY DEF Inv, SendAccepted, remote
  <2>3. CASE api = "insert" /\ ahead # 0
    BY <2>1, <2>2, <2>3 DEF Inv, CloseInv, SendAccepted, call, remote
  <2>4. CASE api = "insert" /\ ahead = 0
    BY <2>1, <2>2, <2>4 DEF Inv, TypeOK, WrapperType, SendInv, CloseInv, Total, SendAccepted, call, remote
  <2>5. CASE api = "timeseries"
    BY <2>1, <2>2, <2>5 DEF Inv, CloseInv, SendAccepted, call, remote
  <2> QED
    BY <2>3, <2>4, <2>5 DEF Inv, TypeOK, CallType
<1>9. EnvelopeIsExact'
  <2>1. /\ Len(sent) \in Nat /\ Len(sent') = Len(sent) + 1
        /\ sent'[Len(sent) + 1] = chunk
        /\ \A i \in 1..Len(sent) : sent'[i] = sent[i]
        /\ DOMAIN sent = 1..Len(sent) /\ DOMAIN sent' = 1..(Len(sent) + 1)
    BY DEF Inv, SendAccepted, remote
  <2>2. size \in Nat /\ pulled \in 0..size /\ held \in 0..pulled
    BY MaxBatchesAssumption DEF Inv, TypeOK, CallType, WrapperType
  <2>3. CASE api = "insert" /\ ahead # 0
    BY <2>1, <2>2, <2>3 DEF Inv, SendInv, EnvelopeIsExact, SendAccepted, call, chunk, remote
  <2>4. CASE api = "insert" /\ ahead = 0
    BY <2>1, <2>2, <2>4 DEF Inv, SendInv, EnvelopeIsExact, Total, SendAccepted, call, chunk, remote
  <2>5. CASE api = "timeseries"
    <3>1. chunk.batch = Len(sent) + 1 /\ chunk.db = TRUE /\ size # 0
      BY <2>2, <2>5 DEF Inv, SendInv, SendAccepted, chunk, remote
    <3>2. \A i \in 1..Len(sent) : sent'[i].batch = i /\ sent'[i].db = TRUE
      BY <2>1, <2>5, <3>1 DEF Inv, EnvelopeIsExact
    <3>3. api' = "timeseries" /\ size' = size
      BY <2>5 DEF SendAccepted, call, remote
    <3>4. \A i \in DOMAIN sent' : sent'[i].batch = i /\ sent'[i].db = TRUE
      BY <2>1, <3>1, <3>2
    <3> QED
      BY <3>1, <3>3, <3>4 DEF EnvelopeIsExact
  <2> QED
    BY <2>3, <2>4, <2>5 DEF Inv, TypeOK, CallType
<1>10. ResultIsServers'
  BY DEF Inv, ResultIsServers, SendAccepted, remote
<1>11. NothingOutlivesCall'
  <2>1. Len(sent') = Len(sent) + 1 /\ Len(sent) \in Nat
    BY DEF Inv, SendAccepted, remote
  <2> QED
    BY <2>1 DEF Inv, TypeOK, WrapperType, NothingOutlivesCall, SendAccepted, remote
<1> QED
  BY <1>1, <1>2, <1>3, <1>4, <1>5, <1>6, <1>7, <1>8, <1>9, <1>10, <1>11 DEF Inv, TypeOK

\* Send reports that the stream has ended.
LEMMA SendEOFStep == Inv /\ SendEOF => Inv'
<1> SUFFICES ASSUME Inv, SendEOF PROVE Inv'
  OBVIOUS
<1>1. CallType'
  BY DEF Inv, TypeOK, CallType, SendEOF, call, remote
<1>2. WrapperType'
  BY MaxBatchesAssumption DEF Inv, TypeOK, WrapperType, SendEOF, call, remote
<1>3. StreamType'
  BY DEF Inv, TypeOK, StreamType, SendEOF, remote
<1>4. FlagType'
  BY DEF Inv, TypeOK, FlagType, SendEOF, remote
<1>5. OpenInv'
  BY DEF Inv, OpenInv, SendEOF, remote
<1>6. PullInv'
  BY DEF Inv, PullInv, SendEOF, remote
<1>7. SendInv'
  BY DEF Inv, SendInv, SendEOF, remote
<1>8. CloseInv'
  BY DEF Inv, CloseInv, SendEOF, call, remote
<1>9. EnvelopeIsExact'
  BY DEF Inv, EnvelopeIsExact, SendEOF, call, remote
<1>10. ResultIsServers'
  BY DEF Inv, ResultIsServers, SendEOF, remote
<1>11. NothingOutlivesCall'
  BY DEF Inv, NothingOutlivesCall, SendEOF, call, remote
<1> QED
  BY <1>1, <1>2, <1>3, <1>4, <1>5, <1>6, <1>7, <1>8, <1>9, <1>10, <1>11 DEF Inv, TypeOK

\* grpc-go refuses a chunk.
LEMMA SendFailsStep == Inv /\ SendFails => Inv'
<1> SUFFICES ASSUME Inv, SendFails PROVE Inv'
  OBVIOUS
<1>1. CallType'
  BY DEF Inv, TypeOK, CallType, SendFails, call, remote
<1>2. WrapperType'
  BY MaxBatchesAssumption DEF Inv, TypeOK, WrapperType, SendFails, call, Returns, remote
<1>3. StreamType'
  BY DEF Inv, TypeOK, StreamType, SendFails, Returns, remote
<1>4. FlagType'
  BY DEF Inv, TypeOK, FlagType, SendFails, remote
<1>5. OpenInv'
  BY DEF Inv, OpenInv, SendFails, Returns, remote
<1>6. PullInv'
  BY DEF Inv, PullInv, SendFails, Returns, remote
<1>7. SendInv'
  BY DEF Inv, SendInv, SendFails, Returns, remote
<1>8. CloseInv'
  BY DEF Inv, CloseInv, SendFails, Returns, call, remote
<1>9. EnvelopeIsExact'
  BY DEF Inv, EnvelopeIsExact, SendFails, call, Returns, remote
<1>10. ResultIsServers'
  BY DEF Inv, ResultIsServers, SendFails, Returns, remote
<1>11. NothingOutlivesCall'
  BY DEF Inv, NothingOutlivesCall, SendFails, call, Returns, remote
<1> QED
  BY <1>1, <1>2, <1>3, <1>4, <1>5, <1>6, <1>7, <1>8, <1>9, <1>10, <1>11 DEF Inv, TypeOK

\* The stream is half-closed.
LEMMA CloseSendStep == Inv /\ CloseSend => Inv'
<1> SUFFICES ASSUME Inv, CloseSend PROVE Inv'
  OBVIOUS
<1>1. CallType'
  BY DEF Inv, TypeOK, CallType, CloseSend, call, remote
<1>2. WrapperType'
  BY MaxBatchesAssumption DEF Inv, TypeOK, WrapperType, CloseSend, call, remote
<1>3. StreamType'
  BY DEF Inv, TypeOK, StreamType, CloseSend, remote
<1>4. FlagType'
  BY DEF Inv, TypeOK, FlagType, CloseSend, remote
<1>5. OpenInv'
  BY DEF Inv, OpenInv, CloseSend, remote
<1>6. PullInv'
  BY DEF Inv, PullInv, CloseSend, remote
<1>7. SendInv'
  BY DEF Inv, SendInv, CloseSend, remote
<1>8. CloseInv'
  BY DEF Inv, CloseInv, Total, CloseSend, call, remote
<1>9. EnvelopeIsExact'
  BY DEF Inv, EnvelopeIsExact, CloseSend, call, remote
<1>10. ResultIsServers'
  BY DEF Inv, ResultIsServers, CloseSend, remote
<1>11. NothingOutlivesCall'
  BY DEF Inv, NothingOutlivesCall, CloseSend, call, remote
<1> QED
  BY <1>1, <1>2, <1>3, <1>4, <1>5, <1>6, <1>7, <1>8, <1>9, <1>10, <1>11 DEF Inv, TypeOK

\* The result arrives.
LEMMA RecvStep == Inv /\ Recv => Inv'
<1> SUFFICES ASSUME Inv, Recv PROVE Inv'
  OBVIOUS
<1>1. CallType'
  BY DEF Inv, TypeOK, CallType, Recv, call, remote
<1>2. WrapperType'
  BY MaxBatchesAssumption DEF Inv, TypeOK, WrapperType, Recv, call, Returns, remote
<1>3. StreamType'
  BY DEF Inv, TypeOK, StreamType, Recv, Returns, remote
<1>4. FlagType'
  BY DEF Inv, TypeOK, FlagType, Recv, remote
<1>5. OpenInv'
  BY DEF Inv, OpenInv, Recv, Returns, remote
<1>6. PullInv'
  BY DEF Inv, PullInv, Recv, Returns, remote
<1>7. SendInv'
  BY DEF Inv, SendInv, Recv, Returns, remote
<1>8. CloseInv'
  BY DEF Inv, CloseInv, Total, Recv, call, Returns, remote
<1>9. EnvelopeIsExact'
  BY DEF Inv, EnvelopeIsExact, Recv, call, Returns, remote
<1>10. ResultIsServers'
  BY DEF Inv, ResultIsServers, Recv, Returns, remote
<1>11. NothingOutlivesCall'
  BY DEF Inv, NothingOutlivesCall, Recv, call, Returns, remote
<1> QED
  BY <1>1, <1>2, <1>3, <1>4, <1>5, <1>6, <1>7, <1>8, <1>9, <1>10, <1>11 DEF Inv, TypeOK

\* The server takes a chunk.
LEMMA SrvTakesStep == Inv /\ SrvTakes => Inv'
<1> SUFFICES ASSUME Inv, SrvTakes PROVE Inv'
  OBVIOUS
<1>1. CallType'
  BY DEF Inv, TypeOK, CallType, SrvTakes, frame, call
<1>2. WrapperType'
  BY MaxBatchesAssumption DEF Inv, TypeOK, WrapperType, SrvTakes, frame, wrapper, call
<1>3. StreamType'
  BY DEF Inv, TypeOK, StreamType, SrvTakes, frame
<1>4. FlagType'
  BY DEF Inv, TypeOK, FlagType, SrvTakes, frame
<1>5. OpenInv'
  BY DEF Inv, OpenInv, SrvTakes, frame, wrapper
<1>6. PullInv'
  BY DEF Inv, PullInv, SrvTakes, frame, wrapper, call
<1>7. SendInv'
  BY DEF Inv, SendInv, Total, SrvTakes, frame, wrapper, call
<1>8. CloseInv'
  BY DEF Inv, CloseInv, Total, SrvTakes, frame, wrapper, call
<1>9. EnvelopeIsExact'
  BY DEF Inv, EnvelopeIsExact, SrvTakes, frame, call
<1>10. ResultIsServers'
  BY DEF Inv, ResultIsServers, SrvTakes, frame, wrapper
<1>11. NothingOutlivesCall'
  BY DEF Inv, NothingOutlivesCall, SrvTakes, frame, wrapper, call
<1> QED
  BY <1>1, <1>2, <1>3, <1>4, <1>5, <1>6, <1>7, <1>8, <1>9, <1>10, <1>11 DEF Inv, TypeOK

\* The server sees the end.
LEMMA SrvSeesEndStep == Inv /\ SrvSeesEnd => Inv'
<1> SUFFICES ASSUME Inv, SrvSeesEnd PROVE Inv'
  OBVIOUS
<1>1. CallType'
  BY DEF Inv, TypeOK, CallType, SrvSeesEnd, frame, call
<1>2. WrapperType'
  BY MaxBatchesAssumption DEF Inv, TypeOK, WrapperType, SrvSeesEnd, frame, wrapper, call
<1>3. StreamType'
  BY DEF Inv, TypeOK, StreamType, SrvSeesEnd, frame
<1>4. FlagType'
  BY DEF Inv, FlagType, SrvSeesEnd, frame
<1>5. OpenInv'
  BY DEF Inv, OpenInv, SrvSeesEnd, frame, wrapper
<1>6. PullInv'
  BY DEF Inv, PullInv, SrvSeesEnd, frame, wrapper, call
<1>7. SendInv'
  BY DEF Inv, SendInv, Total, SrvSeesEnd, frame, wrapper, call
<1>8. CloseInv'
  BY DEF Inv, CloseInv, Total, SrvSeesEnd, frame, wrapper, call
<1>9. EnvelopeIsExact'
  BY DEF Inv, EnvelopeIsExact, SrvSeesEnd, frame, call
<1>10. ResultIsServers'
  BY DEF Inv, ResultIsServers, SrvSeesEnd, frame, wrapper
<1>11. NothingOutlivesCall'
  BY DEF Inv, NothingOutlivesCall, SrvSeesEnd, frame, wrapper, call
<1> QED
  BY <1>1, <1>2, <1>3, <1>4, <1>5, <1>6, <1>7, <1>8, <1>9, <1>10, <1>11 DEF Inv, TypeOK

\* The server ends the stream.
LEMMA SrvEndsStep == Inv /\ SrvEnds => Inv'
<1> SUFFICES ASSUME Inv, SrvEnds PROVE Inv'
  OBVIOUS
<1>1. CallType'
  BY DEF Inv, TypeOK, CallType, SrvEnds, frame, call
<1>2. WrapperType'
  BY MaxBatchesAssumption DEF Inv, TypeOK, WrapperType, SrvEnds, frame, wrapper, call
<1>3. StreamType'
  BY DEF Inv, TypeOK, StreamType, SrvEnds, frame
<1>4. FlagType'
  BY DEF Inv, TypeOK, FlagType, SrvEnds, frame
<1>5. OpenInv'
  BY DEF Inv, OpenInv, None, SrvEnds, frame, wrapper
<1>6. PullInv'
  BY DEF Inv, PullInv, SrvEnds, frame, wrapper, call
<1>7. SendInv'
  BY DEF Inv, SendInv, Total, SrvEnds, frame, wrapper, call
<1>8. CloseInv'
  BY DEF Inv, CloseInv, Total, None, SrvEnds, frame, wrapper, call
<1>9. EnvelopeIsExact'
  BY DEF Inv, EnvelopeIsExact, SrvEnds, frame, call
<1>10. ResultIsServers'
  BY DEF Inv, ResultIsServers, NothingOutlivesCall, SrvEnds, frame, wrapper
<1>11. NothingOutlivesCall'
  BY DEF Inv, NothingOutlivesCall, SrvEnds, frame, wrapper, call
<1> QED
  BY <1>1, <1>2, <1>3, <1>4, <1>5, <1>6, <1>7, <1>8, <1>9, <1>10, <1>11 DEF Inv, TypeOK

\* The RPC is cancelled or lost.
LEMMA LostStep == Inv /\ Lost => Inv'
<1> SUFFICES ASSUME Inv, Lost PROVE Inv'
  OBVIOUS
<1>1. CallType'
  BY DEF Inv, TypeOK, CallType, Lost, frame, call, remote
<1>2. WrapperType'
  BY MaxBatchesAssumption DEF Inv, TypeOK, WrapperType, Lost, frame, wrapper, call, remote
<1>3. StreamType'
  BY DEF Inv, TypeOK, StreamType, Lost, frame, remote
<1>4. FlagType'
  BY DEF Inv, TypeOK, FlagType, Lost, frame, remote
<1>5. OpenInv'
  BY DEF Inv, OpenInv, None, Lost, frame, wrapper, remote
<1>6. PullInv'
  BY DEF Inv, PullInv, Lost, frame, wrapper, call, remote
<1>7. SendInv'
  BY DEF Inv, SendInv, Total, Lost, frame, wrapper, call, remote
<1>8. CloseInv'
  BY DEF Inv, CloseInv, Total, None, Lost, frame, wrapper, call, remote
<1>9. EnvelopeIsExact'
  BY DEF Inv, EnvelopeIsExact, Lost, frame, call, remote
<1>10. ResultIsServers'
  BY DEF Inv, ResultIsServers, Lost, frame, wrapper, remote
<1>11. NothingOutlivesCall'
  BY DEF Inv, NothingOutlivesCall, Lost, frame, wrapper, call, remote
<1> QED
  BY <1>1, <1>2, <1>3, <1>4, <1>5, <1>6, <1>7, <1>8, <1>9, <1>10, <1>11 DEF Inv, TypeOK

\* The cancel reaches the server.
LEMMA SrvAbortsStep == Inv /\ SrvAborts => Inv'
<1> SUFFICES ASSUME Inv, SrvAborts PROVE Inv'
  OBVIOUS
<1>1. CallType'
  BY DEF Inv, TypeOK, CallType, SrvAborts, frame, call
<1>2. WrapperType'
  BY MaxBatchesAssumption DEF Inv, TypeOK, WrapperType, SrvAborts, frame, wrapper, call
<1>3. StreamType'
  BY DEF Inv, TypeOK, StreamType, SrvAborts, frame
<1>4. FlagType'
  BY DEF Inv, TypeOK, FlagType, SrvAborts, frame
<1>5. OpenInv'
  BY DEF Inv, OpenInv, None, SrvAborts, frame, wrapper
<1>6. PullInv'
  BY DEF Inv, PullInv, SrvAborts, frame, wrapper, call
<1>7. SendInv'
  BY DEF Inv, SendInv, Total, SrvAborts, frame, wrapper, call
<1>8. CloseInv'
  BY DEF Inv, CloseInv, Total, None, SrvAborts, frame, wrapper, call
<1>9. EnvelopeIsExact'
  BY DEF Inv, EnvelopeIsExact, SrvAborts, frame, call
<1>10. ResultIsServers'
  BY DEF Inv, ResultIsServers, SrvAborts, frame, wrapper
<1>11. NothingOutlivesCall'
  BY DEF Inv, NothingOutlivesCall, SrvAborts, frame, wrapper, call
<1> QED
  BY <1>1, <1>2, <1>3, <1>4, <1>5, <1>6, <1>7, <1>8, <1>9, <1>10, <1>11 DEF Inv, TypeOK

-----------------------------------------------------------------------------
(* The theorems. *)

LEMMA Empty == ASSUME NEW S PROVE <<>> \in Seq(S) /\ Len(<<>>) = 0
  OBVIOUS

\* The invariant holds initially.
LEMMA InitInv == Init => Inv
<1> SUFFICES ASSUME Init PROVE Inv
  OBVIOUS
<1>1. TypeOK
  <2>1. sent \in Seq(Chunks) /\ Len(sent) = 0
    BY Empty DEF Init
  <2>2. CallType /\ WrapperType
    BY MaxBatchesAssumption DEF Init, CallType, WrapperType
  <2>3. StreamType
    BY <2>1 DEF Init, StreamType
  <2>4. FlagType
    BY DEF Init, FlagType
  <2> QED
    BY <2>2, <2>3, <2>4 DEF TypeOK
<1>2. OpenInv /\ PullInv /\ SendInv /\ CloseInv
  BY DEF Init, OpenInv, PullInv, SendInv, CloseInv
<1>3. EnvelopeIsExact /\ ResultIsServers /\ NothingOutlivesCall
  BY DEF Init, EnvelopeIsExact, ResultIsServers, NothingOutlivesCall
<1> QED
  BY <1>1, <1>2, <1>3 DEF Inv

\* Inv is an invariant of every client-stream call.
THEOREM Invariance == Spec => []Inv
<1>1. Inv /\ UNCHANGED vars => Inv'
  BY DEF Inv, TypeOK, CallType, WrapperType, StreamType, FlagType, OpenInv, PullInv, SendInv, CloseInv, Total,
       EnvelopeIsExact, ResultIsServers, NothingOutlivesCall, vars, call, wrapper, remote
<1>2. Inv /\ [Next]_vars => Inv'
  BY <1>1, OpenStep, PullYieldsStep, PullEndsStep, PullPanicsStep, SendAcceptedStep, SendEOFStep,
     SendFailsStep, CloseSendStep, RecvStep, SrvTakesStep, SrvSeesEndStep, SrvEndsStep, LostStep, SrvAbortsStep
     DEF Next, Wrapper, Server
<1> QED
  BY InitInv, <1>2, PTL DEF Spec

\* Every variable keeps its type.
THEOREM TypeCorrect == Spec => []TypeOK
<1>1. Inv => TypeOK
  BY DEF Inv
<1> QED
  BY Invariance, <1>1, PTL

\* The chunks handed to grpc-go are exactly the envelope of the batches taken,
\* and only the final one says last.
THEOREM EnvelopeCorrect == Spec => []EnvelopeIsExact
<1>1. Inv => EnvelopeIsExact
  BY DEF Inv
<1> QED
  BY Invariance, <1>1, PTL

\* A stream cut short by a panic, a failed Send or a cancelled context never
\* looks whole to the server.
THEOREM TornNeverLooksWhole == Spec => []CleanEndIsWhole
<1>1. Inv => CleanEndIsWhole
  BY DEF Inv, CloseInv, CleanEndIsWhole, Total
<1> QED
  BY Invariance, <1>1, PTL

\* The server's summary or status is the result of the call.
THEOREM ServerIsHeard == Spec => []ResultIsServers
<1>1. Inv => ResultIsServers
  BY DEF Inv
<1> QED
  BY Invariance, <1>1, PTL

\* The caller's sequence and the RPC are released on every way out.
THEOREM CallReleases == Spec => []NothingOutlivesCall
<1>1. Inv => NothingOutlivesCall
  BY DEF Inv
<1> QED
  BY Invariance, <1>1, PTL

\* Action property: once the call has returned or panicked, the sequence is not pulled, no
\* chunk goes out and the result stands (insert.go: the deferred stop and cancel). What the
\* server may still receive is on the wire by then: chunks that were sent, and the end of the
\* stream only if the call half-closed it, which it does of a whole one alone.
ReturnStands == UNCHANGED <<src, pulled, sent, half, rpc, ret>>
OnTheWireOnly == got' \in got..Len(sent) /\ (eos' => half /\ src = "finished" /\ Len(sent) = Total)

THEOREM ReturnIsFinal == Spec => [][pc = "done" => ReturnStands /\ OnTheWireOnly]_vars
<1>1. Inv /\ [Next]_vars => [pc = "done" => ReturnStands /\ OnTheWireOnly]_vars
  <2> SUFFICES ASSUME Inv, [Next]_vars, pc = "done"
               PROVE  ReturnStands /\ OnTheWireOnly
    OBVIOUS
  <2>1. rpc # "open"
    BY DEF Inv, NothingOutlivesCall
  <2>2. ~Wrapper
    BY DEF Wrapper, Open, PullYields, PullEnds, PullPanics, SendAccepted, SendEOF, SendFails, CloseSend, Recv
  <2>3. ReturnStands
    <3>1. CASE Server
      BY <2>1, <3>1 DEF Server, SrvTakes, SrvSeesEnd, SrvEnds, Lost, SrvAborts, frame, wrapper, ReturnStands
    <3>2. CASE UNCHANGED vars
      BY <3>2 DEF vars, wrapper, ReturnStands
    <3> QED
      BY <2>2, <3>1, <3>2 DEF Next
  <2>4. got \in 0..Len(sent) /\ Len(sent) \in Nat
    BY DEF Inv, TypeOK, StreamType
  <2>5. got' \in got..Len(sent)
    <3>1. CASE Server
      BY <2>1, <2>4, <3>1 DEF Server, SrvTakes, SrvSeesEnd, SrvEnds, Lost, SrvAborts, remote
    <3>2. CASE UNCHANGED vars
      BY <2>4, <3>2 DEF vars, remote
    <3> QED
      BY <2>2, <3>1, <3>2 DEF Next
  <2>6. eos' => half
    <3>1. eos => half
      BY DEF Inv, CloseInv
    <3>2. CASE Server
      BY <3>1, <3>2 DEF Server, SrvTakes, SrvSeesEnd, SrvEnds, Lost, SrvAborts, remote
    <3>3. CASE UNCHANGED vars
      BY <3>1, <3>3 DEF vars, remote
    <3> QED
      BY <2>2, <3>2, <3>3 DEF Next
  <2>7. half => src = "finished" /\ Len(sent) = Total
    BY DEF Inv, CloseInv
  <2> QED
    BY <2>3, <2>5, <2>6, <2>7 DEF OnTheWireOnly
<1> QED
  BY Invariance, <1>1, PTL DEF Spec
=============================================================================
