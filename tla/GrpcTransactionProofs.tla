------------------------ MODULE GrpcTransactionProofs ------------------------
(***************************************************************************)
(* Proofs about GrpcTransaction, for every bound MaxCalls: the inductive   *)
(* invariant Inv below, and from it the properties the run checks.         *)
(***************************************************************************)
EXTENDS GrpcTransaction, TLAPS

(* The inductive invariant. *)

\* What every call on the handle sends.
Bound == [db |-> "mine", tx |-> "mine", commit |-> FALSE]

\* The RPC waited for is the one the control state says.
AwaitInv ==
  /\ \A a, b \in await : a = b
  /\ await = {} => answer = None
  /\ \A r \in await :
       \/ pc = "begin" /\ r.kind = "begin"
       \/ pc \in {"fn", "done"} /\ r.kind \in {"handle", "raw"}
       \/ pc = "commit" /\ r.kind = "commit"
       \/ pc \in {"rollback", "cleaning"} /\ r.kind = "rollback"

\* What each RPC carries, and whose ordinals are writes of the handle.
WellFormed(r) ==
  /\ r.n <= count
  /\ r.kind = "handle" => r.m = Bound /\ r.n \in stmts
  /\ r.kind = "raw" => r.m.tx # "mine" /\ r.n \notin stmts
  /\ r.kind = "rollback" => r.detached

RequestInv ==
  /\ \A r \in net \union await : WellFormed(r)
  /\ \A m \in lazy : m = Bound

\* How the callback ended follows from the control state; only a callback
\* that returned nil has a commit under way or done.
PhaseInv ==
  /\ pc \in {"idle", "begin", "fn"} => fnEnd = None /\ ret = None
  /\ pc \in {"commit", "cleanup", "cleaning"} => fnEnd = "nil" /\ ret = None
  /\ pc = "rollback" => fnEnd \in {"error", "panic", "goexit"} /\ ret = None
  /\ pc = "fn" \/ fnEnd # None => sess # None
  /\ sess = "committed" => fnEnd = "nil"
  /\ \A q \in net : q.kind = "commit" => fnEnd = "nil"

\* How many RPCs each control state has left.
CountInv ==
  /\ pc = "idle" => count = 0
  /\ pc \in {"begin", "fn"} => count <= MaxCalls + 1
  /\ pc \in {"commit", "cleanup", "rollback"} => count <= MaxCalls + 2

\* A begin still on its way is the only one, and the server has no transaction yet.
BeginInv ==
  /\ \A q \in net : q.kind = "begin" => sess = None /\ pc \in {"begin", "done"}
  /\ \A p, q \in net : p.kind = "begin" /\ q.kind = "begin" => p = q
  /\ pc = "idle" => net = {} /\ sess = None
  /\ sess = None => /\ fnEnd = None /\ lazy = {} /\ stmts = {} /\ acked = {} /\ buf = {} /\ durable = {}
                    /\ ret \notin {"ok", "notcommitted", "error"}

\* An answer on its way back tells the truth about the server.
AnswerInv ==
  \A r \in await :
    /\ answer = "ok" /\ r.kind = "handle" => sess = "rolledback" \/ r.n \in buf \union durable
    /\ answer = "ok" /\ r.kind = "begin" => sess # None
    /\ answer = "ok" /\ r.kind = "commit" => sess = "committed"
    /\ answer = "uncommitted" /\ r.kind = "commit" => sess = "rolledback"
    /\ answer # None /\ r.kind = "rollback" => sess # "open" \/ refused
    /\ answer = "ok" /\ r.kind = "rollback" => sess # "open"

\* Where the writes are: held while the transaction is open, durable once it is committed
\* or a statement published them.
WriteInv ==
  /\ escaped \subseteq 1..count /\ stmts \subseteq 1..count
  /\ sess # "committed" => durable = {} \/ partial
  /\ sess # "open" => buf = {}
  /\ sess = "open" => acked \subseteq buf \union durable
  /\ sess = "committed" => acked \subseteq durable

Safety == OutcomeIsTrue /\ FailedFnNeverCommits /\ HandleIsConfined

Inv == TypeOK /\ AwaitInv /\ RequestInv /\ PhaseInv /\ CountInv /\ BeginInv /\ AnswerInv /\ WriteInv /\ Safety

-----------------------------------------------------------------------------
(* The parts of the type invariant. *)

ControlType ==
  /\ pc \in {"idle", "begin", "fn", "commit", "rollback", "cleanup", "cleaning", "done"}
  /\ ret \in {None, "isolation", "begin", "noid", "ok", "notcommitted", "commit", "error", "txerror", "panic", "goexit"}
  /\ fnEnd \in {None, "nil", "error", "panic", "goexit"} /\ ctx \in {"live", "done"}
  /\ count \in 0..(MaxCalls + 3)
  /\ answer \in {None, "ok", "blank", "uncommitted", "error"}
  /\ sess \in {None, "open", "committed", "rolledback"}

RpcType ==
  /\ msg \in CallerMessages /\ lazy \subseteq Messages
  /\ net \subseteq Requests /\ await \subseteq Requests

WriteType ==
  /\ buf \subseteq Ordinals /\ durable \subseteq Ordinals /\ escaped \subseteq Ordinals
  /\ stmts \subseteq Ordinals /\ acked \subseteq Ordinals

FlagType == partial \in BOOLEAN /\ refused \in BOOLEAN /\ lost \in BOOLEAN

LEMMA TypeParts == TypeOK <=> ControlType /\ RpcType /\ WriteType /\ FlagType
  BY Zenon DEF TypeOK, ControlType, RpcType, WriteType, FlagType

LEMMA NextTypeParts == TypeOK' <=> ControlType' /\ RpcType' /\ WriteType' /\ FlagType'
  BY Zenon DEF TypeOK, ControlType, RpcType, WriteType, FlagType

\* An RPC is sent with a fresh ordinal, while none is waited for.
LEMMA SendStep ==
  ASSUME Inv, NEW k \in Kinds, NEW m \in Messages, NEW d \in BOOLEAN, Send(k, m, d), count <= MaxCalls + 2
  PROVE  /\ \E r \in Requests :
              /\ r.n = count + 1 /\ r.kind = k /\ r.m = m
              /\ await' = {r} /\ net' \subseteq net \union {r} /\ net' \subseteq Requests
         /\ await = {} /\ answer = None /\ answer' = None /\ count' = count + 1
         /\ count \in Nat /\ count' \in Nat /\ count' \in 0..(MaxCalls + 3)
         /\ \A q \in net : q.n <= count /\ q.n # count + 1 /\ q.n \in Nat
         /\ count + 1 \notin escaped /\ count + 1 \notin stmts /\ count + 1 \in Ordinals
         /\ 1..count \subseteq 1..count' /\ count' \in 1..count'
<1> DEFINE r == [n |-> count + 1, kind |-> k, m |-> m, detached |-> d]
<1>1. await = {} /\ count' = count + 1 /\ await' = {r} /\ answer' = None /\ net' \subseteq net \union {r}
  BY DEF Send
<1>2. count \in Nat /\ count + 1 \in 1..(MaxCalls + 3)
  BY MaxCallsAssumption DEF Inv, TypeOK
<1>3. r \in Requests
  BY <1>2 DEF Requests, Ordinals
<1>4. answer = None
  BY <1>1 DEF Inv, AwaitInv
<1>5. net' \subseteq Requests
  BY <1>1, <1>3 DEF Inv, TypeOK
<1>6. \A q \in net : q.n <= count /\ q.n # count + 1 /\ q.n \in Nat
  <2>1. \A q \in net : q.n <= count /\ q.n \in Nat
    BY DEF Inv, RequestInv, WellFormed, TypeOK, Requests, Ordinals
  <2> QED BY <1>2, <2>1
<1>7. count + 1 \notin escaped /\ count + 1 \notin stmts
  BY <1>2 DEF Inv, WriteInv
<1>8. count' \in Nat /\ count' \in 0..(MaxCalls + 3) /\ 1..count \subseteq 1..count' /\ count + 1 \in Ordinals /\ count' \in 1..count'
  BY <1>1, <1>2 DEF Ordinals
<1>9. r.n = count + 1 /\ r.kind = k /\ r.m = m
  OBVIOUS
<1> HIDE DEF r
<1>10. \E q \in Requests :
              /\ q.n = count + 1 /\ q.kind = k /\ q.m = m
              /\ await' = {q} /\ net' \subseteq net \union {q} /\ net' \subseteq Requests
  BY <1>1, <1>3, <1>5, <1>9
<1> QED BY <1>1, <1>2, <1>4, <1>6, <1>7, <1>8, <1>10 DEF r

LEMMA SentDetached ==
  ASSUME NEW k, NEW m, Send(k, m, TRUE) PROVE \A r \in await' : r.detached
  BY DEF Send

LEMMA Sendable ==
  ASSUME Inv PROVE
  /\ Kinds = {"begin", "handle", "raw", "commit", "rollback"}
  /\ Bound \in Messages /\ Empty \in Messages /\ CallerMessages \subseteq Messages
  /\ \A m : bind(m) = Bound
  /\ count <= MaxCalls => count <= MaxCalls + 2
<1>1. count \in Nat
  BY DEF Inv, TypeOK
<1>2. count <= MaxCalls => count <= MaxCalls + 2
  BY <1>1, MaxCallsAssumption
<1>3. Bound \in Messages /\ Empty \in Messages
  BY DEF Bound, Messages, Empty, None
<1>5. \A m : bind(m) = Bound
  BY DEF Bound, bind
<1>4. CallerMessages \subseteq Messages
  <2>1. [Empty EXCEPT !.db = "other", !.tx = "other"] \in Messages
    BY DEF Messages, Empty, None
  <2>2. [Empty EXCEPT !.commit = TRUE] \in Messages
    BY <1>3 DEF Messages
  <2> QED BY <1>3, <2>1, <2>2 DEF CallerMessages
<1> QED BY <1>2, <1>3, <1>4, <1>5 DEF Kinds

LEMMA InitInv == Init => Inv
<1> SUFFICES ASSUME Init PROVE Inv
  OBVIOUS
<1>1. ControlType /\ RpcType /\ WriteType
  BY MaxCallsAssumption DEF Init, ControlType, RpcType, WriteType, None, CallerMessages
<1>2. FlagType
  BY Zenon DEF Init, FlagType
<1>3. AwaitInv /\ RequestInv /\ PhaseInv /\ BeginInv /\ AnswerInv /\ Safety
  BY DEF Init, AwaitInv, RequestInv, PhaseInv, BeginInv, AnswerInv, Safety,
         OutcomeIsTrue, FailedFnNeverCommits, HandleIsConfined, None
<1>4. CountInv /\ WriteInv
  BY MaxCallsAssumption DEF Init, CountInv, WriteInv, None
<1> QED BY <1>1, <1>2, <1>3, <1>4, TypeParts DEF Inv

\* The caller's context ends, a stream is built, a message is edited: nothing is sent.
LEMMA LocalStep == ASSUME Inv, Cancel \/ HandleStream \/ Edit PROVE Inv'
<1>1. /\ UNCHANGED <<pc, ret, fnEnd, await, count, net, answer, server, history>>
      /\ ctx' \in {ctx, "done"} /\ msg' \in CallerMessages \union {msg}
      /\ lazy' \in {lazy, {Bound}} /\ (lazy' # lazy => pc = "fn")
  BY DEF Cancel, HandleStream, Edit, control, caller, bind, Bound
<1>2. Bound \in Messages
  BY DEF Bound, Messages
<1>3. ControlType' /\ RpcType' /\ WriteType' /\ FlagType'
  <2>1. ControlType' /\ RpcType' /\ WriteType'
    BY <1>1, <1>2, TypeParts DEF Inv, ControlType, RpcType, WriteType, server, history
  <2> QED BY <1>1, <2>1, TypeParts, Zenon DEF Inv, FlagType, server, history
<1>4. RequestInv'
  BY <1>1 DEF Inv, RequestInv, WellFormed, history
<1>5. BeginInv'
  BY <1>1 DEF Inv, BeginInv, PhaseInv, server, history
<1>6. AwaitInv' /\ PhaseInv' /\ CountInv' /\ AnswerInv' /\ WriteInv'
  BY <1>1 DEF Inv, AwaitInv, PhaseInv, CountInv, AnswerInv, WriteInv, server, history
<1>7. Safety'
  BY <1>1 DEF Inv, Safety, OutcomeIsTrue, FailedFnNeverCommits, HandleIsConfined, server, history
<1> QED BY <1>3, <1>4, <1>5, <1>6, <1>7, NextTypeParts DEF Inv

\* A call on the handle, or the stream built on it: a bound copy goes out.
LEMMA HandleStep == ASSUME Inv, HandleCall \/ RangeStream PROVE Inv'
<1>1. /\ UNCHANGED <<pc, ret, fnEnd, ctx, caller, server, lost, acked>> /\ pc \in {"fn", "done"} /\ count <= MaxCalls
      /\ stmts' = stmts \union {count'} /\ Send("handle", Bound, FALSE)
      /\ sess # None
  <2>1. CASE HandleCall
    BY <2>1 DEF HandleCall, bind, Bound, Inv, PhaseInv
  <2>2. CASE RangeStream
    BY <2>2 DEF RangeStream, Inv, RequestInv, BeginInv
  <2> QED BY <2>1, <2>2
<1>2. PICK r \in Requests :
         r.n = count + 1 /\ r.kind = "handle" /\ r.m = Bound /\ await' = {r} /\ net' \subseteq net \union {r} /\ net' \subseteq Requests
  <2>1. "handle" \in Kinds /\ Bound \in Messages /\ count <= MaxCalls + 2
    BY <1>1, Sendable
  <2> QED BY <1>1, <2>1, SendStep, Zenon
<1>10. /\ answer' = None /\ count' = count + 1 /\ count \in Nat /\ count' \in Nat /\ count' \in 0..(MaxCalls + 3)
       /\ \A q \in net : q.n <= count /\ q.n # count + 1 /\ q.n \in Nat
       /\ count + 1 \notin escaped /\ count + 1 \in Ordinals /\ 1..count \subseteq 1..count' /\ count' \in 1..count'
  BY <1>1, SendStep, Sendable
<1>3. ControlType' /\ RpcType' /\ WriteType' /\ FlagType'
  <2>1. ControlType' /\ RpcType' /\ WriteType'
    BY <1>1, <1>2, <1>10, TypeParts DEF Inv, ControlType, RpcType, WriteType, server, caller
  <2> QED BY <1>1, <2>1, TypeParts, Zenon DEF Inv, FlagType, server, history
<1>4. AwaitInv'
  BY <1>1, <1>2, <1>10 DEF AwaitInv
<1>5. RequestInv'
  <2>1. WellFormed(r)'
    BY <1>1, <1>2, <1>10 DEF WellFormed
  <2>2. ASSUME NEW q \in net PROVE WellFormed(q)'
    BY <1>1, <1>10 DEF Inv, RequestInv, WellFormed
  <2> QED BY <1>1, <1>2, <2>1, <2>2 DEF Inv, RequestInv, caller
<1>6. PhaseInv' /\ BeginInv'
  BY <1>1, <1>2 DEF Inv, PhaseInv, BeginInv, caller, server
<1>7. CountInv' /\ WriteInv'
  BY <1>1, <1>10, MaxCallsAssumption DEF Inv, CountInv, WriteInv, server
<1>8. AnswerInv'
  BY <1>10 DEF AnswerInv, None
<1>9. Safety'
  BY <1>1, <1>2, <1>10 DEF Inv, Safety, OutcomeIsTrue, FailedFnNeverCommits, HandleIsConfined, server
<1> QED BY <1>3, <1>4, <1>5, <1>6, <1>7, <1>8, <1>9, NextTypeParts DEF Inv

\* A call through Client.Raw(): the caller's own message, which never names the transaction.
LEMMA RawStep == ASSUME Inv, RawCall PROVE Inv'
<1>1. /\ UNCHANGED <<pc, ret, fnEnd, ctx, caller, server, history>> /\ pc \in {"fn", "done"} /\ count <= MaxCalls
      /\ Send("raw", msg, FALSE)
  BY DEF RawCall
<1>2. "raw" \in Kinds /\ msg \in Messages /\ count <= MaxCalls + 2 /\ msg.tx # "mine"
  <2>1. msg \in CallerMessages
    BY DEF Inv, TypeOK
  <2>2. msg.tx # "mine"
    <3>1. Empty.tx = None /\ [Empty EXCEPT !.db = "other", !.tx = "other"].tx = "other" /\ [Empty EXCEPT !.commit = TRUE].tx = None
      BY DEF Empty
    <3> QED BY <2>1, <3>1 DEF CallerMessages, None
  <2> QED BY <1>1, <2>1, <2>2, Sendable
<1>3. PICK r \in Requests :
         r.n = count + 1 /\ r.kind = "raw" /\ r.m = msg /\ await' = {r} /\ net' \subseteq net \union {r} /\ net' \subseteq Requests
  <2>1. Send("raw", msg, FALSE) /\ "raw" \in Kinds /\ msg \in Messages /\ FALSE \in BOOLEAN /\ count <= MaxCalls + 2
    BY <1>1, <1>2
  <2> QED BY <2>1, SendStep, Zenon
<1>4. /\ answer' = None /\ count' = count + 1 /\ count \in Nat /\ count' \in Nat /\ count' \in 0..(MaxCalls + 3)
      /\ \A q \in net : q.n <= count /\ q.n \in Nat
      /\ count + 1 \notin stmts /\ 1..count \subseteq 1..count'
  BY <1>1, <1>2, SendStep
<1>5. ControlType' /\ RpcType' /\ WriteType' /\ FlagType'
  <2>1. ControlType' /\ RpcType' /\ WriteType'
    BY <1>1, <1>3, <1>4, TypeParts DEF Inv, ControlType, RpcType, WriteType, server, caller, history
  <2> QED BY <1>1, <2>1, TypeParts, Zenon DEF Inv, FlagType, server, history
<1>6. AwaitInv'
  BY <1>1, <1>3, <1>4 DEF AwaitInv
<1>7. RequestInv'
  <2>1. WellFormed(r)'
    BY <1>1, <1>2, <1>3, <1>4 DEF WellFormed, history
  <2>2. ASSUME NEW q \in net PROVE WellFormed(q)'
    BY <1>1, <1>4 DEF Inv, RequestInv, WellFormed, history
  <2> QED BY <1>1, <1>3, <2>1, <2>2 DEF Inv, RequestInv, caller
<1>8. PhaseInv' /\ BeginInv'
  BY <1>1, <1>3 DEF Inv, PhaseInv, BeginInv, caller, server, history
<1>9. CountInv' /\ WriteInv'
  BY <1>1, <1>4, MaxCallsAssumption DEF Inv, CountInv, WriteInv, server, history
<1>10. AnswerInv'
  BY <1>4 DEF AnswerInv, None
<1>11. Safety'
  BY <1>1, <1>3 DEF Inv, Safety, OutcomeIsTrue, FailedFnNeverCommits, HandleIsConfined, server, history
<1> QED BY <1>5, <1>6, <1>7, <1>8, <1>9, <1>10, <1>11, NextTypeParts DEF Inv

\* The begin goes out, or the isolation level is refused.
LEMMA BeginStep == ASSUME Inv, Begin PROVE Inv'
<1>1. UNCHANGED <<fnEnd, ctx, caller, server, history>> /\ pc = "idle" /\ net = {} /\ sess = None /\ ret = None /\ await = {} /\ count = 0
  BY DEF Begin, Inv, BeginInv, PhaseInv, CountInv, AwaitInv
<1>2. CASE pc' = "done" /\ ret' = "isolation" /\ UNCHANGED <<await, count, net, answer>>
  <2>1. ControlType' /\ RpcType' /\ WriteType' /\ FlagType'
    <3>1. ControlType' /\ RpcType' /\ WriteType'
      BY <1>1, <1>2, TypeParts DEF Inv, ControlType, RpcType, WriteType, server, caller, history
    <3> QED BY <1>1, <3>1, TypeParts, Zenon DEF Inv, FlagType, server, history
  <2>2. AwaitInv' /\ RequestInv' /\ PhaseInv' /\ CountInv' /\ BeginInv' /\ AnswerInv' /\ WriteInv'
    BY <1>1, <1>2 DEF Inv, AwaitInv, RequestInv, PhaseInv, CountInv, BeginInv, AnswerInv, WriteInv, caller, server, history
  <2>3. Safety'
    BY <1>1, <1>2 DEF Inv, Safety, OutcomeIsTrue, FailedFnNeverCommits, HandleIsConfined, BeginInv, server, history
  <2> QED BY <2>1, <2>2, <2>3, NextTypeParts DEF Inv
<1>3. CASE pc' = "begin" /\ Send("begin", Empty, FALSE) /\ UNCHANGED ret
  <2>1. "begin" \in Kinds /\ Empty \in Messages /\ count <= MaxCalls + 2
    BY <1>1, Sendable, MaxCallsAssumption
  <2>2. PICK r \in Requests :
           r.n = count + 1 /\ r.kind = "begin" /\ r.m = Empty /\ await' = {r} /\ net' \subseteq net \union {r} /\ net' \subseteq Requests
    BY <1>3, <2>1, SendStep, Zenon
  <2>3. /\ answer' = None /\ count' = count + 1 /\ count' \in 0..(MaxCalls + 3) /\ 1..count \subseteq 1..count'
    BY <1>3, <2>1, SendStep
  <2>4. ControlType' /\ RpcType' /\ WriteType' /\ FlagType'
    <3>1. ControlType' /\ RpcType' /\ WriteType'
      BY <1>1, <1>3, <2>2, <2>3, TypeParts DEF Inv, ControlType, RpcType, WriteType, server, caller, history
    <3> QED BY <1>1, <3>1, TypeParts, Zenon DEF Inv, FlagType, server, history
  <2>5. AwaitInv' /\ PhaseInv' /\ AnswerInv'
    BY <1>1, <1>3, <2>2, <2>3 DEF Inv, AwaitInv, PhaseInv, AnswerInv, server, None
  <2>6. RequestInv'
    BY <1>1, <2>2, <2>3 DEF Inv, RequestInv, WellFormed, caller
  <2>7. BeginInv'
    BY <1>1, <1>3, <2>2 DEF Inv, BeginInv, caller, server, history
  <2>8. CountInv' /\ WriteInv'
    BY <1>1, <1>3, <2>3, MaxCallsAssumption DEF Inv, CountInv, WriteInv, server, history
  <2>9. Safety'
    BY <1>1, <1>3, <2>2 DEF Inv, Safety, OutcomeIsTrue, FailedFnNeverCommits, HandleIsConfined, server, history
  <2> QED BY <2>4, <2>5, <2>6, <2>7, <2>8, <2>9, NextTypeParts DEF Inv
<1> QED BY <1>2, <1>3 DEF Begin

\* Only a callback that returned nil sends a commit; any other sends a rollback that the
\* caller's context does not cancel.
LEMMA FnEndsStep == ASSUME Inv, NEW e \in {"nil", "error", "panic", "goexit"}, FnEnds(e) PROVE Inv'
<1>1. /\ UNCHANGED <<ret, ctx, caller, server, history>> /\ pc = "fn" /\ fnEnd = None /\ ret = None
      /\ fnEnd' = e /\ sess \notin {None, "committed"} /\ count <= MaxCalls + 1 /\ count \in Nat
      /\ \A q \in net : q.kind \notin {"commit", "begin"}
  BY DEF FnEnds, Inv, TypeOK, PhaseInv, CountInv, BeginInv, None
<1>2. PICK k \in {"commit", "rollback"} :
         /\ pc' = k /\ (k = "commit" <=> e = "nil")
         /\ Send(k, Bound, k = "rollback")
  BY Sendable DEF FnEnds
<1>3. k \in Kinds /\ Bound \in Messages /\ count <= MaxCalls + 2 /\ (k = "rollback") \in BOOLEAN
  BY <1>1, Sendable, MaxCallsAssumption
<1>4. PICK r \in Requests :
         r.n = count + 1 /\ r.kind = k /\ r.m = Bound /\ await' = {r} /\ net' \subseteq net \union {r} /\ net' \subseteq Requests
  BY <1>2, <1>3, SendStep, Zenon
<1>5. /\ answer' = None /\ count' = count + 1 /\ count' \in Nat /\ count' \in 0..(MaxCalls + 3)
      /\ \A q \in net : q.n <= count /\ q.n \in Nat
      /\ 1..count \subseteq 1..count'
  BY <1>2, <1>3, SendStep
<1>6. k = "rollback" => r.detached
  BY <1>2, <1>4, SentDetached
<1>7. ControlType' /\ RpcType' /\ WriteType' /\ FlagType'
  <2>1. ControlType' /\ RpcType' /\ WriteType'
    BY <1>1, <1>2, <1>4, <1>5, TypeParts DEF Inv, ControlType, RpcType, WriteType, server, caller, history
  <2> QED BY <1>1, <2>1, TypeParts, Zenon DEF Inv, FlagType, server, history
<1>8. AwaitInv' /\ AnswerInv'
  BY <1>2, <1>4, <1>5 DEF AwaitInv, AnswerInv, None
<1>9. RequestInv'
  <2>1. WellFormed(r)'
    BY <1>1, <1>2, <1>4, <1>5, <1>6 DEF WellFormed
  <2>2. ASSUME NEW q \in net PROVE WellFormed(q)'
    BY <1>1, <1>5 DEF Inv, RequestInv, WellFormed, history
  <2> QED BY <1>1, <1>4, <2>1, <2>2 DEF Inv, RequestInv, caller
<1>10. PhaseInv' /\ BeginInv'
  BY <1>1, <1>2, <1>4 DEF Inv, PhaseInv, BeginInv, server, None
<1>11. CountInv' /\ WriteInv'
  BY <1>1, <1>2, <1>5, MaxCallsAssumption DEF Inv, CountInv, WriteInv, server, history
<1>12. Safety'
  BY <1>1, <1>2, <1>4 DEF Inv, Safety, OutcomeIsTrue, FailedFnNeverCommits, HandleIsConfined, server, history
<1> QED BY <1>7, <1>8, <1>9, <1>10, <1>11, <1>12, NextTypeParts DEF Inv

\* The rollback after a commit that failed.
LEMMA CleanupStep == ASSUME Inv, Cleanup PROVE Inv'
<1>1. /\ UNCHANGED <<ret, fnEnd, ctx, caller, server, history>> /\ pc = "cleanup" /\ fnEnd = "nil" /\ ret = None
      /\ pc' = "cleaning" /\ sess # None /\ count <= MaxCalls + 2 /\ Send("rollback", Bound, TRUE)
      /\ \A q \in net : q.kind # "begin"
  BY Sendable DEF Cleanup, Inv, PhaseInv, CountInv, BeginInv, None
<1>3. "rollback" \in Kinds /\ Bound \in Messages
  BY <1>1, Sendable
<1>4. PICK r \in Requests :
         r.n = count + 1 /\ r.kind = "rollback" /\ r.m = Bound /\ await' = {r} /\ net' \subseteq net \union {r} /\ net' \subseteq Requests
  BY <1>1, <1>3, SendStep, Zenon
<1>5. /\ answer' = None /\ count' = count + 1 /\ count \in Nat /\ count' \in Nat /\ count' \in 0..(MaxCalls + 3)
      /\ \A q \in net : q.n <= count /\ q.n \in Nat
      /\ 1..count \subseteq 1..count'
  BY <1>1, <1>3, SendStep
<1>6. r.detached
  BY <1>1, <1>4, SentDetached
<1>7. ControlType' /\ RpcType' /\ WriteType' /\ FlagType'
  <2>1. ControlType' /\ RpcType' /\ WriteType'
    BY <1>1, <1>4, <1>5, TypeParts DEF Inv, ControlType, RpcType, WriteType, server, caller, history
  <2> QED BY <1>1, <2>1, TypeParts, Zenon DEF Inv, FlagType, server, history
<1>8. AwaitInv' /\ AnswerInv'
  BY <1>1, <1>4, <1>5 DEF AwaitInv, AnswerInv, None
<1>9. RequestInv'
  <2>1. WellFormed(r)'
    BY <1>1, <1>4, <1>5, <1>6 DEF WellFormed
  <2>2. ASSUME NEW q \in net PROVE WellFormed(q)'
    BY <1>1, <1>5 DEF Inv, RequestInv, WellFormed, history
  <2> QED BY <1>1, <1>4, <2>1, <2>2 DEF Inv, RequestInv, caller
<1>10. PhaseInv' /\ BeginInv'
  BY <1>1, <1>4 DEF Inv, PhaseInv, BeginInv, server, None
<1>11. CountInv' /\ WriteInv'
  BY <1>1, <1>5, MaxCallsAssumption DEF Inv, CountInv, WriteInv, server, history
<1>12. Safety'
  BY <1>1, <1>4 DEF Inv, Safety, OutcomeIsTrue, FailedFnNeverCommits, HandleIsConfined, server, history
<1> QED BY <1>7, <1>8, <1>9, <1>10, <1>11, <1>12, NextTypeParts DEF Inv

\* A call of the callback, or one made after the transaction, ends: a success is true.
LEMMA CallEndsStep == ASSUME Inv, CallEnds PROVE Inv'
<1>1. PICK r \in await :
         /\ UNCHANGED <<pc, ret, fnEnd, ctx, count, caller, net, server, stmts>> /\ pc \in {"fn", "done"}
         /\ await' = {} /\ answer' = None /\ lost' \in {lost, TRUE} /\ (lost' # lost => lost')
         /\ \/ acked' = acked
            \/ answer = "ok" /\ r.kind = "handle" /\ acked' = acked \union {r.n}
  BY DEF CallEnds, Done, Fails
<1>2. r \in Requests /\ WellFormed(r)
  BY DEF Inv, TypeOK, RequestInv
<1>3. ControlType' /\ RpcType' /\ WriteType' /\ FlagType'
  <2>1. ControlType' /\ RpcType' /\ WriteType'
    BY <1>1, <1>2, TypeParts DEF Inv, ControlType, RpcType, WriteType, Requests, server, caller
  <2>2. FlagType'
    BY <1>1, TypeParts, Zenon DEF Inv, FlagType, server, history
  <2> QED BY <2>1, <2>2
<1>4. AwaitInv' /\ RequestInv' /\ PhaseInv' /\ CountInv' /\ AnswerInv'
  BY <1>1 DEF Inv, AwaitInv, RequestInv, WellFormed, PhaseInv, CountInv, AnswerInv, caller, server
<1>5. BeginInv'
  BY <1>1, <1>2 DEF Inv, BeginInv, WellFormed, caller, server
<1>6. WriteInv'
  BY <1>1 DEF Inv, WriteInv, AnswerInv, server
<1>7. Safety'
  <2>1. ret = "ok" => acked' \subseteq durable
    BY <1>1 DEF Inv, Safety, OutcomeIsTrue, AnswerInv, WriteInv
  <2> QED BY <1>1, <2>1 DEF Inv, Safety, OutcomeIsTrue, FailedFnNeverCommits, HandleIsConfined, server
<1> QED BY <1>3, <1>4, <1>5, <1>6, <1>7, NextTypeParts DEF Inv

\* The reply to begin, commit or rollback is taken.
LEMMA ReplyStep == ASSUME Inv, Begun \/ RolledBack \/ Committed \/ Cleaned PROVE Inv'
<1>1. /\ UNCHANGED <<fnEnd, ctx, count, caller, net, server, stmts, acked>>
      /\ await' = {} /\ answer' = None /\ lost' \in {lost, TRUE}
  BY DEF Begun, RolledBack, Committed, Cleaned, Done, Fails
<1>2. FlagType'
  BY <1>1, TypeParts, Zenon DEF Inv, FlagType, server, history
<1>3. RequestInv' /\ AnswerInv' /\ WriteInv' /\ RpcType' /\ WriteType'
  BY <1>1, TypeParts DEF Inv, RequestInv, WellFormed, AnswerInv, WriteInv, RpcType, WriteType, caller, server
<1>4. HandleIsConfined' /\ FailedFnNeverCommits'
  BY <1>1 DEF Inv, Safety, HandleIsConfined, FailedFnNeverCommits, server
<1>5. CASE Begun
  <2>1. /\ pc = "begin" /\ fnEnd = None /\ ret = None /\ sess # "committed"
        /\ \/ pc' = "fn" /\ sess # None /\ ret' = ret
           \/ pc' = "done" /\ ret' \in {"noid", "begin"}
    BY <1>5 DEF Begun, Done, Fails, Inv, PhaseInv, AwaitInv, AnswerInv, None
  <2>2. \A q \in net : pc' = "fn" => q.kind # "begin"
    BY <2>1 DEF Inv, BeginInv
  <2>3. ControlType' /\ AwaitInv' /\ PhaseInv' /\ CountInv' /\ BeginInv'
    BY <1>1, <2>1, <2>2, TypeParts DEF Inv, ControlType, AwaitInv, PhaseInv, CountInv, BeginInv, caller, server, None
  <2>4. OutcomeIsTrue'
    BY <1>1, <2>1 DEF OutcomeIsTrue, None
  <2> QED BY <1>2, <1>3, <1>4, <2>3, <2>4, NextTypeParts DEF Inv, Safety
<1>6. CASE RolledBack
  <2>1. /\ pc = "rollback" /\ pc' = "done" /\ fnEnd \in {"error", "panic", "goexit"} /\ sess \notin {None, "committed"}
        /\ \/ answer = "ok" /\ ret' = fnEnd /\ sess # "open"
           \/ ret' = (IF fnEnd = "error" THEN "txerror" ELSE fnEnd)
    BY <1>6 DEF RolledBack, Done, Fails, Inv, PhaseInv, AwaitInv, AnswerInv, None
  <2>2. ~lost' => sess # "open" \/ refused
    <3>1. CASE Fails
      BY <2>1, <3>1 DEF Fails, Inv, AwaitInv, RequestInv, WellFormed
    <3>2. CASE Done("ok") \/ Done("error")
      BY <1>1, <2>1, <3>2 DEF Done, Inv, AwaitInv, AnswerInv
    <3> QED BY <1>6, <3>1, <3>2 DEF RolledBack
  <2>3. ControlType' /\ AwaitInv' /\ PhaseInv' /\ CountInv' /\ BeginInv'
    BY <1>1, <2>1, TypeParts DEF Inv, ControlType, AwaitInv, PhaseInv, CountInv, BeginInv, caller, server, None
  <2>4. OutcomeIsTrue'
    BY <1>1, <2>1, <2>2 DEF OutcomeIsTrue, Inv, TypeOK, server
  <2> QED BY <1>2, <1>3, <1>4, <2>3, <2>4, NextTypeParts DEF Inv, Safety
<1>7. CASE Committed
  <2>1. /\ pc = "commit" /\ fnEnd = "nil" /\ sess # None /\ ret = None
        /\ \/ pc' = "done" /\ ret' = "ok" /\ sess = "committed"
           \/ pc' = "done" /\ ret' = "notcommitted" /\ sess = "rolledback"
           \/ pc' = "cleanup" /\ ret' = ret
    BY <1>7 DEF Committed, Done, Fails, Inv, PhaseInv, AwaitInv, AnswerInv, None
  <2>2. ControlType' /\ AwaitInv' /\ PhaseInv' /\ CountInv' /\ BeginInv'
    BY <1>1, <2>1, TypeParts DEF Inv, ControlType, AwaitInv, PhaseInv, CountInv, BeginInv, caller, server, None
  <2>3. OutcomeIsTrue'
    BY <1>1, <2>1 DEF OutcomeIsTrue, Inv, WriteInv, server, None
  <2> QED BY <1>2, <1>3, <1>4, <2>2, <2>3, NextTypeParts DEF Inv, Safety
<1>8. CASE Cleaned
  <2>1. pc = "cleaning" /\ fnEnd = "nil" /\ sess # None /\ ret = None /\ pc' = "done" /\ ret' = "commit"
    BY <1>8 DEF Cleaned, Inv, PhaseInv, None
  <2>2. ~lost' => sess # "open" \/ refused
    <3>1. CASE Fails
      BY <2>1, <3>1 DEF Fails, Inv, AwaitInv, RequestInv, WellFormed
    <3>2. CASE Done("ok") \/ Done("error")
      BY <1>1, <2>1, <3>2 DEF Done, Inv, AwaitInv, AnswerInv
    <3> QED BY <1>8, <3>1, <3>2 DEF Cleaned
  <2>3. ControlType' /\ AwaitInv' /\ PhaseInv' /\ CountInv' /\ BeginInv'
    BY <1>1, <2>1, TypeParts DEF Inv, ControlType, AwaitInv, PhaseInv, CountInv, BeginInv, caller, server, None
  <2>4. OutcomeIsTrue'
    BY <1>1, <2>1, <2>2 DEF OutcomeIsTrue, server
  <2> QED BY <1>2, <1>3, <1>4, <2>3, <2>4, NextTypeParts DEF Inv, Safety
<1> QED BY <1>5, <1>6, <1>7, <1>8

\* What every answer of the server leaves as it was.
LEMMA AnswersStep ==
  ASSUME Inv, NEW r \in net, NEW a \in {"ok", "blank", "uncommitted", "error"}, Answers(r, a)
  PROVE  /\ UNCHANGED <<control, caller, history>> /\ net' = net \ {r}
         /\ answer' = (IF r \in await THEN a ELSE answer)
         /\ AwaitInv' /\ RequestInv' /\ CountInv' /\ RpcType'
         /\ \A q \in net : WellFormed(q) /\ q \in Requests
<1>1. UNCHANGED <<control, caller, history>> /\ net' = net \ {r} /\ answer' = (IF r \in await THEN a ELSE answer)
  BY DEF Answers
<1>2. AwaitInv'
  BY <1>1 DEF Inv, AwaitInv, control
<1>3. RequestInv' /\ CountInv' /\ RpcType'
  BY <1>1, TypeParts DEF Inv, RequestInv, WellFormed, CountInv, RpcType, control, caller, history
<1>4. \A q \in net : WellFormed(q) /\ q \in Requests
  BY DEF Inv, RequestInv, TypeOK
<1> QED BY <1>1, <1>2, <1>3, <1>4

\* The server begins a transaction, once at most.
LEMMA SrvBeginStep == ASSUME Inv, NEW r \in net, SrvBegin(r) PROVE Inv'
<1>1. /\ r.kind = "begin" /\ sess = None /\ pc \in {"begin", "done"} /\ fnEnd = None /\ lazy = {} /\ stmts = {} /\ acked = {} /\ buf = {}
      /\ \A q \in net \ {r} : q.kind # "begin"
      /\ durable = {} /\ ret \notin {"ok", "notcommitted", "error"}
  BY DEF SrvBegin, Inv, BeginInv, WriteInv, None
<1>2. PICK a \in {"ok", "blank", "error"} :
         Answers(r, a) /\ UNCHANGED <<buf, durable, escaped, partial, refused>> /\ (sess' = "open" \/ (a = "error" /\ sess' = sess))
  BY DEF SrvBegin
<1>3. /\ UNCHANGED <<control, caller, history>> /\ net' = net \ {r} /\ answer' = (IF r \in await THEN a ELSE answer)
      /\ AwaitInv' /\ RequestInv' /\ CountInv' /\ RpcType'
  BY <1>2, AnswersStep
<1>9. FlagType'
  BY <1>2, <1>3, TypeParts, Zenon DEF Inv, FlagType, history
<1>4. ControlType' /\ WriteType'
  BY <1>2, <1>3, TypeParts DEF Inv, ControlType, WriteType, control, history
<1>5. PhaseInv' /\ BeginInv'
  BY <1>1, <1>2, <1>3 DEF Inv, PhaseInv, BeginInv, control, caller, history, None
<1>6. AnswerInv'
  <2>1. \A q \in await : q.kind = "begin" \/ q.kind = "raw"
    BY <1>1 DEF Inv, AwaitInv, RequestInv, WellFormed
  <2>2. \A q \in await : r \in await => q = r
    BY DEF Inv, AwaitInv
  <2> QED BY <1>1, <1>2, <1>3, <2>1, <2>2 DEF Inv, AnswerInv, control, None
<1>7. WriteInv'
  BY <1>1, <1>2, <1>3 DEF Inv, WriteInv, control, history, None
<1>8. Safety'
  BY <1>1, <1>2, <1>3 DEF Inv, Safety, OutcomeIsTrue, FailedFnNeverCommits, HandleIsConfined, control, history
<1> QED BY <1>3, <1>4, <1>5, <1>6, <1>7, <1>8, <1>9, NextTypeParts DEF Inv

\* A call that names the transaction is one of the handle, and never commits it.
LEMMA SrvCallStep == ASSUME Inv, NEW r \in net, SrvCall(r) PROVE Inv'
<1>1. r.kind = "handle" /\ r.m = Bound /\ ~r.m.commit /\ r.n \in stmts /\ r.n \in Ordinals
  BY DEF SrvCall, Inv, RequestInv, WellFormed, Bound, TypeOK, Requests
<1>2. PICK a \in {"ok", "error"} :
         /\ Answers(r, a) /\ UNCHANGED <<sess, escaped, refused>>
         /\ \/ a = "ok" /\ sess = "open" /\ buf' = buf \union {r.n} /\ UNCHANGED <<durable, partial>>
            \/ a = "ok" /\ sess = "open" /\ durable' = durable \union buf \union {r.n} /\ buf' = {} /\ partial' = TRUE
            \/ a = "error" /\ UNCHANGED <<buf, durable, partial>>
  BY <1>1 DEF SrvCall
<1>3. /\ UNCHANGED <<control, caller, history>> /\ net' = net \ {r} /\ answer' = (IF r \in await THEN a ELSE answer)
      /\ AwaitInv' /\ RequestInv' /\ CountInv' /\ RpcType'
  BY <1>2, AnswersStep
<1>9. FlagType'
  BY <1>2, <1>3, TypeParts, Zenon DEF Inv, FlagType, history
<1>4. ControlType' /\ WriteType'
  BY <1>1, <1>2, <1>3, TypeParts DEF Inv, ControlType, WriteType, control, history
<1>5. PhaseInv' /\ BeginInv'
  BY <1>1, <1>2, <1>3 DEF Inv, PhaseInv, BeginInv, control, caller, history, None
<1>6. AnswerInv'
  <2>1. \A q \in await : r \in await => q = r
    BY DEF Inv, AwaitInv
  <2> QED BY <1>1, <1>2, <1>3, <2>1 DEF Inv, AnswerInv, control
<1>7. WriteInv'
  BY <1>2, <1>3 DEF Inv, WriteInv, control, history
<1>8. Safety'
  BY <1>1, <1>2, <1>3 DEF Inv, Safety, OutcomeIsTrue, FailedFnNeverCommits, HandleIsConfined, control, history
<1> QED BY <1>3, <1>4, <1>5, <1>6, <1>7, <1>8, <1>9, NextTypeParts DEF Inv

\* A call that lands elsewhere is none of the handle.
LEMMA SrvElsewhereStep == ASSUME Inv, NEW r \in net, SrvCallElsewhere(r) PROVE Inv'
<1>1. r.kind = "raw" /\ r.n \notin stmts /\ r.n \in Ordinals /\ r.n \in 1..count
  <2>1. r.n <= count /\ r.n \in Ordinals /\ count \in Nat
    BY DEF Inv, RequestInv, WellFormed, TypeOK, Requests
  <2> QED BY <2>1, MaxCallsAssumption DEF SrvCallElsewhere, Inv, RequestInv, WellFormed, Bound, Ordinals
<1>2. Answers(r, "ok") /\ UNCHANGED <<sess, buf, durable, partial, refused>> /\ escaped' = escaped \union {r.n}
  BY DEF SrvCallElsewhere
<1>3. /\ UNCHANGED <<control, caller, history>> /\ net' = net \ {r} /\ answer' = (IF r \in await THEN "ok" ELSE answer)
      /\ AwaitInv' /\ RequestInv' /\ CountInv' /\ RpcType'
  BY <1>2, AnswersStep
<1>9. FlagType'
  BY <1>2, <1>3, TypeParts, Zenon DEF Inv, FlagType, history
<1>4. ControlType' /\ WriteType'
  BY <1>1, <1>2, <1>3, TypeParts DEF Inv, ControlType, WriteType, control, history
<1>5. PhaseInv' /\ BeginInv'
  BY <1>2, <1>3 DEF Inv, PhaseInv, BeginInv, control, caller, history
<1>6. AnswerInv'
  <2>1. \A q \in await : r \in await => q = r
    BY DEF Inv, AwaitInv
  <2> QED BY <1>1, <1>2, <1>3, <2>1 DEF Inv, AnswerInv, control
<1>7. WriteInv'
  BY <1>1, <1>2, <1>3 DEF Inv, WriteInv, control, history
<1>8. Safety'
  BY <1>1, <1>2, <1>3 DEF Inv, Safety, OutcomeIsTrue, FailedFnNeverCommits, HandleIsConfined, control, history
<1> QED BY <1>3, <1>4, <1>5, <1>6, <1>7, <1>8, <1>9, NextTypeParts DEF Inv

\* A commit takes effect only for a callback that returned nil, and publishes what is held.
LEMMA SrvCommitStep == ASSUME Inv, NEW r \in net, SrvCommit(r) PROVE Inv'
<1>1. r.kind = "commit" /\ fnEnd = "nil" /\ sess \in {"open", "rolledback"} /\ (\A q \in net : q.kind # "begin")
  BY DEF SrvCommit, Inv, PhaseInv, BeginInv, None
<1>2. PICK a \in {"ok", "uncommitted", "error"} :
         /\ Answers(r, a) /\ UNCHANGED <<escaped, partial, refused>>
         /\ \/ a = "ok" /\ sess = "open" /\ sess' = "committed" /\ durable' = durable \union buf /\ buf' = {}
            \/ a = "error" /\ sess = "open" /\ sess' = "open" /\ buf' = buf /\ durable' = durable
            \/ a = "error" /\ sess = "open" /\ sess' = "rolledback" /\ buf' = {} /\ durable' = durable
            \/ a \in {"uncommitted", "error"} /\ sess = "rolledback" /\ UNCHANGED <<sess, buf, durable>>
  BY DEF SrvCommit
<1>3. /\ UNCHANGED <<control, caller, history>> /\ net' = net \ {r} /\ answer' = (IF r \in await THEN a ELSE answer)
      /\ AwaitInv' /\ RequestInv' /\ CountInv' /\ RpcType'
  BY <1>2, AnswersStep
<1>9. FlagType'
  BY <1>2, <1>3, TypeParts, Zenon DEF Inv, FlagType, history
<1>4. ControlType' /\ WriteType'
  BY <1>1, <1>2, <1>3, TypeParts DEF Inv, ControlType, WriteType, control, history
<1>5. PhaseInv' /\ BeginInv'
  BY <1>1, <1>2, <1>3 DEF Inv, PhaseInv, BeginInv, control, caller, history, None
<1>6. AnswerInv'
  <2>1. \A q \in await : r \in await => q = r
    BY DEF Inv, AwaitInv
  <2> QED BY <1>1, <1>2, <1>3, <2>1 DEF Inv, AnswerInv, control, None
<1>7. WriteInv'
  BY <1>1, <1>2, <1>3 DEF Inv, WriteInv, control, history
<1>8. Safety'
  <2>1. ret = "ok" => sess = "committed"
    BY DEF Inv, Safety, OutcomeIsTrue
  <2> QED BY <1>1, <1>2, <1>3, <2>1 DEF Inv, Safety, OutcomeIsTrue, FailedFnNeverCommits, HandleIsConfined, control, history
<1> QED BY <1>3, <1>4, <1>5, <1>6, <1>7, <1>8, <1>9, NextTypeParts DEF Inv

\* A rollback, and its answer, leave no transaction open.
LEMMA SrvRollbackStep == ASSUME Inv, NEW r \in net, SrvRollback(r) PROVE Inv'
<1>1. r.kind = "rollback"
  BY DEF SrvRollback
<1>2. PICK a \in {"ok", "error"} :
         /\ Answers(r, a) /\ UNCHANGED <<durable, escaped, partial>>
         /\ \/ sess = "open" /\ sess' = "rolledback" /\ buf' = {} /\ UNCHANGED refused
            \/ sess # "open" /\ UNCHANGED <<sess, buf, refused>>
            \/ sess = "open" /\ a = "error" /\ UNCHANGED <<sess, buf>> /\ refused' = TRUE
  <2>1. CASE sess = "open" /\ sess' = "rolledback" /\ buf' = {} /\ Answers(r, "ok") /\ UNCHANGED refused
    BY <2>1 DEF SrvRollback
  <2>2. CASE sess # "open" /\ UNCHANGED <<sess, buf, refused>> /\ Answers(r, "ok")
    BY <2>2 DEF SrvRollback
  <2>3. CASE UNCHANGED <<sess, buf>> /\ Answers(r, "error") /\ refused' = (refused \/ sess = "open")
    <3>1. (sess = "open" => refused' = TRUE) /\ (sess # "open" => refused' = refused)
      BY <2>3, TypeParts, Zenon DEF Inv, FlagType
    <3> QED BY <2>3, <3>1 DEF SrvRollback
  <2> QED BY <2>1, <2>2, <2>3 DEF SrvRollback
<1>3. /\ UNCHANGED <<control, caller, history>> /\ net' = net \ {r} /\ answer' = (IF r \in await THEN a ELSE answer)
      /\ AwaitInv' /\ RequestInv' /\ CountInv' /\ RpcType'
  BY <1>2, AnswersStep
<1>9. FlagType'
  BY <1>2, <1>3, TypeParts, Zenon DEF Inv, FlagType, history
<1>4. ControlType' /\ WriteType'
  BY <1>2, <1>3, TypeParts DEF Inv, ControlType, WriteType, control, history
<1>5. PhaseInv' /\ BeginInv'
  BY <1>2, <1>3 DEF Inv, PhaseInv, BeginInv, control, caller, history, None
<1>6. AnswerInv'
  <2>1. \A q \in await : r \in await => q = r
    BY DEF Inv, AwaitInv
  <2> QED BY <1>1, <1>2, <1>3, <2>1 DEF Inv, AnswerInv, control, None
<1>7. WriteInv'
  BY <1>2, <1>3 DEF Inv, WriteInv, control, history
<1>8. Safety'
  BY <1>2, <1>3 DEF Inv, Safety, OutcomeIsTrue, FailedFnNeverCommits, HandleIsConfined, WriteInv, control, history
<1> QED BY <1>3, <1>4, <1>5, <1>6, <1>7, <1>8, <1>9, NextTypeParts DEF Inv

\* The server reaps the transaction, or the network loses an RPC.
LEMMA FaultStep == ASSUME Inv, SrvReaps \/ \E r \in net : NetLoses(r) PROVE Inv'
<1>1. /\ UNCHANGED <<control, caller, answer, durable, escaped, partial, refused, stmts, acked>> /\ net' \subseteq net
      /\ lost' \in {lost, TRUE} /\ (net' = net \/ lost')
      /\ \/ UNCHANGED <<sess, buf>>
         \/ sess = "open" /\ sess' = "rolledback" /\ buf' = {} /\ lost' = lost
  BY DEF SrvReaps, NetLoses, server, history
<1>2. FlagType'
  BY <1>1, TypeParts, Zenon DEF Inv, FlagType, server, history
<1>3. ControlType' /\ RpcType' /\ WriteType'
  BY <1>1, TypeParts DEF Inv, ControlType, RpcType, WriteType, control, caller
<1>4. AwaitInv' /\ RequestInv' /\ CountInv'
  BY <1>1 DEF Inv, AwaitInv, RequestInv, WellFormed, CountInv, control, caller
<1>5. PhaseInv' /\ BeginInv'
  BY <1>1 DEF Inv, PhaseInv, BeginInv, control, caller, None
<1>6. AnswerInv' /\ WriteInv'
  BY <1>1 DEF Inv, AnswerInv, WriteInv, control, None
<1>7. Safety'
  <2>1. lost => lost'
    BY <1>1
  <2> QED BY <1>1, <2>1 DEF Inv, Safety, OutcomeIsTrue, FailedFnNeverCommits, HandleIsConfined, control
<1> QED BY <1>2, <1>3, <1>4, <1>5, <1>6, <1>7, NextTypeParts DEF Inv

LEMMA NextInv == ASSUME Inv, [Next]_vars PROVE Inv'
<1>1. CASE Client
  BY <1>1, LocalStep, HandleStep, RawStep, CallEndsStep, BeginStep, ReplyStep, CleanupStep, FnEndsStep DEF Client
<1>2. CASE Server
  BY <1>2, SrvBeginStep, SrvCallStep, SrvElsewhereStep, SrvCommitStep, SrvRollbackStep DEF Server
<1>3. CASE UNCHANGED vars
  <2>1. ControlType' /\ RpcType' /\ WriteType'
    BY <1>3, TypeParts DEF Inv, ControlType, RpcType, WriteType, vars, control, caller, server, history
  <2>2. FlagType'
    BY <1>3, TypeParts, Zenon DEF Inv, FlagType, vars, server, history
  <2>3. AwaitInv' /\ RequestInv' /\ PhaseInv' /\ CountInv' /\ BeginInv' /\ AnswerInv' /\ WriteInv'
    BY <1>3 DEF Inv, AwaitInv, RequestInv, WellFormed, PhaseInv, CountInv, BeginInv, AnswerInv, WriteInv,
                vars, control, caller, server, history
  <2>4. Safety'
    BY <1>3 DEF Inv, Safety, OutcomeIsTrue, FailedFnNeverCommits, HandleIsConfined, vars, control, server, history
  <2> QED BY <2>1, <2>2, <2>3, <2>4, NextTypeParts DEF Inv
<1> QED BY <1>1, <1>2, <1>3, LocalStep, FaultStep DEF Next

LEMMA Invariance == Spec => []Inv
  BY InitInv, NextInv, PTL DEF Spec

\* For every number of calls: nil means committed with every call that succeeded,
\* ErrNotCommitted and the callback's bare error mean rolled back, and without network losses
\* a transaction whose callback ran is not left open.
THEOREM OutcomeTrue == Spec => []OutcomeIsTrue
  BY Invariance, PTL DEF Inv, Safety

\* A callback that failed, panicked or exited is never committed, however late RPCs arrive.
THEOREM FailureNeverCommits == Spec => []FailedFnNeverCommits
  BY Invariance, PTL DEF Inv, Safety

\* A call through the handle takes effect in its transaction or not at all, and only such
\* calls do, whatever messages the caller reuses and whenever its streams are ranged over.
THEOREM HandleConfined == Spec => []HandleIsConfined
  BY Invariance, PTL DEF Inv, Safety

-----------------------------------------------------------------------------
(* The refinement: each step is a step of AtomicTx, or none. *)

\* Steps of the client: what Transaction returns is told once, and is true.
LEMMA ClientRefines ==
  ASSUME Inv', UNCHANGED <<sess, durable, partial>>, ret' = ret \/ ret = None
  PROVE  [Contract!Next]_(Contract!vars)
<1>1. CASE ret' = ret
  BY <1>1 DEF Contract!vars
<1>2. CASE ret = None /\ ret' # None
  BY <1>2 DEF Inv, Safety, OutcomeIsTrue, None, Contract!Next, Contract!Tell, Contract!vars
<1> QED BY <1>1, <1>2

\* Steps of the server: it commits or discards an open transaction, or neither.
LEMMA ServerRefines ==
  ASSUME Inv, Inv', UNCHANGED ret,
         \/ UNCHANGED <<sess, durable, partial>>
         \/ sess = None /\ sess' = "open" /\ UNCHANGED <<durable, partial>>
         \/ sess = "open" /\ sess' = "rolledback" /\ UNCHANGED <<durable, partial>>
         \/ sess = "open" /\ sess' = "committed" /\ durable \subseteq durable' /\ UNCHANGED partial
         \/ sess = "open" /\ UNCHANGED sess /\ durable \subseteq durable' /\ partial' = TRUE
  PROVE  [Contract!Next]_(Contract!vars)
<1>1. CASE UNCHANGED <<sess, durable, partial>> \/ (sess = None /\ sess' = "open" /\ UNCHANGED <<durable, partial>>)
  BY <1>1 DEF None, Contract!vars
<1>2. CASE sess = "open" /\ sess' = "rolledback" /\ UNCHANGED <<durable, partial>>
  BY <1>2 DEF Contract!Next, Contract!Discard
<1>3. durable' \in SUBSET Ordinals
  BY DEF Inv, TypeOK
<1>4. CASE sess = "open" /\ sess' = "committed" /\ durable \subseteq durable' /\ UNCHANGED partial
  BY <1>3, <1>4 DEF Contract!Next, Contract!Commit, Contract!Publish
<1>5. CASE sess = "open" /\ UNCHANGED sess /\ durable \subseteq durable' /\ partial' = TRUE
  BY <1>3, <1>5 DEF Contract!Next, Contract!PublishPart, Contract!Publish
<1> QED BY <1>1, <1>2, <1>4, <1>5

LEMMA NextRefines == ASSUME Inv, Inv', [Next]_vars PROVE [Contract!Next]_(Contract!vars)
<1>1. CASE Cancel \/ (\E r \in net : NetLoses(r)) \/ UNCHANGED vars
  BY <1>1, ClientRefines DEF Cancel, NetLoses, vars, control, server
<1>2. CASE Client
  <2>1. CASE HandleCall \/ HandleStream \/ RangeStream \/ RawCall \/ Edit \/ CallEnds
    BY <2>1, ClientRefines DEF HandleCall, HandleStream, RangeStream, RawCall, Edit, CallEnds, control, server
  <2>2. CASE Begin \/ Begun \/ RolledBack \/ Committed \/ Cleanup \/ Cleaned \/ \E e \in {"nil", "error", "panic", "goexit"} : FnEnds(e)
    <3>1. ret = None /\ UNCHANGED <<sess, durable, partial>>
      BY <2>2 DEF Begin, Begun, RolledBack, Committed, Cleanup, Cleaned, FnEnds, Inv, PhaseInv, server
    <3> QED BY <3>1, ClientRefines
  <2> QED BY <1>2, <2>1, <2>2 DEF Client
<1>3. ASSUME NEW r \in net, SrvBegin(r) PROVE [Contract!Next]_(Contract!vars)
  <2>1. sess = None
    BY <1>3 DEF SrvBegin, Inv, BeginInv
  <2> QED BY <1>3, <2>1, ServerRefines DEF SrvBegin, Answers, control
<1>4. ASSUME NEW r \in net, SrvCall(r) PROVE [Contract!Next]_(Contract!vars)
  <2>1. ~r.m.commit
    BY <1>4 DEF SrvCall, Inv, RequestInv, WellFormed, Bound
  <2> QED BY <1>4, <2>1, ServerRefines DEF SrvCall, Answers, control
<1>5. ASSUME NEW r \in net, SrvCallElsewhere(r) \/ SrvRollback(r) \/ SrvCommit(r) PROVE [Contract!Next]_(Contract!vars)
  BY <1>5, ServerRefines DEF SrvCallElsewhere, SrvRollback, SrvCommit, Answers, control
<1>6. CASE SrvReaps
  BY <1>6, ServerRefines DEF SrvReaps, control
<1> QED BY <1>1, <1>2, <1>3, <1>4, <1>5, <1>6 DEF Next, Server

\* The gRPC transaction implements AtomicTx for every bound, as the HTTP one does: the writes
\* made through the handle become durable with the commit, and what the caller is told is so.
THEOREM ImplementsContract == Spec => ContractSpec
<1>1. Init => Contract!Init
  BY DEF Init, Contract!Init, None
<1>2. Inv /\ Inv' /\ [Next]_vars => [Contract!Next]_(Contract!vars)
  BY NextRefines
<1> QED BY <1>1, <1>2, Invariance, PTL DEF Spec, ContractSpec, Contract!Spec
-----------------------------------------------------------------------------
(* The outcome is final. *)

\* A call that ran its callback and returned on a network that lost nothing, from a server
\* that did not refuse the rollback, or one whose caller was told commit or rollback.
Over == (pc = "done" /\ fnEnd # None /\ ~lost /\ ~refused) \/ ret \in {"ok", "notcommitted", "error"}

\* The contract's fate, once it is not open, is kept with what is durable.
LEMMA SettledIsKept ==
  ASSUME [Contract!Next]_(Contract!vars), sess \in {"committed", "rolledback"},
         sess' \in {None, "open", "committed", "rolledback"}
  PROVE  UNCHANGED <<sess, durable>>
BY DEF Contract!Next, Contract!vars, Contract!Commit, Contract!PublishPart, Contract!Discard,
       Contract!Tell, None

LEMMA OverIsSettled == ASSUME Inv, Over PROVE sess \in {"committed", "rolledback"}
BY DEF Over, Inv, TypeOK, PhaseInv, Safety, OutcomeIsTrue, None

\* Action property: once Transaction has returned, no RPC that is still on its way and no
\* stream built on the handle and ranged over only now changes what the transaction made
\* durable or how it ended (transaction.go: StreamQuery and TimeSeriesQuery of TxHandle return
\* a sequence the caller may keep).
THEOREM OutcomeIsFinal == Spec => [][Over => UNCHANGED <<sess, durable>>]_vars
<1>1. Inv /\ Inv' /\ [Next]_vars => [Over => UNCHANGED <<sess, durable>>]_vars
  <2> SUFFICES ASSUME Inv, Inv', [Next]_vars, Over PROVE UNCHANGED <<sess, durable>>
    OBVIOUS
  <2>1. sess' \in {None, "open", "committed", "rolledback"}
    BY DEF Inv, TypeOK
  <2> QED BY <2>1, NextRefines, SettledIsKept, OverIsSettled
<1> QED BY Invariance, <1>1, PTL DEF Spec
=============================================================================
