---------------------------- MODULE Transaction ----------------------------
(***************************************************************************)
(* Database.Transaction of the Go HTTP driver (go/arcadedb/transaction.go):*)
(* begin, the caller's callback, and the commit or rollback that ends it,  *)
(* with the callback's own requests, a context that may be cancelled at    *)
(* any moment, a network that loses requests and answers, and the server's *)
(* session, which it may also end by itself (external).                    *)
(*                                                                         *)
(* Every request travels on a connection of its own: a request the client  *)
(* gave up on may still reach the server, after later ones.                *)
(***************************************************************************)
EXTENDS Naturals, FiniteSets

CONSTANT MaxFn   \* bound: requests the callback sends

ASSUME MaxFnAssumption == MaxFn \in Nat

VARIABLES
  pc,       \* where Transaction is
  ret,      \* what it returned, or how it ended
  fnEnd,    \* how the callback ended: none, nil, error, panic, goexit
  ctx,      \* the caller's context: live or done
  net,      \* requests on their way to the server
  await,    \* the request the client waits for, as a set of at most one
  answer,   \* the answer to it that is on its way back
  count,    \* requests sent so far
  sess,     \* the server's session: none, open, committed, rolledback
  buf,      \* writes held in the session
  durable,  \* writes that are durable
  partial,  \* history: a statement published a commit of its own
  refused,  \* history: the server refused to roll back a session that is open
  lost,     \* history: a request or an answer was lost on the network
  stmts,    \* history: writes sent through the tx handle
  acked,    \* history: writes through the tx handle answered with success
  outside,  \* history: writes through the outer handle answered with success
  nested    \* history: the callback of a nested Transaction ran

client == <<pc, ret, fnEnd, ctx, await, count>>
server == <<sess, buf, durable, partial, refused>>
history == <<lost, stmts, acked, outside, nested>>
vars == <<client, net, answer, server, history>>

None == "none"
Kinds == {"begin", "stmt", "outer", "nested", "commit", "rollback"}

\* A request: its ordinal, what it asks, whether it carries the session id,
\* and whether it runs under context.WithoutCancel.
Request(k, sid, detached) == [n |-> count + 1, kind |-> k, sid |-> sid, detached |-> detached]
Requests == [n : 1..(MaxFn + 3), kind : Kinds, sid : BOOLEAN, detached : BOOLEAN]

Init ==
  /\ pc = "idle" /\ ret = None /\ fnEnd = None /\ ctx = "live"
  /\ net = {} /\ await = {} /\ answer = None /\ count = 0
  /\ sess = None /\ buf = {} /\ durable = {} /\ partial = FALSE /\ refused = FALSE
  /\ lost = FALSE /\ stmts = {} /\ acked = {} /\ outside = {} /\ nested = FALSE

-----------------------------------------------------------------------------
(* Requests. *)

\* Faulty: every request is bound to the caller's context.
SendBound(k, sid, detached) ==
  LET r == Request(k, sid, FALSE) IN
  /\ await = {}
  /\ count' = count + 1 /\ await' = {r} /\ answer' = None
  /\ net' = IF ctx = "done" THEN net ELSE net \union {r}

\* A request is sent and waited for; under a context that is done it is not
\* sent.
Send(k, sid, detached) ==
  LET r == Request(k, sid, detached) IN
  /\ await = {}
  /\ count' = count + 1 /\ await' = {r} /\ answer' = None
  /\ net' = IF ctx = "done" /\ ~detached THEN net ELSE net \union {r}

\* The request in progress ends: with the server's answer, or with an error
\* once its context is done or the network failed it.
Done(a) == await' = {} /\ answer' = None /\ a = answer /\ answer # None /\ UNCHANGED lost
Fails ==
  /\ await # {} /\ await' = {} /\ answer' = None
  /\ \/ ctx = "done" /\ (\E r \in await : ~r.detached) /\ UNCHANGED lost
     \/ lost' = TRUE

Cancel ==
  /\ ctx = "live" /\ ctx' = "done"
  /\ UNCHANGED <<pc, ret, fnEnd, await, count, net, answer, server, history>>

(* Transaction. *)

\* An isolation level that is not one of the two is refused before anything
\* is sent; otherwise begin goes out.
Begin ==
  /\ pc = "idle"
  /\ \/ /\ pc' = "done" /\ ret' = "isolation"
        /\ UNCHANGED <<await, count, net, answer>>
     \/ pc' = "begin" /\ Send("begin", FALSE, FALSE) /\ UNCHANGED ret
  /\ UNCHANGED <<fnEnd, ctx, server, history>>

\* A begin answered with a session id starts the callback; a refusal, an
\* answer without an id and a failure return before the callback runs.
Begun ==
  /\ pc = "begin"
  /\ \/ Done("ok") /\ pc' = "fn" /\ UNCHANGED ret
     \/ Done("nosid") /\ pc' = "done" /\ ret' = "nosid"
     \/ Done("error") /\ pc' = "done" /\ ret' = "begin"
     \/ Fails /\ pc' = "done" /\ ret' = "begin"
  /\ UNCHANGED <<fnEnd, ctx, count, net, server, stmts, acked, outside, nested>>

(* The callback: any sequence of requests, then any way to end. *)

FnSends(k, sid) ==
  /\ pc = "fn" /\ count <= MaxFn /\ Send(k, sid, FALSE)
  /\ stmts' = IF k = "stmt" THEN stmts \union {count'} ELSE stmts
  /\ UNCHANGED <<pc, ret, fnEnd, ctx, server, lost, acked, outside, nested>>

\* Faulty: the tx handle sends no session id.
StmtUnbound == FnSends("stmt", FALSE)

\* A statement through the tx handle, which carries the session id.
Stmt == FnSends("stmt", TRUE)

\* Faulty: begin stores the session id in the receiver.
OuterBound == FnSends("outer", TRUE)

\* A statement through the outer handle: no session id, it commits by itself.
Outer == FnSends("outer", FALSE)

\* Faulty: a nested begin goes out without the handle's session id.
NestedUnbound == FnSends("nested", FALSE)

\* Transaction on the tx handle: its begin carries the handle's session id.
Nested == FnSends("nested", TRUE)

\* Faulty: a batch load on the tx handle is sent; it takes no session id.
BatchInTxSent == FnSends("stmt", FALSE)

\* BatchLoad and BatchLoadStream on the tx handle return ErrBatchInTransaction
\* without sending anything.
BatchInTx == pc = "fn" /\ await = {} /\ UNCHANGED vars

\* A request of the callback ends; the callback goes on either way. A nested
\* begin that succeeds would run the nested callback.
FnAnswered ==
  /\ pc = "fn"
  /\ \E r \in await :
       \/ /\ Done("ok")
          /\ acked' = IF r.kind = "stmt" THEN acked \union {r.n} ELSE acked
          /\ outside' = IF r.kind = "outer" THEN outside \union {r.n} ELSE outside
          /\ nested' = (nested \/ r.kind = "nested")
       \/ (Done("error") \/ Fails) /\ UNCHANGED <<acked, outside, nested>>
  /\ UNCHANGED <<pc, ret, fnEnd, ctx, count, net, server, stmts>>

\* Faulty: a callback that did not return is taken for one that returned nil.
FnEndsUnchecked(e) ==
  /\ pc = "fn" /\ fnEnd' = e
  /\ IF e # "error"
       THEN pc' = "commit" /\ Send("commit", TRUE, FALSE)
       ELSE pc' = "rollback" /\ Send("rollback", TRUE, TRUE)
  /\ UNCHANGED <<ret, ctx, server, history>>

\* fn returns nil: commit, under ctx. It returns an error, panics or exits its
\* goroutine: rollback, under WithoutCancel.
FnEnds(e) ==
  /\ pc = "fn" /\ fnEnd' = e
  /\ IF e = "nil"
       THEN pc' = "commit" /\ Send("commit", TRUE, FALSE)
       ELSE pc' = "rollback" /\ Send("rollback", TRUE, TRUE)
  /\ UNCHANGED <<ret, ctx, server, history>>

\* The rollback after the callback: the callback's error, or the panic, wins;
\* a failed rollback is reported next to an error (TxError), not to a panic.
RolledBack ==
  /\ pc = "rollback" /\ pc' = "done"
  /\ \/ Done("ok") /\ ret' = fnEnd
     \/ (Done("error") \/ Fails) /\ ret' = IF fnEnd = "error" THEN "txerror" ELSE fnEnd
  /\ UNCHANGED <<fnEnd, ctx, count, net, server, stmts, acked, outside, nested>>

\* Faulty: only a refusal is a failed commit, a lost answer is a success.
CommittedHopefully ==
  /\ pc = "commit"
  /\ \/ (Done("ok") \/ Fails) /\ pc' = "done" /\ ret' = "ok"
     \/ Done("error") /\ pc' = "cleanup" /\ UNCHANGED ret
  /\ UNCHANGED <<fnEnd, ctx, count, net, server, stmts, acked, outside, nested>>

\* The commit's answer. Any failure is followed by a best-effort rollback.
Committed ==
  /\ pc = "commit"
  /\ \/ Done("ok") /\ pc' = "done" /\ ret' = "ok"
     \/ (Done("error") \/ Fails) /\ pc' = "cleanup" /\ UNCHANGED ret
  /\ UNCHANGED <<fnEnd, ctx, count, net, server, stmts, acked, outside, nested>>

\* The best-effort rollback, under WithoutCancel; its own error is discarded
\* and the commit's is returned.
Cleanup ==
  /\ pc = "cleanup" /\ pc' = "cleaning" /\ Send("rollback", TRUE, TRUE)
  /\ UNCHANGED <<ret, fnEnd, ctx, server, history>>

Cleaned ==
  /\ pc = "cleaning" /\ pc' = "done" /\ ret' = "commit"
  /\ Done("ok") \/ Done("error") \/ Fails
  /\ UNCHANGED <<fnEnd, ctx, count, net, server, stmts, acked, outside, nested>>

(* The server (external). *)

\* It answers the request; nobody listens if the client gave up on it.
Answers(r, a) ==
  /\ net' = net \ {r}
  /\ answer' = IF r \in await THEN a ELSE answer
  /\ UNCHANGED <<client, history>>

SrvBegin(r) ==
  /\ r.kind = "begin"
  /\ \/ sess' = "open" /\ \E a \in {"ok", "nosid"} : Answers(r, a)
     \/ UNCHANGED sess /\ Answers(r, "error")
  /\ UNCHANGED <<buf, durable, partial, refused>>

\* A begin that names a session is refused; one that does not opens another.
SrvNested(r) ==
  /\ r.kind = "nested"
  /\ Answers(r, IF r.sid THEN "error" ELSE "ok")
  /\ UNCHANGED server

\* A write in a session is held there; the statement may fail, or publish a
\* commit of its own (BATCH n, COMMIT). A session that is over is refused.
SrvWriteInSession(r) ==
  /\ r.kind \in {"stmt", "outer"} /\ r.sid
  /\ \/ /\ sess = "open" /\ buf' = buf \union {r.n} /\ Answers(r, "ok")
        /\ UNCHANGED <<durable, partial>>
     \/ /\ sess = "open" /\ durable' = durable \union buf \union {r.n}
        /\ buf' = {} /\ partial' = TRUE /\ Answers(r, "ok")
     \/ Answers(r, "error") /\ UNCHANGED <<buf, durable, partial>>
  /\ UNCHANGED <<sess, refused>>

\* A write outside any session commits by itself.
SrvWrite(r) ==
  /\ r.kind \in {"stmt", "outer"} /\ ~r.sid
  /\ \/ durable' = durable \union {r.n} /\ Answers(r, "ok")
     \/ UNCHANGED durable /\ Answers(r, "error")
  /\ UNCHANGED <<sess, buf, partial, refused>>

\* A commit that is refused may leave the session open or roll it back.
SrvCommit(r) ==
  /\ r.kind = "commit"
  /\ \/ /\ sess = "open" /\ sess' = "committed" /\ durable' = durable \union buf /\ buf' = {}
        /\ Answers(r, "ok")
     \/ /\ sess = "open" /\ sess' \in {"open", "rolledback"}
        /\ buf' = (IF sess' = "open" THEN buf ELSE {}) /\ UNCHANGED durable
        /\ Answers(r, "error")
     \/ sess # "open" /\ Answers(r, "error") /\ UNCHANGED <<sess, buf, durable>>
  /\ UNCHANGED <<partial, refused>>

\* A rollback of an open session may be refused as well.
SrvRollback(r) ==
  /\ r.kind = "rollback"
  /\ \/ sess = "open" /\ sess' = "rolledback" /\ buf' = {} /\ Answers(r, "ok") /\ UNCHANGED refused
     \/ UNCHANGED <<sess, buf>> /\ Answers(r, "error") /\ refused' = (refused \/ sess = "open")
  /\ UNCHANGED <<durable, partial>>

\* The session expires, or another client terminates the transaction.
SrvEnds ==
  /\ sess = "open" /\ sess' = "rolledback" /\ buf' = {}
  /\ UNCHANGED <<client, net, answer, durable, partial, refused, history>>

\* A request is lost on its way.
NetLoses(r) == net' = net \ {r} /\ lost' = TRUE /\ UNCHANGED <<client, answer, server, stmts, acked, outside, nested>>

-----------------------------------------------------------------------------
Caller ==
  \/ Begin \/ Begun
  \/ Stmt \/ Outer \/ Nested \/ BatchInTx \/ FnAnswered
  \/ \E e \in {"nil", "error", "panic", "goexit"} : FnEnds(e)
  \/ RolledBack \/ Committed \/ Cleanup \/ Cleaned

Server ==
  \E r \in net : SrvBegin(r) \/ SrvNested(r) \/ SrvWriteInSession(r) \/ SrvWrite(r)
                   \/ SrvCommit(r) \/ SrvRollback(r)

Next == Cancel \/ Caller \/ Server \/ SrvEnds \/ \E r \in net : NetLoses(r)

Spec == Init /\ [][Next]_vars

-----------------------------------------------------------------------------
(* Properties. *)

Ordinals == 1..(MaxFn + 3)

ControlType ==
  /\ pc \in {"idle", "begin", "fn", "commit", "rollback", "cleanup", "cleaning", "done"}
  /\ ret \in {None, "isolation", "begin", "nosid", "ok", "commit", "error", "txerror", "panic", "goexit"}
  /\ fnEnd \in {None, "nil", "error", "panic", "goexit"} /\ ctx \in {"live", "done"}
  /\ answer \in {None, "ok", "nosid", "error"} /\ count \in 0..(MaxFn + 3)
  /\ sess \in {None, "open", "committed", "rolledback"}
RequestType == net \subseteq Requests /\ await \subseteq Requests
WriteType ==
  /\ buf \subseteq Ordinals /\ durable \subseteq Ordinals /\ stmts \subseteq Ordinals
  /\ acked \subseteq Ordinals /\ outside \subseteq Ordinals
FlagType == partial \in BOOLEAN /\ refused \in BOOLEAN /\ lost \in BOOLEAN /\ nested \in BOOLEAN

\* Every variable keeps its type; a call sends at most the callback's requests
\* and three of its own.
TypeOK == ControlType /\ RequestType /\ WriteType /\ FlagType

\* Transaction returns nil only when the server committed, and then every
\* statement that was answered with success is durable.
CommitIsTrue == ret = "ok" => sess = "committed" /\ acked \subseteq durable

\* A callback that returned an error, panicked or exited its goroutine is
\* never committed, now or by a request still on its way.
FailedFnNeverCommits ==
  fnEnd \in {"error", "panic", "goexit"} => sess # "committed" /\ \A q \in net : q.kind # "commit"

\* Nothing sent through the tx handle is durable unless the transaction
\* committed or a statement published a part itself: no call on the handle
\* escapes the transaction, a refused batch load included.
NoEscapedWrites == durable \cap stmts # {} => sess = "committed" \/ partial

BareErrorMeansRolledBack == ret = "error" => sess = "rolledback"
NoLeakedSession == pc = "done" /\ fnEnd # None /\ ~lost /\ ~refused => sess # "open"

\* The callback's bare error (no TxError) means the server rolled back, and
\* once Transaction ran the callback and returned, the server's session is over
\* even if the context was cancelled at any point, unless the network lost
\* something or the server refused the rollback itself.
RollbackIsTrue == BareErrorMeansRolledBack /\ NoLeakedSession

\* A write answered with success on the outer handle is durable however the
\* transaction ended.
OuterWritesSurvive == outside \subseteq durable

\* The callback of a Transaction nested on the tx handle never runs.
NestedNeverRuns == ~nested

\* The writes through the tx handle that are durable, the transaction's end
\* and what its caller was told.
published == durable \cap stmts
fate == IF sess = "committed" THEN "committed" ELSE IF sess = "rolledback" THEN "discarded" ELSE "open"
told == IF ret \in {None, "ok"} THEN ret ELSE IF ret = "error" THEN "rolledback" ELSE "failed"

\* Transaction implements the abstract contract: the writes made through the
\* tx handle become durable at once with the commit, or as a part a statement
\* published, and the caller is told nothing that is not so.
Contract == INSTANCE AtomicTx WITH Writes <- Ordinals, durable <- published

ContractSpec == Contract!Spec
=============================================================================
