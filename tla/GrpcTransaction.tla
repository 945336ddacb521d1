-------------------------- MODULE GrpcTransaction --------------------------
(***************************************************************************)
(* Client.Transaction and TxHandle of the Go gRPC driver                   *)
(* (go/arcadedbgrpc/transaction.go). As in module Transaction an RPC the   *)
(* client gave up on may still reach the server, after later ones. New     *)
(* here: a commit may answer committed=false without an error, and every   *)
(* call on the handle sends a bound copy of a message the caller owns,     *)
(* edits and reuses.                                                       *)
(***************************************************************************)
EXTENDS Naturals

CONSTANT MaxCalls   \* bound: the RPC count up to which the caller starts another call

ASSUME MaxCallsAssumption == MaxCalls \in Nat

VARIABLES
  pc, ret, fnEnd, ctx,  \* Transaction's control, its result, the callback's end, the context
  msg,      \* a request message the caller owns
  lazy,     \* the message a stream was built with, as a set of at most one
  net,      \* RPCs on their way to the server
  await,    \* the RPC the client waits for, as a set of at most one
  answer,   \* the reply on its way back
  count,    \* RPCs sent so far
  sess,     \* the server's transaction: none, open, committed, rolledback
  buf, durable,  \* writes held in it, and published by it
  escaped,  \* writes that landed outside it
  partial,  \* history: a statement published a commit of its own
  refused,  \* history: the server refused to roll it back while it was open
  lost,     \* history: an RPC or a reply was lost on the network
  stmts,    \* history: writes sent through the handle
  acked     \* history: those that were answered with success

control == <<pc, ret, fnEnd, ctx, await, count>>
caller == <<msg, lazy>>
server == <<sess, buf, durable, escaped, partial, refused>>
history == <<lost, stmts, acked>>
vars == <<control, caller, net, answer, server, history>>

None == "none"

\* What matters of a request message: the database, the transaction it names
\* and whether it carries the inline commit flag. Callers do not know the id
\* of the handle's transaction.
Messages == [db : {"mine", "other"}, tx : {None, "mine", "other"}, commit : BOOLEAN]
Empty == [db |-> "mine", tx |-> None, commit |-> FALSE]
CallerMessages == {Empty, [Empty EXCEPT !.db = "other", !.tx = "other"], [Empty EXCEPT !.commit = TRUE]}

Kinds == {"begin", "handle", "raw", "commit", "rollback"}
Ordinals == 1..(MaxCalls + 3)
\* An RPC; detached: it runs under context.WithoutCancel.
Requests == [n : Ordinals, kind : Kinds, m : Messages, detached : BOOLEAN]

Init ==
  /\ pc = "idle" /\ ret = None /\ fnEnd = None /\ ctx = "live"
  /\ msg = Empty /\ lazy = {}
  /\ net = {} /\ await = {} /\ answer = None /\ count = 0
  /\ sess = None /\ buf = {} /\ durable = {} /\ escaped = {} /\ partial = FALSE /\ refused = FALSE
  /\ lost = FALSE /\ stmts = {} /\ acked = {}

-----------------------------------------------------------------------------
(* RPCs. *)

\* Faulty: every RPC is bound to the caller's context.
SendBound(k, m, detached) ==
  LET r == [n |-> count + 1, kind |-> k, m |-> m, detached |-> FALSE] IN
  /\ await = {}
  /\ count' = count + 1 /\ await' = {r} /\ answer' = None
  /\ net' = IF ctx = "done" THEN net ELSE net \union {r}

\* An RPC under a context that is done is not sent.
Send(k, m, detached) ==
  LET r == [n |-> count + 1, kind |-> k, m |-> m, detached |-> detached] IN
  /\ await = {}
  /\ count' = count + 1 /\ await' = {r} /\ answer' = None
  /\ net' = IF ctx = "done" /\ ~detached THEN net ELSE net \union {r}

Done(a) == await' = {} /\ answer' = None /\ a = answer /\ answer # None /\ UNCHANGED lost
Fails ==
  /\ await # {} /\ await' = {} /\ answer' = None
  /\ \/ ctx = "done" /\ (\E r \in await : ~r.detached) /\ UNCHANGED lost
     \/ lost' = TRUE

Cancel ==
  /\ ctx = "live" /\ ctx' = "done"
  /\ UNCHANGED <<pc, ret, fnEnd, await, count, caller, net, answer, server, history>>

(* TxHandle. *)

\* Faulty: the handle's id is merged into the caller's transaction context.
bindMerging(m) == [m EXCEPT !.db = "mine", !.tx = "mine"]

\* A copy with the database forced and the whole transaction context replaced.
bind(m) == [db |-> "mine", tx |-> "mine", commit |-> FALSE]

\* A call through the handle; the caller's message is left alone.
HandleCall ==
  /\ pc = "fn" /\ count <= MaxCalls /\ Send("handle", bind(msg), FALSE)
  /\ stmts' = stmts \union {count'}
  /\ UNCHANGED <<pc, ret, fnEnd, ctx, caller, server, lost, acked>>

\* StreamQuery, TimeSeriesQuery: copied and bound when called ...
HandleStream ==
  /\ pc = "fn" /\ lazy' = {bind(msg)}
  /\ UNCHANGED <<control, msg, net, answer, server, history>>

\* Faulty: the sequence sends the message as it is when ranged over.
RangeStreamUnbound ==
  /\ lazy # {} /\ pc \in {"fn", "done"} /\ count <= MaxCalls
  /\ Send("handle", msg, FALSE)
  /\ stmts' = stmts \union {count'}
  /\ UNCHANGED <<pc, ret, fnEnd, ctx, caller, server, lost, acked>>

\* ... and sent when the sequence is ranged over, even after the transaction.
RangeStream ==
  /\ pc \in {"fn", "done"} /\ count <= MaxCalls
  /\ \E m \in lazy : Send("handle", m, FALSE)
  /\ stmts' = stmts \union {count'}
  /\ UNCHANGED <<pc, ret, fnEnd, ctx, caller, server, lost, acked>>

\* A call through Client.Raw() sends the caller's message as it is.
RawCall ==
  /\ pc \in {"fn", "done"} /\ count <= MaxCalls /\ Send("raw", msg, FALSE)
  /\ UNCHANGED <<pc, ret, fnEnd, ctx, caller, server, history>>

\* The caller edits its message.
Edit ==
  /\ pc \in {"fn", "done"} /\ await = {}
  /\ msg' \in CallerMessages
  /\ UNCHANGED <<control, lazy, net, answer, server, history>>

\* A call ends, with a reply or an error; the caller goes on either way.
CallEnds ==
  /\ pc \in {"fn", "done"}
  /\ \E r \in await :
       \/ Done("ok") /\ acked' = IF r.kind = "handle" THEN acked \union {r.n} ELSE acked
       \/ (Done("error") \/ Fails) /\ UNCHANGED acked
  /\ UNCHANGED <<pc, ret, fnEnd, ctx, count, caller, net, server, stmts>>

(* Transaction. *)

\* An unknown isolation level is refused before any RPC.
Begin ==
  /\ pc = "idle"
  /\ \/ /\ pc' = "done" /\ ret' = "isolation"
        /\ UNCHANGED <<await, count, net, answer>>
     \/ pc' = "begin" /\ Send("begin", Empty, FALSE) /\ UNCHANGED ret
  /\ UNCHANGED <<fnEnd, ctx, caller, server, history>>

\* A blank transaction id is refused before the callback runs.
Begun ==
  /\ pc = "begin"
  /\ \/ Done("ok") /\ pc' = "fn" /\ UNCHANGED ret
     \/ Done("blank") /\ pc' = "done" /\ ret' = "noid"
     \/ (Done("error") \/ Fails) /\ pc' = "done" /\ ret' = "begin"
  /\ UNCHANGED <<fnEnd, ctx, count, caller, net, server, stmts, acked>>

\* nil: commit under ctx. Error, panic, Goexit: rollback under WithoutCancel.
FnEnds(e) ==
  /\ pc = "fn" /\ fnEnd' = e
  /\ IF e = "nil"
       THEN pc' = "commit" /\ Send("commit", bind(Empty), FALSE)
       ELSE pc' = "rollback" /\ Send("rollback", bind(Empty), TRUE)
  /\ UNCHANGED <<ret, ctx, caller, server, history>>

RolledBack ==
  /\ pc = "rollback" /\ pc' = "done"
  /\ \/ Done("ok") /\ ret' = fnEnd
     \/ (Done("error") \/ Fails) /\ ret' = IF fnEnd = "error" THEN "txerror" ELSE fnEnd
  /\ UNCHANGED <<fnEnd, ctx, count, caller, net, server, stmts, acked>>

\* Faulty: a reply without an error status is a commit.
CommittedBySuccess ==
  /\ pc = "commit"
  /\ \/ (Done("ok") \/ Done("uncommitted")) /\ pc' = "done" /\ ret' = "ok"
     \/ (Done("error") \/ Fails) /\ pc' = "cleanup" /\ UNCHANGED ret
  /\ UNCHANGED <<fnEnd, ctx, count, caller, net, server, stmts, acked>>

\* Faulty: a failed commit is reported as one that did not take effect.
CommittedNoCleanup ==
  /\ pc = "commit"
  /\ \/ Done("ok") /\ pc' = "done" /\ ret' = "ok"
     \/ (Done("uncommitted") \/ Done("error") \/ Fails) /\ pc' = "done" /\ ret' = "notcommitted"
  /\ UNCHANGED <<fnEnd, ctx, count, caller, net, server, stmts, acked>>

\* The commit's reply: committed, or committed=false, which ends without a
\* rollback; an error status is followed by a best-effort rollback.
Committed ==
  /\ pc = "commit"
  /\ \/ Done("ok") /\ pc' = "done" /\ ret' = "ok"
     \/ Done("uncommitted") /\ pc' = "done" /\ ret' = "notcommitted"
     \/ (Done("error") \/ Fails) /\ pc' = "cleanup" /\ UNCHANGED ret
  /\ UNCHANGED <<fnEnd, ctx, count, caller, net, server, stmts, acked>>

Cleanup ==
  /\ pc = "cleanup" /\ pc' = "cleaning" /\ Send("rollback", bind(Empty), TRUE)
  /\ UNCHANGED <<ret, fnEnd, ctx, caller, server, history>>

Cleaned ==
  /\ pc = "cleaning" /\ pc' = "done" /\ ret' = "commit"
  /\ Done("ok") \/ Done("error") \/ Fails
  /\ UNCHANGED <<fnEnd, ctx, count, caller, net, server, stmts, acked>>

(* The server (external). *)

Answers(r, a) ==
  /\ net' = net \ {r}
  /\ answer' = IF r \in await THEN a ELSE answer
  /\ UNCHANGED <<control, caller, history>>

SrvBegin(r) ==
  /\ r.kind = "begin"
  /\ \/ sess' = "open" /\ \E a \in {"ok", "blank"} : Answers(r, a)
     \/ UNCHANGED sess /\ Answers(r, "error")
  /\ UNCHANGED <<buf, durable, escaped, partial, refused>>

\* A call that names the transaction writes into it, and commits it when the
\* inline flag says so, or publishes a commit of its own as over HTTP (BATCH n,
\* COMMIT); it is refused once the transaction is over.
SrvCall(r) ==
  /\ r.kind \in {"handle", "raw"} /\ r.m.tx = "mine" /\ r.m.db = "mine"
  /\ \/ /\ sess = "open" /\ Answers(r, "ok")
        /\ sess' = IF r.m.commit THEN "committed" ELSE sess
        /\ buf' = IF r.m.commit THEN {} ELSE buf \union {r.n}
        /\ durable' = IF r.m.commit THEN durable \union buf \union {r.n} ELSE durable
        /\ UNCHANGED partial
     \/ /\ sess = "open" /\ durable' = durable \union buf \union {r.n}
        /\ buf' = {} /\ partial' = TRUE /\ Answers(r, "ok") /\ UNCHANGED sess
     \/ Answers(r, "error") /\ UNCHANGED <<sess, buf, durable, partial>>
  /\ UNCHANGED <<escaped, refused>>

\* Any other call runs in another transaction, in another database, or commits
\* by itself.
SrvCallElsewhere(r) ==
  /\ r.kind \in {"handle", "raw"} /\ ~(r.m.tx = "mine" /\ r.m.db = "mine")
  /\ Answers(r, "ok") /\ escaped' = escaped \union {r.n}
  /\ UNCHANGED <<sess, buf, durable, partial, refused>>

\* The commit of a transaction already reaped answers committed=false, or an error.
SrvCommit(r) ==
  /\ r.kind = "commit"
  /\ \/ /\ sess = "open" /\ sess' = "committed" /\ durable' = durable \union buf /\ buf' = {}
        /\ Answers(r, "ok")
     \/ /\ sess = "open" /\ sess' \in {"open", "rolledback"}
        /\ buf' = (IF sess' = "open" THEN buf ELSE {}) /\ UNCHANGED durable
        /\ Answers(r, "error")
     \/ /\ sess = "rolledback" /\ (\E a \in {"uncommitted", "error"} : Answers(r, a))
        /\ UNCHANGED <<sess, buf, durable>>
  /\ UNCHANGED <<escaped, partial, refused>>

\* A rollback of an open transaction may be refused as well.
SrvRollback(r) ==
  /\ r.kind = "rollback"
  /\ \/ sess = "open" /\ sess' = "rolledback" /\ buf' = {} /\ Answers(r, "ok") /\ UNCHANGED refused
     \/ sess # "open" /\ UNCHANGED <<sess, buf, refused>> /\ Answers(r, "ok")
     \/ UNCHANGED <<sess, buf>> /\ Answers(r, "error") /\ refused' = (refused \/ sess = "open")
  /\ UNCHANGED <<durable, escaped, partial>>

\* The server reaps an idle transaction.
SrvReaps ==
  /\ sess = "open" /\ sess' = "rolledback" /\ buf' = {}
  /\ UNCHANGED <<control, caller, net, answer, durable, escaped, partial, refused, history>>

NetLoses(r) == net' = net \ {r} /\ lost' = TRUE /\ UNCHANGED <<control, caller, answer, server, stmts, acked>>

-----------------------------------------------------------------------------
Client ==
  \/ HandleCall \/ HandleStream \/ RangeStream \/ RawCall \/ Edit \/ CallEnds
  \/ Begin \/ Begun \/ RolledBack \/ Committed \/ Cleanup \/ Cleaned
  \/ \E e \in {"nil", "error", "panic", "goexit"} : FnEnds(e)

Server == \E r \in net : SrvBegin(r) \/ SrvCall(r) \/ SrvCallElsewhere(r) \/ SrvCommit(r) \/ SrvRollback(r)

Next == Cancel \/ Client \/ Server \/ SrvReaps \/ \E r \in net : NetLoses(r)

Spec == Init /\ [][Next]_vars

-----------------------------------------------------------------------------
(* Properties. *)

\* The variables have their types: what the caller keeps and reuses is always a
\* message of its own making, never one the handle has written its id into.
TypeOK ==
  /\ pc \in {"idle", "begin", "fn", "commit", "rollback", "cleanup", "cleaning", "done"}
  /\ ret \in {None, "isolation", "begin", "noid", "ok", "notcommitted", "commit", "error", "txerror", "panic", "goexit"}
  /\ fnEnd \in {None, "nil", "error", "panic", "goexit"} /\ ctx \in {"live", "done"}
  /\ msg \in CallerMessages /\ lazy \subseteq Messages
  /\ net \subseteq Requests /\ await \subseteq Requests /\ count \in 0..(MaxCalls + 3)
  /\ answer \in {None, "ok", "blank", "uncommitted", "error"}
  /\ sess \in {None, "open", "committed", "rolledback"}
  /\ buf \subseteq Ordinals /\ durable \subseteq Ordinals /\ escaped \subseteq Ordinals
  /\ stmts \subseteq Ordinals /\ acked \subseteq Ordinals
  /\ partial \in BOOLEAN /\ refused \in BOOLEAN /\ lost \in BOOLEAN

\* What Transaction returns is what happened: nil only for a commit that took
\* effect, with every call that succeeded inside the callback; after
\* ErrNotCommitted, which sends no rollback, nothing is durable but a part that
\* a statement published itself; the bare error
\* of the callback means rolled back. And a transaction whose callback ran is
\* never left open on the server unless the network lost something or the server
\* refused the rollback itself.
OutcomeIsTrue ==
  /\ ret = "ok" => sess = "committed" /\ acked \subseteq durable
  /\ ret = "notcommitted" => sess = "rolledback" /\ (durable = {} \/ partial)
  /\ ret = "error" => sess = "rolledback"
  /\ pc = "done" /\ fnEnd # None /\ ~lost /\ ~refused => sess # "open"

\* A callback that failed is never committed: not by a late request, nor by an
\* inline commit flag in a message passed to the handle.
FailedFnNeverCommits ==
  fnEnd \in {"error", "panic", "goexit"} => sess # "committed" /\ \A q \in net : q.kind # "commit"

\* Every call through the handle stays in its transaction, whatever the
\* message named, however late a stream built on the handle is ranged over;
\* and no call made outside the handle writes into the transaction: the handle
\* leaves no trace of its id in a message the caller reuses.
HandleIsConfined ==
  /\ escaped \cap stmts = {}
  /\ (buf \union durable) \subseteq stmts

\* Transaction implements the same abstract contract as over HTTP.
Contract == INSTANCE AtomicTx WITH
  Writes <- Ordinals,
  fate <- CASE sess = "committed" -> "committed" [] sess = "rolledback" -> "discarded" [] OTHER -> "open",
  told <- CASE ret \in {None, "ok"} -> ret
            [] ret \in {"error", "notcommitted"} -> "rolledback"
            [] OTHER -> "failed"

ContractSpec == Contract!Spec
=============================================================================
