------------------------- MODULE TransactionProofs -------------------------
(***************************************************************************)
(* Proofs about Transaction, for every bound MaxFn: the inductive          *)
(* invariant Inv below, and from it the properties the runs check.         *)
(***************************************************************************)
EXTENDS Transaction, TLAPS

(* The inductive invariant. *)

\* The request waited for is the one the control state says.
AwaitInv ==
  /\ \A a, b \in await : a = b
  /\ await = {} => answer = None
  /\ \A r \in await :
       \/ pc = "begin" /\ r.kind = "begin"
       \/ pc = "fn" /\ r.kind \in {"stmt", "outer", "nested"}
       \/ pc = "commit" /\ r.kind = "commit"
       \/ pc \in {"rollback", "cleaning"} /\ r.kind = "rollback"

\* Which requests carry the session id, and whose ordinals are statements.
WellFormed(r) ==
  /\ r.n <= count
  /\ r.kind = "stmt" => r.sid = TRUE
  /\ r.kind = "outer" => r.sid = FALSE
  /\ r.kind = "nested" => r.sid = TRUE
  /\ r.kind = "rollback" => r.detached = TRUE
  /\ r.kind # "stmt" => r.n \notin stmts

RequestInv == \A r \in net \union await : WellFormed(r)

\* How the callback ended follows from the control state; only a callback
\* that returned nil has a commit under way or done.
PhaseInv ==
  /\ pc \in {"idle", "begin", "fn"} => fnEnd = None /\ ret = None
  /\ pc \in {"commit", "cleanup", "cleaning"} => fnEnd = "nil" /\ ret = None
  /\ pc = "rollback" => fnEnd \in {"error", "panic", "goexit"} /\ ret = None
  /\ pc = "fn" \/ fnEnd # None => sess # None
  /\ sess = "committed" => fnEnd = "nil"
  /\ \A q \in net : q.kind = "commit" => fnEnd = "nil"

\* How many requests each control state has left.
CountInv ==
  /\ pc = "idle" => count = 0
  /\ pc \in {"begin", "fn"} => count <= MaxFn + 1
  /\ pc \in {"commit", "cleanup", "rollback"} => count <= MaxFn + 2

\* A begin still on its way is the only one, and nothing happened since.
BeginInv ==
  /\ \A q \in net : q.kind = "begin" =>
       /\ sess = None /\ fnEnd = None /\ answer = None
       /\ pc \in {"begin", "done"}
       /\ buf = {} /\ acked = {} /\ stmts = {}
       /\ ret \notin {"ok", "error"}
  /\ \A p, q \in net : p.kind = "begin" /\ q.kind = "begin" => p = q
  /\ pc \in {"idle", "begin"} => acked = {} /\ stmts = {}
  /\ pc = "idle" => net = {} /\ sess = None
  /\ sess = None => buf = {} /\ acked = {}

\* An answer on its way back tells the truth about the server.
AnswerInv ==
  /\ answer = "ok" => \A r \in await :
       /\ r.kind = "stmt" /\ sess = "open" => r.n \in buf \union durable
       /\ r.kind = "outer" => r.n \in durable
       /\ r.kind # "nested"
       /\ r.kind = "begin" => sess # None
       /\ r.kind = "commit" => sess = "committed"
       /\ r.kind = "rollback" => sess = "rolledback"
  /\ answer # None => \A r \in await :
       r.kind = "rollback" => sess # "open" \/ refused

\* Where the writes are.
WriteInv ==
  /\ durable \subseteq 1..count /\ buf \subseteq 1..count /\ stmts \subseteq 1..count
  /\ sess = "open" => acked \subseteq buf \union durable
  /\ sess = "committed" => acked \subseteq durable

Safety ==
  /\ CommitIsTrue /\ FailedFnNeverCommits /\ NoEscapedWrites /\ BareErrorMeansRolledBack
  /\ NoLeakedSession /\ OuterWritesSurvive /\ NestedNeverRuns

Inv == TypeOK /\ AwaitInv /\ RequestInv /\ PhaseInv /\ CountInv /\ BeginInv /\ AnswerInv
     /\ WriteInv /\ Safety

\* Sending a request keeps the network's type.
LEMMA SendType ==
  ASSUME RequestType, NEW k \in Kinds, NEW sid \in BOOLEAN, NEW detached \in BOOLEAN,
         count \in Nat, count <= MaxFn + 2, Send(k, sid, detached)
  PROVE  RequestType'
<1> DEFINE r == Request(k, sid, detached)
<1>1. r \in Requests
  BY MaxFnAssumption DEF Request, Requests
<1>2. await' = {r} /\ net' \subseteq net \union {r}
  BY DEF Send
<1> QED
  BY <1>1, <1>2 DEF RequestType

\* A cancelled context alone changes nothing.
LEMMA CancelStep == ASSUME Inv, Cancel PROVE Inv'
<1> USE DEF None, Cancel, server, history
<1>1. ControlType'
  BY MaxFnAssumption DEF Inv, TypeOK, ControlType
<1>2. RequestType'
  BY DEF Inv, TypeOK, RequestType
<1>3. WriteType'
  BY DEF Inv, TypeOK, WriteType, Ordinals, RequestType, Requests
<1>4. FlagType'
  BY Zenon DEF Inv, TypeOK, FlagType
<1>5. (AwaitInv /\ RequestInv /\ PhaseInv /\ CountInv /\ BeginInv /\ AnswerInv /\ WriteInv)'
  BY DEF Inv, AwaitInv, RequestInv, PhaseInv, CountInv, BeginInv, AnswerInv, WriteInv, WellFormed
<1>6. (CommitIsTrue /\ FailedFnNeverCommits /\ NoEscapedWrites /\ BareErrorMeansRolledBack
     /\ NoLeakedSession /\ OuterWritesSurvive /\ NestedNeverRuns)'
  BY DEF Inv, Safety, CommitIsTrue, FailedFnNeverCommits, NoEscapedWrites,
       BareErrorMeansRolledBack, NoLeakedSession, OuterWritesSurvive, NestedNeverRuns
<1> QED
  BY <1>1, <1>2, <1>3, <1>4, <1>5, <1>6 DEF Inv, TypeOK, Safety

\* The first request goes out, or the isolation level is refused.
LEMMA BeginStep == ASSUME Inv, Begin PROVE Inv'
<1> USE DEF None, Begin, server, history
<1>1. ControlType'
  BY MaxFnAssumption DEF Inv, TypeOK, ControlType, CountInv, Send, Request
<1>2. RequestType'
  <2>1. CASE UNCHANGED <<net, await>>
    BY <2>1 DEF Inv, TypeOK, RequestType
  <2>2. CASE Send("begin", FALSE, FALSE)
    <3>1. count \in Nat /\ count <= MaxFn + 2 /\ RequestType
      BY MaxFnAssumption DEF Inv, TypeOK, ControlType, CountInv
    <3> QED
      BY <2>2, <3>1, SendType DEF Kinds
  <2> QED
    BY <2>1, <2>2
<1>3. WriteType'
  BY DEF Inv, TypeOK, WriteType, Ordinals, RequestType, Requests, Send, Request
<1>4. FlagType'
  BY Zenon DEF Inv, TypeOK, FlagType, Send, Request
<1>5. AwaitInv'
  <2>1. CASE UNCHANGED <<await, answer>>
    BY <2>1 DEF Inv, AwaitInv, Send, Request
  <2>2. CASE pc' = "begin"
    <3>1. answer' = None /\ await' = {Request("begin", FALSE, FALSE)}
      BY <2>2 DEF Send
    <3> QED
      BY <2>2, <3>1 DEF AwaitInv, Request
  <2> QED
    BY <2>1, <2>2
<1>6. RequestInv'
  BY DEF Inv, TypeOK, RequestInv, WellFormed, ControlType, RequestType, Requests, WriteInv, Send,
       Request
<1>7. CountInv'
  BY MaxFnAssumption DEF Inv, CountInv, Send, Request
<1>8. BeginInv'
  <2>1. CASE pc' = "done"
    BY <2>1 DEF Inv, AwaitInv, BeginInv
  <2>2. CASE pc' = "begin"
    BY <2>2 DEF Inv, AwaitInv, BeginInv, PhaseInv, Send, Request
  <2> QED
    BY <2>1, <2>2
<1>9. WriteInv'
  BY DEF Inv, TypeOK, WriteInv, ControlType, WriteType, Ordinals, Send, Request
<1>10. NoLeakedSession'
  BY DEF Inv, Safety, NoLeakedSession, PhaseInv, Send, Request
<1>11. (PhaseInv /\ AnswerInv)'
  BY DEF Inv, PhaseInv, AnswerInv, Send, Request
<1>12. (CommitIsTrue /\ FailedFnNeverCommits /\ NoEscapedWrites /\ BareErrorMeansRolledBack
     /\ OuterWritesSurvive /\ NestedNeverRuns)'
  BY DEF Inv, Safety, CommitIsTrue, FailedFnNeverCommits, NoEscapedWrites,
       BareErrorMeansRolledBack, OuterWritesSurvive, NestedNeverRuns, Send, Request
<1> QED
  BY <1>1, <1>2, <1>3, <1>4, <1>5, <1>6, <1>7, <1>8, <1>9, <1>10, <1>11, <1>12 DEF Inv, TypeOK,
       Safety

\* The callback starts only with a session that exists.
LEMMA BegunStep == ASSUME Inv, Begun PROVE Inv'
<1> USE DEF None, Begun, Done, Fails, server
<1>1. ControlType'
  BY MaxFnAssumption DEF Inv, TypeOK, ControlType
<1>2. RequestType'
  BY DEF Inv, TypeOK, RequestType
<1>3. WriteType'
  BY DEF Inv, TypeOK, WriteType, Ordinals, RequestType, Requests
<1>4. FlagType'
  BY Zenon DEF Inv, TypeOK, FlagType
<1>5. PhaseInv'
  BY DEF Inv, PhaseInv, AwaitInv, AnswerInv
<1>6. NoLeakedSession'
  BY DEF Inv, Safety, NoLeakedSession, PhaseInv
<1>7. (AwaitInv /\ RequestInv /\ CountInv /\ BeginInv /\ AnswerInv /\ WriteInv)'
  BY DEF Inv, AwaitInv, RequestInv, CountInv, BeginInv, AnswerInv, WriteInv, WellFormed
<1>8. (CommitIsTrue /\ FailedFnNeverCommits /\ NoEscapedWrites /\ BareErrorMeansRolledBack
     /\ OuterWritesSurvive /\ NestedNeverRuns)'
  BY DEF Inv, Safety, CommitIsTrue, FailedFnNeverCommits, NoEscapedWrites,
       BareErrorMeansRolledBack, OuterWritesSurvive, NestedNeverRuns
<1> QED
  BY <1>1, <1>2, <1>3, <1>4, <1>5, <1>6, <1>7, <1>8 DEF Inv, TypeOK, Safety

\* The ordinal of a new statement is fresh.
LEMMA StmtStep == ASSUME Inv, Stmt PROVE Inv'
<1> USE DEF None, Stmt, FnSends, server
<1>1. ControlType'
  BY MaxFnAssumption DEF Inv, TypeOK, ControlType, CountInv, Send, Request
<1>2. RequestType'
  <2>1. Send("stmt", TRUE, FALSE)
    OBVIOUS
  <2>2. count \in Nat /\ count <= MaxFn + 2 /\ RequestType
    BY MaxFnAssumption DEF Inv, TypeOK, ControlType, CountInv
  <2> QED
    BY <2>1, <2>2, SendType DEF Kinds
<1>3. WriteType'
  BY MaxFnAssumption DEF Inv, TypeOK, WriteType, Ordinals, ControlType, CountInv, Send, Request
<1>4. FlagType'
  BY Zenon DEF Inv, TypeOK, FlagType, Send, Request
<1>5. RequestInv'
  BY DEF Inv, TypeOK, RequestInv, WellFormed, ControlType, RequestType, Requests, WriteInv, Send,
       Request
<1>6. CountInv'
  BY MaxFnAssumption DEF Inv, TypeOK, CountInv, ControlType, WriteType, Ordinals, Send, Request
<1>7. WriteInv'
  BY DEF Inv, TypeOK, WriteInv, ControlType, WriteType, Ordinals, Send, Request
<1>8. NoEscapedWrites'
  BY DEF Inv, Safety, TypeOK, NoEscapedWrites, WriteInv, ControlType, WriteType, Ordinals, Send,
       Request
<1>9. (AwaitInv /\ PhaseInv /\ BeginInv /\ AnswerInv)'
  BY DEF Inv, AwaitInv, PhaseInv, BeginInv, AnswerInv, Send, Request
<1>10. (CommitIsTrue /\ FailedFnNeverCommits /\ BareErrorMeansRolledBack /\ NoLeakedSession
     /\ OuterWritesSurvive /\ NestedNeverRuns)'
  BY DEF Inv, Safety, CommitIsTrue, FailedFnNeverCommits, BareErrorMeansRolledBack,
       NoLeakedSession, OuterWritesSurvive, NestedNeverRuns, Send, Request
<1> QED
  BY <1>1, <1>2, <1>3, <1>4, <1>5, <1>6, <1>7, <1>8, <1>9, <1>10 DEF Inv, TypeOK, Safety

\* A request through the outer handle is no statement of the transaction.
LEMMA OuterStep == ASSUME Inv, Outer PROVE Inv'
<1> USE DEF None, Outer, FnSends, server
<1>1. ControlType'
  BY MaxFnAssumption DEF Inv, TypeOK, ControlType, CountInv, Send, Request
<1>2. RequestType'
  <2>1. Send("outer", FALSE, FALSE)
    OBVIOUS
  <2>2. count \in Nat /\ count <= MaxFn + 2 /\ RequestType
    BY MaxFnAssumption DEF Inv, TypeOK, ControlType, CountInv
  <2> QED
    BY <2>1, <2>2, SendType DEF Kinds
<1>3. WriteType'
  BY DEF Inv, TypeOK, WriteType, Ordinals, RequestType, Requests, Send, Request
<1>4. FlagType'
  BY Zenon DEF Inv, TypeOK, FlagType, Send, Request
<1>5. RequestInv'
  BY DEF Inv, TypeOK, RequestInv, WellFormed, ControlType, RequestType, Requests, WriteInv, Send,
       Request
<1>6. CountInv'
  BY MaxFnAssumption DEF Inv, TypeOK, CountInv, ControlType, WriteType, Ordinals, Send, Request
<1>7. WriteInv'
  BY DEF Inv, TypeOK, WriteInv, ControlType, WriteType, Ordinals, Send, Request
<1>8. (AwaitInv /\ PhaseInv /\ BeginInv /\ AnswerInv)'
  BY DEF Inv, AwaitInv, PhaseInv, BeginInv, AnswerInv, Send, Request
<1>9. (CommitIsTrue /\ FailedFnNeverCommits /\ NoEscapedWrites /\ BareErrorMeansRolledBack
     /\ NoLeakedSession /\ OuterWritesSurvive /\ NestedNeverRuns)'
  BY DEF Inv, Safety, CommitIsTrue, FailedFnNeverCommits, NoEscapedWrites,
       BareErrorMeansRolledBack, NoLeakedSession, OuterWritesSurvive, NestedNeverRuns, Send,
       Request
<1> QED
  BY <1>1, <1>2, <1>3, <1>4, <1>5, <1>6, <1>7, <1>8, <1>9 DEF Inv, TypeOK, Safety

\* A nested begin carries the session id.
LEMMA NestedStep == ASSUME Inv, Nested PROVE Inv'
<1> USE DEF None, Nested, FnSends, server
<1>1. ControlType'
  BY MaxFnAssumption DEF Inv, TypeOK, ControlType, CountInv, Send, Request
<1>2. RequestType'
  <2>1. Send("nested", TRUE, FALSE)
    OBVIOUS
  <2>2. count \in Nat /\ count <= MaxFn + 2 /\ RequestType
    BY MaxFnAssumption DEF Inv, TypeOK, ControlType, CountInv
  <2> QED
    BY <2>1, <2>2, SendType DEF Kinds
<1>3. WriteType'
  BY DEF Inv, TypeOK, WriteType, Ordinals, RequestType, Requests, Send, Request
<1>4. FlagType'
  BY Zenon DEF Inv, TypeOK, FlagType, Send, Request
<1>5. RequestInv'
  BY DEF Inv, TypeOK, RequestInv, WellFormed, ControlType, RequestType, Requests, WriteInv, Send,
       Request
<1>6. CountInv'
  BY MaxFnAssumption DEF Inv, TypeOK, CountInv, ControlType, WriteType, Ordinals, Send, Request
<1>7. WriteInv'
  BY DEF Inv, TypeOK, WriteInv, ControlType, WriteType, Ordinals, Send, Request
<1>8. (AwaitInv /\ PhaseInv /\ BeginInv /\ AnswerInv)'
  BY DEF Inv, AwaitInv, PhaseInv, BeginInv, AnswerInv, Send, Request
<1>9. (CommitIsTrue /\ FailedFnNeverCommits /\ NoEscapedWrites /\ BareErrorMeansRolledBack
     /\ NoLeakedSession /\ OuterWritesSurvive /\ NestedNeverRuns)'
  BY DEF Inv, Safety, CommitIsTrue, FailedFnNeverCommits, NoEscapedWrites,
       BareErrorMeansRolledBack, NoLeakedSession, OuterWritesSurvive, NestedNeverRuns, Send,
       Request
<1> QED
  BY <1>1, <1>2, <1>3, <1>4, <1>5, <1>6, <1>7, <1>8, <1>9 DEF Inv, TypeOK, Safety

\* A success the callback sees is true of the server.
LEMMA FnAnsweredStep == ASSUME Inv, FnAnswered PROVE Inv'
<1> USE DEF None, FnAnswered, Done, Fails, server
<1>1. ControlType'
  BY MaxFnAssumption DEF Inv, TypeOK, ControlType
<1>2. RequestType'
  BY DEF Inv, TypeOK, RequestType
<1>3. WriteType'
  BY DEF Inv, TypeOK, WriteType, Ordinals, RequestType, Requests
<1>4. FlagType'
  BY Zenon DEF Inv, TypeOK, FlagType
<1>5. BeginInv'
  BY DEF Inv, BeginInv, PhaseInv
<1>6. WriteInv'
  BY DEF Inv, WriteInv, PhaseInv, AnswerInv
<1>7. CommitIsTrue'
  BY DEF Inv, Safety, CommitIsTrue, PhaseInv
<1>8. OuterWritesSurvive'
  BY DEF Inv, Safety, OuterWritesSurvive, AnswerInv
<1>9. NestedNeverRuns'
  BY DEF Inv, Safety, TypeOK, NestedNeverRuns, FlagType, AnswerInv
<1>10. (AwaitInv /\ RequestInv /\ PhaseInv /\ CountInv /\ AnswerInv)'
  BY DEF Inv, AwaitInv, RequestInv, PhaseInv, CountInv, AnswerInv, WellFormed
<1>11. (FailedFnNeverCommits /\ NoEscapedWrites /\ BareErrorMeansRolledBack /\ NoLeakedSession)'
  BY DEF Inv, Safety, FailedFnNeverCommits, NoEscapedWrites, BareErrorMeansRolledBack,
       NoLeakedSession
<1> QED
  BY <1>1, <1>2, <1>3, <1>4, <1>5, <1>6, <1>7, <1>8, <1>9, <1>10, <1>11 DEF Inv, TypeOK, Safety

\* Only a callback that returned nil sends a commit.
LEMMA FnEndsStep == ASSUME Inv, NEW e \in {"nil", "error", "panic", "goexit"}, FnEnds(e) PROVE Inv'
<1> USE DEF None, FnEnds, server, history
<1>1. ControlType'
  BY MaxFnAssumption DEF Inv, TypeOK, ControlType, CountInv, Send, Request
<1>2. RequestType'
  <2>1. count \in Nat /\ count <= MaxFn + 2 /\ RequestType
    BY MaxFnAssumption DEF Inv, TypeOK, ControlType, CountInv
  <2>2. CASE Send("commit", TRUE, FALSE)
    BY <2>1, <2>2, SendType DEF Kinds
  <2>3. CASE Send("rollback", TRUE, TRUE)
    BY <2>1, <2>3, SendType DEF Kinds
  <2> QED
    BY <2>2, <2>3
<1>3. WriteType'
  BY DEF Inv, TypeOK, WriteType, Ordinals, RequestType, Requests, Send, Request
<1>4. FlagType'
  BY Zenon DEF Inv, TypeOK, FlagType, Send, Request
<1>5. AwaitInv'
  <2>1. CASE e = "nil"
    <3>1. pc' = "commit" /\ answer' = None /\ await' = {Request("commit", TRUE, FALSE)}
      BY <2>1 DEF Send
    <3> QED
      BY <3>1 DEF AwaitInv, Request
  <2>2. CASE e # "nil"
    <3>1. pc' = "rollback" /\ answer' = None /\ await' = {Request("rollback", TRUE, TRUE)}
      BY <2>2 DEF Send
    <3> QED
      BY <3>1 DEF AwaitInv, Request
  <2> QED
    BY <2>1, <2>2
<1>6. RequestInv'
  BY SMTT(20) DEF Inv, TypeOK, RequestInv, WellFormed, ControlType, RequestType, Requests,
       WriteInv, Send, Request
<1>7. CountInv'
  BY MaxFnAssumption DEF Inv, TypeOK, CountInv, ControlType, WriteType, Ordinals, Send, Request
<1>8. WriteInv'
  BY DEF Inv, TypeOK, WriteInv, ControlType, WriteType, Ordinals, Send, Request
<1>9. FailedFnNeverCommits'
  BY DEF Inv, Safety, FailedFnNeverCommits, PhaseInv, Send, Request
<1>10. (PhaseInv /\ BeginInv /\ AnswerInv)'
  BY DEF Inv, PhaseInv, BeginInv, AnswerInv, Send, Request
<1>11. (CommitIsTrue /\ NoEscapedWrites /\ BareErrorMeansRolledBack /\ NoLeakedSession
     /\ OuterWritesSurvive /\ NestedNeverRuns)'
  BY DEF Inv, Safety, CommitIsTrue, NoEscapedWrites, BareErrorMeansRolledBack, NoLeakedSession,
       OuterWritesSurvive, NestedNeverRuns, Send, Request
<1> QED
  BY <1>1, <1>2, <1>3, <1>4, <1>5, <1>6, <1>7, <1>8, <1>9, <1>10, <1>11 DEF Inv, TypeOK, Safety

\* The rollback's answer tells whether the session is over.
LEMMA RolledBackStep == ASSUME Inv, RolledBack PROVE Inv'
<1> USE DEF None, RolledBack, Done, Fails, server
<1>1. ControlType'
  <2>1. CASE ret' = fnEnd
    BY <2>1 DEF Inv, TypeOK, ControlType, PhaseInv
  <2>2. CASE ret' = "txerror"
    BY <2>2 DEF Inv, TypeOK, ControlType
  <2> QED
    BY <2>1, <2>2
<1>2. RequestType'
  BY DEF Inv, TypeOK, RequestType
<1>3. WriteType'
  BY DEF Inv, TypeOK, WriteType, Ordinals, RequestType, Requests
<1>4. FlagType'
  BY Zenon DEF Inv, TypeOK, FlagType
<1>5. CommitIsTrue'
  BY DEF Inv, Safety, CommitIsTrue, PhaseInv
<1>6. BareErrorMeansRolledBack'
  BY DEF Inv, Safety, BareErrorMeansRolledBack, AwaitInv, AnswerInv
<1>7. NoLeakedSession'
  BY DEF Inv, Safety, NoLeakedSession, AwaitInv, AnswerInv, RequestInv, WellFormed
<1>8. (AwaitInv /\ RequestInv /\ PhaseInv /\ CountInv /\ BeginInv /\ AnswerInv /\ WriteInv)'
  BY DEF Inv, AwaitInv, RequestInv, PhaseInv, CountInv, BeginInv, AnswerInv, WriteInv, WellFormed
<1>9. (FailedFnNeverCommits /\ NoEscapedWrites /\ OuterWritesSurvive /\ NestedNeverRuns)'
  BY DEF Inv, Safety, FailedFnNeverCommits, NoEscapedWrites, OuterWritesSurvive, NestedNeverRuns
<1> QED
  BY <1>1, <1>2, <1>3, <1>4, <1>5, <1>6, <1>7, <1>8, <1>9 DEF Inv, TypeOK, Safety

\* The commit's answer tells whether it took effect.
LEMMA CommittedStep == ASSUME Inv, Committed PROVE Inv'
<1> USE DEF None, Committed, Done, Fails, server
<1>1. ControlType'
  BY MaxFnAssumption DEF Inv, TypeOK, ControlType
<1>2. RequestType'
  BY DEF Inv, TypeOK, RequestType
<1>3. WriteType'
  BY DEF Inv, TypeOK, WriteType, Ordinals, RequestType, Requests
<1>4. FlagType'
  BY Zenon DEF Inv, TypeOK, FlagType
<1>5. CommitIsTrue'
  BY DEF Inv, Safety, CommitIsTrue, AwaitInv, AnswerInv, WriteInv
<1>6. NoLeakedSession'
  BY DEF Inv, Safety, NoLeakedSession, AwaitInv, AnswerInv
<1>7. (AwaitInv /\ RequestInv /\ PhaseInv /\ CountInv /\ BeginInv /\ AnswerInv /\ WriteInv)'
  BY DEF Inv, AwaitInv, RequestInv, PhaseInv, CountInv, BeginInv, AnswerInv, WriteInv, WellFormed
<1>8. (FailedFnNeverCommits /\ NoEscapedWrites /\ BareErrorMeansRolledBack /\ OuterWritesSurvive
     /\ NestedNeverRuns)'
  BY DEF Inv, Safety, FailedFnNeverCommits, NoEscapedWrites, BareErrorMeansRolledBack,
       OuterWritesSurvive, NestedNeverRuns
<1> QED
  BY <1>1, <1>2, <1>3, <1>4, <1>5, <1>6, <1>7, <1>8 DEF Inv, TypeOK, Safety

\* The rollback after a failed commit goes out.
LEMMA CleanupStep == ASSUME Inv, Cleanup PROVE Inv'
<1> USE DEF None, Cleanup, server, history
<1>1. ControlType'
  BY MaxFnAssumption DEF Inv, TypeOK, ControlType, CountInv, Send, Request
<1>2. RequestType'
  <2>1. Send("rollback", TRUE, TRUE)
    OBVIOUS
  <2>2. count \in Nat /\ count <= MaxFn + 2 /\ RequestType
    BY MaxFnAssumption DEF Inv, TypeOK, ControlType, CountInv
  <2> QED
    BY <2>1, <2>2, SendType DEF Kinds
<1>3. WriteType'
  BY DEF Inv, TypeOK, WriteType, Ordinals, RequestType, Requests, Send, Request
<1>4. FlagType'
  BY Zenon DEF Inv, TypeOK, FlagType, Send, Request
<1>5. RequestInv'
  BY DEF Inv, TypeOK, RequestInv, WellFormed, ControlType, RequestType, Requests, WriteInv, Send,
       Request
<1>6. WriteInv'
  BY DEF Inv, TypeOK, WriteInv, ControlType, WriteType, Ordinals, Send, Request
<1>7. (AwaitInv /\ PhaseInv /\ CountInv /\ BeginInv /\ AnswerInv)'
  BY DEF Inv, AwaitInv, PhaseInv, CountInv, BeginInv, AnswerInv, Send, Request
<1>8. (CommitIsTrue /\ FailedFnNeverCommits /\ NoEscapedWrites /\ BareErrorMeansRolledBack
     /\ NoLeakedSession /\ OuterWritesSurvive /\ NestedNeverRuns)'
  BY DEF Inv, Safety, CommitIsTrue, FailedFnNeverCommits, NoEscapedWrites,
       BareErrorMeansRolledBack, NoLeakedSession, OuterWritesSurvive, NestedNeverRuns, Send,
       Request
<1> QED
  BY <1>1, <1>2, <1>3, <1>4, <1>5, <1>6, <1>7, <1>8 DEF Inv, TypeOK, Safety

\* Its answer, too, tells that the session is over.
LEMMA CleanedStep == ASSUME Inv, Cleaned PROVE Inv'
<1> USE DEF None, Cleaned, Done, Fails, server
<1>1. ControlType'
  BY MaxFnAssumption DEF Inv, TypeOK, ControlType
<1>2. RequestType'
  BY DEF Inv, TypeOK, RequestType
<1>3. WriteType'
  BY DEF Inv, TypeOK, WriteType, Ordinals, RequestType, Requests
<1>4. FlagType'
  BY Zenon DEF Inv, TypeOK, FlagType
<1>5. NoLeakedSession'
  BY DEF Inv, Safety, NoLeakedSession, AwaitInv, AnswerInv, RequestInv, WellFormed
<1>6. (AwaitInv /\ RequestInv /\ PhaseInv /\ CountInv /\ BeginInv /\ AnswerInv /\ WriteInv)'
  BY DEF Inv, AwaitInv, RequestInv, PhaseInv, CountInv, BeginInv, AnswerInv, WriteInv, WellFormed
<1>7. (CommitIsTrue /\ FailedFnNeverCommits /\ NoEscapedWrites /\ BareErrorMeansRolledBack
     /\ OuterWritesSurvive /\ NestedNeverRuns)'
  BY DEF Inv, Safety, CommitIsTrue, FailedFnNeverCommits, NoEscapedWrites,
       BareErrorMeansRolledBack, OuterWritesSurvive, NestedNeverRuns
<1> QED
  BY <1>1, <1>2, <1>3, <1>4, <1>5, <1>6, <1>7 DEF Inv, TypeOK, Safety

\* A begin that is served is the first thing that happens to the session.
LEMMA SrvBeginStep == ASSUME Inv, NEW r \in net, SrvBegin(r) PROVE Inv'
<1> USE DEF None, SrvBegin, Answers, client, history
<1>1. ControlType'
  BY MaxFnAssumption DEF Inv, TypeOK, ControlType
<1>2. RequestType'
  BY DEF Inv, TypeOK, RequestType
<1>3. WriteType'
  BY DEF Inv, TypeOK, WriteType, Ordinals, RequestType, Requests
<1>4. FlagType'
  BY Zenon DEF Inv, TypeOK, FlagType
<1>5. AnswerInv'
  BY DEF Inv, AnswerInv, AwaitInv, BeginInv
<1>6. WriteInv'
  BY DEF Inv, TypeOK, WriteInv, ControlType, WriteType, Ordinals, AwaitInv, RequestInv,
       WellFormed, PhaseInv, CountInv, BeginInv, AnswerInv
<1>7. CommitIsTrue'
  BY DEF Inv, Safety, CommitIsTrue, BeginInv
<1>8. NoEscapedWrites'
  BY DEF Inv, Safety, NoEscapedWrites, BeginInv
<1>9. BareErrorMeansRolledBack'
  BY DEF Inv, Safety, BareErrorMeansRolledBack, BeginInv
<1>10. NoLeakedSession'
  BY DEF Inv, Safety, NoLeakedSession, BeginInv
<1>11. (AwaitInv /\ RequestInv /\ PhaseInv /\ CountInv /\ BeginInv)'
  BY DEF Inv, AwaitInv, RequestInv, PhaseInv, CountInv, BeginInv, WellFormed
<1>12. (FailedFnNeverCommits /\ OuterWritesSurvive /\ NestedNeverRuns)'
  BY DEF Inv, Safety, FailedFnNeverCommits, OuterWritesSurvive, NestedNeverRuns
<1> QED
  BY <1>1, <1>2, <1>3, <1>4, <1>5, <1>6, <1>7, <1>8, <1>9, <1>10, <1>11, <1>12 DEF Inv, TypeOK,
       Safety

\* A nested begin is refused.
LEMMA SrvNestedStep == ASSUME Inv, NEW r \in net, SrvNested(r) PROVE Inv'
<1> USE DEF None, SrvNested, Answers, client, history, server
<1>1. ControlType'
  BY MaxFnAssumption DEF Inv, TypeOK, ControlType
<1>2. RequestType'
  BY DEF Inv, TypeOK, RequestType
<1>3. WriteType'
  BY DEF Inv, TypeOK, WriteType, Ordinals, RequestType, Requests
<1>4. FlagType'
  BY Zenon DEF Inv, TypeOK, FlagType
<1>5. BeginInv'
  BY DEF Inv, BeginInv, AwaitInv
<1>6. AnswerInv'
  BY DEF Inv, AnswerInv, AwaitInv, RequestInv, WellFormed
<1>7. (AwaitInv /\ RequestInv /\ PhaseInv /\ CountInv /\ WriteInv)'
  BY DEF Inv, AwaitInv, RequestInv, PhaseInv, CountInv, WriteInv, WellFormed
<1>8. (CommitIsTrue /\ FailedFnNeverCommits /\ NoEscapedWrites /\ BareErrorMeansRolledBack
     /\ NoLeakedSession /\ OuterWritesSurvive /\ NestedNeverRuns)'
  BY DEF Inv, Safety, CommitIsTrue, FailedFnNeverCommits, NoEscapedWrites,
       BareErrorMeansRolledBack, NoLeakedSession, OuterWritesSurvive, NestedNeverRuns
<1> QED
  BY <1>1, <1>2, <1>3, <1>4, <1>5, <1>6, <1>7, <1>8 DEF Inv, TypeOK, Safety

\* A statement in the session is held or published.
LEMMA SrvWriteInSessionStep == ASSUME Inv, NEW r \in net, SrvWriteInSession(r) PROVE Inv'
<1> USE DEF None, SrvWriteInSession, Answers, client, history
<1>1. ControlType'
  BY MaxFnAssumption DEF Inv, TypeOK, ControlType
<1>2. RequestType'
  BY DEF Inv, TypeOK, RequestType
<1>3. WriteType'
  BY DEF Inv, TypeOK, WriteType, Ordinals, RequestType, Requests
<1>4. FlagType'
  BY Zenon DEF Inv, TypeOK, FlagType
<1>5. BeginInv'
  BY DEF Inv, BeginInv, AwaitInv
<1>6. AnswerInv'
  BY DEF Inv, AnswerInv, AwaitInv, RequestInv, WellFormed
<1>7. WriteInv'
  <2>1. r.n \in 1..count
    BY DEF Inv, TypeOK, ControlType, RequestType, Requests, RequestInv, WellFormed
  <2> QED
    BY <2>1 DEF Inv, WriteInv
<1>8. (AwaitInv /\ RequestInv /\ PhaseInv /\ CountInv)'
  BY DEF Inv, AwaitInv, RequestInv, PhaseInv, CountInv, WellFormed
<1>9. (CommitIsTrue /\ FailedFnNeverCommits /\ NoEscapedWrites /\ BareErrorMeansRolledBack
     /\ NoLeakedSession /\ OuterWritesSurvive /\ NestedNeverRuns)'
  BY DEF Inv, Safety, CommitIsTrue, FailedFnNeverCommits, NoEscapedWrites,
       BareErrorMeansRolledBack, NoLeakedSession, OuterWritesSurvive, NestedNeverRuns
<1> QED
  BY <1>1, <1>2, <1>3, <1>4, <1>5, <1>6, <1>7, <1>8, <1>9 DEF Inv, TypeOK, Safety

\* Only requests of the outer handle are written outside the session.
LEMMA SrvWriteStep == ASSUME Inv, NEW r \in net, SrvWrite(r) PROVE Inv'
<1> USE DEF None, SrvWrite, Answers, client, history
<1>1. ControlType'
  BY MaxFnAssumption DEF Inv, TypeOK, ControlType
<1>2. RequestType'
  BY DEF Inv, TypeOK, RequestType
<1>3. WriteType'
  BY DEF Inv, TypeOK, WriteType, Ordinals, RequestType, Requests
<1>4. FlagType'
  BY Zenon DEF Inv, TypeOK, FlagType
<1>5. BeginInv'
  BY DEF Inv, BeginInv, AwaitInv
<1>6. AnswerInv'
  BY DEF Inv, AnswerInv, AwaitInv
<1>7. WriteInv'
  <2>1. r.n \in 1..count
    BY DEF Inv, TypeOK, ControlType, RequestType, Requests, RequestInv, WellFormed
  <2> QED
    BY <2>1 DEF Inv, WriteInv
<1>8. NoEscapedWrites'
  BY DEF Inv, Safety, NoEscapedWrites, RequestInv, WellFormed
<1>9. (AwaitInv /\ RequestInv /\ PhaseInv /\ CountInv)'
  BY DEF Inv, AwaitInv, RequestInv, PhaseInv, CountInv, WellFormed
<1>10. (CommitIsTrue /\ FailedFnNeverCommits /\ BareErrorMeansRolledBack /\ NoLeakedSession
     /\ OuterWritesSurvive /\ NestedNeverRuns)'
  BY DEF Inv, Safety, CommitIsTrue, FailedFnNeverCommits, BareErrorMeansRolledBack,
       NoLeakedSession, OuterWritesSurvive, NestedNeverRuns
<1> QED
  BY <1>1, <1>2, <1>3, <1>4, <1>5, <1>6, <1>7, <1>8, <1>9, <1>10 DEF Inv, TypeOK, Safety

\* A commit publishes what the session holds.
LEMMA SrvCommitStep == ASSUME Inv, NEW r \in net, SrvCommit(r) PROVE Inv'
<1> USE DEF None, SrvCommit, Answers, client, history
<1>1. ControlType'
  BY MaxFnAssumption DEF Inv, TypeOK, ControlType
<1>2. RequestType'
  BY DEF Inv, TypeOK, RequestType
<1>3. WriteType'
  BY DEF Inv, TypeOK, WriteType, Ordinals, RequestType, Requests
<1>4. FlagType'
  BY Zenon DEF Inv, TypeOK, FlagType
<1>5. BeginInv'
  BY DEF Inv, BeginInv, PhaseInv
<1>6. AnswerInv'
  BY DEF Inv, AnswerInv, AwaitInv
<1>7. WriteInv'
  BY DEF Inv, TypeOK, WriteInv, ControlType, WriteType, Ordinals, AwaitInv, RequestInv,
       WellFormed, PhaseInv, CountInv, BeginInv, AnswerInv
<1>8. (AwaitInv /\ RequestInv /\ PhaseInv /\ CountInv)'
  BY DEF Inv, AwaitInv, RequestInv, PhaseInv, CountInv, WellFormed
<1>9. (CommitIsTrue /\ FailedFnNeverCommits /\ NoEscapedWrites /\ BareErrorMeansRolledBack
     /\ NoLeakedSession /\ OuterWritesSurvive /\ NestedNeverRuns)'
  BY DEF Inv, Safety, CommitIsTrue, FailedFnNeverCommits, NoEscapedWrites,
       BareErrorMeansRolledBack, NoLeakedSession, OuterWritesSurvive, NestedNeverRuns
<1> QED
  BY <1>1, <1>2, <1>3, <1>4, <1>5, <1>6, <1>7, <1>8, <1>9 DEF Inv, TypeOK, Safety

\* A rollback empties it.
LEMMA SrvRollbackStep == ASSUME Inv, NEW r \in net, SrvRollback(r) PROVE Inv'
<1> USE DEF None, SrvRollback, Answers, client, history
<1>1. ControlType'
  BY MaxFnAssumption DEF Inv, TypeOK, ControlType
<1>2. RequestType'
  BY DEF Inv, TypeOK, RequestType
<1>3. WriteType'
  BY DEF Inv, TypeOK, WriteType, Ordinals, RequestType, Requests
<1>4. FlagType'
  BY Zenon DEF Inv, TypeOK, FlagType
<1>5. BeginInv'
  BY DEF Inv, BeginInv, AwaitInv
<1>6. AnswerInv'
  BY DEF Inv, AnswerInv, AwaitInv
<1>7. WriteInv'
  BY DEF Inv, TypeOK, WriteInv, ControlType, WriteType, Ordinals, AwaitInv, RequestInv,
       WellFormed, PhaseInv, CountInv, BeginInv, AnswerInv
<1>8. (AwaitInv /\ RequestInv /\ PhaseInv /\ CountInv)'
  BY DEF Inv, AwaitInv, RequestInv, PhaseInv, CountInv, WellFormed
<1>9. (CommitIsTrue /\ FailedFnNeverCommits /\ NoEscapedWrites /\ BareErrorMeansRolledBack
     /\ NoLeakedSession /\ OuterWritesSurvive /\ NestedNeverRuns)'
  <2>1. (CommitIsTrue /\ FailedFnNeverCommits /\ NoEscapedWrites /\ BareErrorMeansRolledBack
       /\ OuterWritesSurvive /\ NestedNeverRuns)'
    BY DEF Inv, Safety, CommitIsTrue, FailedFnNeverCommits, NoEscapedWrites,
         BareErrorMeansRolledBack, OuterWritesSurvive, NestedNeverRuns
  <2>2. NoLeakedSession'
    <3>1. (refused => refused') /\ (sess' = "open" => sess = "open")
      BY Zenon DEF Inv, TypeOK, FlagType
    <3> QED BY <3>1 DEF Inv, Safety, NoLeakedSession
  <2> QED BY <2>1, <2>2
<1> QED
  BY <1>1, <1>2, <1>3, <1>4, <1>5, <1>6, <1>7, <1>8, <1>9 DEF Inv, TypeOK, Safety

\* So does the end of the session on the server.
LEMMA SrvEndsStep == ASSUME Inv, SrvEnds PROVE Inv'
<1> USE DEF None, SrvEnds, client, history
<1>1. ControlType'
  BY MaxFnAssumption DEF Inv, TypeOK, ControlType
<1>2. RequestType'
  BY DEF Inv, TypeOK, RequestType
<1>3. WriteType'
  BY DEF Inv, TypeOK, WriteType, Ordinals, RequestType, Requests
<1>4. FlagType'
  BY Zenon DEF Inv, TypeOK, FlagType
<1>5. (AwaitInv /\ RequestInv /\ PhaseInv /\ CountInv /\ BeginInv /\ AnswerInv /\ WriteInv)'
  BY DEF Inv, AwaitInv, RequestInv, PhaseInv, CountInv, BeginInv, AnswerInv, WriteInv, WellFormed
<1>6. (CommitIsTrue /\ FailedFnNeverCommits /\ NoEscapedWrites /\ BareErrorMeansRolledBack
     /\ NoLeakedSession /\ OuterWritesSurvive /\ NestedNeverRuns)'
  BY DEF Inv, Safety, CommitIsTrue, FailedFnNeverCommits, NoEscapedWrites,
       BareErrorMeansRolledBack, NoLeakedSession, OuterWritesSurvive, NestedNeverRuns
<1> QED
  BY <1>1, <1>2, <1>3, <1>4, <1>5, <1>6 DEF Inv, TypeOK, Safety

\* A lost request takes nothing with it.
LEMMA NetLosesStep == ASSUME Inv, NEW r \in net, NetLoses(r) PROVE Inv'
<1> USE DEF None, NetLoses, client, server
<1>1. ControlType'
  BY MaxFnAssumption DEF Inv, TypeOK, ControlType
<1>2. RequestType'
  BY DEF Inv, TypeOK, RequestType
<1>3. WriteType'
  BY DEF Inv, TypeOK, WriteType, Ordinals, RequestType, Requests
<1>4. FlagType'
  BY Zenon DEF Inv, TypeOK, FlagType
<1>5. (AwaitInv /\ RequestInv /\ PhaseInv /\ CountInv /\ BeginInv /\ AnswerInv /\ WriteInv)'
  BY DEF Inv, AwaitInv, RequestInv, PhaseInv, CountInv, BeginInv, AnswerInv, WriteInv, WellFormed
<1>6. (CommitIsTrue /\ FailedFnNeverCommits /\ NoEscapedWrites /\ BareErrorMeansRolledBack
     /\ NoLeakedSession /\ OuterWritesSurvive /\ NestedNeverRuns)'
  BY DEF Inv, Safety, CommitIsTrue, FailedFnNeverCommits, NoEscapedWrites,
       BareErrorMeansRolledBack, NoLeakedSession, OuterWritesSurvive, NestedNeverRuns
<1> QED
  BY <1>1, <1>2, <1>3, <1>4, <1>5, <1>6 DEF Inv, TypeOK, Safety

\* So does a step that changes nothing, a refused batch load included.
LEMMA StutterStep == ASSUME Inv, UNCHANGED vars PROVE Inv'
<1> USE DEF vars, client, server, history
<1>1. TypeOK'
  BY DEF Inv, TypeOK, ControlType, RequestType, WriteType, FlagType
<1>2. (AwaitInv /\ RequestInv /\ PhaseInv /\ CountInv /\ BeginInv /\ AnswerInv /\ WriteInv)'
  BY DEF Inv, AwaitInv, RequestInv, WellFormed, PhaseInv, CountInv, BeginInv, AnswerInv, WriteInv
<1>3. Safety'
  BY DEF Inv, Safety, CommitIsTrue, FailedFnNeverCommits, NoEscapedWrites,
         BareErrorMeansRolledBack, NoLeakedSession, OuterWritesSurvive, NestedNeverRuns
<1> QED
  BY <1>1, <1>2, <1>3 DEF Inv

\* The invariant holds initially.
LEMMA InitInv == Init => Inv
<1> SUFFICES ASSUME Init PROVE Inv
  OBVIOUS
<1> USE DEF Init, None
<1>1. TypeOK
  <2>1. ControlType
    BY MaxFnAssumption DEF ControlType
  <2> QED
    BY <2>1 DEF TypeOK, RequestType, WriteType, FlagType
<1>2. AwaitInv /\ RequestInv /\ PhaseInv /\ BeginInv /\ AnswerInv
  BY DEF AwaitInv, RequestInv, PhaseInv, BeginInv, AnswerInv
<1>3. CountInv /\ WriteInv
  BY MaxFnAssumption DEF CountInv, WriteInv
<1>4. Safety
  BY DEF Safety, CommitIsTrue, FailedFnNeverCommits, NoEscapedWrites,
         BareErrorMeansRolledBack, NoLeakedSession, OuterWritesSurvive, NestedNeverRuns
<1> QED
  BY <1>1, <1>2, <1>3, <1>4 DEF Inv

\* Every step preserves it.
LEMMA NextInv == ASSUME Inv, [Next]_vars PROVE Inv'
<1>1. CASE Cancel \/ SrvEnds
  BY <1>1, CancelStep, SrvEndsStep
<1>2. CASE Caller
  <2>1. CASE Stmt \/ Outer \/ Nested \/ FnAnswered
    BY <2>1, StmtStep, OuterStep, NestedStep, FnAnsweredStep
  <2>2. CASE BatchInTx
    BY <2>2, StutterStep DEF BatchInTx
  <2>3. CASE \E e \in {"nil", "error", "panic", "goexit"} : FnEnds(e)
    BY <2>3, FnEndsStep
  <2>4. CASE Begin \/ Begun \/ RolledBack \/ Committed \/ Cleanup \/ Cleaned
    BY <2>4, BeginStep, BegunStep, RolledBackStep, CommittedStep, CleanupStep, CleanedStep
  <2> QED
    BY <1>2, <2>1, <2>2, <2>3, <2>4 DEF Caller
<1>3. CASE Server
  BY <1>3, SrvBeginStep, SrvNestedStep, SrvWriteInSessionStep, SrvWriteStep,
     SrvCommitStep, SrvRollbackStep DEF Server
<1>4. CASE \E r \in net : NetLoses(r)
  BY <1>4, NetLosesStep
<1>5. CASE UNCHANGED vars
  BY <1>5, StutterStep
<1> QED
  BY <1>1, <1>2, <1>3, <1>4, <1>5 DEF Next

\* The inductive invariant holds in every reachable state.
THEOREM Invariance == Spec => []Inv
<1>1. Inv /\ [Next]_vars => Inv'
  BY NextInv
<1> QED
  BY InitInv, <1>1, PTL DEF Spec

\* Every variable keeps its type, and a call of Transaction never sends more
\* than the callback's requests and three of its own.
THEOREM TypeCorrect == Spec => []TypeOK
<1>1. Inv => TypeOK
  BY DEF Inv
<1> QED
  BY Invariance, <1>1, PTL

\* Transaction returns nil only for a commit that took effect, with every
\* statement answered with success.
THEOREM NilMeansCommitted == Spec => []CommitIsTrue
<1>1. Inv => CommitIsTrue
  BY DEF Inv, Safety
<1> QED
  BY Invariance, <1>1, PTL

\* A callback that failed, panicked or exited is never committed.
THEOREM FailureNeverCommits == Spec => []FailedFnNeverCommits
<1>1. Inv => FailedFnNeverCommits
  BY DEF Inv, Safety
<1> QED
  BY Invariance, <1>1, PTL

\* No call on the tx handle takes effect outside its transaction.
THEOREM HandleIsConfined == Spec => []NoEscapedWrites
<1>1. Inv => NoEscapedWrites
  BY DEF Inv, Safety
<1> QED
  BY Invariance, <1>1, PTL

\* The callback's bare error is returned only after a rollback that succeeded,
\* and without losses on the network no session is left open, whenever the
\* context was cancelled.
THEOREM SessionIsReleased == Spec => []RollbackIsTrue
<1>1. Inv => RollbackIsTrue
  BY DEF Inv, Safety, RollbackIsTrue
<1> QED
  BY Invariance, <1>1, PTL

\* Writes on the outer handle are durable however the transaction ends: they
\* carry no session id, so no rollback of the server reaches them.
THEOREM OuterIsUntouched == Spec => []OuterWritesSurvive
<1>1. Inv => OuterWritesSurvive
  BY DEF Inv, Safety
<1> QED
  BY Invariance, <1>1, PTL

\* The callback of a nested Transaction never runs: the begin it sends carries
\* the session id, which the server refuses, whenever it arrives.
THEOREM NestedIsRefused == Spec => []NestedNeverRuns
<1>1. Inv => NestedNeverRuns
  BY DEF Inv, Safety
<1> QED
  BY Invariance, <1>1, PTL

-----------------------------------------------------------------------------
(* The refinement. Every step of the client leaves the server alone and at  *)
(* most tells the caller; every step of the server keeps what was told.     *)

\* A step of the client.
LEMMA ClientRefines ==
  ASSUME Inv', UNCHANGED <<sess, durable, partial, stmts>>, ret' = ret \/ ret = None
  PROVE  [Contract!Next]_(Contract!vars)
<1>1. UNCHANGED <<published, fate, partial>>
  BY DEF published, fate
<1>2. CASE ret' = ret
  BY <1>1, <1>2 DEF told, Contract!vars
<1>3. CASE ret = None /\ ret' # None
  <2>1. told = "none" /\ told' # "none"
    BY <1>3 DEF told, None
  <2>2. told' = "ok" => fate = "committed"
    BY <1>1 DEF Inv, Safety, CommitIsTrue, told, fate, None
  <2>3. told' = "rolledback" => fate = "discarded"
    BY <1>1, <1>3 DEF Inv, Safety, BareErrorMeansRolledBack, told, fate, None
  <2>4. told' \in {"ok", "rolledback", "failed"}
    BY <1>3 DEF told
  <2> QED
    BY <1>1, <2>1, <2>2, <2>3, <2>4 DEF Contract!Next, Contract!Tell
<1> QED
  BY <1>2, <1>3

\* A request of the callback: its ordinal is not durable yet.
LEMMA SendRefines ==
  ASSUME Inv, NEW k, NEW sid, FnSends(k, sid)
  PROVE  [Contract!Next]_(Contract!vars)
<1>1. stmts' \subseteq stmts \union {count + 1} /\ stmts \subseteq stmts'
  BY DEF FnSends, Send
<1>2. count + 1 \notin durable
  BY DEF Inv, TypeOK, ControlType, WriteInv
<1>3. UNCHANGED <<durable, sess, partial, ret>>
  BY DEF FnSends, server
<1>4. published' = published
  BY <1>1, <1>2, <1>3 DEF published
<1> QED
  BY <1>3, <1>4 DEF fate, told, Contract!vars

\* What the caller was told is kept, and the abstract state moves by Commit,
\* PublishPart or Discard, or not at all.
LEMMA ServerRefines ==
  ASSUME Inv, Inv', UNCHANGED <<ret, stmts>>, durable \subseteq durable',
         \/ UNCHANGED <<sess, partial>> /\ durable' \cap stmts = durable \cap stmts
         \/ sess = None /\ sess' = "open" /\ UNCHANGED <<durable, partial>>
         \/ sess = "open" /\ sess' = "open" /\ partial' = TRUE
         \/ sess = "open" /\ sess' = "committed" /\ UNCHANGED partial
         \/ sess = "open" /\ sess' = "rolledback" /\ UNCHANGED <<durable, partial>>
  PROVE  [Contract!Next]_(Contract!vars)
<1>1. told' = told
  BY DEF told
<1>2. published \subseteq published' /\ published' \in SUBSET Ordinals
  BY DEF published, Inv, TypeOK, WriteType
<1>3. CASE UNCHANGED <<sess, partial>> /\ durable' \cap stmts = durable \cap stmts
  BY <1>1, <1>3 DEF published, fate, Contract!vars
<1>4. CASE sess = None /\ sess' = "open" /\ UNCHANGED <<durable, partial>>
  BY <1>1, <1>4 DEF published, fate, None, Contract!vars
<1>5. CASE sess = "open" /\ sess' = "open" /\ partial' = TRUE
  BY <1>1, <1>2, <1>5 DEF fate, Contract!Next, Contract!PublishPart, Contract!Publish
<1>6. CASE sess = "open" /\ sess' = "committed" /\ UNCHANGED partial
  BY <1>1, <1>2, <1>6 DEF fate, Contract!Next, Contract!Commit, Contract!Publish
<1>7. CASE sess = "open" /\ sess' = "rolledback" /\ UNCHANGED <<durable, partial>>
  BY <1>1, <1>7 DEF fate, published, Contract!Next, Contract!Discard
<1> QED
  BY <1>3, <1>4, <1>5, <1>6, <1>7

\* Every step of Transaction is a step of AtomicTx, or none.
LEMMA NextRefines ==
  ASSUME Inv, Inv', [Next]_vars
  PROVE  [Contract!Next]_(Contract!vars)
<1>1. CASE Cancel \/ \E r \in net : NetLoses(r)
  BY <1>1, ClientRefines DEF Cancel, NetLoses, client, server, history
<1>2. CASE Caller
  <2>1. CASE Stmt \/ Outer \/ Nested
    BY <2>1, SendRefines DEF Stmt, Outer, Nested
  <2>2. CASE BatchInTx
    BY <2>2, ClientRefines DEF BatchInTx, vars, client, server, history
  <2>3. CASE FnAnswered
    BY <2>3, ClientRefines DEF FnAnswered, server
  <2>4. CASE \E e \in {"nil", "error", "panic", "goexit"} : FnEnds(e)
    BY <2>4, ClientRefines DEF FnEnds, server, history
  <2>5. CASE Begin \/ Begun
    <3>1. ret = None
      BY <2>5 DEF Begin, Begun, Inv, PhaseInv
    <3> QED
      BY <2>5, <3>1, ClientRefines DEF Begin, Begun, server, history
  <2>6. CASE RolledBack \/ Committed \/ Cleanup \/ Cleaned
    <3>1. ret = None
      BY <2>6 DEF RolledBack, Committed, Cleanup, Cleaned, Inv, PhaseInv
    <3> QED
      BY <2>6, <3>1, ClientRefines DEF RolledBack, Committed, Cleanup, Cleaned, server, history
  <2> QED
    BY <1>2, <2>1, <2>2, <2>3, <2>4, <2>5, <2>6 DEF Caller
<1>3. ASSUME NEW r \in net, SrvBegin(r) PROVE [Contract!Next]_(Contract!vars)
  BY <1>3, ServerRefines DEF SrvBegin, Answers, client, history, Inv, BeginInv
<1>4. ASSUME NEW r \in net, SrvNested(r) PROVE [Contract!Next]_(Contract!vars)
  BY <1>4, ServerRefines DEF SrvNested, Answers, client, server, history
<1>5. ASSUME NEW r \in net, SrvWriteInSession(r) PROVE [Contract!Next]_(Contract!vars)
  BY <1>5, ServerRefines DEF SrvWriteInSession, Answers, client, history
<1>6. ASSUME NEW r \in net, SrvWrite(r) PROVE [Contract!Next]_(Contract!vars)
  <2>1. r.n \notin stmts
    BY <1>6 DEF SrvWrite, Inv, RequestInv, WellFormed
  <2> QED
    BY <1>6, <2>1, ServerRefines DEF SrvWrite, Answers, client, history
<1>7. ASSUME NEW r \in net, SrvCommit(r) PROVE [Contract!Next]_(Contract!vars)
  BY <1>7, ServerRefines DEF SrvCommit, Answers, client, history
<1>8. ASSUME NEW r \in net, SrvRollback(r) PROVE [Contract!Next]_(Contract!vars)
  BY <1>8, ServerRefines DEF SrvRollback, Answers, client, history
<1>9. CASE SrvEnds
  BY <1>9, ServerRefines DEF SrvEnds, client, history
<1>10. CASE UNCHANGED vars
  BY <1>10, ClientRefines DEF vars, client, server, history
<1> QED
  BY <1>1, <1>2, <1>3, <1>4, <1>5, <1>6, <1>7, <1>8, <1>9, <1>10 DEF Next, Server

\* Transaction implements AtomicTx for every bound: the writes made through the
\* tx handle become durable with the commit or in a part a statement published,
\* and what the caller is told is so.
THEOREM ImplementsContract == Spec => ContractSpec
<1>1. Init => Contract!Init
  BY DEF Init, Contract!Init, published, fate, told, None
<1>2. Inv /\ Inv' /\ [Next]_vars => [Contract!Next]_(Contract!vars)
  BY NextRefines
<1> QED
  BY <1>1, <1>2, Invariance, PTL DEF Spec, ContractSpec, Contract!Spec
-----------------------------------------------------------------------------
(* The outcome is final. *)

\* A call that ran its callback and returned on a network that lost nothing, from a server
\* that did not refuse the rollback, or one whose caller was told commit or rollback.
Over == (pc = "done" /\ fnEnd # None /\ ~lost /\ ~refused) \/ ret \in {"ok", "error"}

\* The contract's fate, once it is not open, is kept with what was published.
LEMMA FateIsKept ==
  ASSUME [Contract!Next]_(Contract!vars), fate # "open"
  PROVE  UNCHANGED <<fate, published>>
BY DEF Contract!Next, Contract!vars, Contract!Commit, Contract!PublishPart, Contract!Discard,
       Contract!Tell

LEMMA OverIsSettled == ASSUME Inv, Over PROVE fate # "open"
<1>1. sess \in {"committed", "rolledback"}
  BY DEF Over, Inv, PhaseInv, Safety, NoLeakedSession, CommitIsTrue, BareErrorMeansRolledBack,
         TypeOK, ControlType, None
<1> QED
  BY <1>1 DEF fate

\* Action property: once Transaction has returned, nothing that is still on its way, be it a
\* request the client gave up on or a commit or rollback whose answer was late,
\* changes what is durable of the transaction or how it ended (transaction.go: commit,
\* rollback and the best-effort rollback are awaited before the return).
THEOREM OutcomeIsFinal == Spec => [][Over => UNCHANGED <<fate, published>>]_vars
<1>1. Inv /\ Inv' /\ [Next]_vars => [Over => UNCHANGED <<fate, published>>]_vars
  BY NextRefines, FateIsKept, OverIsSettled
<1> QED
  BY Invariance, <1>1, PTL DEF Spec
=============================================================================
