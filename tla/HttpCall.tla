--------------------------------- MODULE HttpCall ----------------------------------
(***************************************************************************)
(* One call of the Go HTTP driver, from the facade method through the      *)
(* generated client to the server and back: the request that is built, the *)
(* answer that arrives (from the server or from a proxy, whole or cut by a *)
(* failing read), what the generated parser makes of it and what the       *)
(* facade method returns.  A call of Raw() stops at the generated parser.  *)
(***************************************************************************)
EXTENDS ApiOperations, Naturals

CONSTANTS Statuses,  \* the status codes an answer may carry
          Bodies     \* the kinds of body an answer may carry

\* JSON bodies.  "fits" has the shape the contract gives the operation and status; "bare"
\* is an object that lacks the "result" member; "graph" a query result of vertices and
\* edges; "mistyped" an object with a member of the wrong type; "array" a JSON value that
\* is no object.  "text" is not JSON, and "partial" the beginning of a JSON body.
Objects == {"fits", "bare", "graph", "mistyped"}
Json == Objects \cup {"array", "null"}

ASSUME StatusesAssumption == Statuses \subseteq 100..599
ASSUME BodiesAssumption == Bodies \subseteq Json \cup {"text", "empty"}

\* what a read that fails midway may have delivered of body b
Cut(b) == IF b \in Json THEN {"empty", "partial", b} ELSE {"empty", b}

---------------------------------------------------------------------------
(* The facade methods.  "typed" ones go through ...WithResponse and so through the
   generated parser, "plain" ones read the body themselves.  wants is what the method
   makes of a success, session what it does on a transaction's handle ("refused" sends
   nothing), local whether it may refuse its arguments, or fail to encode them as JSON,
   before anything is sent.  A stream is the answer once its status is known; its lines are
   ResultStream's and BatchUpload's. *)

Method(on, reads, op, wants, session, local) ==
    [on |-> on, reads |-> reads, op |-> op, wants |-> wants, session |-> session, local |-> local]
OnServer(op, wants) == Method("server", "typed", op, wants, "none", FALSE)
OnDatabase(op, wants) == Method("database", "typed", op, wants, "handle", FALSE)
Checked(m) == [m EXCEPT !.local = TRUE]
Plain(m) == [m EXCEPT !.reads = "plain"]
Own(m) == [m EXCEPT !.session = "own"]
Alone(m) == [m EXCEPT !.session = "refused", !.local = TRUE]

DatabaseQuery == Checked(OnDatabase(ExecuteQueryPostWithResponse, "envelope"))
DatabaseCommand == Checked(OnDatabase(ExecuteCommandWithResponse, "envelope"))
QueryStream == Plain(Checked(OnDatabase(ExecuteQueryPostWithResponse, "stream")))
CommandStream == Plain(Checked(OnDatabase(ExecuteCommandWithResponse, "stream")))
BatchLoad == Plain(Alone(OnDatabase(ExecuteBatchWithResponse, "summary")))
BatchLoadStream == Plain(Alone(OnDatabase(ExecuteBatchWithResponse, "stream")))
beginTransaction == OnDatabase(BeginTransactionWithResponse, "session")
commitTransaction == OnDatabase(CommitTransactionWithResponse, "status")
rollbackTransaction == OnDatabase(RollbackTransactionWithResponse, "status")
VectorSearch == Checked(OnDatabase(VectorSearchWithResponse, "document"))
VectorHybrid == Checked(OnDatabase(HybridSearchWithResponse, "document"))
VectorFulltext == Checked(OnDatabase(FullTextSearchWithResponse, "document"))
PromQLQuery == Own(OnDatabase(PromQLQueryWithResponse, "document"))
PromQLQueryRange == Own(OnDatabase(PromQLQueryRangeWithResponse, "document"))
PromQLLabels == OnDatabase(PromQLLabelsWithResponse, "document")
PromQLLabelValues == Own(OnDatabase(PromQLLabelValuesWithResponse, "document"))
PromQLSeries == Own(OnDatabase(PromQLSeriesWithResponse, "document"))
TimeSeriesWrite == Plain(OnDatabase(WriteTimeSeriesWithResponse, "status"))
TimeSeriesQuery == Plain(Checked(OnDatabase(QueryTimeSeriesWithResponse, "document")))
TimeSeriesLatest == Plain(OnDatabase(GetTimeSeriesLatestWithResponse, "document"))
GrafanaQuery == Plain(Checked(OnDatabase(QueryGrafanaWithResponse, "document")))
DatabaseProgress == [OnDatabase(GetOperationProgressWithResponse, "document") EXCEPT !.session = "none"]

ListDatabases == OnServer(ListDatabasesWithResponse, "list")
Exists == OnServer(CheckDatabaseExistsWithResponse, "list")
ServerInfo == OnServer(GetServerInfoWithResponse, "document")
Health == OnServer(CheckHealthWithResponse, "health")
Ready == OnServer(CheckReadyWithResponse, "ready")
ServerCommand == Plain(OnServer(ExecuteServerCommandWithResponse, "document"))
databaseCommand == Checked(ServerCommand)
runningCommand == Plain(Checked(OnServer(ExecuteServerCommandWithResponse, "result")))
CreateUser == OnServer(CreateUserWithResponse, "status")
UpdateUser == OnServer(UpdateUserWithResponse, "status")
DropUser == OnServer(DeleteUserWithResponse, "status")
ListUsers == OnServer(ListUsersWithResponse, "list")
ListGroups == OnServer(ListGroupsWithResponse, "list")
SaveGroup == Checked(OnServer(CreateOrUpdateGroupWithResponse, "status"))
DeleteGroup == OnServer(DeleteGroupWithResponse, "status")
login == OnServer(LoginWithResponse, "document")
ServerLogout == Checked(OnServer(LogoutWithResponse, "status"))
ListSessions == OnServer(ListSessionsWithResponse, "list")
CreateAPIToken == Checked(OnServer(CreateApiTokenWithResponse, "document"))
ListAPITokens == OnServer(ListApiTokensWithResponse, "list")
DeleteAPIToken == Checked(OnServer(DeleteApiTokenWithResponse, "status"))

FacadeMethods ==
    {DatabaseQuery, DatabaseCommand, QueryStream, CommandStream, BatchLoad, BatchLoadStream, beginTransaction, commitTransaction, rollbackTransaction,
     VectorSearch, VectorHybrid, VectorFulltext, PromQLQuery, PromQLQueryRange, PromQLLabels,
     PromQLLabelValues, PromQLSeries, TimeSeriesWrite, TimeSeriesQuery, TimeSeriesLatest,
     GrafanaQuery, DatabaseProgress, ListDatabases, Exists, ServerInfo, Health, Ready,
     ServerCommand, databaseCommand, runningCommand, CreateUser, UpdateUser, DropUser,
     ListUsers, ListGroups, SaveGroup, DeleteGroup, login, ServerLogout, ListSessions,
     CreateAPIToken, ListAPITokens, DeleteAPIToken}

\* Raw() hands out the generated client: any operation, parameters as the caller sets them
Raw == {Method("raw", "typed", op, "response", "own", FALSE) : op \in Operations}

---------------------------------------------------------------------------
VARIABLES
    phase,    \* "idle", "sent", "answered", "done"
    call,     \* the method called, whether on a transaction's handle, and whether the
              \* caller passes a session id of its own
    sent,     \* the header parameters of the request on the wire
    answer,   \* the answer that arrived
    result    \* what the method returned

httpVars == <<phase, call, sent, answer, result>>

Failure(err) == [err |-> err, status |-> 0, told |-> FALSE, value |-> "none"]
Value(v) == [err |-> "nil", status |-> 0, told |-> FALSE, value |-> v]
NoAnswer == [status |-> 0, json |-> FALSE, body |-> "empty", got |-> "empty", fault |-> FALSE, sid |-> FALSE]

HttpInit ==
    /\ phase = "idle"
    /\ call = [method |-> Health, tx |-> FALSE, own |-> FALSE]
    /\ sent = {}
    /\ answer = NoAnswer
    /\ result = Value("none")

(***************************************************************************)
(* What the answer is turned into                                          *)
(***************************************************************************)

\* the types whose result is a string, a flag or a list
FlatResults == {"ApiTokenList", "ClusterActionResponse", "DatabaseExists", "DatabaseList", "ProgressResponse",
                "SecurityAdminResult", "SessionList", "UserList"}

\* encoding/json: a union keeps any value, a map (or a struct of unions) takes any object
Unmarshals(type, got) ==
    \/ got \in {"fits", "bare", "null"}
    \/ got = "graph" /\ type \notin FlatResults
    \/ got = "mistyped" /\ type \in {"map[string]interface{}", "ServerCommandResponse"}
    \/ got \in Json /\ type \in {"JsonRpcMessage", "QueryTimeSeries200JSONResponseBody", "VerifyDatabaseResponse"}

isSuccess(status) == status \in 200..299

\* errorFromHeaders: told says whether the body contributed its fields
ArcadeDBError(a) ==
    [err |-> "ArcadeDBError", status |-> a.status, told |-> a.got \in Objects, value |-> "none"]

\* the label of the body is not looked at
FaultyDecodes(op, a) == a.status \in DOMAIN op.parse

\* the generated parser decodes this answer
Decodes(op, a) == a.json /\ a.status \in DOMAIN op.parse

\* a failed read of the body is ignored
FaultyParse(op, a) ==
    IF Decodes(op, a) /\ ~Unmarshals(op.parse[a.status], a.got) THEN "decode" ELSE "nil"

\* the error of a generated parser, "nil" when it returns a response
Parse(op, a) ==
    IF a.fault THEN "read"
    ELSE IF Decodes(op, a) /\ ~Unmarshals(op.parse[a.status], a.got) THEN "decode"
    ELSE "nil"

\* the 2xx status whose document the method reads, and the type it is decoded into
Documented(op) == CHOOSE s \in DOMAIN op.parse : isSuccess(s)
DocumentType(m) == IF m.reads = "plain" THEN "map[string]interface{}" ELSE m.op.parse[Documented(m.op)]

\* the parser's document, else one decoded from the body here, else "nil"; "zero" is the
\* Go value a JSON null leaves untouched
decodeBody(m, a) ==
    IF m.reads = "typed" /\ Decodes(m.op, a) /\ a.status = Documented(m.op)
    THEN IF a.got = "null" THEN "zero" ELSE "document"
    ELSE IF a.got \in {"empty", "null"} THEN "nil"
    ELSE IF Unmarshals(DocumentType(m), a.got) THEN "document"
    ELSE "decode"

nonEmpty(d) ==
    IF d = "nil" THEN Failure("ErrEmptyBody") ELSE IF d = "decode" THEN Failure("decode") ELSE Value(d)

\* a list or a flag: nothing decoded reads as empty
listFromBody(m, a) ==
    LET d == decodeBody(m, a) IN
    IF d = "decode" THEN Failure("decode")
    ELSE Value(IF d \in {"nil", "zero"} \/ a.got = "bare" THEN "default" ELSE d)

\* a graph result is refused with the status 200 it came with
envelopeFromBody(m, a) ==
    LET d == decodeBody(m, a) IN
    IF d = "decode" THEN Failure("decode")
    ELSE IF d = "document" /\ a.got = "graph"
         THEN [err |-> "ArcadeDBError", status |-> 200, told |-> TRUE, value |-> "none"]
    ELSE Value(IF d \in {"nil", "zero"} THEN "default" ELSE d)

resultFromBody(a) ==
    IF a.got \in {"empty", "null", "bare"} THEN Failure("ErrEmptyBody")
    ELSE IF a.got \in Objects \ {"mistyped"} THEN Value("document")
    ELSE Failure("decode")

\* BatchLoad reports a failed read and decodes into a map, which a JSON null leaves nil
summaryFromBody(a) ==
    IF a.fault THEN Failure("read")
    ELSE IF a.got = "null" THEN Value("zero")
    ELSE IF a.got \in Objects THEN Value("document")
    ELSE Failure("decode")

\* a 2xx answer, as the method wants it
Accepted(m, a) ==
    CASE m.wants \in {"status", "ready", "stream"} -> Value("done")
      [] m.wants = "document" -> nonEmpty(decodeBody(m, a))
      [] m.wants = "list" -> listFromBody(m, a)
      [] m.wants = "envelope" -> envelopeFromBody(m, a)
      [] m.wants = "result" -> resultFromBody(a)
      [] m.wants = "summary" -> summaryFromBody(a)
      [] m.wants = "session" -> IF a.sid THEN Value("done") ELSE ArcadeDBError(a)

Checks(m, a) ==
    IF m.wants = "response" THEN Value("response")
    ELSE IF m.wants = "health" THEN IF a.status = 204 THEN Value("done") ELSE ArcadeDBError(a)
    ELSE IF m.wants = "ready" /\ a.status = 503 THEN Value("false")
    ELSE IF isSuccess(a.status) THEN Accepted(m, a)
    ELSE ArcadeDBError(a)

(***************************************************************************)
(* The call                                                                *)
(***************************************************************************)

\* the handle's session is lost where the caller could have passed its own
FaultyGiven(m, tx, own) ==
    {h \in {Session} : (tx /\ m.session = "handle") \/ (own /\ m.session = "own")}

\* the header parameters the method hands to the builder
Given(m, tx, own) == {h \in {Session} : (tx /\ m.session # "none") \/ (own /\ m.session = "own")}

Invoke(m, tx, own) ==
    /\ phase = "idle"
    /\ tx => m.on = "database" /\ m.session # "refused"
    /\ own => m.session = "own"
    /\ call' = [method |-> m, tx |-> tx, own |-> own]
    /\ sent' = Given(m, tx, own) \cap m.op.request.takes
    /\ phase' = "sent"
    /\ UNCHANGED <<answer, result>>

\* an argument check or the encoding of the body fails, or a batch is loaded on the handle of
\* a transaction: nothing is sent
Refuse(m) ==
    /\ phase = "idle" /\ m.local
    /\ call' = [method |-> m, tx |-> FALSE, own |-> FALSE]
    /\ sent' = {}
    /\ result' = Failure("local")
    /\ answer' = NoAnswer
    /\ phase' = "done"

NetFails ==
    /\ phase = "sent"
    /\ result' = Failure("transport")
    /\ answer' = NoAnswer
    /\ phase' = "done"
    /\ UNCHANGED <<call, sent>>

\* a 204 and the answer to a HEAD carry no body; only begin answers with a session id
Respond(status, json, body, got, sid) ==
    LET fault == got # "whole" IN
    /\ phase = "sent"
    /\ status = 204 \/ call.method.op.request.method = "HEAD" => body = "empty" /\ ~fault
    /\ sid => call.method.wants = "session"
    /\ fault => got \in Cut(body)
    /\ answer' = [status |-> status, json |-> json, body |-> body,
                  got |-> IF fault THEN got ELSE body, fault |-> fault, sid |-> sid]
    /\ phase' = "answered"
    /\ UNCHANGED <<call, sent, result>>

Return ==
    LET m == call.method
        err == IF m.reads = "typed" THEN Parse(m.op, answer) ELSE "nil"
    IN
    /\ phase = "answered"
    /\ result' = IF err # "nil" THEN Failure(err) ELSE Checks(m, answer)
    /\ phase' = "done"
    /\ UNCHANGED <<call, sent, answer>>

NextCall ==
    /\ phase = "done"
    /\ phase' = "idle"
    /\ call' = [method |-> Health, tx |-> FALSE, own |-> FALSE]
    /\ sent' = {}
    /\ answer' = NoAnswer
    /\ result' = Value("none")

HttpNext ==
    \/ \E m \in FacadeMethods \cup Raw, tx, own \in BOOLEAN : Invoke(m, tx, own)
    \/ \E m \in FacadeMethods : Refuse(m)
    \/ NetFails
    \/ \E s \in Statuses, json, sid \in BOOLEAN, b \in Bodies,
          got \in Json \cup {"whole", "empty", "partial", "text"} : Respond(s, json, b, got, sid)
    \/ Return
    \/ NextCall

HttpSpec == HttpInit /\ [][HttpNext]_httpVars

---------------------------------------------------------------------------
Facade == call.method \in FacadeMethods
HasAnswer == phase = "done" /\ answer # NoAnswer

\* What a method returns is the server's: a value only under a success status (Health only
\* under 204, Ready's false only under 503), a document only when the whole body arrived,
\* and an empty list or envelope only when the server really sent none.  A body cut by a
\* failing read, which the plain methods ignore (readChecked), never passes for an answer.
\* A document of zeros is made of a whole null only, by BatchLoad or by the generated parser,
\* whose document decodeBody returns before it looks for an empty body (errors.go:242).
AnswerIsWhole ==
    HasAnswer /\ Facade /\ result.err = "nil" =>
        /\ result.value = "false" => answer.status = 503
        /\ result.value # "false" => isSuccess(answer.status)
        /\ result.value = "document" => answer.got = answer.body
        /\ result.value = "default" => ~answer.fault /\ answer.body \in {"empty", "null", "bare"}
        /\ result.value = "zero" =>
              /\ ~answer.fault /\ answer.body = "null"
              /\ call.method = BatchLoad \/ Decodes(call.method.op, answer)

\* A refusal is reported with its status: a non-2xx answer that arrives whole and either has
\* the documented shape or is no JSON at all (a proxy's page) comes back from every facade
\* method as an *ArcadeDBError with that status and the body's fields, Ready's 503 apart,
\* and from Raw() as a response, never as an error.
RefusalIsTyped ==
    HasAnswer /\ ~isSuccess(answer.status) /\ ~answer.fault /\ (answer.body = "fits" \/ ~answer.json) =>
        IF Facade
        THEN result = ArcadeDBError(answer) \/ (call.method = Ready /\ result = Value("false"))
        ELSE result = Value("response")

\* Nothing a transaction's handle sends escapes the transaction: each request of each
\* database method carries the session header, set by the facade and written by the
\* generated builder, Progress (which runs no statement) apart, the streams included; a batch
\* load, whose endpoint takes no session, sends nothing on the handle; and no other request
\* carries one, unless the caller passed a session id of its own.
SessionTravels ==
    phase \in {"sent", "answered"} =>
        /\ call.tx /\ call.method # DatabaseProgress => Session \in sent
        /\ Session \in sent => call.tx \/ call.own

\* What errors.go says of ArcadeDBError: "returned by every facade method when the server
\* answers with a non-2xx status", its body "absent, unparsable, or missing individual
\* fields; parsing an error never itself fails".
EveryRefusalIsTyped ==
    HasAnswer /\ Facade /\ ~isSuccess(answer.status) /\ ~answer.fault =>
        \/ result.err = "ArcadeDBError" /\ result.status = answer.status
        \/ call.method = Ready /\ result = Value("false")
=============================================================================
