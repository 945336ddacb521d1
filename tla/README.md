# TLA+ verification of the ArcadeDB drivers

This directory is a verification project for the ArcadeDB client drivers (Go,
Python and TypeScript, each with an HTTP and a gRPC package). It models the
hand-written control of the drivers: sessions, transactions, uploads and streams,
together with the goroutines, connections, cancellations and server answers they
interleave with, the calls that pass through the generated HTTP client of Go, and
what the drivers write and read as text and numbers. The gRPC stubs and the
generated clients of the other languages are transports and external to the models.

Contents: [inventory](#inventory), [modules](#modules-and-the-code),
[runs](#runs), [fairness](#fairness), [proofs](#proofs),
[findings](#findings), [only model-checked](#only-model-checked),
[not modelled](#not-modelled), [plan](#plan).

## Inventory

The drivers are ports of one another: every language has the same parts, and the
Go code is the one modelled first. A part's row says what state it keeps between
calls or during one, which operations change it, and what makes it hard.

| Part | State | Operations | Interactions | Hard behaviour | Correct when |
|---|---|---|---|---|---|
| Insert session, `go/arcadedb/insertsession.go` | open flag, chunk sequence number, inbound channel, WebSocket, read error | open, `SendChunk`, `Commit`, `Rollback`, `Close`; `readLoop` goroutine; `abort` | duplex frames with the server; `readLoop` hands frames to the caller through a channel; a session may join a transaction | an unsolicited error frame at any time, timeouts racing late answers, refusals, expiry, restart, a full channel | both ends agree on the sequence, at most one chunk is in doubt, the outcome told is the one that happened, no goroutine or server session is left |
| HTTP transaction, `go/arcadedb/transaction.go`, `database.go` | the session id in the tx handle | begin, callback, commit, rollback, nested and outer calls, batch refused | every request of the handle carries the id; the server holds the session | lost commit answers, cancellation anywhere, panic and `Goexit`, expiry, requests that arrive late | nil means committed, a failed callback never commits, nothing escapes, no session leaks |
| gRPC transaction and handle, `go/arcadedbgrpc/transaction.go` | transaction id | the same; `ExecuteQuery` ... `InsertStream` on the handle | the caller's messages are copied and bound; streams open later | as above, `committed=false`, aliasing of the caller's message, lazily opened streams | as above, and calls stay on their side of the handle |
| Batch upload, `go/arcadedb/batch.go`, `internal/batchrows` | pipe, buffer, writer goroutine, result channel, `once` | `startUpload`, `stop`, `fail`, `BatchLoad`, `BatchLoadStream` | caller's sequences run on the writer; the transport reads the pipe; the server may answer early | panic and `Goexit` across goroutines, a writer blocked on a pipe nobody reads, which error to report | the writer is always joined, a cut upload never looks complete, the caller's own fault is what is reported |
| gRPC client streams, `go/arcadedbgrpc/insert.go` | pulled sequence, lookahead batch, RPC | `InsertStream`, `TimeSeriesWriteStream`, `failedSend` | pulls the caller's sequence; grpc-go; the server may end the stream early | the last flag one batch late, `io.EOF` hiding the status, panics | the envelope is exact, a torn stream never looks whole |
| gRPC result streams, `go/arcadedbgrpc/stream.go` | RPC context, received message, position in it | `recvAll`, `StreamQuery`, `TimeSeriesQuery` | opened when ranged over, cancelled on every exit; grpc-go buffers ahead | the caller leaving inside a batch, a failure or a cancellation in the middle, empty batches | a failure never looks like a shorter answer, the RPC is cancelled on every way out |
| NDJSON streams, `go/arcadedb/stream.go`, `internal/ndjson` | partial line, buffered reader, `resp.Body` | `Lines`, `stream`, `unpackStream`, `decodeStreamLine` | response body, in-band errors, the caller's loop | a line cut by the end of the body or longer than the buffer, a failed read, a missing trailer, unknown events | no partial event, one error at most and last, the end says what happened, the body is closed |
| Errors and numbers, `go/arcadedb/errors.go`, `running.go`, `stream.go`, `batch.go` | none | status, `Retry-After`, commit index, rows written, waits | the numbers of headers and of JSON objects | the limits of int64, int32, float64 and `Duration` | a number is the server's, the nearest float64, saturated or absent |
| Commands as text, `go/arcadedb/admin.go`, `running.go` | none | `CreateDatabase`, `DropDatabase`, `ListQueries`, `Terminate*` | the server trims and splits one string | white space and control characters at the ends of an argument | the server acts on what the caller named, or on what it trims it to |
| Login sessions and tokens, `session.go`, `auth.go`, `server.go` | the header map of each client; the server's sessions | `Login`, `LoginAs`, `WithToken`, `Logout` | derived clients used by several goroutines | lost answers, sessions the server ends, a logout that ends nothing | a request acts as the user it was meant for, a successful logout ended the session |
| Request mapping, `envelope.go`, `server.go`, `admin.go`, `timeseries.go`, `vector.go`, `promql.go`, `dashboards.go`, and the generated `client.gen.go` | none | every facade method and `Raw()`: one request, one answer | the generated builder and parser between the facade and the server | refusals of proxies, bodies cut, null, mistyped or mislabelled, the session header through three layers | a cut body is no answer, a refusal keeps its status, nothing on a handle escapes its transaction |
| gRPC client, `go/arcadedbgrpc/client.go`, `auth.go` | connection, credentials | `NewClient`, `Raw`, `Close` | - | nothing after construction | - |
| Python HTTP driver, `facade/*`, `aio.py`, `_internal/*` | as Go | as Go, sync and asyncio | threads, event loop | cancellation at an `await` | as Go |
| Python gRPC driver | as Go | as Go, sync and asyncio | | | as Go |
| TypeScript HTTP and gRPC drivers | as Go | as Go | event callbacks, promises, timers | an answer already queued when a timer fires | as Go |

`PROJECT.json` lists the same parts under `components` with their status, and under
`hazards` the places where the code is hard to test, each with the properties
that would catch it going wrong.

## Modules and the code

Names follow the source. Every module starts with a comment that says what it
models; operators marked *Faulty* are plausible bugs of the action that
follows them, and exist so that each property can be shown to be able to fail.
`MC*` modules are the ones TLC runs and add only values of constants and symmetry.

**`InsertSession`** is one insert session. `handle`, `cfg`, `open`, `chunkSeq`
are the fields of the Go struct; `call` and `stage` say where the owning
goroutine is (`Write`, `WriteFails`, `Timeout`, `ConnectionEnded`, `Answer` are the
branches of `exchange`); `in`, `reader`, `held` are the channel and `readLoop`;
`aborted` is `abort()`; `toServer` and `toClient` are the wire. The `Srv*` actions
are the server, modelled from the driver's comments and tests: it applies chunks
in sequence, refuses, fails a whole chunk, expires, loses the session, closes the
connection. A record batch is the ordinal of its `SendChunk`, so that what was
applied can be compared with what was acknowledged. **`AtomicLoad`** is the
abstract promise of a session that does not commit chunk by chunk: all accepted
chunks become durable in one step, or none.

**`Transaction`** is one `Database.Transaction`. `pc` follows the function,
`fnEnd` is how the callback ended (nil, error, panic, `Goexit`), `ctx` is the
caller's context, which `Cancel` may end at any moment. The server may refuse anything,
the rollback of an open session included (`refused`). A request carries its kind,
whether it holds the session id and whether it runs under
`context.WithoutCancel`. Requests travel independently: one the client gave up on
may still arrive, after later ones, and requests and answers may be lost.
`FnSends` covers the callback's calls: statements on the handle (`Stmt`), calls on
the outer handle (`Outer`) and a nested `Transaction` (`Nested`); `BatchInTx` is the
refused batch load. A statement may publish a part of the transaction by itself
(the server's partial commit, documented at `transaction.go:93`), which
`partial` records. **`AtomicTx`** is the abstract contract of both transaction
blocks.

**`GrpcTransaction`** is `Client.Transaction` with its `TxHandle`. On top of
the above: `msg` is a message the caller owns, edits (`Edit`) and reuses for calls
on the handle (`HandleCall`) and on `Raw()` (`RawCall`); `bind` is the copy with
database and transaction replaced; `lazy` is a stream built on the handle and
ranged over later; a commit may be answered `committed=false`. A call may publish part
of the transaction (`partial`) and a rollback may be refused (`refused`) as over HTTP.

**`BatchUpload`** is `BatchLoad` and `BatchLoadStream` (`mode`). The writer
goroutine (`NextRow`, `FillBuffer`, `Flush`, `WriteReturns`, `CloseWriter`,
`SendResult`) encodes rows into a buffer and a pipe; a row is `Size` units, from where
`RowEnds` says that it ends, so that a flush can cut it, and one longer than the buffer goes
past it as `bufio` sends it. `Net*` is the transport, `Srv*` the server; the caller's
goroutine is `Responded`, `BodyRead`, `StreamEnds`, then `Stop`, `Join` and the
deferred stop. `Reported` is the choice `fail` makes.

**`InsertStream`** is `insertStream` and `TimeSeriesWriteStream` (`api`). `src`
is the pulled sequence; `held` and `ahead` are `current` and `following`; `chunk` is
the envelope; `SendEOF` and `SendFails` are the two kinds of failed `Send`;
`Returns` runs the deferred `stop` and `cancel`. `rpc` is the RPC at the client and `srv`
the stream at the server: a cancellation reaches it later (`SrvAborts`), after chunks and a
half-close already on the wire, which the server may still take. `eos` records that it saw
a clean end of the stream.

**`RecordStream`** is what one range over a result stream promises: items in order and without
gaps, an end or one error or the caller leaving, nothing afterwards, and what the request holds
released before the loop returns. **`ResultStream`** implements it for NDJSON over HTTP. A body
is a sequence of lines of three units, the last one the line feed; `Arrive` and `BodyEnds` are
the network, `ReadSlice` the loop of `ndjson.Lines` over `bufio` (a line feed, a full buffer,
the end, a failed read), `decodeStreamLine` what the line becomes, `Continue` and `Leave` the
caller's loop body. Lines come in any order, those after the stats or after an error included:
the loop reads on after stats. A line that is half there is never JSON. **`GrpcResultStream`**
implements it for `recvAll`, with the batches of a query flattened by `streamQuery`; a
time-series message counts as a batch of one.

**`ApiRequests`**, **`ApiResponses`** and **`ApiOperations`** are the generated HTTP client, one
definition for each `New...Request`, `Parse...Resp` and `...WithResponse`: the HTTP method,
the path and the header parameters of a request; the status codes a parser decodes and
into which type; and which builder goes with which parser. **`HttpCall`** composes them
with the facade: every facade method is a record that says which operation it calls,
whether it goes through the generated parser or reads the body itself, whether it
refuses arguments, and what it wants of a success. `Respond` is the server or a proxy
(any status, label, body and cut); `Parse` is the generated parser, `decodeBody`,
`listFromBody`, `envelopeFromBody`, `resultFromBody` are the functions of `envelope.go`
and its neighbours. `Raw()` is any of the 96 operations. The streams and the batch loads are
calls like the others up to their status; what follows is `ResultStream` and `BatchUpload`.
The insert session is no such call: its WebSocket handshake, and the transaction id it may
join, stay with `InsertSession`.

**`LoginSessions`** is several clients at once. `clients` are handles on `maps`, so
that a map shared by mistake is visible; a request takes its `Authorization` from the
map when it is built, an editor of the call after the client's own. On the server
are the sessions ever opened and the live ones, which it may end by itself.

**`ServerText`** composes **`ServerCommands`** and **`ServerNumbers`**, one exchange at a
time. `ServerCommands` puts commands together from strings over four classes of
characters, as the driver's checks and the server's trimming tell them apart, and
rounds the wait of a terminate command. `ServerNumbers` reads the numbers of a
failed answer through a float64, an int32 and an int64 whose limits are constants
(`Exact` and `Powers`, `MaxInt32`, `MaxInt64`), with every nearest float and both
platforms' result of a conversion that does not fit. **`GoIntegers`** holds int64
arithmetic. The specification is called `TextSpec`. A keyword of the command language
(`database`, `tag`) is one element of a string and no argument holds one: how the server
looks for them in a command is not told by the repository, so an argument equal to a keyword
is not considered.

Two MC modules put two specifications that share no variable behind one run, as one or the
other: **`MCHttpWire`** runs `ResultStream` or `ServerText`, **`MCHttpClient`** runs
`LoginSessions` or `HttpCall`.

## Runs

| Run | Bounds | Checks |
|---|---|---|
| `insert_session` | 3 chunks, channel of 1, 1 stray frame, all four modes; 293 403 states | types, `SequenceAgreement`, `OneChunkInDoubt`, `OutcomeIsTrue`, `EndIsNoticed`, the refinement of `AtomicLoad`, and under fairness `CallsReturn` and `AbandonedIsReleased` |
| `insert_session_timeout` | 1 chunk, no stray frames | expected violation of `TimeoutRollsBack`, see [findings](#findings) |
| `transaction` | 2 requests of the callback; 27 436 states | `CommitIsTrue`, `FailedFnNeverCommits`, `NoEscapedWrites`, `RollbackIsTrue`, `OuterWritesSurvive`, `NestedNeverRuns`, and the contract `AtomicTx` |
| `grpc_transaction` | the caller starts calls up to the third RPC, three messages; 1 606 517 states | `OutcomeIsTrue`, `FailedFnNeverCommits`, `HandleIsConfined`, the contract `AtomicTx` |
| `batch_upload` | 2 vertices, 2 edges, rows of 1, 6, 2 and 2 units, buffer of 3; 79 312 states | `WireInOrder`, `WriterJoined`, `CompleteMeansAll`, `OwnFaultReported`, and under fairness `CallReturns` |
| `insert_stream` | 4 batches, any of them empty; 30 129 states | `EnvelopeIsExact`, `CleanEndIsWhole`, `ResultIsServers`, `NothingOutlivesCall`, and under fairness `EndedCallReturns` |
| `grpc_result_stream` | 3 messages of 0 to 2 records; 10 000 states | `EndIsWhole`, the contract `RecordStream` |
| `http_wire` | every body of 3 lines of six kinds, a buffer of 2 units; arguments of up to 3 characters, int64 to 127, int32 to 7, floats exact below 32, numbers to 270; 99 984 states | `EndIsExplained`, the contract `RecordStream`; `TargetIsNamed`, `NumbersAreKept` |
| `server_text_count` | the numbers of `http_wire` | expected violation of `CountIsNeverNegative`, see [findings](#findings) |
| `server_text_wait` | the waits of `http_wire` | expected violation of `WaitIsNeverCut`, see [findings](#findings) |
| `http_client` | 43 facade methods and 96 raw operations, seven statuses, eight bodies, labelled JSON or not, whole or cut; 2 users (symmetric), 3 clients, 2 sessions, 4 requests; 5.1 million states | `AnswerIsWhole`, `RefusalIsTyped`, `SessionTravels`; `ActsAsMeant`, `LogoutMeansGone` |
| `http_call_refusals` | the calls of `http_client`, nine statuses | expected violation of `EveryRefusalIsTyped`, see [findings](#findings) |

Why the bounds are enough to meet the interesting cases:

- *Insert session.* Three chunks give acknowledged chunks followed by one in
  doubt, a whole-chunk failure followed by a retry and another chunk, and a late
  answer that could meet the next frame. A channel of one (eight in the code) is full as soon as a
  second frame arrives, which is the only thing the capacity decides. One stray
  frame is enough to be out of step.
- *Transactions.* Two callback requests give one that was given up on and is
  still on its way when the next request, the commit or the rollback is sent.
  The HTTP results are also proved for every bound.
- *Batch upload.* A buffer of three units is filled by a row that fits, by one cut over
  it, and by one of six units, which goes out in a flush with a full rest past the buffer;
  flushes fall inside and between rows. Two rows in each sequence put every fault before, at
  and after the change from vertices to edges.
- *Client stream.* Four batches put an empty batch first, in the middle and
  last, with the lookahead before and after it. Also proved for every bound.
- *Result streams.* Three lines put an event, an error, a blank or an unknown line
  before, between and after others; a line of three units with a buffer of two is cut
  in and after its text, by the buffer as by the end of the body. Three messages put an
  empty batch first, in the middle and last, and two records leave room to leave
  inside a batch.
- *HTTP calls.* The statuses are one of each way a method or a parser tells them apart:
  documented, another success, no content, documented and undocumented refusals, and
  503, which `Ready` takes for an answer.
- *Login sessions.* Three clients give one, one derived from it and one derived from
  either; two sessions tell a client's own from another's; four requests give a
  login, a logout and a call of another client between the two with one to spare.
- *Text and numbers.* Three characters have two ends and a middle. The widths keep the
  order of the real ones (int32 < mantissa < int64), so that each limit is met by numbers
  on both sides: 270 is above 2^8, where an int64 and an unsigned one wrap. Also proved
  for every length and width.

Deadlock checking is off where a model ends: its call has returned and the server has
nothing left to do, or its clients have used up their requests. `http_call_refusals`,
`server_text_count` and `server_text_wait` start another call and never end.

## Fairness

Only `insert_session`, `batch_upload` and `insert_stream` assume any, for their liveness
properties, and no server is ever assumed to answer.

- *Insert session*: the owning goroutine runs when it can, and `readLoop` when it is not
  blocked in `Read` on a silent connection (`silent`): a read may fail at any time, but
  nothing says that it does while the connection is up. Every
  exchange has a deadline (`context.WithTimeout`, `insertsession.go:493`), so
  `Timeout` is always there to be taken. A connection the client dropped is
  eventually noticed by the server (TCP close), which ends the session.
- *Batch upload*: both goroutines run, the caller's sequences end, and the
  transport, reading an aborted body, fails the request. The last is what
  `net/http` does with a body whose `Read` fails, as long as it is still sending.
- *Client stream*: the calling goroutine runs and the caller's sequence yields or
  ends; grpc-go reports an ended RPC from `Send` and `Recv`. The code's own comment
  says that a blocked sequence cannot be interrupted.

No property says that `Transaction` returns: its rollback runs without
cancellation, so only the HTTP client's own timeout bounds it.

## Proofs

Checked by TLAPS for every value of the constants. Each module of proofs has the same
shape: an inductive invariant `Inv` in named parts, lemmas about the data the model uses,
a lemma for each action with a step for each part that action disturbs, `InitInv` and
`NextInv`, the theorems for the properties the runs check, and, where there is an abstract
specification, a lemma that says to which abstract step or stutter each action maps. Frame
lemmas (`WriterFrame`, `NetFrame`, `CallFrame`, `DropUp`, ...) say once what a step that
leaves some variables alone preserves. All inductive invariants and action
properties were checked with TLC before they were proved.

| Module | Assumes | Proves (the run's property) |
|---|---|---|
| `InsertSessionProofs` | `BoundsAssumption`, `ModesAssumption` | `TypeCorrect` (`TypeOK`), `EndsAgree` (`SequenceAgreement`), `AtMostOneInDoubt` (`OneChunkInDoubt`), `OutcomeTrue` (`OutcomeIsTrue`), `EndNoticed` (`EndIsNoticed`), `ImplementsAtomicLoad` (`AtomicLoadSpec`), `ClosedIsFinal` and `ToldIsFinal` (action properties) |
| `TransactionProofs` | `MaxFnAssumption` | `NilMeansCommitted` (`CommitIsTrue`), `FailureNeverCommits` (`FailedFnNeverCommits`), `HandleIsConfined` (`NoEscapedWrites`), `SessionIsReleased` (`RollbackIsTrue`), `OuterIsUntouched` (`OuterWritesSurvive`), `NestedIsRefused` (`NestedNeverRuns`), `TypeCorrect`, `ImplementsContract` (`ContractSpec`), `OutcomeIsFinal` (an action property) |
| `GrpcTransactionProofs` | `MaxCallsAssumption` | `OutcomeTrue` (`OutcomeIsTrue`), `FailureNeverCommits` (`FailedFnNeverCommits`), `HandleConfined` (`HandleIsConfined`), `ImplementsContract` (`ContractSpec`), `OutcomeIsFinal` (an action property) |
| `BatchUploadProofs` | `SizesAssumption` | `TypeCorrect`, `BodyInOrder` (`WireInOrder`), `NoWriterBehind` (`WriterJoined`), `EofMeansAll` (`CompleteMeansAll`), `FaultReported` (`OwnFaultReported`), `ReturnIsFinal` (an action property) |
| `InsertStreamProofs` | `MaxBatchesAssumption` | `TypeCorrect`, `EnvelopeCorrect` (`EnvelopeIsExact`), `TornNeverLooksWhole` (`CleanEndIsWhole`), `ServerIsHeard` (`ResultIsServers`), `CallReleases` (`NothingOutlivesCall`), `ReturnIsFinal` (an action property) |
| `HttpWireProofs` | `BoundsAssumption` of `ResultStream`; `MaxLenAssumption`, `MsAssumption`, `MaxInt64Assumption`, `WidthsAssumption`, `EvenAssumption`, `EdgeAssumption` | `EndTellsTruth` (`EndIsExplained`), `ImplementsContract` (`ContractSpec`, of `RecordStream`), `EventsInOrder`, `EndIsFinal` (an action property); `CommandsMeanWhatTheySay` (`TargetIsNamed`), `NumbersSurvive` (`NumbersAreKept`) |
| `GrpcResultStreamProofs` | `BoundsAssumption` | `EndSeesAll` (`EndIsWhole`), `ImplementsContract` (`ContractSpec`, of `RecordStream`), `RecordsInOrder`, `EndIsFinal` (an action property) |
| `HttpClientProofs` | `BoundsAssumption` of `LoginSessions`, `BodiesAssumption` of `HttpCall` | `ActsForTheRightUser` (`ActsAsMeant`), `LogoutEnds` (`LogoutMeansGone`), `ClientsKeepTheirHeader` (an action property); `AnswersAreWhole` (`AnswerIsWhole`), `RefusalsAreTyped` (`RefusalIsTyped`), `SessionsTravel` (`SessionTravels`) |

The assumptions say that the bounds are natural numbers, that capacities and sizes are not zero
where the code's are not, that a batch row is not empty, that modes and bodies are among those
of the models, and that the numeric limits stand in the order of Go's: an int32 is a float64
without rounding, some int64 is not, the longest `Duration` in whole seconds is one (2^31 <
2^53 < 2^63 and 2^63 / 10^9 < 2^53), the float64 nearest to the largest int64 is the next
number (`EdgeAssumption`), a millisecond is a `Duration`, and 2^53 and 10^9 are even. Nothing
else is assumed. What makes each invariant inductive:

**Insert session.** The type invariant is inductive by itself and holds the bound of the
channel. No safety property is: a frame may sit in the channel, in the hands of `readLoop`
or on the wire when its exchange is long over. `WireInv` says that at most one request is
under way and that both ends agree while it is; `AnswerInv` that every frame towards an
open session was unasked for or tells the truth about the server; `LoneInv` that at most
one of them is an answer, in one of the three places; `DurableInv` and `ToldInv` what the
rows and the outcome are in each mode; `NoticeInv` that the end of an open session is
itself on its way, or that the caller is in a call that ends it; `CleanInv` that no error
on its way speaks of a replay. An answer that comes late meets a session that is closed,
which is why the code drops the connection after a timeout. For the refinement, the
caller's steps leave the server alone: an acknowledgement that is read is `Accept`, an outcome
returned is `Tell`. The server's leave the caller alone: the first to end the session is `Commit`,
which makes durable just what is acknowledged, or `GiveUp`.

**HTTP transaction.** A late request can do anything a state allows, so the invariant adds
what is known of every request and answer under way: `RequestInv`, `AwaitInv` (which kinds
carry the session id, that rollbacks are detached, that a statement's ordinal is never
another request's); `PhaseInv`, `CountInv` (the control state fixes how the callback ended,
and a commit is under way only after a callback that returned nil); `BeginInv` (a begin
still under way is the only one and nothing has happened since, so that a session that opens
late belongs to a call that failed); `AnswerInv` (an answer under way tells the truth about
the server, which is what makes `ret` true when it is read); `WriteInv` (acknowledged
statements are in the session or durable).

**gRPC transaction.** The same argument over messages instead of session headers.
`RequestInv` says that every handle call and every stream built on the handle carries the
bound message `Bound`, whatever the caller did to the original since, and that no raw call
carries this transaction; this is what turns the copy in `bind` into `HandleIsConfined`.
`AnswerInv` has a case of its own for `committed=false`, after which the server has rolled
back.

**Batch upload.** `StreamInv` gives every unit its place in the body: what is on the wire, in
the pipe, in the buffer and left of the current row follow each other without a gap, and are
together all the rows taken, until the writer fails; a refused row takes its buffered part with
it. Rows may have any length: `RowSize` says that each has a unit, `OneRow` that a body as long
as some number of rows ends with the last of them. `WriterInv` ties the writer's position to
what it says of its end, and the pipe's close to that; `AnswerInv` says that a complete request
means the writer closed with EOF; `JoinInv` that a call past `stop` has received the writer's
result and raised its panic once. `Placed` and `Follows` are the vocabulary, with a lemma each
for appending, splitting and passing a sequence on.

**gRPC client stream.** Whether a chunk is the last one depends on where the sequence stands
when it is sent, so `PullInv` and `SendInv` relate, for each point of the wrapper, the batches
pulled, held, looked ahead and sent; `CloseInv` says that a live stream is half-closed only
when it is whole and that a panicking sequence never finishes.

**Result streams.** `SeenInv` says exactly which positions were seen at each point: for NDJSON
the events of the lines before `start`, which `PendingInv` keeps at a line's first unit however
the buffer cuts the line; for gRPC the messages received and the part of the current one.
`EndInv` keeps, for each way a range ends, why it ended. Both modules then map arrivals to
`Arrive` of `RecordStream`, a yield to `Yield`, the steps that end the loop to `End`, the
deferred `Close` or cancel to `Return`, and everything between to stutters.

**What is over stays over.** The invariants say what is true when a call returns; the action
properties say that nothing still on its way changes it afterwards. For the transactions this
follows from the contract (`FateIsKept`, `SettledIsKept`: `AtomicTx` has no step for a
transaction whose fate is settled), once `OverIsSettled` has shown that a call that returned
leaves a settled fate: without a loss on the network or a refused rollback always, with one
when the caller was told commit or rollback. A request that was lost, or a bare `begin` error,
may leave a session that expires later. `ClosedIsFinal` and `ToldIsFinal` rest on `ControlInv`
(no exchange is under way on a session that is not open) and on `ToldInv` (the server's session
is over when the caller was told so); `ReturnIsFinal` of the uploads on the writer having ended
with an empty pipe, and on the RPC being closed: at the gRPC client nothing moves any more
(`ReturnStands`), and the server may only take what is already on the wire (`OnTheWireOnly`), a
clean end among it only when the whole sequence had been sent. `EventsInOrder` and
`RecordsInOrder` are proved of the contract `RecordStream` and carried over by
`ImplementsContract`.

**Login sessions.** `ClientInv` says that each client's map holds the header its caller
means, which a shared map would break at the first derived client; `RequestInv` carries
that over to requests under way, `ActInv` to what the server did. `Issued` keeps session
tokens to sessions ever opened, so that a new login never reuses a number that a logout
ended, which is what makes `LogoutMeansGone` stable.

**HTTP calls.** `HttpClientProofs` holds these too; `HttpCall` calls its specification
`HttpSpec`, so that one module can extend both. The induction is short (`HttpInv`: the request
carries what method and builder both let through, the result is what `Told` makes of the
answer delivered); the work is in what follows from it. `MethodsFit` goes through all facade
methods and says what the proofs need of each: what it wants, that the methods which read
the body themselves want no list or envelope, and that its operation's builder writes the
session header. `DecodedIsWhole` and `AcceptedIsWhole` then follow the functions of
`envelope.go`: JSON that was read is all of the body, however the read ended (`JsonIsWhole`).

**Commands and numbers.** `HttpWireProofs` holds these beside the NDJSON stream. The induction
is one exchange long: `SentInv` says that the command on its way is the one built from
arguments that passed the checks of its method; `TextInv` adds the properties themselves. The
content is in the lemmas. *Strings*: `Min` and `Max` of a set of positions exist because < on
the naturals is well-founded; a trimmed string keeps its ends (`EndsKept`), and a string whose
ends no side trims is read back by `FirstWord` and `After` wherever the keyword in front of it
stands. `SentIsReadBack` puts these together for each method, and `RefusedIsMisread` is its
converse: what `checkWord` and `checkTag` refuse, the server would have read as something else.
*Numbers*: `Nearest` is not a function (a number halfway has two floats), so the proofs use
only that rounding keeps a float, always finds one, and never crosses one; 2^53 is a float, so
an inexact number stays on its side of every limit that matters. `SecondsAreCapped` says that
the multiplication by `time.Second` never wraps to a shorter wait. A float64 above the largest
int64 may become the least int64; `LeastSecondsVanish` shows that this one, multiplied by an
even number of units, wraps to exactly zero, which reads as absent and not as a negative wait.
That is why a `retryAfter` that is rounded to 2^63 may be 0, and why the evenness is assumed.
`JsonNumber` lists what a whole JSON number becomes, the converted edge included, and
`NumberIsServers` says for each field that this is what the error carries.

## Findings

Four runs are expected to find a violation of what a comment of the code says.

- *Timeout of an insert session.* The comment of `InsertSession`
  (`go/arcadedb/insertsession.go:272`) says that a timeout abandons the exchange and
  closes the connection, and that "the server rolls back". `insert_session_timeout` shows
  the case where it does not: the commit frame has reached the server, which commits,
  and the answer is late. `Commit` then returns a timeout for a load that is durable. The
  `AtomicLoad` contract allows this (the caller may never learn the outcome), and it holds.
- *Refusals that are not typed.* `errors.go:34` says that an `ArcadeDBError` "is returned
  by every facade method when the server answers with a non-2xx status", and that parsing
  one never fails. `http_call_refusals` shows a refusal with a documented status, labelled
  JSON, whose body does not decode into the documented type: the generated parser returns
  the bare `json` error before the facade looks at the status, and the status is lost.
  `RefusalIsTyped` states what does hold, for bodies of the documented shape and for
  bodies not labelled JSON.
- *Negative counts.* `errors.go:185` says that `jsonNonNegative` reads "a non-negative
  whole number", `batch.go:331` and `timeseries.go:83` that anything else is left at 0.
  `server_text_count` sends 2^63, which is a float64: the limit of the test,
  `math.MaxInt64`, is rounded to 2^63 too (`errors.go:188`), so it passes, and its
  conversion to int64 is the least int64 on amd64. `NumbersAreKept` says what every number
  becomes, this one included.
- *Negative waits.* `running.go:209` says that a positive wait is sent in whole milliseconds,
  rounded up. `server_text_wait` shows a wait within a millisecond of the largest
  `Duration`: the sum overflows before the division (`running.go:218`), and the wait sent is
  about the longest one with a minus sign. `NumbersAreKept` says so of these waits, and that
  all shorter ones are rounded up.

Two more edges are stated as they are by a property that holds.

- `decodeBody` returns the parser's document before it looks for an empty body
  (`errors.go:242`), so a 200 labelled JSON with the body `null` is an all-zero document
  where `ErrEmptyBody` is documented (`errors.go:16`), and the summary of a `BatchLoad`
  answered `null` is a nil map. `AnswerIsWhole` says that a zero document is made of a
  whole `null` only, and only there.
- `checkName` of `databaseCommand` (`admin.go:88`) compares with `strings.TrimSpace`, which
  keeps control characters such as U+0001 that the server trims (`running.go:247`), so
  `DropDatabase` can name another database; the comment says that "the name is sent as given"
  and that the caller should validate it (`admin.go:73`). `TargetIsNamed` says that such a
  command acts on the name without them.

## Only model-checked

- Liveness: `CallsReturn`, `AbandonedIsReleased`, `CallReturns`, `EndedCallReturns`. Fairness and
  `ENABLED` are outside the prover's reach. Every other property of a passing run is also
  proved.

## Not modelled

- Of the generated HTTP client of Go: its types, its plain methods without a parser, the
  query parameters and bodies of requests, and the binding of response headers, which
  are strings. The gRPC stubs and the generated clients of Python and TypeScript.
- JSON and protobuf encodings, URLs and messages of errors, except where the control
  reads them. An answer cut without a read error (a proxy that recomputes the length)
  cannot be told from a whole one and is not modelled for `http_client`; for the
  streams it is `BodyEnds("clean")`.
- An argument that holds a keyword of the server's command language; the handshake of an
  insert session as an HTTP call, with the transaction id it may join.
- The caller sharing one insert session between goroutines, which its
  documentation forbids.
- Servers built before ArcadeData/arcadedb#10164, which answer 204 to the commit of a
  terminated session (`running.go:180`): `SrvCommit` refuses it, as later ones do.
- A caller's sequence that blocks for ever, or that panics while being stopped.
- The parts `PROJECT.json` lists as `not_modelled`; those marked planned follow.

## Plan

In this order; the properties of the core come first and later parts refine them.

1. *Done*: `InsertSession`/`AtomicLoad`, `Transaction`/`AtomicTx`,
   `GrpcTransaction`, `BatchUpload`, `InsertStream`.
2. *Done*: `RecordStream` with `ResultStream` and `GrpcResultStream`; `HttpCall` over the
   generated HTTP client; `LoginSessions`; `ServerText`.
3. *Done*: the safety properties and refinements of the insert session, both transactions,
   the uploads and streams of both directions, the login sessions, the HTTP calls, the commands
   and the numbers, proved.
4. `TsInsertSession`: the TypeScript session, its timers, queued events and
   early frames; `PyInsertSession`: the Python session, sync and asyncio with
   cancellation at an `await`. Both against `AtomicLoad`.
5. Python and TypeScript transactions, HTTP and gRPC, against `AtomicTx`; their
   batch uploads and streams.
6. An insert session joined to a transaction: `InsertSession` inside `Transaction`.
