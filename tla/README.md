# lsp-server-tokio in TLA+

A TLA+ model of `lsp-server-tokio`, a Rust crate for writing Language Server
Protocol servers on tokio: TLC checks it on small instances, and TLAPS proves
its safety properties for every size.

## 1. The system

### Parts, state, operations

| Part | Source | State it keeps | Operations |
|---|---|---|---|
| ClientSender | `src/client_sender.rs` | id counter shared by the clones of one handle | `request`, `request_timeout`, `notify`, `respond` |
| ResponseMap | `src/client_sender.rs` | id -> oneshot sender, under a mutex, shared by all handles and the Connection | `try_register`, `contains`, `deliver`, `cancel` |
| PendingResponseGuard | `src/client_sender.rs` | the id to clean up, until disarmed | `drop` |
| Drain task | `src/connection.rs` | receiving end of the outbound channel, sink, guard of `drain_alive` | write until an error or until all senders are gone |
| Connection | `src/connection.rs` | lifecycle state, request queue, `shutdown_token`, `drain_alive` | `initialize_*`, `route`, `send`, `cancel`, `handle_shutdown`, `handle_exit`, `client_sender`, the deprecated `send_request` |
| RequestQueue | `src/request_queue.rs` | incoming: id -> token; outgoing: id -> oneshot sender | `register`, `complete`, `cancel` |
| LifecycleState | `src/lifecycle.rs` | five states | which requests and notifications a state allows |
| IncomingMessage | `src/routing.rs` | none | what `route` made of a message |
| LspCodec | `src/codec.rs` | the Content-Length of a frame whose body is incomplete | `decode`, `encode` |
| Message, RequestId, errors | `src/message.rs`, `src/request_id.rs`, `src/error.rs` | none | serde formats |
| Transport, stdio | `src/transport.rs`, `src/connection.rs` | none | wraps a byte stream in the codec |
| Formatter server | `examples/formatter_server.rs` | open documents | the main loop, formatting, incremental edits |

### Interactions

One task, the *main loop*, owns the Connection: it reads messages, calls
`route`, and answers `shutdown` and `exit`. Handlers and other spawned tasks
hold a `ClientSender` and a `CancellationToken`. Everything that is written
goes through one unbounded channel to the drain task. A request to the client
registers a oneshot in the response map and waits for it; the main loop takes
the response from the stream and delivers it there. `drain_alive` tells waiting
calls that nothing can be written any more. `shutdown_token` is the parent of
every request's token.

### What is hard

* The response map is touched by the main loop (twice per response, with the
  lock free in between), by every caller, and by the destructor of every call
  that is dropped. Timeouts and aborts run that destructor at any await.
* Ids are drawn from counters that wrap, and each `client_sender()` call starts
  a new counter over the same map.
* The drain task ends in two visible steps (token, then channel), and only when
  it writes or when all senders are gone.
* Cancellation, shutdown, exit and the client's reuse of an id race with
  handlers that are about to answer and with the removal of table entries.
* The deprecated `send_request` takes the receiver over from the main loop:
  whatever arrives while it waits, for whomever, it drops.
* What kind of message a JSON object is depends on which reader fails first,
  and ids are read in one place for requests, in another for cancellations.

`PROJECT.json` lists these hazards with their lines and the properties for them.

### What makes each part correct

* Calls to the client: a call gets the answer to its own request or none, an
  answer is never lost, an entry never outlives its call, `Disconnected` means
  disconnected, and a call that can no longer be answered returns.
* Requests from the client: each is answered exactly once, cancellation reaches
  exactly the handlers it names, shutdown reaches all of them, nothing is
  handled before the handshake, and the exit code tells the truth.
* Messages: an id comes back to the client as it was written, a cancellation
  reaches the request it names, an answer means what its sender meant, and no
  valid message stops the server.
* Codec: the messages decoded do not depend on how the bytes are cut up.
* Documents: an edit replaces the range of UTF-16 positions that it names.

## 2. Modules

### `ClientSender` - requests to the client

A caller is one `request()` or `request_timeout()` call. `pc` is where it is:

| `pc` | in the code |
|---|---|
| `idle` | not called yet |
| `reserve` | top of the loop of `reserve_request_slot` |
| `try` | `next_id` has returned, `try_register` is next |
| `send` | registered; `tx.send` is next |
| `wait` | suspended in the `select!` |
| `guard` | the future is being dropped: the oneshot receiver is gone, `PendingResponseGuard::drop` is next |
| `done` | returned |

Each step is one access to shared state. `fetch_update` is atomic, so drawing
an id is one step; a locked section is one step; `contains` and `deliver` in
`route` are two, with the main loop in state `deliver` in between. After its
first poll a call runs without interruption to the `select!`, so a timeout or
an abort (`GiveUp`) happens only in `wait`; it may happen with the response
already in the oneshot, which then is lost with the call. The two arms of the
`select!` are polled in random order: when both are ready either may win.

`pending` and `outgoing` map an id to the call whose oneshot sender is stored;
`inbox[o]` is what was sent into the oneshot of `o`, namely whose request the
response answers. That is how the model can tell a wrong delivery. The drain
task goes from `running` to `closing` (the guard has cancelled `drain_alive`)
to `dead` (the receiving end of the channel is dropped). A failed write can
happen at any time; once the client has closed its end, no write succeeds. The
client answers any request it has read, in any order, at most once, possibly
with a null id, or closes its end.

The main loop is the example's: it ends when the stream does (`RouterEnds`,
`ended`), and it breaks off on an error of the transport or the codec
(`RouterFails`, `failed`), at any time and with responses still unread. Either
way the Connection is dropped, and with it the outgoing table; the response map
lives on in the handles.

Waiters are requests the application puts into the legacy
`request_queue.outgoing` itself, under an id of its choice, which may be one
that a `ClientSender` uses too.

### `Blocking` - `ClientSender` beside the deprecated `send_request`

Extends `ClientSender` with a router that is `blocked` in `send_request`. A
waiter either registers in `request_queue.outgoing` or makes one such call,
under an id of its choice. While it waits, every response but its own is
dropped without a look at either table (`BlockedDiscards`); the timeout, an
error or the end of the stream end it.

### `RequestResponse` - what a call promises

The abstract specification: calls with an outcome, the set of calls the client
has answered, a link that is up or down, and a reader that is on or off. A call
succeeds only if it was answered, reports disconnection only if the link is
down, and if it can return it eventually does. When the reader stops, answers
it has not come to are lost (`StopReading`), and no more are heard: a call then
returns by its timeout or when the link is down. `ClientSender!KeepsPromise`
maps the detailed state to it; an answer that is still in the stream when the
loop breaks off (`Unread`) is no answer there.

### `Lifecycle`, `Connection` - lifecycle and requests from the client

`Lifecycle` has the states, what `is_request_allowed` and
`is_notification_allowed` say of each, and how a session can end.

In `Connection`, `at` is where the main task is: in `initialize_start` (`start`), between the
two halves of the handshake (`started`), in the loop of `initialize_finish`
(`finish`), in the main `loop`, in `send_request` (`startedBlocked`,
`loopBlocked`), or `ended`. Requests are numbered as they are
read; `incoming` maps an id to the number whose token it holds, so that an
overwritten or wrongly removed entry can be seen. `cancelled` is the set of
requests whose token is cancelled. A handler is a concurrent process: it
answers through `respond`, and the main task calls `complete` some time after,
in the order of the example server. Notifications and responses that are
dropped change nothing and have no action; responses in the main loop are
`ClientSender`'s business.

The client may send anything at any time, with one exception: it does not use
an id again while a request with that id is unanswered, as JSON-RPC demands.
It may use it again right after, before the server has called `complete`.

`WithRequestQueue` is the other constructor: a queue that already holds a
request (`inherited`), whose token has nothing to do with the new
`shutdown_token`. `DiscardRequest` is a request that arrives while the main
task is in `send_request`: it is read and forgotten. Notifications dropped
there (`exit`, `initialized`, `$/cancelRequest`) change nothing and have no
action.

### `Message`, `Routing`, `Wire` - what is on the wire

`Message` has the readers and writers of `message.rs`, `request_id.rs` and
`error.rs` as operators. A JSON object is a record of the keys that are
present, a JSON value a tuple that starts with its type, an `Option` is `None`
or `Some(x)`. `RequestFrom`, `ResponseFrom` and `NotificationFrom` give `None`
where the code returns an error, and `MessageFrom` is serde's untagged choice:
the first that succeeds.

`Routing` has the tables of a connection in one record, and one operator per
function that takes `&mut self`, which returns the new tables and the value:
`route` with its three arms, the methods of both request tables,
`handle_cancel_request`, `cancel_incoming`, `cancel`.

`Wire` puts a client in front of them. It writes objects, valid or not, and
knows its requests by the JSON value of their ids (`waiting`, `stopped`); the
server knows them by the `RequestId` it read. One frame at a time is on its
way in each direction, since order and framing are `Codec`'s subject. `heard`
is the last answer routed to a waiter, `wellFormed` says whether everything
written so far was JSON-RPC 2.0 with ids that fit; the first bad frame may end
the loop (`ReadError`), as in the example. `WireAssumption` says what an object
of the instance looks like: its keys are among the six that the readers look at,
strings and numbers are written as `Message` writes them, and an error object
has no keys that would be ignored.

### `UnitTests` - the repository's tests, replayed

One definition for each group of unit tests, as a conjunction of what they
assert, on the operators of `Message` and `Routing`: serialization, message
discrimination, edge cases of responses, error codes, ids, both request
tables, routing, cancellation. The tests of `lifecycle.rs` are in `Lifecycle`,
those of the formatter's text arithmetic in `Documents` (with lines of one
letter, of the same lengths). The MC modules `ASSUME` them, so TLC evaluates
them before every run of `wire`, `requests`, `positions` and `editing`: where
the tests pin the code down, the model agrees with it. Tests that only look at
formatting, `Debug`, `Clone` and `Default`, and tests of asynchronous
exchanges, whose orders the runs explore, are not replayed; neither are those
of `codec.rs`, whose symbols are coarser than the literal frames there.

### `Codec` - framing

A symbol of the stream is a byte, except that a header line is one symbol:
`decode` looks at lines only once the terminator has arrived, so a cut inside a
line is a cut before it. A body is the JSON of a message (one byte, or two if
the message has a non-ASCII character), possibly with CR and LF around it, or
bytes that are no message. Frames carry what their sender meant (`item`), which
is the reference for what `decode` returns. The peer writes frames of `Encode`
or of `Foreign`; closing may lose any suffix of what was written. `PollRead`
moves any number of bytes into the buffer. `readable` and `eof` are the state
of tokio_util's `Framed`, modelled from its contract: it decodes until it gets
`None`, then reads; at the end of the stream it calls `decode_eof`, which fails
if bytes are left. The main loop stops at the first error. `WellFormed` is what
is asked of a foreign frame: a header without the terminator inside it, which
either cannot be parsed or gives the length of the body, and an item that is
what the body parses to. `stream` and `ends` are history: all bytes written,
and where each frame ends in them.

### `Documents`, `Formatter` - the example server

`Documents` has the text arithmetic as operators, in byte offsets over
characters with their UTF-8 and UTF-16 sizes, and a reference: what the
protocol means by a position (`GapAt`), by an edit (`EditedText`) and by the
changes of a notification (`EditedBy`), defined without scanning. A slice inside
a character has no value, so TLC would stop with an error where Rust would
panic.

`Formatter` is the main loop with an editor as the client. Each message handler
is one action; formatting is two, `HandleFormatting` up to the 200 ms sleep and
`FormatDocument` after it, and while `busy` nothing else is read, as in the
code. The editor applies its edits by the reference, the server by the code's
operators. `asked` remembers the document as it was when formatting was asked.
Formatting with params that do not parse (`InvalidParams`) and requests of any
other method (`MethodNotFound`) are answered at once.
Lifecycle messages and a broken output end the loop and belong to `Connection`.

### `MCClientSender`, `MCBlocking`, `MCConnection`, `MCWire`, `MCCodec`, `MCFormatter`

Instances for TLC: which caller uses which handle, the symmetry between clones
and between waiters; the JSON objects; the frames; the texts and changes; the
replayed tests.

### `ClientSender_proofs`, `RequestResponse_proofs`, `Blocking_proofs`, `Connection_proofs`, `Wire_proofs`, `Codec_proofs`, `Formatter_proofs`

The proofs of section 5, one module for each component. `Blocking_proofs` and
`RequestResponse_proofs` build on `ClientSender_proofs`.

## 3. Runs

| Run | Instance | Shows |
|---|---|---|
| `clones` | 2 callers, clones of one handle, 3 ids, 1 post | `UniqueIds`, `HonestDisconnect`, `RoutedReaches`, `NoAnswerLost`, `LateResponseUnknown`; under fairness `DrainDeathReleases`, `AnsweredReturns` (save for answers behind a read error) and the refinement `KeepsPromise` |
| `wraparound` | 3 callers, 2 handles, 2 ids, 2 retries | `TypeOK`, `NoLeakedSlot`, and the inductive invariant `Correlated` of the proofs, with ids colliding and slots running out |
| `outgoing` | 1 caller, 2 waiters, ids {1, 9} for waiters | `DeliveredById`, whatever ids collide; `OwnResponse`, `RoutedReaches`, `HonestDisconnect` with both tables in use, `Connection::cancel` and `send_request`; `DiscardedStillWaits`: an answer that `send_request` dropped leaves its call registered until its own timeout |
| `requests` | 2 ids, 3 requests, an inherited queue or none, `send_request` | `TypeOK`, `OneReply`, `ShutdownCancelsAll`, `CancelExact`, `NoStrayCancel`, `CleanExit`, `InitializeFirst`; under fairness `EveryRequestAnswered` |
| `wire` | about 200 objects: every combination of method, four ids, result and three errors, and cancellations; two requests of the server's own | `TypeOK`, `RepliesUnderstood`, `WellFormedServed`, `CancelReaches`, `AnswersUnderstood` |
| `codec` | 3 frames out of 9 kinds, every cut, every truncation | `TypeOK`, `InOrder`, `NothingHeldBack`, `TruncationReported` |
| `positions` | all texts of up to 4 characters, all ranges over 3 lines and 4 columns, one change or formatting | `InSync`, `FormatsWhatWasAsked`: the operators of the code against the reference |
| `editing` | 2 documents, 5 messages, 3 kinds of change | `InSync`, `FormatsWhatWasAsked`, `AllAnswered` with the editor running ahead of the server; `CancelsTooLate`: a `$/cancelRequest` never has an effect |

Four more runs end in a counterexample, each to a sentence of the repository:

| Run | Property | What happens |
|---|---|---|
| `two_handles_late` | `LateResponseNotSwallowed` | Two handles both start at id 1. The first call times out, the second registers id 1, and the late response to the first is delivered to the second. |
| `peer_close_hang` | `PeerCloseReleases` | The client closes its end after reading the request. Nothing is written any more, so the drain task never fails, and the call waits for ever, even after the Connection is dropped: the handle keeps channel and map alive. |
| `after_shutdown` | `OnlyAllowedHandled` | `route` does not look at the lifecycle state: a second `initialize`, or any request after `shutdown`, reaches a handler. |
| `misread` | `NotificationHasNoId` | An object with a method and an id that is null or beyond i32 is no request, but the reader of notifications ignores keys it does not know: the request becomes a notification, and nobody answers it. |

Smaller observations, without a run:

* `exit` before `initialize` makes `initialize_start` return `Disconnected`
  with the state still `Uninitialized`, where the diagram in `lifecycle.rs`
  goes to `Exited`; the step from `Running` to `Exited` that `handle_exit`
  takes is not in the diagram.
* A stream that ends right after a header ends cleanly although a frame is cut
  (`TruncationReported` has that exception).
* With two handles, a response may remove the entry of a call that is being
  dropped; if the other handle then registers the id, the guard of the first
  call removes the new entry, and the second call returns `Disconnected` on a
  healthy connection. `HonestDisconnect` excepts a call whose own id is shared
  (`Unshared`) for it, and shows that no other call is hit.
* The example's loop breaks off at the first frame it cannot decode. An answer
  behind that frame is never read: the call it answers has no `Disconnected` to
  report while the drain task runs, and without a timeout it waits for ever.
  `AnsweredReturns` and `RequestResponse` say so.
* The example awaits the handler before it reads on, so a `$/cancelRequest`
  that arrives during its 200 ms delay is read after the response, and the
  cancelled arm of `format_document` does not run (`CancelsTooLate`). Its header
  (`formatter_server.rs:9`) lists "Cancellation support for long-running
  requests", and the delay is there to allow "cancellation to be tested" (265);
  the end-to-end test (`e2e_formatter.rs:604`) expects "cancelled error" in a
  comment and accepts a result too, which is what it always gets.
* The doc comment of `apply_incremental_changes` (`formatter_server.rs:361-362`)
  says that it "uses byte offsets and assumes ASCII content". That is stale: the
  code converts UTF-16 positions, the end-to-end tests (`e2e_formatter.rs`
  342-442) ask for that, and `positions` passes on texts that are not ASCII.
* An object with a method, a result and no id is read as a response.

### Provisos

Correlation can fail when an id is reused, as `two_handles_late` shows. Three kinds of property deal with it. `NoLeakedSlot`
and `DeliveredById` have no proviso: whatever ids collide, in one table or
across the two, no entry outlives its call, and a response completes one
request, registered under the id the response carries. `OwnResponse` and
`HonestDisconnect` except the request whose own id another one has used
(`Unshared`): collisions elsewhere do it no harm. `RoutedReaches`,
`NoAnswerLost`, `LateResponseUnknown` and the refinement speak of `route`'s
verdicts and of all calls together, and ask that no id has been used twice
(`IdsDistinct`). That is what one handle gives until its counter has gone
round: `clones` checks `UniqueIds` without it. `AnsweredReturns` excepts an
answer that the loop had not read when it broke off on an error. `CancelExact` has the premise that no
id was registered again before `complete`; `NoStrayCancel` shows what still
holds without it: a late `complete` can lose the new entry, so that its
cancellation is ignored, but no cancellation hits the wrong handler.

### Bounds

Two callers are enough for every race between two calls; the third in
`wraparound` makes one call find the id of another taken while a third ends.
`MaxId` 2 with three callers forces wrap-around, collision and exhaustion of
the retries (`MaxRetries` 2 for 1000). One post is enough to make the drain
task write something that is no request. Three incoming requests allow
`initialize` followed by two uses of an id, by a request and `shutdown`, or by
`shutdown` and a request after it. Three frames make the state left behind by
one frame meet the next twice. In `wire`, `Width` 20 for 32 is the smallest
that holds the error codes and the unknown code the tests try; 2^20 + 1 is the
id that does not fit and is 1 modulo 2^20. Four characters hold two line breaks with a
surrogate pair between them, or a pair on both sides of CR LF. Deadlock is not
checked: calls and requests are finite in number, and when all of them are over
nothing is left to happen.

### Fairness

Weak fairness for the steps of a call after its start, the drain task, the main
loop, request handlers and `complete`: tokio polls a task that was woken, and
each of these steps wakes its task. None for the client, for timers and aborts,
for read errors, for starting a call, or for reading the next message. `DrainWrite` and
`DrainWriteFails` are fair together: a write ends, one way or the other.
That handlers terminate is the application's duty and assumed in `requests`,
and so is that an application which calls `send_request` during the handshake
does so only so often: `InitializeFinish` has strong fairness, since each such
call disables it for a while. `send_request` itself returns, because it has a
timeout.

## 4. Reading the model against the code

`PROJECT.json` maps every definition to its lines. Choices worth knowing:

* Ids are `1..MaxId` for `1..i32::MAX`; the null id of a response is 0. String
  ids behave like waiter ids outside `1..MaxId`.
* `client_sender()` is called before the calls begin; handles do not come and
  go. A response that arrives when no response map exists goes to the outgoing
  table, as it does with an empty map.
* In `Wire` keys appear once, a frame is an object (serde would also read a
  JSON array as the fields of a request or notification, in their order), and
  handlers answer at any time.
* Elsewhere message bodies, method names other than the four the code tests, error texts
  and logging are left out.
* `Connection` treats a broken output as one event, `DrainDies`; the two steps
  of it matter only to callers and are in `ClientSender`.

## 5. Proofs

### `ClientSender_proofs`

Holds for any sets of callers, waiters and handles, any
number of ids, retries and posts, from the assumptions in `ClientSender`:
callers and waiters are different things, each caller has a handle, and the
bounds are natural numbers (at least one id, one retry).

* `TypeCorrect`: the type invariant, with `CallShape`. In particular ids stay
  in `1..MaxId` and a call that retries never runs past `MaxRetries`.
* `SlotsNeverLeak`: `[]NoLeakedSlot`. Inductive together with `CallShape`: an
  entry is created with the call's own id, and every way out of the call from
  there goes through the guard or through a delivery that removed the entry.
* `Correlation`: the inductive invariant `Correlated`. None of the properties
  below is inductive alone. A delivery is right only if the response on its way
  carries the id its request was registered with (`InTransit`), the entry under
  that id belongs to a call that registered that id (`NoLeakedSlot`,
  `OutgoingOwned`), and the id is no other request's (`Unshared`). That a
  response completes one request only (`DeliveredById`) needs that, once it is in
  a oneshot, it is neither in the stream nor in `route` any more (`Consumed`).
  `HonestDisconnect` needs that a waiting call still has its oneshot sender in
  the map or the response in its inbox (`Held`), for which in turn a guard must
  not remove a foreign entry, again by `Unshared`. What `route` reports can
  be judged only if it judges a request once: at any time one message speaks of
  a request, the request itself, its response, or the verdict (`OneMessage`),
  and a response with an id is a real answer (`AnswersReal`). `Outcomes` ties
  what a call returned to its oneshot, and `Fulfilled` its oneshot to the
  verdict. Since an id that is reused stays reused, `Unshared` in the new state
  gives it in the old one.
* `ResponsesGoById`, `ResponsesCorrelate`, `DisconnectsAreHonest`,
  `RoutedResponsesArrive` and `NoAnswerIsLost`: `[]DeliveredById`,
  `[]OwnResponse`, `[]HonestDisconnect`, `[]RoutedReaches` and
  `[]NoAnswerLost`, from `Correlation`.
* `LateResponsesAreUnknown`: the action property `LateResponseUnknown`. When a
  call has returned, its entry is gone, and no other request has its id: `route`
  finds nobody under it in either table (`Judgement`).

The type invariant of the proofs, `Types`, is wider than `TypeOK`: it allows the
values that `Blocking` adds (`pc` and the router `blocked`, the verdict
`discarded`), so that every lemma about a step of `ClientSender` holds there too.

### `Blocking_proofs`

Proves the same about `SpecBlocking`. The steps of `ClientSender` are covered by
its lemmas; the steps of `send_request` leave callers, both tables and the
client alone (`Spares`), and what they take from the stream is the one message
that spoke of its request. `Survives` adds to `Correlated` that one waiter at
most is blocked, and only while the router is (`OneBlocked`), and
`DiscardedStillWaits`, which rests on `Held`. `BlockedGoById`,
`BlockedReadsItsOwn`, `BlockedRoutedArrive`, `BlockedDisconnectsAreHonest` and `DiscardedCallsWait`
state the properties of the run `outgoing`. `NoAnswerLost` is not among them:
`send_request` does lose answers.

### `RequestResponse_proofs`

* `ClonesUseUniqueIds`: `[]UniqueIds`, under `ClonesOfOne`: all callers use
  clones of one handle, and there are no more of them than ids (2^31 - 1 in the
  code). Ids are drawn in order, so the counter says how many calls have drawn,
  and nobody ever has to draw again.
* `ClientSenderKeepsPromise`: `Spec /\ []IdsDistinct => Calls!Spec`, the safety
  part of the refinement. A step that returns a response is a step of the
  abstract call, which asks that the client answered that very call and that the
  answer was read; `Correlated` says so, with `OwnResponse`, `AnswersReal` and
  `Consumed`. `RouterFails` is `StopReading`, and after it an answer that
  arrives changes nothing.
* `ClonesKeepPromise`: the refinement without the proviso, under `ClonesOfOne`
  and with no waiters, whose ids the application chooses.

### `Connection_proofs`

Holds for any set of ids that does not contain 0 and any number of requests.
`Invariance` is `Spec => []Inv`; each theorem after it states one property of
the run `requests` as a consequence. The properties are not inductive alone:

* `AnsweredOnce` (`OneReply`) needs that a request which somebody will still
  answer has not been answered (`Answers`): a running handler, or the
  `initialize` request until `initialize_finish`. That a new request has no
  answer yet is `Unread`.
* `CancelIsExact` (`CancelExact`) needs `Entries` and `Registered`: the entry
  of an id holds a request with that id and, as long as no id is reused before
  `complete`, a request that runs or has just answered owns the entry of its
  id. So `incoming.cancel(id)` finds the request exactly when it is named.
  `CancelNeverStrays` (`NoStrayCancel`) needs only `Entries`, which reuse does
  not break.
* `ShutdownReachesAll` (`ShutdownCancelsAll`) follows the tokens: those that
  exist are cancelled with their parent, later ones are born cancelled.
* `ExitIsClean` (`CleanExit`) needs `Phases`: until the loop has ended, the
  state is `ShuttingDown` exactly when a shutdown request was handled, and then
  `shutdown_token` is cancelled.
* `NoHandlerBeforeInitialize` (`InitializeFirst`) needs, also from `Phases`,
  that the main loop is reached only with the `initialize` request answered,
  and that until then no request has a child token.

### `Wire_proofs`

Holds for any set of objects that satisfies `WireAssumption`, any requests of
the server's own and any `Width` that holds the error codes
(`CodesAssumption`). `MessagesReadBack` is about `Message` alone: for every
message with ids and codes that fit, reading what was written gives the message
back. Params or error data of `Some(null)` are excepted, because they come back
as `None`, as in serde.

`WireInvariant` is the inductive invariant. A request of the client is on its
way in the frame (`Writes`), in the table, or answered (`Answers`): never in two
places (`Apart`), and for a client that writes valid JSON-RPC always in one
(`Served`). In the frame and the reply it is known by the JSON value of its id,
in the table by its `RequestId`; that the two determine each other is
`IdRoundTrip` and `ValueRoundTrip`. `Tokens` says that a token is cancelled
exactly when the client has cancelled the request, save for a cancellation still
in the frame; the step that reads it needs `CancelParse`: `parse_cancel_params`
gives the `RequestId` of the request named and of no other. `WireTypes`,
`RepliesMeanWhatWasMeant`, `WellFormedIsServed`, `CancellationsReach` and
`AnswersMeanWhatWasWritten` state the properties of the run `wire`.

### `Codec_proofs`

Holds for any messages, any number of frames, and any foreign frames that
satisfy `ForeignAssumption` (each is `WellFormed`; that those of `Encode` are is
a lemma). The lemmas in front say what `decode` makes of a part of a frame: the
terminator is found exactly when the part reaches the end of the header
(`HeaderNotYet`, `HeaderThere`), and a body is taken exactly when all of it is
there (`DecodeFromHeader`, `DecodeFromBody`). `Framing` is `Spec => []Inv`:

* `Layout`: the stream is the frames one after the other;
* `InFlight`: what has been read and what is on the wire are consecutive parts of
  it, and only closing loses the end;
* `Reading`: the buffer starts inside the frame after the last item, at its
  start when `content_length` is `None`, else at its body, whose length
  `content_length` then is. This is the state that survives a cut;
* `Starved`: once `decode` has asked for more, the buffer ends before the place
  it needs.

`MessagesInOrder`, `NothingIsHeldBack`, `TruncationIsReported` and `CodecTypes`
state the properties of the run `codec`.

### `Formatter_proofs`

Holds for any documents, texts, changes and number of messages.
`RequestsAnswered` (`AllAnswered`) has no hypothesis: a request without a
response is in the stream or being worked on (`Owed`). Nor has
`NothingCancelled` (`CancelsTooLate`): only the request being awaited is in the
incoming table, and nothing is read while one is (`Prompt`). `CopiesAgree` (`InSync`)
and `FormattingFits` (`FormatsWhatWasAsked`) have one, `Faithful(T)`: on the
texts of a set `T` that is closed under the edits, `apply_incremental_changes`
gives what the reference gives, and the edit of `format_document` fits its text.
That is arithmetic over recursive definitions, which the prover cannot unfold;
the run `positions` checks it for every text of up to four characters. What is
proved is the order: a chain of documents leads from the server's copy through
the notifications still in the stream to the editor's (`Linked`), and while a
document is formatted nothing else is read, so that the text at the end of the
delay is the one the editor asked about (`Awaited`).

### Only model-checked

* Liveness (`DrainDeathReleases`, `AnsweredReturns`, `EveryRequestAnswered`) and
  the fairness part of `KeepsPromise`: out of the prover's reach.
* The text arithmetic of `Documents` against its reference (`Faithful`), which
  needs induction over texts.
* The replayed unit tests, which are concrete values.

TLC checks `Correlated` in the run `wraparound`. The inductive invariants of
`Codec_proofs` (with two frames) and `Wire_proofs` were checked the same way, on
the instances of their runs, before they were proved.

## 6. Not modelled

* `transport.rs` and `StdioTransport`: constructors, and polls handed on to
  stdin and stdout, with no state and no condition of their own. What
  `Framed` does for them is in `Codec`.
* `LifecycleState::is_notification_allowed` is in `Lifecycle` with its tests,
  but no action uses it, since nothing in the crate calls it.
* The getters of `Connection` (`is_running`, `lifecycle_state`, `on_shutdown`)
  and of `IncomingMessage`, `Display` and the texts of errors: they report
  state that is in the model and change none.
* A call to the client from inside a handler that the main loop awaits: the
  example makes none, and with spawned handlers it is a caller of
  `ClientSender` like any other.

## 7. Plan

1. Done: every component but the transport modelled, with its runs; every safety
   property of a passing run proved, `InSync` and `FormatsWhatWasAsked` from
   `Faithful`.
2. `Routing`: lemmas on `handle_cancel_request` and on the tables that relate
   them to the actions of `Connection`, so that `Wire` and `Connection` are shown
   to speak of the same `route`.
3. `Codec`: the case of a peer that closes, stated as one theorem on what is
   handed out from a prefix of the stream.
4. `Documents`: the parts of `Faithful` that need no recursion (an edit that
   replaces the whole text, an empty list of changes) as lemmas.
