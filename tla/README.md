# A TLA+ verification project for cppmcp

cppmcp is a C++ library for the Model Context Protocol: JSON-RPC 2.0 servers and
clients over stdio, local pipes and HTTP. This project models the parts of it
whose correctness depends on the order in which threads, timers and messages
meet, checks them with TLC on small instances, and proves the central results
with TLAPS for every instance.

## 1. Inventory

| Part (source) | State it keeps | Operations | Talks to |
|---|---|---|---|
| Write queue (`async_write_queue.hpp`) | `queue_`, `queued_bytes_`, `writing_`, `active_` | `enqueue`, `shutdown`, `arm_write`, `on_write_complete` | every socket and pipe transport, through `do_write_` and `on_error_` |
| Client (`client.cpp`, `pending_request.cpp`) | `pending_map_`, `next_id_`, `connected_`, `stopping_`, `running_`, `server_result_`, per request `state_`, `promise_`, `timer_` | `connect`, `async_connect`, `submit_request`, `complete_pending`, `request_cancel`, `on_timer`, `on_transport_disconnect`, `disconnect`, `stop` | user threads post to a strand; the transport posts messages and the disconnect to it |
| Client inbound (`client.cpp`, `request_executor.cpp`) | handlers, worker pool | `handle_inbound_request`, `dispatch_inbound_request`, `handle_notification`, `stop` | strand, `RequestExecutor`, user handlers, which may call the client |
| Client transports (`stdio_`, `local_pipe_`, `http_client_transport.cpp`) | handlers, socket or process, write queue, session id, GET stream | `connect`, `disconnect`, `send_message`, read loops, `start_sse_get`, event framing | client strand, io loop |
| Server (`server.cpp`) | registries and their frozen copies, `initialized_`, `client_hellos_`, subscriptions, `outbound_pending_`, list cache | `run`, `stop`, `on_message`, `dispatch_method`, `send_server_request`, `handle_list_request`, `notify_*` | transports, worker pool, user handlers |
| HTTP server transport (`http_transport.cpp`) | sessions, connections, SSE streams, connection count, sweep timer | accept, POST, GET/SSE, DELETE, broadcast, sweep, stop | server, write queues |
| Stdio and pipe server transports | reader and writer threads, byte-bounded queues, connections | read, send, stop | server |
| JSON-RPC (`jsonrpc.cpp`) | none | `parse_message`, `parse_message_client`, serialisers | everything |
| Executor, logger, process | thread pool; log queue; child pid and pipes | start/post/stop; log/flush; spawn/kill/wait | client, server, stdio client |
| Types (`types.cpp`) | none | field by field conversions | everything |

What is hard, and what would make each part correct:

* **Write queue.** Decisions are made under a lock and carried out after it, by
  any thread. Correct means: one write at a time, no waiting buffer forgotten,
  bytes in order without gaps, the limit respected, one error report.
* **Client.** Submission, response, timeout, cancel, the peer's close,
  `disconnect()` and `stop()` race. Correct means: every request gets exactly one
  outcome, the table holds exactly the requests that wait, `connected_` does not
  stay true on a dead link, shutdown ends and nothing waits for ever.
* **Client inbound.** Handlers call the server and wait, on the threads that
  would have to bring them the answer. Correct means: requests are answered,
  `stop()` returns, and nothing runs after it.
* **Client transports.** Handlers are cleared by a deferred task while a new
  connection installs new ones; a lost server shows in several ways at once.
  Correct means: a connected transport is read by one reader and heard, and a
  loss is reported.
* **Server.** Handlers run on a pool while `stop()` takes the pool, the transport
  and the loop down; server requests wait for clients that may never answer; list
  caches race invalidation.
* **HTTP transport.** Sessions outlive connections, queues overflow under the
  session lock, closers and disconnect handlers want the same mutex, connection
  counting must balance on every early return. Correct means: no slot comes back
  twice and none is kept, the caps hold, streams end with their
  session, abandoned sessions are reaped, `stop()` returns.
* **Stdio and pipe transports.** A writer thread with a bounded queue, accepts that
  race `stop()`. Correct means: output in order and complete, a byte count that never
  falls short of the queue, drops only when it is full, no connection that outlives
  `stop()`.
* **Algorithms.** Cursors, templates, message classes and event framing have
  boundaries (wrapping sums, unpaired braces, odd ids, reads that end anywhere).

## 2. Plan

Done (sections 3 to 8): the write queue, the client's request lifecycle and its
inbound requests, the client transports, the server's lifecycle with its deferred
requests, sessions and server-initiated requests, the list cache, the HTTP, stdio
and pipe server transports, and the pure algorithms. What is left:

1. Composition: `ClientTransport` as the link of `McpClient` (its `link`, `wire` and
   `closed` task), `HttpTransport` as the sessions of `ServerSessions`.
2. Callbacks that call `disconnect()` while `fail_all_pending` iterates, the callback
   executor.

A policy on properties: where TLAPS proves several related invariants for every
instance, a run checks their conjunction under one name (`OneWriter`, `TableExact`,
`CallbackExact`, `OrderlyShutdown`, ...); the conjuncts keep their own names and
comments in the modules. The type invariant is part of every inductive invariant;
it is a theorem of its own for five modules, and a conjunct of `SlotsHeld`,
`CleanLink`, `QuietAfterStop`, `WalkInOrder` and `StreamOK` in the others.

## 3. The modules and the code

A step of every module is what one thread does between two points where another
thread can interfere: a critical section, a task on a strand or loop, a call to
a collaborator. Names follow the source, without the trailing underscore.

**`AsyncWriteQueue`** (`async_write_queue.hpp`), with the abstract **`ByteSink`**.
State: the queue as a sequence of sizes, `queued_bytes`, `writing`, `active`, the
threads that have decided to arm and the write in flight. `enqueue` is
`EnqueueAccept` or one of its overflow outcomes; the decision to arm is taken
there and carried out later by `ArmWrite`, as in the code, where it happens after
the unlock. Its specification is `QueueSpec`, so that `MCWriters` can stand beside
`LineTransports`. Buffers are sizes and offsets in the byte stream. `ByteSink` says what
a user of the queue may rely on: bytes leave in the order in which they were
accepted, never past the limit, until the sink is closed.

**`McpClient`** (`client.cpp`, `pending_request.cpp`), with the abstract
**`RequestContract`**. State: `pending_map_` as a function from ids and tokens to
requests, each request's `state_`, future and callback, the flags `connected_`,
`stopping_`, `running_`, the strand as a queue of tasks, the io loop and its work
guard, and the link. One action per entry point and one per kind of task:
`SubmitCheck`/`SubmitPost` are the two halves of `submit_request` on the caller's
thread, `RunRegister` the posted half; `RunResponse`, `RunTimeout`, `RunCancel`,
`RunClosed` and `RunDrain` are the other tasks; `Connect*` is the blocking
`connect()` with its rollback and the non-blocking `async_connect()`;
`Disconnect`, `Drain*` and `Stop*` follow the shutdown paths, whose first step
decides whether the drain runs inline or is posted and awaited.
`RequestContract` is the promise to the user: a request is created, settles
once, and its state, future and callback tell the same story.

**`McpServer`** (`server.cpp`: `run`, `stop`, `on_message`, `process_request`;
`request_executor.cpp`). State: `running_`, `frozen_`, `stopping_`, how far `run()`
and `stop()` are, the pool, the transport, the io threads inside `io_ctx_.run()`,
what each thread is doing and where each request is. `Run*` are the steps of
`run()` that others can observe; `OnMessageDeferred` and `OnMessageInline` are the
two branches of `on_message` for a request (a batch always takes the second);
`WorkerTakes`, `WorkerPosts` and `RespondPosted` carry a deferred request through
the pool and back to the loop. `StopBegin(t)` is the first `stop()` of any thread,
also of an io thread (signal, lost peer) or of a handler; `StopPool`,
`StopJoins`, `StopTransport` and `StopLoop` are its statements. `StopJoinsItself` is
`std::thread::join` throwing when the caller is the thread to be joined.

**`ServerSessions`** (`server.cpp`: `handle_initialize`, subscriptions,
`notify_resources_updated`, `send_server_request`, `complete_server_request`, the
answers in `on_message`; one branch of `http_transport.cpp`). State:
`client_hellos_`, `initialized_`, `subscribed_resources_`, `outbound_pending_`, the
stage of every outbound request, the sessions the transport knows, and the
responses in the hands of io threads. `RequestAdmitted` is the capability and
`running_` test of the three request functions, which have the same code;
`SendServerRequest`, then `TransportSends` or `TransportThrows`, are the rest of
`send_server_request`. `OnClientResponse` completes in one critical section,
`ErrorResponseLookup` and `OnClientErrorResponse` in two, as in `on_message`.
`HandlePostError` is the branch of `HttpTransport::handle_post` that answers an
error response itself. `StopSetsFlags`, `StopDetach` and `StopClears` are the
statements of `stop()` that the sessions see.

**`ListCache`** (`handle_list_request`, `invalidate_list_cache`). State: the cache,
the version of each list, and for each thread how far its request is:
`ListBegin` (lookup), `ListProduce` (the application's handler returns) or
`ListThrows` (it does not, and nothing is cached), `ListFill`.

**`ClientInbound`** (`client.cpp`: `handle_inbound_request`,
`dispatch_inbound_request`, `raw_send`, `stop`; `request_executor.cpp`). State: the
strand, what the io thread is in, the pool, where each request of the server is,
and the call its handler makes. `RunAsk` dispatches to the pool or runs the handler
on the strand (`Inline`); `CallTested`, `CallPosted` and `RunRegister` are the three
parts of a nested `submit_request`, and `HandlerWakes` the return of `get()`.
`SendBegins` and `SendReturns` are the two halves of `raw_send` on the strand, between
which `stop()` may reset the transport. `send_notification` calls `raw_send` on the
thread it is called on: `HandlerTells` and `HandlerTold` are its halves in a handler,
`AppTells` and `AppTold` those on a thread of the application; `crashed` says whose
use met a transport that was gone. `StopBegins(who)` is a `stop()` of the application,
of a callback on the io thread or of a worker.

**`ClientTransport`** (`stdio_`, `local_pipe_` and `http_client_transport.cpp`). One
module for the three, which share their structure; `kind` tells them apart where
the code does. State: flags, handlers, the current link and its pending reads,
whether `read_buf_` is over its limit (`full`; no code empties it), the write queue, the loop's tasks, how far `connect()` and `disconnect()` are, and for
HTTP the session and the GET stream. `Attach`, `Claim`, `Begin`, `Dial`, `Arm` are
`attach_transport_handlers` and the statements of `connect()`; `Mark`, `Close`,
`Forget` those of `disconnect()`, the last of which posts `clear_handlers`.
`ArmOversized` is a `do_read` that finds the buffer of the link before still over the
limit. `WriteFails` needs no server that has left: a child may close its end of stdin
and go on writing. With `OneCaller` the application is one thread whose `connect()`
may fail and be rolled back. The callbacks of the GET stream are steps that use whatever socket there is then.

**`HttpTransport`** (`http_transport.cpp`). State: per connection where its strand is,
`active`, `is_streaming` and the stream its `on_disconnect` removes; `sessions_` with
what is initialized and idle; streams with their owner, session and status; the
connection count; the sweep and `stop()`; and `mutex`, who holds `sessions_mutex_`
(or `connections_mutex_`, which has its part in legacy mode). A request is what its handler does to this
state: `Answered` (nothing), `Refuse`, `PostInitialize` with its four steps, `Post`,
`GetSse`/`SseConnect` and `Register`, `Delete`. `Remove` and `CloseStream` are the
removal under the lock and the closing after it, for a DELETE, the sweep and
`stop()` alike; `Unlock` lies between them as a step of its own, so that a closer that
forgot it would be seen to wait for itself. Every other critical section is a step
that needs the mutex free (`MayLock`, or `MayShare` for a shared lock). `on_error` of a
connection with a stream needs it too. `PushOverflows` and `DeleteOverflows` are the
calls of `on_error` with the mutex held: from then on it is `Shared` or `Exclusive` for
good (`Wedged`), and whoever waits for it is `stuck`. The io thread of a failed write
that meets a wedged mutex is lost as well, which the model does not count. A batch
is among `Answered`: it dispatches its elements and changes nothing of this state,
`last_activity` included.

**`LineTransports`** (`stdio_transport.cpp`, `local_pipe_transport.cpp`). The stdout
queue with its byte count, its producers and the writer thread (`write_queue`, what it
has `in_fwrite`); messages sent before `start()` are queued. The pipe's accepts,
registrations, reads and errors (`conn_active` is the flag of a connection); `stop()` of
both.

**`Pagination`** (`handle_list_request`, `set_list_page_size`). A client that follows
the cursors: `StartWalk` with a cursor of its choice, `ListRequest` and `ListAnswer`
for the two parts of `handle_list_request` around the list handler, while the list
grows (`Grow`) and the page size changes (`SetListPageSize`), also between the two
parts. `Plus` is the sum of two values of `std::size_t`, which wraps at `SizeLimit`.

**`ListRequests`** puts `ListCache` and `Pagination` together as what they are, the
two halves of `handle_list_request`. They share `list_page_size_` only, which changes
in each at any time, and a paginated request neither looks the cache up nor fills
it: a behaviour is one of the cache or one of the pages (`half`).

**`JsonRpc`** (`jsonrpc.cpp`). An object arrives from a peer (`Arrives`), any combination
of members, or is made by the library (`Made`); `ParseMessage` and
`ParseMessageClient` are the two parsers, `FromJson` the conversion of an id, which
narrows an unsigned number to `int64_t`: one beyond it (`IdLimit`) becomes negative. The
reference is `Class`, written from JSON-RPC 2.0 and the ids of MCP and not from the
parsers. Where the parsers take more, the difference has a name (`Lenient`): null
params (`NullParams`), a result beside an error (`ResultAndError`), a result whose id is
null (`ResultForNobody`).

**`SseFraming`** (`http_transport.cpp`: the frames; `http_client_transport.cpp`:
`on_sse_read`, `handle_sse_frame`, `close_sse`). State: the frames written, how much
of the last was read, the line and `sse_data_` as sequences of pieces, the lines left
to `handle_sse_frame`, the messages handed over. `Read` takes a piece and `ReadEnds`
ends a read after any; `HandleLine` is a turn of the loop of `handle_sse_frame`;
`StreamDies` and `CloseSse` are the two ways to a new stream, of which only the
second clears `sse_data_`. The body of a POST's answer (`mode = "body"`) goes to
`handle_sse_frame` as a whole.

**`WireFormats`** puts `JsonRpc` and `SseFraming` together: what travels between the
two sides, as messages and as the events that carry them. An event's message is a
number, so neither looks at the other's state (`format`).

**`UriTemplate`** is a pure algorithm with a reference definition: the expressions of a
template as RFC 6570 has them. `MCCodecs` chooses an input and its invariant
compares. It uses recursion, and no proof depends on it.

The `MC*` modules name the model values and the small sets; the `.cfg` files choose
among them. `MCWriters` (`AsyncWriteQueue`, `LineTransports`), `MCServer` (`McpServer`,
`ServerSessions`) and `MCCodecs` (`ListRequests`, `WireFormats`, `UriTemplate`) check
components side by side that share no state: a behaviour is about one of them
(`subject`) and leaves the others as they start. Definitions under "Faulty variants" are deliberately wrong versions
of single definitions. They are not used by any specification; each shows that a
property notices the mistake it stands for.

History variables (marked so) record what properties speak of and are never read
by guards: what a client answered, whom an update is owed to, whether an
invalidation overlapped a fill, whether `stop()` came early, which connections
were being accepted when `stop()` emptied the list, what stdout got and what was
dropped, whether a reconnect overlapped what came before, how long the list was and whether
pagination was off during a walk, which lines of a stream were torn.

## 4. The runs

| Run | Instance | Shows |
|---|---|---|
| `writers` | buffers of one and two bytes, seven bytes in all; no limit, or one of two or three bytes; both policies. Six messages of different sizes, a limit of four bytes; three pipe connections, both modes | one writer and no lost wake-up, one error report, refinement of `ByteSink` (contiguous, within the limit), accepted bytes get written; stdout in order and complete, the byte count covers the queue; no live connection after `stop()`, `stop()` returns |
| `client` | two requests, one cancellable, one string token, one connection, `disconnect()` on one thread, `stop()` on another, a throwing handler; a loop of the client's own | the table holds exactly what waits, refinement of `RequestContract`, `connected_` will be cleared, the loop outlives timers; timed requests settle, `stop()` returns |
| `client_inbound` | two requests of the server; no pool, one worker, two; both loop ownerships; calls with and without timeouts; notifications by handlers and by the application | nothing runs after `stop()`, `raw_send` never loses its transport on an owned loop, requests are answered and `stop()` returns although handlers wait |
| `client_transport` | three transports, two links, two GET streams, one task queued when the application calls | a connected transport is read once and heard, a loss is told once (stdio: twice at most) and is told, one GET stream |
| `server` | two io threads, two workers, two deferrable requests and one that is not; two HTTP sessions, one request to a client, one resource | orderly shutdown, deferred requests answered, `stop()` and `run()` end; callback once, no first answer lost, failed sends forgotten, no live subscriber misses an update, every answer that reaches the server leads to its callback |
| `http_transport` | two connections and slots, two session ids with room for one, two streams, three requests, both modes, CloseOnError | no slot released twice, session cap and no half-made session left, streams end with their session, abandoned sessions reaped, `stop()` returns |
| `codecs` | every JSON-RPC object, a three-bit `int64_t`, every message the library makes; six frames, read as a stream that is cut, dies and is closed, or as a body; templates of six characters; a cache with two lists, two threads, one change each; pages of lists of up to four items, a three-bit `size_t`, every cursor, page sizes 0, 1, 2 and 7 | both parsers agree with JSON-RPC 2.0 but for the named deviations, round trips; messages once, in order and whole, lost only if torn or closed; templates agree with their reference; old answers only after an overlap, uncached ones always fresh; a client that follows the cursors gets all items once and in order; pages and cursors stay in range |

The largest, `http_transport` (636,000 states) and `client` (398,000), take about three
and a half minutes each with two workers; `server` takes one and a half, the
others a minute or less. In `client` the loop is the client's own; an
external loop is covered by the theorems on the safety properties, not by the run.

The runs that end in a violation are listed in section 7.

Bounds and why they are enough. The hazards need two of something: two threads
between a decision and its execution, two requests in one table, two answers to
one request, two sessions with different subscriptions, two links for a
reconnect, two connections on one session, a stream and its replacement. Every
instance has two of each where the hazard lives. Outbound requests of the server
meet only in `stop()`, since ids are fresh: `server` has one, with several
answers in flight at once, and the proofs any number. Integers that may wrap keep a
width, small enough that every value around the boundary is tried (`SizeLimit`,
`IdLimit`). Counters that only grow (ids, versions, links, requests) are bounded by
`MaxId`, `MaxVersion`, `MaxLinks`, `MaxRequests` and the like, and the actions that
would pass the bound are disabled. No run uses symmetry or a state constraint.
Deadlock checking is off where the system may really stop: after `stop()`, or when
no bounded request is left.

## 5. Fairness

Fairness is weak, but for one action, and only on steps of a thread that is already inside the
library or that the library owns: io threads run the tasks of their queue, a
posted task is run, workers take queued requests, handlers return, a thread
inside `stop()`, `run()` or `send_server_request` goes on, a timer that has expired
fires, a session that nobody uses becomes idle. This is what the C++ scheduler, asio and `std::condition_variable` give.
`fwrite` to stdout is assumed to return, that is, the parent to read; `stop()` of
`StdioTransport` does not return without it. Handlers that return are the library's stated requirement ("must not block").
Nothing is assumed of users or peers: nobody has to call anything, answer,
disconnect or send (`client_inbound` has a server that stays silent, so only
timeouts bring its calls to an end).

The exception is the end of the client's io loop (`IoLoopEnds` of `McpClient`), which is
strongly fair: `io_context::run()` returns as soon as it has no work left, and the
work may come and go until then. The real loop is stricter, as it stops the first time its
work count is zero.

## 6. What is proved

Every theorem holds for all values of the constants, under the named
assumptions in the modules that declare them.

* **`AsyncWriteQueueProofs`.** The inductive invariant ties `writing_` to the
  threads that hold the decision to write: `writing_` is set exactly when there is
  one armed thread or one write in flight, and a live queue that is not
  empty has it set. From it: type correctness (`queued_bytes_` never wraps), one
  writer, no lost wake-up, contiguity, one error report, and the refinement of
  `ByteSink`, step by step.
* **`McpClientProofs`.** The invariant is `TypeOK`, the shape of the task queue,
  and five facts about the table: fresh ids are unused, a token belongs to one
  request, an entry's request is waiting, a registered waiting request has its
  entry, an unregistered one is still waiting. `NoRequestDropped` and `NoStaleEntry`
  are each not inductive alone: an erased entry is harmless only because its
  request has just settled, and the reverse. The 30 or so actions have four
  shapes as far as the table is concerned (idle, creates, submits, settles), and
  each shape is treated once. The results about the table assume
  `NumericTokens = {}`: with numeric custom tokens they are false (section 7).
  `TimeoutsKeepTheLoop` adds that a settled request has its outcome (`Settled`) and
  `TimerInv`: a registered request that waits and set a timeout has its timer
  armed or its expiry queued, either of which is work for the loop.
  `ConnectedIsCleared` needs more than the property: the link may go down while
  `connected_` is still false and the handshake's result is queued, and the result
  sets it later. `ClearInv` therefore asks for a clearing task as soon as such a
  result is queued (`Late`); as the clearing task fails all pending requests, it
  does not matter which of the two runs first. `AnswerInv` says that only
  registered requests are answered, `OneHandshake` that the only open handshake is
  the one `connect()` makes: with overlapping handshakes the property is
  false (section 7), hence `MaxHandshakes <= 1`.
* **`ServerSessionsProofs`.** `StageInv` says where a request can be, by its stage:
  in the table from registration until its callback or the clearing by `stop()`,
  nowhere before and, if sending failed, nowhere after. `AnswerInv` says that only
  a request that was received is answered. Both are needed: an answer finds its
  entry because the entry is made before the request can be received. For
  updates, `SessionInv` excludes that a new session is owed an old update.
* **`McpServerProofs`.** `PhaseInv`: registries are frozen from the freeze on, and
  nothing is received before the loop. `StopInv` and `LateStopInv`: how far `stop()`
  is, against what is left of the server. `JoinedBeforeClosed` and `CleanShutdown`
  speak of a `stop()` that began after `run()` had reached its loop (`~early`); for
  an earlier one they are false (section 7). Then `ListRequests`, under
  `ListRequestsAssumption`. Each half has an invariant of its own, and
  `HalvesImplemented` shows that a behaviour of the whole is one of each half:
  - `Cache` (`ListCache`): versions are ordered. What was invalidated
    is not ahead of the list, a request's floor not ahead of what was invalidated;
    only a cacheable request fills; without an overlap, what is about to be cached is
    no older than the last invalidation.
  - `Pages` (`Pagination`): for every width of `std::size_t`,
    every set of page sizes below it and every cursor. `WalkInOrder` speaks of the
    items a client has, and is not inductive without the cursor it holds: `WalkInv`
    says that the cursor is exactly as far as the items, and `AskedInv` what holds
    inside a request, whose list and page size may change before the answer.
* **`HttpTransportProofs`.** For `SlotsHeld`, the count is compared with the
  cardinality of the set of live connections: a step that lowers the count also
  ends a live connection, one that adds a connection raises the count; `SlotInv` says
  that a connection that is not accepted yet is active, so that accepting it adds
  one. For the sessions, `IdInv`: ids are
  drawn before they are used, and the id a handler makes a session of is that
  handler's alone, so that a rollback removes its own session only. For the
  streams, `StreamInv`, `CloserInv`, `ListedInv` and `GoneInv` follow a stream from
  the handler that makes it to the closer that holds it: off its list, it is
  inactive or in the hands of a closer that has still to get to it. Whoever holds
  the mutex, these hold; that nobody waits for ever is left to TLC.
* **`ClientInboundProofs`.** `BusyInv` says where handlers run: on the io thread, one
  at a time, or on a pool, and on none when the pool is off. `StopInv` says, by how
  far `stop()` is, what is over: past the drain no message comes, past the pool no
  worker runs, and only then is the loop released. `LoopInv` and `SendInv` say that
  `stop()` has waited for a loop of the client's own, and for the pool, before it resets
  the transport, so that no `raw_send` of the strand or of a handler is between its
  test and its use. `TaskInv` says that a queued task fits the state its request is in
  and is queued once: without it, a second dispatch could move on a request whose
  handler is in the middle of a send. The sends of the application itself are in the model and outside the theorem:
  `stop()` waits for none of them (section 7).
* **`ClientTransportProofs`.** Everything is under `~overlap`: the application
  reconnects when `disconnect()` and the loop are done with the old link.
  `ReadInv` counts the reads that are pending and those whose completion is
  queued: the sum is at most one, and one while connected. `CallInv` keeps
  `connect()` and `disconnect()` apart, and no request to clear the handlers is
  queued while a connection is being made or up. For `ToldOnce`, `ToldInv` bounds a
  sum that no step increases: reports made, reports queued, and one each for a
  reader and (stdio) a writer that can still fail. It needs that completions in
  the queue are of the current link. `SseInv` says when `sse_open_` and the GETs may
  disagree: while `disconnect()` is at work, and after it until the callbacks
  have run. Tasks are counted (`Count`), and four lemmas say what appending to
  and taking from a sequence does to a count, so that each step is arithmetic.
  The last part is about `WireFormats`, under `WireAssumption`; `FormatsImplemented`
  shows that a behaviour of it is one of each of its two parts. `Sse` (`SseFraming`),
  for any number of frames and streams: `StreamOK` says nothing of a message that is only half there, so
  the invariant follows one: torn, or being read without an interruption
  (`Unbroken`, in `MessageInv`), or in `sse_data_` or the frame being cut up (`OnWay`),
  or handed over; `OwedInv` says that it is one of these. `WayInv` gives the order: what
  is on the way comes after all that was handed over, and is of the current frame or
  of a stream that died, whose successor has just begun. `HeadInv` and `EndpointInv`
  exclude that the other frames leave something in `sse_data_` that a message's data
  would be added to. `Rpc` (`JsonRpc`), for every `int64_t` limit and every set of
  integers: each object is classified as JSON-RPC 2.0 has it or is one of the three
  named deviations, an id that fits survives, one that does not becomes negative and
  matches no request, and messages survive; by cases on the members of an object,
  with no induction.
* **`LineTransportsProofs`.** For any messages, sizes, limit and number of connections.
  `QueueInv`: the queue holds the last messages sent, without a gap. `TakenInv`: every
  older one was dropped or taken by the writer, in order, so that with `WriterInv`
  (a writer that has left leaves nothing) what stdout got is all that was not
  dropped. `CountInv`: the byte count is what is queued and what was ever dropped,
  which is what `BytesCoverQueue` rests on; the property itself only asks that the
  count never falls short, and a code that took dropped bytes off would keep it.
  The bytes of a set of messages are the cardinality of a set of (message, byte)
  pairs, so that a message more or less is a law of finite sets (`BytesAdd`), where a
  recursive sum would need an induction. `ListedInv`: until `stop()` has emptied the
  list, a pipe connection that can still work is in it or about to be.

Only model-checked: everything temporal beyond safety (`AcceptedIsWritten`,
`TimedRequestResolves`, `StopReturns`, `DeliveredIsCalled`, `QueuedIsAnswered`,
`ShutdownEnds`, `AbandonedSessionsReaped`, `LossReported`, `InboundAnswered`), because
the prover handles neither fairness nor `ENABLED`; and `TemplatesOK`, which compares
recursive definitions: what those compute for every input needs an induction over
data that the prover does not do.

## 7. Where code and documentation disagree

Five runs end in a violation, and `PROJECT.json` quotes the lines:

* `client_reconnect_deaf` (`NeverDeaf`). The task with which a client transport's
  `disconnect()` clears its handlers may run after the next `connect()` has attached
  them, and the reconnected client hears nothing
  (`local_pipe_client_transport.cpp:169`, the same in the other two). No two calls
  overlap in this run: a first `connect()` is rolled back and tried again.
  `CleanLink` shows that nothing of the kind happens when the loop is done with the
  old link before `connect()` is called; `McpClient::disconnect()` on an owned loop is
  safe, as its drain waits behind the clearing task.
* `stdout_full` (`DropsOnlyWhenFull`). Dropping a message of the stdout queue does not
  release its bytes (`stdio_transport.cpp:121`), so that a later send drops a message
  although there is room; the comment at 111-113 says that the queue drops "when
  full". `BytesCoverQueue` and `StdoutInOrder` hold all the same.
* `http_slots` (`SlotsComeBack`). A refused request clears `active` itself
  (`http_transport.cpp:549`, 563, 596, 876, 887), and `on_release` never runs, although
  `http_transport.hpp:91-94` says "exactly once": the slot is lost. `SlotsHeld` is what
  is left: no slot is released twice.
* `client_dead_loop` (`DrainCompletes`). After a handler threw out of the client's io
  loop, `disconnect()` waits for a drain task nobody runs (`client.cpp:651`); the comment
  at 649-650 says "this wait always completes".
* `http_wedge` (`StopAlwaysReturns`). An overflow under the lock runs `on_disconnect`,
  which waits for the mutex its own thread holds (`http_transport.cpp:1137`, 894; the
  pipe's broadcast is alike, `local_pipe_transport.cpp:420`), and `stop()` never returns;
  `CHANGELOG.md:52-55` says that connections are closed outside the lock. `StopReturns`
  excepts a wedged mutex and shows that nothing else keeps `stop()` waiting.

The models contain further behaviour of this kind. Each is the reason for an
exception in a property above, or for an assumption, which delimits it:

* A numeric custom token without a progress callback replaces another request's
  entry (`client.cpp:239`; the comment at 223-225 says custom tokens must be
  strings): `NumericTokens = {}` in the runs and in the theorems on the table.
* A submission that passed its test before `stop()` can be posted to a loop that has
  ended, and its future is never set (`client.cpp:208`): `TimedRequestResolves` and
  `TableExact` speak of registered requests.
* `StopReturns` of `McpClient` speaks of behaviours in which the loop does not die and
  the link stays down in the end: a `connect()` that runs into `stop()` may open the
  link again behind its back, and the reads of that link keep the loop at work.
* A failed `connect()` that overlaps an `async_connect()` leaves the other
  handshake's response queued, which sets `connected_` on a closed link
  (`client.cpp:144`); `ConnectedWillClear` is checked with one handshake at a time.
* Without a pool, a handler that calls the server and waits blocks the thread that
  would bring the answer (`client.cpp:605`): `~Inline` in `InboundAnswered` and
  `StopReturns` of `ClientInbound`. On an external loop, `raw_send` may meet a
  transport that `stop()` has reset (`client.cpp:190`); on any loop so may the
  `send_notification` of an application thread that overlaps `stop()` (182-187):
  `SendIsSafe` excepts both.
* A failed write of the stdio client transport reports the loss, and so does the
  read (`stdio_client_transport.cpp:93`): `ToldOnce` allows two reports there. No
  code empties `read_buf_` of the stdio and pipe transports: after an oversized line
  every later connection is dropped as soon as it is made
  (`stdio_client_transport.cpp:187`, `local_pipe_client_transport.cpp:210`;
  `ArmOversized`), and half a line is left to the next link. The
  write callback of the GET stream uses `sse_socket_` without a test
  (`http_client_transport.cpp:398`): `OneStream` allows it while stopping.
* A read of the GET stream that ends inside a line loses its message
  (`http_client_transport.cpp:420`): `StreamOK` says that this is the only loss. A
  stream that dies after a message's line, before the blank line, leaves the message
  in `sse_data_` (409), and the first blank line of the next stream hands it over. A
  non-2xx answer becomes an error without an id, which completes no request
  (`http_client_transport.cpp:343`), although the comment at 319-321 says it does.
* An old list is cached after the invalidation (`server.cpp:648`): `ListsFresh` excepts
  what follows such an overlap, and shows that there is no other way to it.
* The parsers are more lenient than JSON-RPC 2.0 in the three ways that `Lenient`
  names, and narrow an id beyond `int64_t` to a negative number (`common.hpp:34`).
* `HttpTransport` answers error responses itself, so the server's request never
  hears of them (`http_transport.cpp:669`; `server.cpp:448` expects them):
  `DeliveredIsCalled` speaks of answers that reach the server.
* A GET that registers after its session is gone leaves its stream to nobody
  (`http_transport.cpp:922`), and so does the rollback of an initialize whose client
  was told the id and opened a stream before the handler failed: `orphan`, and the
  condition `home[x] \in initialized`, in `StreamsFollowSession`.
* A failed pipe connection keeps its socket open (`local_pipe_transport.cpp:140`), and
  one that is accepted while `stop()` runs lives on (372): `NoGhostConnection` excepts
  both (`late`).
* A cursor near the end of `std::size_t` makes the sum wrap and the answer an
  internal error (`server.cpp:637`), and pagination that is switched off during a
  walk repeats items (616, 641): the first clause of `PageInRange`, and `unpaged` in
  `WalkInOrder`, which also supposes that a list grows only at its end: an item
  that is removed or inserted during a walk shifts the others under the cursor.
* `stop()` from a handler on the pool joins its own thread; the exception skips the
  rest of `stop()` for good (`request_executor.cpp:29`): the second disjunct of
  `ShutdownEnds`.
* A `stop()` that comes before `run()` has started its transport is overtaken
  (`server.cpp:204`): `~early` in `OrderlyShutdown`.
* An update of a resource nobody is subscribed to is broadcast although there are
  other subscriptions (`server.cpp:1103`); before initialize, a stdio client counts
  as one that declared everything (`server.cpp:1227`); requests to a session that
  ended are kept until `stop()` (`server.cpp:1216`).

## 8. What is not modelled

Abstracted in the modules above: message contents and what handlers compute; in
which order templates are tried when several match (`server.cpp:801-802`); the
synchronous DELETE with which the HTTP client transport ends its session
(`http_client_transport.cpp:142-153`), whose outcome is ignored; a list handler that
throws during a walk (a failed request that the client may repeat);
`run()` called a second time after a failed start; request callbacks that call
back into the client; progress values; the callback executor and `~McpClient`; an
inline request handler that calls `stop()`; a server that answers with a progress
token as id; `McpServer`'s data race on `executor_` between `run()` and an early
`stop()` (the pointer is taken to be seen either way); several clients on one pipe,
which share the empty session; HTTP headers, bodies, pipelining beyond one request
after the other, and the read timeout of a legacy SSE stream, which is armed like
that of any request (`ReadTimeout`); the Windows variants of the transports where
they differ only in the calls they make (an accept or reader thread for the loop).

Not modelled at all: the logger, a queue with one thread that prints and that
nothing else waits for; `types.cpp`, which converts field by field and keeps no
state; `process.cpp`, a sequence of operating-system calls; the HTTP parser, which is
vendored; schema validation, a sequential recursive walk over one value without
state, of which a property would be the walk itself; handler registration, which only fills the registries before `run()`.
