----------------------------- MODULE McpClient -----------------------------
(***************************************************************************)
(* cppmcp::McpClient and cppmcp::PendingRequest: outbound requests from    *)
(* submission to their outcome, the initialize handshake, and the ways a   *)
(* client goes down.                                                       *)
(*                                                                         *)
(* User threads (submitters, a connecting thread, threads that call        *)
(* disconnect(), one that calls stop()) post tasks to a strand; the io     *)
(* loop runs the tasks one at a time, first in, first out.  A task is one  *)
(* step.  A user thread's call is split wherever another thread can get    *)
(* between: between submit_request's check and its post, and around the    *)
(* drain that disconnect() and stop() wait for.                            *)
(*                                                                         *)
(* The transport and the peer are external: the link is up or down, the    *)
(* peer may answer a request it received, more than once or never, in any  *)
(* order, and may close the link at any time.  Payloads are abstracted to  *)
(* whether a response is an error, a result, or a result that does not     *)
(* negotiate a supported protocol version.                                 *)
(***************************************************************************)
EXTENDS Integers, Sequences, FiniteSets

CONSTANTS
  MaxId,           \* bound: requests a behaviour submits
  Cancellable,     \* ids whose holder may call cancel()
  StringTokens,    \* custom progress tokens that are strings
  NumericTokens,   \* custom progress tokens that are numbers
  NullId,          \* the null RequestId: no progress token
  Callers,         \* user threads that may call disconnect()
  Stopper,         \* the thread that calls stop()
  AppStops,        \* TRUE if the application calls stop()
  OwnsChoices,     \* values of owns_io_context_ the application configures
  TimedChoices,    \* whether requests set a timeout
  PeerThrows,      \* TRUE if a message of the peer may make its handler throw
  MaxHandshakes,   \* bound: initialize requests unanswered at a time
  MaxInbound       \* bound: strand tasks the transport has queued at a time

NoReq == 0     \* a key that is absent from pending_map_
Ids == 1..MaxId
Keys == Ids \cup StringTokens \cup NumericTokens
Drainers == Callers \cup {Stopper}

ASSUME ClientAssumption ==
  /\ MaxId \in Nat
  /\ Cancellable \subseteq Ids
  /\ NumericTokens \subseteq Ids
  /\ \A k \in StringTokens : k \notin Ids /\ k # NoReq
  /\ NullId \notin Keys
  /\ Stopper \notin Callers
  /\ AppStops \in BOOLEAN
  /\ OwnsChoices \subseteq BOOLEAN
  /\ TimedChoices \subseteq BOOLEAN
  /\ PeerThrows \in BOOLEAN
  /\ MaxHandshakes \in Nat
  /\ MaxInbound \in Nat

Outcomes == {"Succeeded", "Errored", "TimedOut", "Cancelled", "Failed"}

VARIABLES
  \* flags of the client
  connected,     \* connected_
  server_result, \* server_result_ holds a value
  stopping,      \* stopping_
  running,       \* running_
  owns_io,       \* owns_io_context_, fixed before the first connect()
  \* the io loop and its strand
  io,            \* off (not started), running, ended (run() returned), died
  joinable,      \* io_thread_.joinable()
  work_guard,    \* work_guard_ keeps the loop running
  strand,        \* posted tasks, first in first out: <<operation, argument>>
  \* the transport (external)
  link,          \* up or down
  wire,          \* ids of the requests that the peer received over this link
  \* the requests
  pending_map,   \* pending_map_: request a key is mapped to, NoReq if absent
  next_id,       \* next_id_
  stage,         \* free, checked, posted, registered: how far submission got
  method,        \* initialize or call
  token,         \* progress_token, NullId if none
  timed,         \* timeout_ > 0
  state,         \* state_
  promise,       \* outcome in promise_, Unset before
  notified,      \* dispatch_callbacks() calls
  timer,         \* timer_: off or armed
  \* user threads
  conn_pc,       \* connect(): idle, submit, wait
  conn_id,       \* connect(): the id it waits for
  drain_pc,      \* disconnect()/drain_pending(): idle, closed, wait, drained
  stop_pc        \* stop(): idle, begun, draining, joining, stopped

flags == <<connected, server_result, stopping, running, owns_io>>
loop == <<io, joinable, work_guard>>
peer == <<link, wire>>
submission == <<next_id, stage, method, token, timed>>
outcome == <<state, promise, notified, timer>>
threads == <<conn_pc, conn_id, drain_pc, stop_pc>>
vars == <<flags, loop, strand, peer, pending_map, submission, outcome, threads>>

Init ==
  /\ connected = FALSE
  /\ server_result = FALSE
  /\ stopping = FALSE
  /\ running = FALSE
  /\ owns_io \in OwnsChoices
  /\ io = IF owns_io THEN "off" ELSE "running"
  /\ joinable = FALSE
  /\ work_guard = owns_io
  /\ strand = <<>>
  /\ link = "down"
  /\ wire = {}
  /\ pending_map = [k \in Keys |-> NoReq]
  /\ next_id = 1
  /\ stage = [r \in Ids |-> "free"]
  /\ method = [r \in Ids |-> "call"]
  /\ token = [r \in Ids |-> NullId]
  /\ timed = [r \in Ids |-> FALSE]
  /\ state = [r \in Ids |-> "Waiting"]
  /\ promise = [r \in Ids |-> "Unset"]
  /\ notified = [r \in Ids |-> 0]
  /\ timer = [r \in Ids |-> "off"]
  /\ conn_pc = "idle"
  /\ conn_id = NoReq
  /\ drain_pc = [c \in Drainers |-> "idle"]
  /\ stop_pc = "idle"

Post(task) == strand' = Append(strand, task)

\* The strand task that runs next.
Running(op, arg) ==
  /\ io = "running"
  /\ strand # <<>>
  /\ Head(strand) = <<op, arg>>

Queued(op, arg) == \E i \in DOMAIN strand : strand[i] = <<op, arg>>

-----------------------------------------------------------------------------
(* PendingRequest::finish, for the requests of a set at once *)

Finish(S, o) ==
  LET first == {r \in S : state[r] = "Waiting"} IN
  /\ state' = [r \in Ids |-> IF r \in S THEN o ELSE state[r]]
  /\ promise' = [r \in Ids |-> IF r \in first THEN o ELSE promise[r]]
  /\ notified' = [r \in Ids |-> IF r \in first THEN notified[r] + 1 ELSE notified[r]]
  /\ timer' = [r \in Ids |-> IF r \in first THEN "off" ELSE timer[r]]

\* The request has a progress token that is a key of its own.
HasTokenKey(r) == token[r] # NullId /\ token[r] # r

-----------------------------------------------------------------------------
(* Faulty variants of definitions below, one per plausible mistake; used     *)
(* only to show that the properties notice them.                             *)

\* complete_pending that leaves the finished request in the table.
CompletePendingKeepsEntry(k, o) ==
  IF pending_map[k] = NoReq
    THEN UNCHANGED <<pending_map, outcome>>
    ELSE Finish({pending_map[k]}, o) /\ UNCHANGED pending_map

\* fail_all_pending that clears the table without finishing.
FailAllPendingOnlyClears ==
  /\ pending_map' = [k \in Keys |-> NoReq]
  /\ UNCHANGED outcome

\* Registration without arm_timer.
RunRegisterNoTimer(r) ==
  /\ Running("register", r)
  /\ strand' = Tail(strand)
  /\ stage' = [stage EXCEPT ![r] = "registered"]
  /\ pending_map' = [k \in Keys |->
       IF k = r \/ (HasTokenKey(r) /\ k = token[r]) THEN r ELSE pending_map[k]]
  /\ wire' = IF link = "up" THEN wire \cup {r} ELSE wire
  /\ UNCHANGED <<flags, loop, link, next_id, method, token, timed, outcome, threads>>

\* The peer's close is reported without clearing connected_.
ClearConnectedNever == UNCHANGED connected

\* The drain task forgets to fulfil the promise its caller waits for.
DrainSignalLost(c) == UNCHANGED drain_pc

-----------------------------------------------------------------------------
\* complete_pending: unknown keys are ignored; otherwise the key and the token
\* key leave the table, then the request is finished.
CompletePending(k, o) ==
  IF pending_map[k] = NoReq
    THEN UNCHANGED <<pending_map, outcome>>
    ELSE LET r == pending_map[k] IN
         /\ pending_map' = [x \in Keys |->
              IF x = k \/ (HasTokenKey(r) /\ x = token[r]) THEN NoReq ELSE pending_map[x]]
         /\ Finish({r}, o)

FailAllPending ==
  /\ Finish({r \in Ids : state[r] = "Waiting" /\ \E k \in Keys : pending_map[k] = r},
            "Failed")
  /\ pending_map' = [k \in Keys |-> NoReq]

-----------------------------------------------------------------------------
(* submit_request *)

\* The key a request's progress is filed under: a custom number is replaced by
\* the id, but only when a progress callback is set.
EffectiveToken(id, custom, on_progress) ==
  IF on_progress
    THEN IF custom = NullId \/ custom \in NumericTokens THEN id ELSE custom
    ELSE custom

\* The admission test, made before the registration is posted.
Admitted(m) == ~stopping /\ (connected \/ m = "initialize")

\* The caller passes the test and takes an id.
Create(m, tok, t) ==
  /\ next_id \in Ids
  /\ Admitted(m)
  /\ next_id' = next_id + 1
  /\ stage' = [stage EXCEPT ![next_id] = "checked"]
  /\ method' = [method EXCEPT ![next_id] = m]
  /\ token' = [token EXCEPT ![next_id] = tok]
  /\ timed' = [timed EXCEPT ![next_id] = t]

SubmitCheck(custom, on_progress, t) ==
  /\ conn_pc = "submit" => next_id < MaxId   \* bound: leave an id for connect()
  /\ Create("call", EffectiveToken(next_id, custom, on_progress), t)
  /\ UNCHANGED <<flags, loop, strand, peer, pending_map, outcome, threads>>

SubmitPost(r) ==
  /\ stage[r] = "checked"
  /\ stage' = [stage EXCEPT ![r] = "posted"]
  /\ Post(<<"register", r>>)
  /\ UNCHANGED <<flags, loop, peer, pending_map, next_id, method, token, timed,
                 outcome, threads>>

\* register_pending, arm_timer and the send, on the strand.
RunRegister(r) ==
  /\ Running("register", r)
  /\ strand' = Tail(strand)
  /\ stage' = [stage EXCEPT ![r] = "registered"]
  /\ pending_map' = [k \in Keys |->
       IF k = r \/ (HasTokenKey(r) /\ k = token[r]) THEN r ELSE pending_map[k]]
  /\ timer' = [timer EXCEPT ![r] = IF timed[r] THEN "armed" ELSE @]
  /\ wire' = IF link = "up" THEN wire \cup {r} ELSE wire
  /\ UNCHANGED <<flags, loop, link, next_id, method, token, timed,
                 state, promise, notified, threads>>

-----------------------------------------------------------------------------
(* What resolves a request: responses, timers, cancel() *)

\* What complete_pending makes of a response for request r.
ResponseOutcome(op, r) ==
  IF op = "error" \/ (op = "badresult" /\ method[r] = "initialize")
    THEN "Errored" ELSE "Succeeded"

\* A successful initialize response that negotiates a supported version.
HandshakeDone(op, r) == op = "result" /\ method[r] = "initialize"

RunResponse(op, k) ==
  /\ Running(op, k)
  /\ strand' = Tail(strand)
  /\ IF pending_map[k] = NoReq
       THEN UNCHANGED <<connected, server_result, pending_map, outcome>>
       ELSE LET r == pending_map[k] IN
            /\ connected' = (connected \/ HandshakeDone(op, r))
            /\ server_result' = (server_result \/ HandshakeDone(op, r))
            /\ CompletePending(k, ResponseOutcome(op, r))
  /\ UNCHANGED <<stopping, running, owns_io, loop, peer, submission, threads>>

\* The steady timer expires: its handler is queued on the strand.
TimerExpires(r) ==
  /\ io = "running"
  /\ timer[r] = "armed"
  /\ timer' = [timer EXCEPT ![r] = "off"]
  /\ Post(<<"timeout", r>>)
  /\ UNCHANGED <<flags, loop, peer, pending_map, submission, state, promise,
                 notified, threads>>

\* PendingRequest::on_timer.
RunTimeout(r) ==
  /\ Running("timeout", r)
  /\ strand' = Tail(strand)
  /\ IF state[r] = "Waiting"
       THEN CompletePending(r, "TimedOut")
       ELSE UNCHANGED <<pending_map, outcome>>
  /\ UNCHANGED <<flags, loop, peer, submission, threads>>

\* PendingRequest::cancel; bound: one cancel of a request queued at a time.
Cancel(r) ==
  /\ stage[r] \in {"posted", "registered"}
  /\ promise[r] = "Unset"
  /\ ~Queued("cancel", r)
  /\ Post(<<"cancel", r>>)
  /\ UNCHANGED <<flags, loop, peer, pending_map, submission, outcome, threads>>

\* request_cancel's task (the notification it sends is not modelled).
RunCancel(r) ==
  /\ Running("cancel", r)
  /\ strand' = Tail(strand)
  /\ IF pending_map[r] # NoReq /\ state[pending_map[r]] = "Waiting"
       THEN CompletePending(r, "Cancelled")
       ELSE UNCHANGED <<pending_map, outcome>>
  /\ UNCHANGED <<flags, loop, peer, submission, threads>>

-----------------------------------------------------------------------------
(* The peer and the transport (external) *)

Responses == {"result", "badresult", "error"}
Inbound ==
  Cardinality({i \in DOMAIN strand : strand[i][1] \in Responses \cup {"closed", "throw"}})

\* The transport hands a peer message to the strand.
FromPeer(task) ==
  /\ link = "up"
  /\ io = "running"
  /\ Inbound < MaxInbound
  /\ Post(task)

PeerRespond(op, r) ==
  /\ r \in wire
  /\ op = "badresult" => method[r] = "initialize"   \* else the same as "result"
  /\ FromPeer(<<op, r>>)
  /\ UNCHANGED <<flags, loop, peer, pending_map, submission, outcome, threads>>

\* A notification whose fields have an unexpected JSON type.
PeerSendsThrowing ==
  /\ PeerThrows
  /\ FromPeer(<<"throw", NoReq>>)
  /\ UNCHANGED <<flags, loop, peer, pending_map, submission, outcome, threads>>

PeerCloses ==
  /\ FromPeer(<<"closed", NoReq>>)
  /\ link' = "down"
  /\ wire' = {}
  /\ UNCHANGED <<flags, loop, pending_map, submission, outcome, threads>>

\* transport_->disconnect().
TransportDisconnect == link' = "down" /\ wire' = {}

-----------------------------------------------------------------------------
(* connect(), async_connect() *)

\* ensure_started.
EnsureStarted ==
  /\ running' = TRUE
  /\ io' = IF owns_io /\ ~running THEN "running" ELSE io
  /\ joinable' = IF owns_io /\ ~running THEN TRUE ELSE joinable

Handshakes == {r \in Ids : method[r] = "initialize" /\ promise[r] = "Unset"}

MayConnect ==
  /\ conn_pc = "idle"
  /\ stop_pc # "stopped"                          \* transport_ was reset
  /\ next_id \in Ids
  /\ Cardinality(Handshakes) < MaxHandshakes

\* The transport connects (or was connected).
ConnectBegin ==
  /\ MayConnect
  /\ EnsureStarted
  /\ link' = "up"
  /\ conn_pc' = "submit"
  /\ UNCHANGED <<connected, server_result, stopping, owns_io, work_guard, strand,
                 wire, pending_map, submission, outcome, conn_id, drain_pc, stop_pc>>

\* transport_->connect() throws.
ConnectRefused ==
  /\ MayConnect
  /\ link = "down"
  /\ EnsureStarted
  /\ UNCHANGED <<connected, server_result, stopping, owns_io, work_guard, strand,
                 peer, pending_map, submission, outcome, threads>>

\* The initialize request is created; connect() waits for it, async_connect()
\* returns it.  A client that is shutting down throws here.
ConnectSubmit(t) ==
  /\ conn_pc = "submit"
  /\ \/ /\ Create("initialize", NullId, t)
        /\ \/ conn_pc' = "wait" /\ conn_id' = next_id
           \/ conn_pc' = "idle" /\ UNCHANGED conn_id
     \/ /\ stopping
        /\ conn_pc' = "idle"
        /\ UNCHANGED <<submission, conn_id>>
  /\ UNCHANGED <<flags, loop, strand, peer, pending_map, outcome, drain_pc, stop_pc>>

\* connect() gets its outcome; a failed handshake rolls the transport back.
ConnectReturn ==
  /\ conn_pc = "wait"
  /\ promise[conn_id] # "Unset"
  /\ conn_pc' = "idle"
  /\ IF promise[conn_id] = "Succeeded" /\ server_result
       THEN UNCHANGED <<connected, peer>>
       ELSE connected' = FALSE /\ TransportDisconnect
  /\ UNCHANGED <<server_result, stopping, running, owns_io, loop, strand,
                 pending_map, submission, outcome, conn_id, drain_pc, stop_pc>>

-----------------------------------------------------------------------------
(* on_transport_disconnect, on the strand and from the dying io loop *)

ClearConnected == connected' = FALSE

RunClosed ==
  /\ Running("closed", NoReq)
  /\ strand' = Tail(strand)
  /\ ClearConnected
  /\ FailAllPending
  /\ UNCHANGED <<server_result, stopping, running, owns_io, loop, peer,
                 submission, threads>>

\* The handler throws out of io_context::run().  The io thread of a client
\* that owns its loop fails the pending requests and exits; an external loop
\* belongs to the application, which is taken to catch it and to run on.
RunThrow ==
  /\ Running("throw", NoReq)
  /\ strand' = Tail(strand)
  /\ IF owns_io
       THEN io' = "died" /\ connected' = FALSE /\ FailAllPending
       ELSE UNCHANGED <<io, connected, pending_map, outcome>>
  /\ UNCHANGED <<server_result, stopping, running, owns_io, joinable, work_guard,
                 peer, submission, threads>>

-----------------------------------------------------------------------------
(* drain_pending, for disconnect() and stop() *)

IoLoopGone == owns_io /\ ~joinable /\ ~running

DrainPending(c) ==
  /\ drain_pc[c] = "closed"
  /\ IF IoLoopGone
       THEN /\ connected' = FALSE
            /\ FailAllPending
            /\ drain_pc' = [drain_pc EXCEPT ![c] = "idle"]
            /\ UNCHANGED strand
       ELSE /\ Post(<<"drain", c>>)
            /\ drain_pc' = [drain_pc EXCEPT ![c] = "wait"]
            /\ UNCHANGED <<connected, pending_map, outcome>>
  /\ UNCHANGED <<server_result, stopping, running, owns_io, loop, peer,
                 submission, conn_pc, conn_id, stop_pc>>

\* drained->set_value(): the caller, if it still waits, may go on.
DrainSignal(c) ==
  drain_pc' = [drain_pc EXCEPT ![c] = IF @ = "wait" THEN "drained" ELSE @]

RunDrain(c) ==
  /\ Running("drain", c)
  /\ strand' = Tail(strand)
  /\ connected' = FALSE
  /\ FailAllPending
  /\ DrainSignal(c)
  /\ UNCHANGED <<server_result, stopping, running, owns_io, loop, peer,
                 submission, conn_pc, conn_id, stop_pc>>

\* The caller sees the drain done; on an external loop it stops waiting after
\* two seconds anyway.
DrainReturn(c) ==
  /\ drain_pc[c] = "drained" \/ (drain_pc[c] = "wait" /\ ~owns_io)
  /\ drain_pc' = [drain_pc EXCEPT ![c] = "idle"]
  /\ UNCHANGED <<flags, loop, strand, peer, pending_map, submission, outcome,
                 conn_pc, conn_id, stop_pc>>

\* disconnect() closes the transport, then drains; bound: one drain of a
\* caller queued at a time.
Disconnect(c) ==
  /\ drain_pc[c] = "idle"
  /\ ~Queued("drain", c)
  /\ TransportDisconnect
  /\ drain_pc' = [drain_pc EXCEPT ![c] = "closed"]
  /\ UNCHANGED <<flags, loop, strand, pending_map, submission, outcome,
                 conn_pc, conn_id, stop_pc>>

-----------------------------------------------------------------------------
(* stop() *)

StopBegin ==
  /\ AppStops
  /\ stop_pc = "idle"
  /\ stopping' = TRUE
  /\ stop_pc' = "begun"
  /\ UNCHANGED <<connected, server_result, running, owns_io, loop, strand, peer,
                 pending_map, submission, outcome, conn_pc, conn_id, drain_pc>>

StopDisconnect ==
  /\ stop_pc = "begun"
  /\ TransportDisconnect
  /\ stop_pc' = "draining"
  /\ drain_pc' = [drain_pc EXCEPT ![Stopper] = "closed"]
  /\ UNCHANGED <<flags, loop, strand, pending_map, submission, outcome,
                 conn_pc, conn_id>>

\* The drain is over: the work guard is released.
StopReleaseLoop ==
  /\ stop_pc = "draining"
  /\ drain_pc[Stopper] = "idle"
  /\ work_guard' = FALSE
  /\ stop_pc' = "joining"
  /\ UNCHANGED <<flags, io, joinable, strand, peer, pending_map, submission,
                 outcome, conn_pc, conn_id, drain_pc>>

\* run() returns once nothing is left to run: no task, no armed timer and no
\* open transport.
IoLoopEnds ==
  /\ io = "running" /\ owns_io
  /\ ~work_guard
  /\ strand = <<>>
  /\ link = "down"
  /\ \A r \in Ids : timer[r] = "off"
  /\ io' = "ended"
  /\ UNCHANGED <<flags, joinable, work_guard, strand, peer, pending_map,
                 submission, outcome, threads>>

\* join() returns; the client is no longer running.
StopReturn ==
  /\ stop_pc = "joining"
  /\ joinable => io # "running"
  /\ joinable' = FALSE
  /\ running' = FALSE
  /\ stop_pc' = "stopped"
  /\ UNCHANGED <<connected, server_result, stopping, owns_io, io, work_guard,
                 strand, peer, pending_map, submission, outcome, conn_pc,
                 conn_id, drain_pc>>

-----------------------------------------------------------------------------

\* The io loop runs the next task of the strand.
RunTask ==
  \/ \E r \in Ids :
       \/ RunRegister(r) \/ RunTimeout(r) \/ RunCancel(r)
       \/ \E op \in Responses : RunResponse(op, r)
  \/ RunClosed
  \/ RunThrow
  \/ \E c \in Drainers : RunDrain(c)

Peer ==
  \/ \E r \in Ids, op \in Responses : PeerRespond(op, r)
  \/ PeerSendsThrowing
  \/ PeerCloses

Submitter ==
  \/ \E custom \in {NullId} \cup StringTokens \cup NumericTokens,
        on_progress \in BOOLEAN, t \in TimedChoices : SubmitCheck(custom, on_progress, t)
  \/ \E r \in Ids : SubmitPost(r)
  \/ \E r \in Cancellable : Cancel(r)

Connector ==
  \/ ConnectBegin \/ ConnectRefused \/ ConnectReturn
  \/ \E t \in TimedChoices : ConnectSubmit(t)

Drainer ==
  \/ \E c \in Drainers : DrainPending(c) \/ DrainReturn(c)
  \/ \E c \in Callers : Disconnect(c)

StopThread == StopBegin \/ StopDisconnect \/ StopReleaseLoop \/ StopReturn

Next ==
  \/ RunTask
  \/ \E r \in Ids : TimerExpires(r)
  \/ IoLoopEnds
  \/ Peer \/ Submitter \/ Connector \/ Drainer \/ StopThread

Spec == Init /\ [][Next]_vars

\* The io thread keeps running while it has work, timers expire, and a thread
\* inside a call goes on.  run() returns when its last piece of work is done,
\* so it does not miss for ever that it has none.  Nothing is assumed of the
\* peer, and no thread is made to start a call.
Fairness ==
  /\ WF_vars(RunTask)
  /\ SF_vars(IoLoopEnds)
  /\ \A r \in Ids : WF_vars(TimerExpires(r)) /\ WF_vars(SubmitPost(r))
  /\ \A c \in Drainers : WF_vars(DrainPending(c)) /\ WF_vars(DrainReturn(c))
  /\ WF_vars(\E t \in TimedChoices : ConnectSubmit(t))
  /\ WF_vars(ConnectReturn)
  /\ WF_vars(StopDisconnect) /\ WF_vars(StopReleaseLoop) /\ WF_vars(StopReturn)

FairSpec == Spec /\ Fairness

-----------------------------------------------------------------------------
(* Properties *)

Tasks ==
  ({"register", "timeout", "cancel"} \cup Responses) \X Ids
    \cup ({"closed", "throw"} \X {NoReq})
    \cup ({"drain"} \X Drainers)

FlagsOK ==
  /\ connected \in BOOLEAN /\ server_result \in BOOLEAN /\ stopping \in BOOLEAN
  /\ running \in BOOLEAN /\ owns_io \in BOOLEAN
LoopOK ==
  /\ io \in {"off", "running", "ended", "died"}
  /\ joinable \in BOOLEAN /\ work_guard \in BOOLEAN
PeerOK ==
  /\ link \in {"up", "down"}
  /\ wire \in SUBSET Ids
SubmissionOK ==
  /\ next_id \in 1..(MaxId + 1)
  /\ stage \in [Ids -> {"free", "checked", "posted", "registered"}]
  /\ method \in [Ids -> {"initialize", "call"}]
  /\ token \in [Ids -> Keys \cup {NullId}]
  /\ timed \in [Ids -> BOOLEAN]
OutcomeOK ==
  /\ state \in [Ids -> Outcomes \cup {"Waiting"}]
  /\ promise \in [Ids -> Outcomes \cup {"Unset"}]
  /\ notified \in [Ids -> Nat]
  /\ timer \in [Ids -> {"off", "armed"}]
ThreadsOK ==
  /\ conn_pc \in {"idle", "submit", "wait"}
  /\ conn_id \in Ids \cup {NoReq}
  /\ drain_pc \in [Drainers -> {"idle", "closed", "wait", "drained"}]
  /\ stop_pc \in {"idle", "begun", "draining", "joining", "stopped"}

\* Every variable stays in its range.
TypeOK ==
  /\ FlagsOK /\ LoopOK /\ PeerOK /\ SubmissionOK /\ OutcomeOK /\ ThreadsOK
  /\ strand \in Seq(Tasks)
  /\ pending_map \in [Keys -> Ids \cup {NoReq}]

\* "The client always finish()es ... before removing the request from its
\* table": a registered request without an outcome is still in the table under
\* its own id, where a response, its timer, cancel() and a drain will find it.
NoRequestDropped ==
  \A r \in Ids :
    stage[r] = "registered" /\ state[r] = "Waiting" => pending_map[r] = r

\* A finished request is out of the table: a late or duplicate response, a
\* timer that fired too late or a second cancel() finds nothing to overwrite.
NoStaleEntry ==
  \A k \in Keys : pending_map[k] # NoReq => state[pending_map[k]] = "Waiting"

\* pending_map_ holds exactly the registered requests without an outcome, through
\* every order of responses, timers, cancels, disconnects and stop().
TableExact == NoRequestDropped /\ NoStaleEntry

\* state(), the future and the callbacks of every request agree and are
\* settled exactly once (see RequestContract), however responses, timeouts,
\* cancels, disconnects and shutdown interleave.
Contract == INSTANCE RequestContract WITH
  Requests <- Ids,
  status <- [r \in Ids |-> IF stage[r] = "free" THEN "Free" ELSE state[r]],
  future <- promise
ImplementsRequestContract == Contract!Spec

\* connected_ is never stale for good, while handshakes do not overlap: when it
\* says connected and the link is down, something that clears it is on its way (a
\* disconnect or drain task on the strand, or a thread about to post one).
ConnectedWillClear ==
  connected /\ link = "down" =>
    \/ \E i \in DOMAIN strand : strand[i][1] \in {"closed", "drain"}
    \/ \E c \in Drainers : drain_pc[c] = "closed"

\* The io loop cannot run out of work under a request with a timeout: when it
\* has ended, every registered request that set one has its outcome.
LoopOutlivesTimeouts ==
  io = "ended" =>
    \A r \in Ids : stage[r] = "registered" /\ timed[r] => promise[r] # "Unset"

\* A registered request with a timeout gets an outcome, whatever the peer does.
TimedRequestResolves ==
  \A r \in Ids :
    (stage[r] = "registered" /\ timed[r]) ~> (promise[r] # "Unset")

\* stop() returns: its drain is run, the strand empties although requests were
\* registered behind the drain, their timers fire, and the loop ends.  Excepted
\* are a connect() that reopens the transport after stop() closed it and leaves
\* it open for good, and a loop that has died (DrainCompletes).
StopReturns ==
  <>[](link = "down" /\ io # "died") => ((stop_pc = "begun") ~> (stop_pc = "stopped"))

\* What drain_pending says of a loop the client owns: the wait of disconnect()
\* and stop() for their task always completes.
DrainCompletes ==
  \A c \in Drainers : (owns_io /\ drain_pc[c] = "wait") ~> (drain_pc[c] # "wait")

=============================================================================
