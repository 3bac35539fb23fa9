---------------------------- MODULE ClientInbound ----------------------------
(***************************************************************************)
(* Requests and notifications that the server sends to McpClient: the      *)
(* handlers of the application, run on the io thread or on a pool of       *)
(* workers, the notifications they send, the calls they make themselves    *)
(* and wait for, the notifications of the application, and stop() from the *)
(* application, from the io thread or from a handler.                      *)
(*                                                                         *)
(* McpClient models the table of outbound requests; here a handler sends   *)
(* at most one notification and makes at most one call, and what matters   *)
(* is who waits for whom, and who uses the transport when.  The client is  *)
(* connected; the server and the loop's owner are external.                *)
(***************************************************************************)
EXTENDS Integers, Sequences, FiniteSets

CONSTANTS
  MaxReqs,        \* bound: requests of the server
  WorkerChoices,  \* set_worker_threads: 0 is no pool
  OwnsChoices,    \* owns_io_context_
  TimedChoices    \* outbound requests have a timeout

Reqs == 1..MaxReqs

ASSUME InboundAssumption ==
  /\ MaxReqs \in Nat
  /\ WorkerChoices \subseteq Nat
  /\ OwnsChoices \subseteq BOOLEAN /\ TimedChoices \subseteq BOOLEAN

VARIABLES
  owns, workers, timed,
  connected, stopping,  \* connected_, stopping_
  transport,   \* transport_ is set
  strand,      \* tasks: <<what, request>>
  io,          \* what the io thread is in: free, gone, stop, send, or handler
  pool,        \* executor_: on, stopping, off
  at,          \* a request of the server: none, strand, pool, handler, waiting,
               \* posted, sending, answered
  call,        \* what its handler does: none, telling, told (send_notification),
               \* then tested, posted, pending, over (a call)
  telling,     \* a thread of the application is in send_notification
  stop_pc,     \* stop(): idle, begun, draining, pool, guard, reset, done, thrown
  stopper,     \* who is in stop(): none, app, io, worker
  guard,       \* work_guard_ is held
  crashed      \* who used transport_ after stop() had reset it: strand,
               \* handler, app

config == <<owns, workers, timed>>
inbound == <<at, call>>
shutdown == <<stop_pc, stopper, guard>>
sends == <<telling, crashed>>
vars == <<config, connected, stopping, transport, strand, io, pool, inbound,
          shutdown, sends>>

Init ==
  /\ owns \in OwnsChoices /\ workers \in WorkerChoices /\ timed \in TimedChoices
  /\ connected = TRUE /\ stopping = FALSE /\ transport = TRUE
  /\ strand = <<>> /\ io = "free"
  /\ pool = IF workers > 0 THEN "on" ELSE "off"
  /\ at = [r \in Reqs |-> "none"] /\ call = [r \in Reqs |-> "none"]
  /\ stop_pc = "idle" /\ stopper = "none" /\ guard = owns
  /\ telling = FALSE /\ crashed = {}

\* A handler runs, or waits for its call.
Inside(r) == at[r] \in {"handler", "waiting"}
Busy == {r \in Reqs : Inside(r)}
Inline == workers = 0

-----------------------------------------------------------------------------
(* Faulty variants of definitions below; used only to show that the         *)
(* properties notice them.                                                   *)

\* A handler that throws answers nothing.
RespondedNever(r) == strand

\* The pool is not joined.
PoolJoinedAtOnce == TRUE

\* The io thread is not joined.
LoopJoinedAtOnce == TRUE

\* Requests that time out stay where they are.
SettledNever(r) == call[r]

-----------------------------------------------------------------------------
(* The strand *)

Running(what, r) == io = "free" /\ strand # <<>> /\ Head(strand) = <<what, r>>

\* on_transport_message of a request.
ServerAsks(r) ==
  /\ connected /\ at[r] = "none"
  /\ strand' = Append(strand, <<"ask", r>>)
  /\ at' = [at EXCEPT ![r] = "strand"]
  /\ UNCHANGED <<config, connected, stopping, transport, io, pool, call, shutdown,
                 sends>>

\* raw_send has looked for the transport and uses it.
Used(who) == IF transport THEN crashed ELSE crashed \cup {who}

\* raw_send looks for the transport, and uses it in SendReturns.
SendBegins(r) ==
  IF transport THEN io' = "send" /\ at' = [at EXCEPT ![r] = "sending"]
               ELSE UNCHANGED <<io, at>>

\* handle_inbound_request: a ping, or a method that nobody handles.
RunPing(r) ==
  /\ Running("ask", r)
  /\ strand' = Tail(strand)
  /\ SendBegins(r)
  /\ UNCHANGED <<config, connected, stopping, transport, pool, call, shutdown,
                 sends>>

\* dispatch_inbound_request: on the pool, or here.
RunAsk(r) ==
  /\ Running("ask", r)
  /\ strand' = Tail(strand)
  /\ io' = IF Inline THEN "handler" ELSE "free"
  /\ at' = [at EXCEPT ![r] = IF Inline THEN "handler" ELSE "pool"]
  /\ UNCHANGED <<config, connected, stopping, transport, pool, call, shutdown,
                 sends>>

FreeWorker == Cardinality(Busy) < workers

\* A pool that was stopped runs nothing more.
WorkerTakes(r) ==
  /\ at[r] = "pool" /\ pool = "on" /\ FreeWorker
  /\ at' = [at EXCEPT ![r] = "handler"]
  /\ UNCHANGED <<config, connected, stopping, transport, strand, io, pool, call,
                 shutdown, sends>>

\* No handler is in stop() (which handler called it is left open).
Goes(r) == at[r] = "handler" /\ ~(stopper = "worker" /\ stop_pc \notin {"done", "thrown"})

\* run_and_respond: whether the handler returns or throws, a response is posted.
Responded(r) == Append(strand, <<"respond", r>>)

HandlerReturns(r) ==
  /\ Goes(r) /\ call[r] \in {"none", "told", "over"}
  /\ strand' = Responded(r)
  /\ at' = [at EXCEPT ![r] = "posted"]
  /\ io' = IF Inline THEN "free" ELSE io
  /\ UNCHANGED <<config, connected, stopping, transport, pool, call, shutdown,
                 sends>>

RunRespond(r) ==
  /\ Running("respond", r)
  /\ strand' = Tail(strand)
  /\ SendBegins(r)
  /\ UNCHANGED <<config, connected, stopping, transport, pool, call, shutdown,
                 sends>>

SendReturns(r) ==
  /\ at[r] = "sending" /\ io = "send"
  /\ at' = [at EXCEPT ![r] = "answered"]
  /\ io' = "free"
  /\ crashed' = Used("strand")
  /\ UNCHANGED <<config, connected, stopping, transport, strand, pool, call,
                 shutdown, telling>>

-----------------------------------------------------------------------------
(* send_notification, off the strand *)

\* raw_send in a handler finds the transport, and uses it.
HandlerTells(r) ==
  /\ Goes(r) /\ call[r] = "none" /\ transport
  /\ call' = [call EXCEPT ![r] = "telling"]
  /\ UNCHANGED <<config, connected, stopping, transport, strand, io, pool, at,
                 shutdown, sends>>

HandlerTold(r) ==
  /\ at[r] = "handler" /\ call[r] = "telling"
  /\ call' = [call EXCEPT ![r] = "told"]
  /\ crashed' = Used("handler")
  /\ UNCHANGED <<config, connected, stopping, transport, strand, io, pool, at,
                 shutdown, telling>>

\* The same on a thread of the application, which nothing keeps apart from stop().
AppTells ==
  /\ ~telling /\ transport
  /\ telling' = TRUE
  /\ UNCHANGED <<config, connected, stopping, transport, strand, io, pool, inbound,
                 shutdown, crashed>>

AppTold ==
  /\ telling
  /\ telling' = FALSE
  /\ crashed' = Used("app")
  /\ UNCHANGED <<config, connected, stopping, transport, strand, io, pool, inbound,
                 shutdown>>

-----------------------------------------------------------------------------
(* A handler that calls the server and waits: submit_request and get() *)

CallTested(r) ==
  /\ Goes(r) /\ call[r] \in {"none", "told"}
  /\ call' = [call EXCEPT ![r] = IF ~stopping /\ connected THEN "tested" ELSE "over"]
  /\ UNCHANGED <<config, connected, stopping, transport, strand, io, pool, at,
                 shutdown, sends>>

CallPosted(r) ==
  /\ at[r] = "handler" /\ call[r] = "tested"
  /\ strand' = Append(strand, <<"register", r>>)
  /\ at' = [at EXCEPT ![r] = "waiting"]
  /\ call' = [call EXCEPT ![r] = "posted"]
  /\ UNCHANGED <<config, connected, stopping, transport, io, pool, shutdown,
                 sends>>

RunRegister(r) ==
  /\ Running("register", r)
  /\ strand' = Tail(strand)
  /\ call' = [call EXCEPT ![r] = "pending"]
  /\ UNCHANGED <<config, connected, stopping, transport, io, pool, at, shutdown,
                 sends>>

\* The call after a response or a timeout of its request.
Settled(r) == "over"

\* complete_pending on the strand, for a response or for an expired timer.
CallSettles(r) ==
  /\ io = "free" /\ call[r] = "pending" /\ (connected \/ timed)
  /\ call' = [call EXCEPT ![r] = Settled(r)]
  /\ UNCHANGED <<config, connected, stopping, transport, strand, io, pool, at,
                 shutdown, sends>>

\* get() returns or throws.
HandlerWakes(r) ==
  /\ at[r] = "waiting" /\ call[r] = "over"
  /\ at' = [at EXCEPT ![r] = "handler"]
  /\ UNCHANGED <<config, connected, stopping, transport, strand, io, pool, call,
                 shutdown, sends>>

\* fail_all_pending.
AllFailed == [r \in Reqs |-> IF call[r] = "pending" THEN "over" ELSE call[r]]

\* The transport reports that the server is gone: on_transport_disconnect.
ServerLeaves ==
  /\ io = "free" /\ connected
  /\ connected' = FALSE
  /\ call' = AllFailed
  /\ UNCHANGED <<config, stopping, transport, strand, io, pool, at, shutdown,
                 sends>>

-----------------------------------------------------------------------------
(* stop() *)

\* From the application, from a callback or a notification's handler on the io
\* thread, or from a handler on a worker.
StopBegins(who) ==
  /\ ~stopping
  /\ \/ who = "app"
     \/ who = "io" /\ io = "free" /\ io' = "stop"
     \/ /\ who = "worker" /\ ~Inline
        /\ \E r \in Busy : at[r] = "handler" /\ call[r] \in {"none", "told"}
  /\ who # "io" => UNCHANGED io
  /\ stopping' = TRUE /\ stopper' = who /\ stop_pc' = "begun"
  /\ UNCHANGED <<config, connected, transport, strand, pool, inbound, guard,
                 sends>>

\* The transport is closed and drain_pending begins: on the io thread at once,
\* elsewhere through the strand.
StopDrains ==
  /\ stop_pc = "begun"
  /\ IF stopper = "io"
       THEN /\ connected' = FALSE /\ call' = AllFailed /\ stop_pc' = "pool"
            /\ UNCHANGED strand
       ELSE /\ strand' = Append(strand, <<"drain", 0>>) /\ stop_pc' = "draining"
            /\ UNCHANGED <<connected, call>>
  /\ UNCHANGED <<config, stopping, transport, io, pool, at, stopper, guard, sends>>

RunDrain ==
  /\ Running("drain", 0)
  /\ strand' = Tail(strand)
  /\ connected' = FALSE
  /\ call' = AllFailed
  /\ stop_pc' = IF stop_pc = "draining" THEN "pool" ELSE stop_pc
  /\ UNCHANGED <<config, stopping, transport, io, pool, at, stopper, guard, sends>>

\* On a loop of somebody else the wait for the strand is bounded.
DrainGivenUp ==
  /\ stop_pc = "draining" /\ ~owns
  /\ stop_pc' = "pool"
  /\ UNCHANGED <<config, connected, stopping, transport, strand, io, pool, inbound,
                 stopper, guard, sends>>

\* RequestExecutor::stop drops what is queued and joins the workers; a worker that
\* joins itself gets an exception, which leaves stop().
StopPool ==
  /\ stop_pc = "pool" /\ pool # "stopping"
  /\ pool' = IF pool = "on" THEN "stopping" ELSE pool
  /\ stop_pc' = CASE pool = "off" -> "guard"
                  [] pool = "on" /\ stopper = "worker" -> "thrown"
                  [] OTHER -> "pool"
  /\ UNCHANGED <<config, connected, stopping, transport, strand, io, inbound,
                 stopper, guard, sends>>

PoolJoined == Busy = {}

StopJoinsPool ==
  /\ stop_pc = "pool" /\ pool = "stopping" /\ PoolJoined
  /\ pool' = "off"
  /\ stop_pc' = "guard"
  /\ UNCHANGED <<config, connected, stopping, transport, strand, io, inbound,
                 stopper, guard, sends>>

StopReleases ==
  /\ stop_pc = "guard"
  /\ guard' = FALSE
  /\ stop_pc' = "reset"
  /\ UNCHANGED <<config, connected, stopping, transport, strand, io, pool, inbound,
                 stopper, sends>>

\* run() returns when it has nothing to do and no timer to wait for.
IoEnds ==
  /\ owns /\ ~guard /\ io = "free" /\ strand = <<>>
  /\ \A r \in Reqs : ~(timed /\ call[r] = "pending")
  /\ io' = "gone"
  /\ UNCHANGED <<config, connected, stopping, transport, strand, pool, inbound,
                 shutdown, sends>>

LoopJoined == owns /\ stopper # "io" => io = "gone"

StopResets ==
  /\ stop_pc = "reset" /\ LoopJoined
  /\ transport' = FALSE
  /\ stop_pc' = "done"
  /\ io' = IF stopper = "io" THEN "free" ELSE io
  /\ UNCHANGED <<config, connected, stopping, strand, pool, inbound, stopper, guard,
                 sends>>

-----------------------------------------------------------------------------
Next ==
  \/ \E r \in Reqs :
       \/ ServerAsks(r) \/ RunPing(r) \/ RunAsk(r) \/ WorkerTakes(r)
       \/ HandlerReturns(r) \/ RunRespond(r) \/ SendReturns(r)
       \/ HandlerTells(r) \/ HandlerTold(r)
       \/ CallTested(r) \/ CallPosted(r) \/ RunRegister(r) \/ CallSettles(r)
       \/ HandlerWakes(r)
  \/ AppTells \/ AppTold \/ ServerLeaves
  \/ \E who \in {"app", "io", "worker"} : StopBegins(who)
  \/ StopDrains \/ RunDrain \/ DrainGivenUp \/ StopPool \/ StopJoinsPool
  \/ StopReleases \/ IoEnds \/ StopResets

Spec == Init /\ [][Next]_vars

\* The io thread runs its tasks and timers expire; workers take what is queued and
\* handlers come to their end, calls apart; stop() goes on.  Nothing is assumed of
\* the server.
Fairness ==
  /\ \A r \in Reqs :
       /\ WF_vars(RunPing(r) \/ RunAsk(r)) /\ WF_vars(WorkerTakes(r))
       /\ WF_vars(HandlerTold(r)) /\ WF_vars(CallPosted(r))
       /\ WF_vars(HandlerReturns(r))
       /\ WF_vars(RunRespond(r)) /\ WF_vars(SendReturns(r)) /\ WF_vars(RunRegister(r))
       /\ WF_vars(timed /\ CallSettles(r)) /\ WF_vars(HandlerWakes(r))
  /\ WF_vars(StopDrains) /\ WF_vars(RunDrain) /\ WF_vars(StopPool)
  /\ WF_vars(StopJoinsPool) /\ WF_vars(StopReleases) /\ WF_vars(IoEnds)
  /\ WF_vars(StopResets)

FairSpec == Spec /\ Fairness

-----------------------------------------------------------------------------
(* Properties *)

Tasks == ({"ask", "respond", "register"} \X Reqs) \cup {<<"drain", 0>>}

FlagsOK ==
  /\ owns \in BOOLEAN /\ timed \in BOOLEAN /\ connected \in BOOLEAN
  /\ stopping \in BOOLEAN /\ transport \in BOOLEAN /\ guard \in BOOLEAN
  /\ telling \in BOOLEAN /\ crashed \subseteq {"strand", "handler", "app"}
WorkOK ==
  /\ workers \in Nat
  /\ strand \in Seq(Tasks)
  /\ io \in {"free", "gone", "stop", "send", "handler"}
  /\ at \in [Reqs -> {"none", "strand", "pool", "handler", "waiting", "posted",
                      "sending", "answered"}]
  /\ call \in [Reqs -> {"none", "telling", "told", "tested", "posted", "pending",
                        "over"}]
StopOK ==
  /\ pool \in {"on", "stopping", "off"}
  /\ stop_pc \in {"idle", "begun", "draining", "pool", "guard", "reset", "done",
                  "thrown"}
  /\ stopper \in {"none", "app", "io", "worker"}

\* Every variable stays in its range.
TypeOK == FlagsOK /\ WorkOK /\ StopOK

\* The io thread runs one handler at a time, the pool one per thread.
PoolBound == Cardinality(Busy) <= IF Inline THEN 1 ELSE workers

\* When stop() has run its course on an owned loop, from the application, nothing
\* of the client runs any more: no handler, no task, and no worker; and at no time
\* does the pool run more handlers than it has threads.
QuietAfterStop ==
  /\ TypeOK /\ PoolBound
  /\ stop_pc = "done" /\ owns /\ stopper = "app" =>
       Busy = {} /\ strand = <<>> /\ io = "gone" /\ pool = "off"

\* No raw_send on the strand of an owned loop, and none in a handler on a pool or
\* on an owned loop, meets a transport that stop() takes away in between.  Nothing
\* prevents it on the strand of a loop of somebody else, and nothing anywhere for
\* a thread of the application that sends while another one stops the client.
SendIsSafe ==
  /\ owns => "strand" \notin crashed
  /\ owns \/ ~Inline => "handler" \notin crashed

\* With a pool, and timeouts for what handlers call, every request of the server
\* is answered while the link lasts, however many handlers wait for the server.
InboundAnswered ==
  timed /\ ~Inline =>
    \A r \in Reqs : at[r] = "strand" ~> (at[r] = "answered" \/ ~connected \/ stopping)

\* stop() of the application returns although handlers wait for the server, if
\* there is a pool and their calls have timeouts: a call that was tested before
\* stop() and is registered after the drain is settled by its timer, for which the
\* loop stays up until the pool is joined.
StopReturns ==
  timed /\ ~Inline =>
    (stop_pc = "begun" /\ stopper = "app" ~> stop_pc = "done")

=============================================================================
