----------------------------- MODULE McpServer -----------------------------
(***************************************************************************)
(* The life of an McpServer: run(), stop(), and the requests it answers on  *)
(* the io loop or defers to the worker pool (RequestExecutor).  run() is    *)
(* called once, by a thread that then serves the io loop together with the  *)
(* other io threads; stop() may be called by any thread at any time: an     *)
(* application thread, an io thread (a signal, a transport that lost its    *)
(* peer) or a worker (a tool handler).  The steps are the points where      *)
(* another thread can tell the difference.                                  *)
(*                                                                         *)
(* What a request asks and what a handler computes is left out: a handler   *)
(* runs, takes as long as it likes, and returns an answer or an error.      *)
(***************************************************************************)
EXTENDS Naturals

CONSTANTS
  Requests,     \* requests the clients send
  Deferrable,   \* those whose method is_deferrable
  IoThreads,    \* threads that run the io loop, the one in run() included
  Workers,      \* threads of the pool; none if configured_workers_ is 0
  Outside,      \* an application thread
  Idle          \* a thread that has nothing to do

ASSUME ServerAssumption ==
  /\ Deferrable \subseteq Requests
  /\ Idle \notin Requests
  /\ Outside \notin IoThreads \cup Workers
  /\ IoThreads \cap Workers = {}

VARIABLES
  running,     \* running_
  frozen,      \* frozen_
  stopping,    \* stopping_
  run_pc,      \* run(): idle, frozen, pooled, loop, failed, returned
  executor,    \* executor_: none, running, stopped (pool_io_.stop() called)
  transport,   \* transport_: idle, started, stopped
  attached,    \* transport_ has the server's handlers
  io_stopped,  \* io_ctx_.stop() was called
  serving,     \* io threads inside io_ctx_.run()
  doing,       \* the request a thread is handling, or Idle
  req,         \* a request: new, queued, handled, posted, answered, lost
  stop_pc,     \* stop(): idle, begun, joining, joined, detached, done, thrown
  stopper,     \* the thread inside stop(), Idle if there is none
  early        \* history: stop() began before run() had reached its loop

flags == <<running, frozen, stopping>>
loop == <<io_stopped, serving>>
work == <<doing, req>>
stop == <<stop_pc, stopper, early>>
vars == <<flags, run_pc, executor, transport, attached, loop, work, stop>>

Threads == IoThreads \cup Workers

Init ==
  /\ running = FALSE /\ frozen = FALSE /\ stopping = FALSE
  /\ run_pc = "idle"
  /\ executor = "none"
  /\ transport = "idle"
  /\ attached = TRUE
  /\ io_stopped = FALSE
  /\ serving = {}
  /\ doing = [t \in Threads |-> Idle]
  /\ req = [r \in Requests |-> "new"]
  /\ stop_pc = "idle"
  /\ stopper = Idle
  /\ early = FALSE

\* Thread t can take the next task of its loop.
Free(t) == doing[t] = Idle /\ stopper # t

-----------------------------------------------------------------------------
(* Faulty variants of definitions below; used only to show that the         *)
(* properties notice them.                                                   *)

\* stop() does not wait for the handlers that run.
WorkersDoneIgnored == TRUE

\* stop() forgets the io loop.
LoopStoppedNever == io_stopped

\* A worker does not post its answer.
HandedBackNever == "lost"

-----------------------------------------------------------------------------
(* run() *)

\* The registries are frozen and running_ is set, whether or not stop() was
\* called before.
RunFreeze ==
  /\ run_pc = "idle"
  /\ run_pc' = "frozen"
  /\ frozen' = TRUE /\ running' = TRUE
  /\ UNCHANGED <<stopping, executor, transport, attached, loop, work, stop>>

RunStartPool ==
  /\ run_pc = "frozen"
  /\ run_pc' = "pooled"
  /\ executor' = IF Workers = {} THEN executor ELSE "running"
  /\ UNCHANGED <<flags, transport, attached, loop, work, stop>>

RunStartTransport ==
  /\ run_pc = "pooled"
  /\ run_pc' = "loop"
  /\ transport' = "started"
  /\ serving' = IoThreads
  /\ UNCHANGED <<flags, executor, attached, io_stopped, work, stop>>

\* transport_->start() throws.
RunStartFails ==
  /\ run_pc = "pooled"
  /\ run_pc' = "failed"
  /\ running' = FALSE /\ frozen' = FALSE
  /\ UNCHANGED <<stopping, executor, transport, attached, loop, work, stop>>

\* Thread t comes out of io_ctx_.run().
LeavesLoop(t) ==
  /\ t \in serving /\ Free(t)
  /\ serving' = serving \ {t}
  /\ UNCHANGED <<flags, run_pc, executor, transport, attached, io_stopped, work, stop>>

IoThreadLeaves(t) == io_stopped /\ LeavesLoop(t)

\* An exception takes the thread out of the loop; it is logged.
IoLoopDies(t) == ~io_stopped /\ LeavesLoop(t)

\* Every io thread has left: the others are joined and run() returns.
RunReturns ==
  /\ run_pc = "loop" /\ serving = {}
  /\ run_pc' = "returned"
  /\ UNCHANGED <<flags, executor, transport, attached, loop, work, stop>>

-----------------------------------------------------------------------------
(* Requests *)

\* Io thread t may start a handler of the loop.
Serves(t) == t \in serving /\ Free(t) /\ ~io_stopped

\* on_message of a request that goes to the pool.
OnMessageDeferred(t, r) ==
  /\ Serves(t) /\ transport = "started" /\ attached
  /\ req[r] = "new" /\ r \in Deferrable
  /\ executor # "none"
  /\ req' = [req EXCEPT ![r] = "queued"]
  /\ UNCHANGED <<flags, run_pc, executor, transport, attached, loop, doing, stop>>

\* on_message of a request that is handled on the io thread: there is no pool,
\* its method is not deferrable, or it is part of a batch.
OnMessageInline(t, r, batch) ==
  /\ Serves(t) /\ transport = "started" /\ attached
  /\ req[r] = "new"
  /\ executor = "none" \/ batch \/ r \notin Deferrable
  /\ req' = [req EXCEPT ![r] = "handled"]
  /\ doing' = [doing EXCEPT ![t] = r]
  /\ UNCHANGED <<flags, run_pc, executor, transport, attached, loop, stop>>

\* What becomes of an answer that is given to the transport.
Written == IF transport = "started" THEN "answered" ELSE "lost"

\* The handler returns or throws on the io thread and the answer is written.
RespondInline(t) ==
  /\ t \in IoThreads /\ doing[t] # Idle /\ stopper # t
  /\ req' = [req EXCEPT ![doing[t]] = Written]
  /\ doing' = [doing EXCEPT ![t] = Idle]
  /\ UNCHANGED <<flags, run_pc, executor, transport, attached, loop, stop>>

\* A worker takes a request from the pool's queue.
WorkerTakes(w, r) ==
  /\ executor = "running" /\ Free(w)
  /\ req[r] = "queued"
  /\ req' = [req EXCEPT ![r] = "handled"]
  /\ doing' = [doing EXCEPT ![w] = r]
  /\ UNCHANGED <<flags, run_pc, executor, transport, attached, loop, stop>>

\* Where a worker leaves its answer.
HandedBack == "posted"

\* process_request returns, whatever the handler threw, and the answer is posted
\* to the io loop.
WorkerPosts(w) ==
  /\ w \in Workers /\ doing[w] # Idle /\ stopper # w
  /\ req' = [req EXCEPT ![doing[w]] = HandedBack]
  /\ doing' = [doing EXCEPT ![w] = Idle]
  /\ UNCHANGED <<flags, run_pc, executor, transport, attached, loop, stop>>

\* The io loop runs the posted answer.
RespondPosted(t, r) ==
  /\ Serves(t)
  /\ req[r] = "posted"
  /\ req' = [req EXCEPT ![r] = Written]
  /\ UNCHANGED <<flags, run_pc, executor, transport, attached, loop, doing, stop>>

-----------------------------------------------------------------------------
(* stop(): only the first call does anything *)

\* The thread t may call stop(): an application thread, an io thread between two
\* tasks of the loop (a signal or disconnect handler), a handler of the server.
MayCallStop(t) ==
  \/ t = Outside
  \/ t \in IoThreads /\ (Serves(t) \/ doing[t] # Idle)
  \/ t \in Workers /\ doing[t] # Idle

StopBegin(t) ==
  /\ MayCallStop(t)
  /\ ~stopping
  /\ stopping' = TRUE /\ running' = FALSE
  /\ stop_pc' = "begun"
  /\ stopper' = t
  /\ early' = (run_pc \in {"idle", "frozen", "pooled"})
  /\ UNCHANGED <<frozen, run_pc, executor, transport, attached, loop, work>>

\* executor_->stop(), if there is one: the pool takes no more from its queue.
StopPool ==
  /\ stop_pc = "begun"
  /\ IF executor = "none"
       THEN stop_pc' = "joined" /\ UNCHANGED executor
       ELSE stop_pc' = "joining" /\ executor' = "stopped"
  /\ UNCHANGED <<flags, run_pc, transport, attached, loop, work, stopper, early>>

\* Every worker has come to the end of its handler.
WorkersDone == \A w \in Workers : doing[w] = Idle

StopJoins ==
  /\ stop_pc = "joining" /\ WorkersDone
  /\ stop_pc' = "joined"
  /\ UNCHANGED <<flags, run_pc, executor, transport, attached, loop, work, stopper, early>>

\* A worker in stop() comes to its own thread: join() throws, out of stop() and
\* into process_request.
StopJoinsItself ==
  /\ stop_pc = "joining" /\ stopper \in Workers
  /\ stop_pc' = "thrown"
  /\ stopper' = Idle
  /\ UNCHANGED <<flags, run_pc, executor, transport, attached, loop, work, early>>

\* The transport loses its handlers and is stopped.
StopTransport ==
  /\ stop_pc = "joined"
  /\ stop_pc' = "detached"
  /\ attached' = FALSE
  /\ transport' = "stopped"
  /\ UNCHANGED <<flags, run_pc, executor, loop, work, stopper, early>>

LoopStopped == TRUE

\* The io loop is stopped; outbound requests are dropped and the log is flushed.
StopLoop ==
  /\ stop_pc = "detached"
  /\ stop_pc' = "done"
  /\ stopper' = Idle
  /\ io_stopped' = LoopStopped
  /\ UNCHANGED <<flags, run_pc, executor, transport, attached, serving, work, early>>

-----------------------------------------------------------------------------

Run == RunFreeze \/ RunStartPool \/ RunStartTransport \/ RunStartFails \/ RunReturns

Message(t, r) ==
  \/ OnMessageDeferred(t, r)
  \/ \E batch \in BOOLEAN : OnMessageInline(t, r, batch)

StopContinues == StopPool \/ StopJoins \/ StopJoinsItself \/ StopTransport \/ StopLoop

Next ==
  \/ Run
  \/ \E t \in IoThreads :
       \/ IoThreadLeaves(t) \/ IoLoopDies(t) \/ RespondInline(t)
       \/ \E r \in Requests : Message(t, r) \/ RespondPosted(t, r)
  \/ \E w \in Workers : WorkerPosts(w) \/ \E r \in Requests : WorkerTakes(w, r)
  \/ \E t \in Threads \cup {Outside} : StopBegin(t)
  \/ StopContinues

Spec == Init /\ [][Next]_vars

\* A thread inside run(), stop(), a handler or a task of its loop goes on, and
\* idle threads take the work there is.  Nobody has to call run() or stop(), or
\* to send a request.
Fairness ==
  /\ WF_vars(RunStartPool) /\ WF_vars(RunStartTransport \/ RunStartFails)
  /\ WF_vars(RunReturns)
  /\ \A t \in IoThreads : WF_vars(IoThreadLeaves(t)) /\ WF_vars(RespondInline(t))
  /\ \A w \in Workers : WF_vars(WorkerPosts(w))
  /\ \A r \in Requests : /\ WF_vars(\E w \in Workers : WorkerTakes(w, r))
                         /\ WF_vars(\E t \in IoThreads : RespondPosted(t, r))
  /\ WF_vars(StopContinues)

FairSpec == Spec /\ Fairness

-----------------------------------------------------------------------------
(* Properties *)

\* Every variable stays in its range.
TypeOK ==
  /\ running \in BOOLEAN /\ frozen \in BOOLEAN /\ stopping \in BOOLEAN
  /\ run_pc \in {"idle", "frozen", "pooled", "loop", "failed", "returned"}
  /\ executor \in {"none", "running", "stopped"}
  /\ transport \in {"idle", "started", "stopped"}
  /\ attached \in BOOLEAN /\ io_stopped \in BOOLEAN
  /\ serving \in SUBSET IoThreads
  /\ doing \in [Threads -> Requests \cup {Idle}]
  /\ req \in [Requests -> {"new", "queued", "handled", "posted", "answered", "lost"}]
  /\ stop_pc \in {"idle", "begun", "joining", "joined", "detached", "done", "thrown"}
  /\ stopper \in Threads \cup {Outside, Idle}
  /\ early \in BOOLEAN

\* "running handlers may still read frozen copies while the loop drains to a
\* stop": the registries are frozen whenever a handler runs, also after stop()
\* and next to a run() that fails.
HandlersSeeFrozen == \A t \in Threads : doing[t] # Idle => frozen

\* "join workers before transports/loop go away": once stop() has closed the
\* transport of a server that was up, no handler runs on a worker.
JoinedBeforeClosed ==
  ~early /\ transport = "stopped" => \A w \in Workers : doing[w] = Idle

\* A stop() that found the server up, and came to its end, leaves nothing
\* running: no transport, no pool that would take work, no loop, and nothing
\* says that the server runs.
CleanShutdown ==
  stop_pc = "done" /\ ~early =>
    /\ ~running /\ io_stopped
    /\ transport = "stopped" /\ ~attached
    /\ executor # "running"

\* stop() takes the server down in an order that no handler can notice: the
\* registries stay, the workers go before the transport, and nothing is left.
OrderlyShutdown == HandlersSeeFrozen /\ JoinedBeforeClosed /\ CleanShutdown

\* A deferred request is answered, unless stop() is called or exceptions have
\* taken every io thread out of the loop.
QueuedIsAnswered ==
  \A r \in Requests :
    req[r] = "queued" ~> (req[r] = "answered" \/ stopping \/ serving = {})

Up == run_pc \in {"frozen", "pooled", "loop"}

\* stop() comes to its end and run() returns, whatever the handlers, the pool
\* and the other io threads are at; except when a handler on a worker called
\* stop(), which may end in an exception.
ShutdownEnds == stopping ~> ((stop_pc = "done" /\ ~Up) \/ stop_pc = "thrown")

=============================================================================
