------------------------ MODULE ClientInboundProofs ------------------------
(***************************************************************************)
(* Proofs about ClientInbound for every number of requests, every size of  *)
(* the pool and both owners of the loop: the pool runs no more handlers    *)
(* than it has threads, stop() of the application leaves nothing running,  *)
(* and neither a task of its own loop nor a handler ever sends through a   *)
(* transport that stop() has taken away.                                   *)
(***************************************************************************)
EXTENDS ClientInbound, FiniteSetTheorems, TLAPS

-----------------------------------------------------------------------------
(* The inductive invariant *)

\* Without a pool a handler runs on the io thread, one at a time; a pool that is
\* off runs none.
BusyInv ==
  /\ Inline => /\ Busy # {} => io = "handler"
               /\ \A r, q \in Busy : r = q
  /\ ~Inline /\ pool = "off" => Busy = {}

\* How far stop() is tells what is over: past the drain of its own loop no message
\* comes, past the pool no worker runs, and only then the loop is released.
StopInv ==
  /\ ~stopping => stop_pc = "idle"
  /\ stop_pc \in {"guard", "reset", "done"} => pool = "off"
  /\ owns /\ stop_pc \in {"pool", "guard", "reset", "done", "thrown"} => ~connected
  /\ owns /\ ~guard => stop_pc \in {"reset", "done"}
  /\ stopper = "io" /\ stop_pc # "done" => io = "stop"

\* A loop that has returned has no task, and stop() has waited for it.
LoopInv ==
  /\ io = "gone" => owns /\ ~guard /\ strand = <<>>
  /\ stop_pc = "done" /\ owns /\ stopper # "io" => io = "gone"

\* A task of a request lies in the strand once, while the request waits for it.
Fits(t, a) ==
  \A r \in Reqs : /\ t = <<"ask", r>> => a[r] = "strand"
                  /\ t = <<"respond", r>> => a[r] = "posted"

Moves(t) == t[1] \in {"ask", "respond"}

TaskInv ==
  /\ \A i \in 1..Len(strand) : Fits(strand[i], at)
  /\ \A i, j \in 1..Len(strand) : strand[i] = strand[j] /\ Moves(strand[i]) => i = j

\* While the io thread of an owned loop sends, or a handler that stop() waits for,
\* stop() cannot get to the transport.
SendInv ==
  /\ owns /\ io = "send" => transport
  /\ \A r \in Reqs : call[r] = "telling" => at[r] = "handler"
  /\ owns \/ ~Inline => \A r \in Reqs : call[r] = "telling" => transport
  /\ SendIsSafe

IInv == TypeOK /\ PoolBound /\ BusyInv /\ StopInv /\ LoopInv /\ TaskInv /\ SendInv

-----------------------------------------------------------------------------
(* Groups of actions *)

\* The tasks of the strand.
StrandTask(r) == RunPing(r) \/ RunAsk(r) \/ RunRespond(r) \/ RunRegister(r)

\* What a handler does, with the worker that takes it.
HandlerStep(r) ==
  \/ WorkerTakes(r) \/ HandlerReturns(r) \/ CallTested(r) \/ CallPosted(r)
  \/ HandlerWakes(r) \/ HandlerTells(r) \/ HandlerTold(r)

\* The server and the loop.
Outside(r) == ServerAsks(r) \/ SendReturns(r) \/ CallSettles(r)

\* The application, stop() apart.
AppStep == AppTells \/ AppTold

StopStep ==
  \/ \E who \in {"app", "io", "worker"} : StopBegins(who)
  \/ StopDrains \/ DrainGivenUp \/ StopPool \/ StopJoinsPool \/ StopReleases \/ StopResets

\* The groups are all there is.
LEMMA NextGroups ==
  ASSUME [Next]_vars
  PROVE  \/ \E r \in Reqs : StrandTask(r) \/ HandlerStep(r) \/ Outside(r)
         \/ AppStep \/ ServerLeaves \/ RunDrain \/ IoEnds \/ StopStep \/ UNCHANGED vars
BY DEF Next, StrandTask, HandlerStep, Outside, AppStep, StopStep

-----------------------------------------------------------------------------
(* Type correctness *)

\* What the actions post are tasks.
LEMMA TaskTypes ==
  /\ \A r \in Reqs : /\ <<"ask", r>> \in Tasks /\ <<"respond", r>> \in Tasks
                     /\ <<"register", r>> \in Tasks
  /\ <<"drain", 0>> \in Tasks
BY DEF Tasks

\* fail_all_pending keeps the types of the calls.
LEMMA AllFailedType ==
  ASSUME TypeOK
  PROVE  AllFailed \in [Reqs -> {"none", "telling", "told", "tested", "posted", "pending", "over"}]
BY DEF TypeOK, WorkOK, AllFailed

\* Every step keeps every variable in its range.
LEMMA TypeStep ==
  ASSUME TypeOK, [Next]_vars
  PROVE  TypeOK'
<1>0. /\ FlagsOK /\ WorkOK /\ StopOK
      /\ AllFailed \in [Reqs -> {"none", "telling", "told", "tested", "posted", "pending", "over"}]
  BY AllFailedType DEF TypeOK
<1>1. ASSUME strand # <<>>, strand' = Tail(strand) PROVE strand' \in Seq(Tasks)
  BY <1>0, <1>1 DEF WorkOK
<1>2. ASSUME NEW t \in Tasks, strand' = Append(strand, t) PROVE strand' \in Seq(Tasks)
  BY <1>0, <1>2 DEF WorkOK
<1>3. ASSUME NEW r \in Reqs, StrandTask(r) PROVE TypeOK'
  <2>1. FlagsOK' /\ StopOK'
    <3>1. UNCHANGED <<config, connected, stopping, transport, pool, shutdown, sends>>
      BY <1>3 DEF StrandTask, RunPing, RunAsk, RunRespond, RunRegister
    <3>2. QED
      BY <1>0, <3>1 DEF FlagsOK, StopOK, config, shutdown, sends
  <2>2. strand' \in Seq(Tasks)
    BY <1>1, <1>3 DEF StrandTask, RunPing, RunAsk, RunRespond, RunRegister, Running
  <2>3. WorkOK'
    BY <1>0, <1>3, <2>2 DEF WorkOK, StrandTask, RunPing, RunAsk, RunRespond, RunRegister,
       SendBegins, config
  <2>4. QED
    BY <2>1, <2>3 DEF TypeOK
<1>4. ASSUME NEW r \in Reqs, HandlerStep(r) PROVE TypeOK'
  <2>1. FlagsOK' /\ StopOK'
    <3>1. UNCHANGED <<config, connected, stopping, transport, pool, shutdown, telling>>
      BY <1>4 DEF HandlerStep, WorkerTakes, HandlerReturns, CallTested, CallPosted,
         HandlerWakes, HandlerTells, HandlerTold, sends
    <3>2. crashed' \in {crashed, crashed \cup {"handler"}}
      BY <1>4 DEF HandlerStep, WorkerTakes, HandlerReturns, CallTested, CallPosted,
         HandlerWakes, HandlerTells, HandlerTold, Used, sends
    <3>3. QED
      BY <1>0, <3>1, <3>2 DEF FlagsOK, StopOK, config, shutdown
  <2>2. strand' \in Seq(Tasks)
    BY <1>0, <1>2, <1>4, TaskTypes DEF WorkOK, HandlerStep, WorkerTakes, HandlerReturns,
       CallTested, CallPosted, HandlerWakes, HandlerTells, HandlerTold, Responded
  <2>3. WorkOK'
    BY <1>0, <1>4, <2>2 DEF WorkOK, HandlerStep, WorkerTakes, HandlerReturns,
       CallTested, CallPosted, HandlerWakes, HandlerTells, HandlerTold, config
  <2>4. QED
    BY <2>1, <2>3 DEF TypeOK
<1>5. ASSUME NEW r \in Reqs, Outside(r) PROVE TypeOK'
  <2>1. FlagsOK' /\ StopOK'
    <3>1. FlagsOK'
      BY <1>0, <1>5 DEF FlagsOK, Outside, ServerAsks, SendReturns, CallSettles, Used, config,
         shutdown, sends
    <3>2. StopOK'
      BY <1>0, <1>5 DEF StopOK, Outside, ServerAsks, SendReturns, CallSettles, shutdown, sends
    <3>3. QED
      BY <3>1, <3>2
  <2>2. strand' \in Seq(Tasks)
    BY <1>0, <1>2, <1>5, TaskTypes DEF WorkOK, Outside, ServerAsks, SendReturns, CallSettles
  <2>3. WorkOK'
    BY <1>0, <1>5, <2>2 DEF WorkOK, Outside, ServerAsks, SendReturns, CallSettles, Settled,
       config
  <2>4. QED
    BY <2>1, <2>3 DEF TypeOK
<1>6. CASE RunDrain
  <2>1. FlagsOK' /\ StopOK'
    BY <1>0, <1>6 DEF FlagsOK, StopOK, RunDrain, config, sends
  <2>2. strand' \in Seq(Tasks)
    BY <1>1, <1>6 DEF RunDrain, Running
  <2>3. WorkOK'
    BY <1>0, <1>6, <2>2 DEF WorkOK, RunDrain, config
  <2>4. QED
    BY <2>1, <2>3 DEF TypeOK
<1>7. CASE ServerLeaves \/ IoEnds
  <2>1. FlagsOK' /\ StopOK'
    <3>1. FlagsOK'
      BY <1>0, <1>7 DEF FlagsOK, ServerLeaves, IoEnds, config, shutdown, sends
    <3>2. StopOK'
      BY <1>0, <1>7 DEF StopOK, ServerLeaves, IoEnds, shutdown, sends
    <3>3. QED
      BY <3>1, <3>2
  <2>2. WorkOK'
    BY <1>0, <1>7 DEF WorkOK, ServerLeaves, IoEnds, config, inbound
  <2>3. QED
    BY <2>1, <2>2 DEF TypeOK
<1>8. CASE StopStep
  <2>1. FlagsOK'
    BY <1>0, <1>8 DEF FlagsOK, StopStep, StopBegins, StopDrains, DrainGivenUp, StopPool,
       StopJoinsPool, StopReleases, StopResets, config, sends
  <2>2. StopOK'
    BY <1>0, <1>8 DEF StopOK, StopStep, StopBegins, StopDrains, DrainGivenUp, StopPool,
       StopJoinsPool, StopReleases, StopResets
  <2>3. strand' \in Seq(Tasks)
    BY <1>0, <1>2, <1>8, TaskTypes DEF WorkOK, StopStep, StopBegins, StopDrains,
       DrainGivenUp, StopPool, StopJoinsPool, StopReleases, StopResets
  <2>4. WorkOK'
    BY <1>0, <1>8, <2>3 DEF WorkOK, StopStep, StopBegins, StopDrains, DrainGivenUp,
       StopPool, StopJoinsPool, StopReleases, StopResets, config, inbound
  <2>5. QED
    BY <2>1, <2>2, <2>4 DEF TypeOK
<1>9. CASE UNCHANGED vars
  BY <1>0, <1>9 DEF TypeOK, FlagsOK, WorkOK, StopOK, vars, config, inbound, shutdown, sends
<1>10. CASE AppStep
  <2>1. UNCHANGED <<config, connected, stopping, transport, strand, io, pool, inbound,
                    shutdown>>
    BY <1>10 DEF AppStep, AppTells, AppTold
  <2>2. telling' \in BOOLEAN /\ crashed' \in {crashed, crashed \cup {"app"}}
    BY <1>10 DEF AppStep, AppTells, AppTold, Used
  <2>3. FlagsOK'
    BY <1>0, <2>1, <2>2 DEF FlagsOK, config, shutdown
  <2>4. QED
    BY <1>0, <2>1, <2>3 DEF TypeOK, WorkOK, StopOK, config, inbound, shutdown
<1>11. QED
  BY <1>3, <1>4, <1>5, <1>6, <1>7, <1>8, <1>9, <1>10, NextGroups

-----------------------------------------------------------------------------
(* What steps do to the io thread and to the handlers *)

\* The io thread changes what it is in when it is free, or as one of three calls
\* it is in returns.
LEMMA IoMoves ==
  ASSUME [Next]_vars, io' # io
  PROVE  \/ io = "free" /\ io' # "gone" /\ \E r \in Reqs : StrandTask(r)
         \/ io = "free" /\ io' = "stop" /\ StopBegins("io")
         \/ io = "free" /\ io' = "gone" /\ IoEnds
         \/ io = "send" /\ io' = "free"
         \/ io' = "free" /\ Inline /\ \E r \in Reqs : HandlerReturns(r)
         \/ io' = "free" /\ stopper = "io" /\ StopResets
<1>1. ASSUME NEW r \in Reqs, StrandTask(r) PROVE io = "free" /\ io' # "gone"
  BY <1>1 DEF StrandTask, RunPing, RunAsk, RunRespond, RunRegister, SendBegins, Running
<1>2. ASSUME NEW r \in Reqs, HandlerStep(r)
      PROVE  io' = "free" /\ Inline /\ HandlerReturns(r)
  BY <1>2 DEF HandlerStep, WorkerTakes, HandlerReturns, CallTested, CallPosted,
     HandlerWakes, HandlerTells, HandlerTold
<1>3. ASSUME NEW r \in Reqs, Outside(r) PROVE io = "send" /\ io' = "free"
  BY <1>3 DEF Outside, ServerAsks, SendReturns, CallSettles
<1>4. CASE StopStep
  BY <1>4 DEF StopStep, StopBegins, StopDrains, DrainGivenUp, StopPool, StopJoinsPool,
     StopReleases, StopResets
<1>5. CASE AppStep \/ ServerLeaves \/ RunDrain \/ IoEnds \/ UNCHANGED vars
  BY <1>5 DEF AppStep, AppTells, AppTold, ServerLeaves, RunDrain, IoEnds, vars
<1>6. QED
  BY <1>1, <1>2, <1>3, <1>4, <1>5, NextGroups

\* A handler begins on a free worker, or without a pool as a task.
LEMMA BusyMoves ==
  ASSUME TypeOK, [Next]_vars
  PROVE  \/ Busy' \subseteq Busy
         \/ \E r \in Reqs : WorkerTakes(r) /\ Busy' = Busy \cup {r}
         \/ \E r \in Reqs : RunAsk(r) /\ Inline /\ Busy' \subseteq Busy \cup {r}
<1>0. at \in [Reqs -> {"none", "strand", "pool", "handler", "waiting", "posted",
                       "sending", "answered"}]
  BY DEF TypeOK, WorkOK
<1>1. ASSUME UNCHANGED at PROVE Busy' \subseteq Busy
  BY <1>1 DEF Busy, Inside
<1>2. ASSUME NEW r \in Reqs, NEW v, v \notin {"handler", "waiting"} \/ Inside(r),
             at' = [at EXCEPT ![r] = v]
      PROVE  Busy' \subseteq Busy
  BY <1>0, <1>2 DEF Busy, Inside
<1>3. ASSUME NEW r \in Reqs, StrandTask(r), ~(RunAsk(r) /\ Inline) PROVE Busy' \subseteq Busy
  BY <1>1, <1>2, <1>3 DEF StrandTask, RunPing, RunAsk, RunRespond, RunRegister, SendBegins
<1>4. ASSUME NEW r \in Reqs, RunAsk(r), Inline PROVE Busy' \subseteq Busy \cup {r}
  BY <1>0, <1>4 DEF RunAsk, Busy, Inside
<1>5. ASSUME NEW r \in Reqs, WorkerTakes(r) PROVE Busy' = Busy \cup {r}
  BY <1>0, <1>5 DEF WorkerTakes, Busy, Inside
<1>6. ASSUME NEW r \in Reqs, HandlerStep(r), ~WorkerTakes(r) PROVE Busy' \subseteq Busy
  BY <1>1, <1>2, <1>6 DEF HandlerStep, HandlerReturns, CallTested, CallPosted,
     HandlerWakes, HandlerTells, HandlerTold, Goes, Inside
<1>7. ASSUME NEW r \in Reqs, Outside(r) PROVE Busy' \subseteq Busy
  BY <1>1, <1>2, <1>7 DEF Outside, ServerAsks, SendReturns, CallSettles
<1>8. CASE AppStep \/ ServerLeaves \/ RunDrain \/ IoEnds \/ StopStep \/ UNCHANGED vars
  BY <1>1, <1>8 DEF AppStep, AppTells, AppTold, ServerLeaves, RunDrain, IoEnds, StopStep, StopBegins, StopDrains,
     DrainGivenUp, StopPool, StopJoinsPool, StopReleases, StopResets, vars, inbound
<1>9. QED
  BY <1>3, <1>4, <1>5, <1>6, <1>7, <1>8, NextGroups

\* What is chosen before start() is not changed.
LEMMA ConfigStays ==
  ASSUME [Next]_vars
  PROVE  UNCHANGED config
BY NextGroups DEF StrandTask, RunPing, RunAsk, RunRespond, RunRegister, HandlerStep,
   WorkerTakes, HandlerReturns, CallTested, CallPosted, HandlerWakes, HandlerTells,
   HandlerTold, Outside, ServerAsks, SendReturns, CallSettles, AppStep, AppTells, AppTold,
   ServerLeaves, RunDrain, IoEnds, StopStep, StopBegins,
   StopDrains, DrainGivenUp, StopPool, StopJoinsPool, StopReleases, StopResets, vars

\* There are finitely many handlers.
LEMMA BusyFinite == IsFiniteSet(Busy) /\ Cardinality(Busy) \in Nat
<1>1. IsFiniteSet(Reqs)
  BY InboundAssumption, FS_Interval DEF Reqs
<1>2. IsFiniteSet(Busy)
  BY <1>1, FS_Subset DEF Busy
<1>3. QED
  BY <1>2, FS_CardinalityType

\* Every step keeps handlers where they may run.
LEMMA BusyStep ==
  ASSUME IInv, [Next]_vars
  PROVE  BusyInv'
<1>0. TypeOK /\ BusyInv /\ StopInv /\ workers' = workers /\ workers \in Nat
  BY ConfigStays DEF IInv, config, TypeOK, WorkOK
<1>1. Inline' = Inline
  BY <1>0 DEF Inline
<1>2. CASE Inline
  <2>1. ASSUME NEW r \in Reqs, WorkerTakes(r) PROVE FALSE
    <3>1. Cardinality(Busy) < 0
      BY <1>2, <2>1 DEF WorkerTakes, FreeWorker, Inline
    <3>2. QED
      BY <3>1, BusyFinite
  <2>2. ASSUME NEW r \in Reqs, RunAsk(r) PROVE BusyInv'
    <3>1. io = "free" /\ io' = "handler"
      BY <1>2, <2>2 DEF RunAsk, Running
    <3>2. Busy = {}
      BY <1>0, <1>2, <3>1 DEF BusyInv
    <3>3. Busy' \subseteq {r}
      BY <1>0, <2>1, <3>2, BusyMoves, <2>2 DEF RunAsk, Busy, Inside, TypeOK, WorkOK
    <3>4. QED
      BY <1>1, <1>2, <3>1, <3>3 DEF BusyInv
  <2>3. CASE Busy' \subseteq Busy
    <3>1. \A r, q \in Busy' : r = q
      BY <1>0, <1>2, <2>3 DEF BusyInv
    <3>2. ASSUME Busy' # {} PROVE io' = "handler"
      <4>1. io = "handler"
        BY <1>0, <1>2, <2>3, <3>2 DEF BusyInv
      <4>2. ASSUME NEW r \in Reqs, HandlerReturns(r) PROVE FALSE
        <5>1. r \in Busy
          BY <4>2 DEF HandlerReturns, Goes, Busy, Inside
        <5>2. r \notin Busy'
          BY <1>0, <4>2 DEF HandlerReturns, Goes, Busy, Inside, TypeOK, WorkOK
        <5>3. QED
          BY <1>0, <1>2, <2>3, <3>2, <5>1, <5>2 DEF BusyInv
      <4>3. ~(stopper = "io" /\ StopResets)
        BY <1>0, <4>1 DEF StopInv, StopResets
      <4>4. QED
        BY <4>1, <4>2, <4>3, IoMoves
    <3>3. QED
      BY <1>1, <1>2, <3>1, <3>2 DEF BusyInv
  <2>4. QED
    BY <1>0, <2>1, <2>2, <2>3, BusyMoves
<1>3. CASE ~Inline
  <2>1. SUFFICES ASSUME pool' = "off" PROVE Busy' = {}
    BY <1>1, <1>3 DEF BusyInv
  <2>2. Busy = {} /\ pool # "on"
    <3>1. pool = "off" \/ StopJoinsPool
      BY <2>1, NextGroups DEF StrandTask, RunPing, RunAsk, RunRespond, RunRegister,
         HandlerStep, WorkerTakes, HandlerReturns, CallTested, CallPosted, HandlerWakes,
         HandlerTells, HandlerTold, Outside, ServerAsks, SendReturns, CallSettles,
         AppStep, AppTells, AppTold, ServerLeaves, RunDrain, IoEnds,
         StopStep, StopBegins, StopDrains, DrainGivenUp, StopPool, StopReleases,
         StopResets, vars
    <3>2. QED
      BY <1>0, <1>3, <3>1 DEF BusyInv, StopJoinsPool, PoolJoined
  <2>3. QED
    BY <1>0, <1>3, <2>2, BusyMoves DEF WorkerTakes
<1>4. QED
  BY <1>2, <1>3

\* A set without two elements has at most one.
LEMMA AtMostOne ==
  ASSUME NEW S, \A x, y \in S : x = y
  PROVE  Cardinality(S) <= 1
<1>1. CASE S = {}
  BY <1>1, FS_EmptySet
<1>2. CASE S # {}
  <2>1. PICK x : S = {x}
    BY <1>2
  <2>2. QED
    BY <2>1, FS_Singleton
<1>3. QED
  BY <1>1, <1>2

\* Every step keeps to the number of threads.
LEMMA PoolStep ==
  ASSUME IInv, [Next]_vars
  PROVE  PoolBound'
<1>0. TypeOK /\ PoolBound /\ workers' = workers /\ workers \in Nat /\ Inline' = Inline
  BY ConfigStays DEF IInv, config, TypeOK, WorkOK, Inline
<1>1. CASE Inline
  <2>1. \A r, q \in Busy' : r = q
    BY <1>0, <1>1, BusyStep DEF BusyInv
  <2>2. Cardinality(Busy') <= 1
    BY <2>1, AtMostOne
  <2>3. QED
    BY <1>0, <1>1, <2>2 DEF PoolBound
<1>2. CASE ~Inline
  <2>1. IsFiniteSet(Busy) /\ Cardinality(Busy) \in Nat /\ Cardinality(Busy) <= workers
    BY <1>0, <1>2, BusyFinite DEF PoolBound
  <2>2. CASE Busy' \subseteq Busy
    <3>1. Cardinality(Busy') <= Cardinality(Busy) /\ Cardinality(Busy') \in Nat
      BY <2>1, <2>2, FS_Subset, FS_CardinalityType
    <3>2. QED
      BY <1>0, <1>2, <2>1, <3>1 DEF PoolBound
  <2>3. ASSUME NEW r \in Reqs, WorkerTakes(r), Busy' = Busy \cup {r} PROVE PoolBound'
    <3>1. Cardinality(Busy) < workers
      BY <2>3 DEF WorkerTakes, FreeWorker
    <3>2. Cardinality(Busy') <= Cardinality(Busy) + 1 /\ Cardinality(Busy') \in Nat
      BY <2>1, <2>3, FS_AddElement
    <3>3. QED
      BY <1>0, <1>2, <2>1, <3>1, <3>2 DEF PoolBound
  <2>4. QED
    BY <1>0, <1>2, <2>2, <2>3, BusyMoves
<1>3. QED
  BY <1>1, <1>2

-----------------------------------------------------------------------------
(* stop(), the loop and the transport *)

\* Only the steps of stop() and its drain move stop() on; no step connects again,
\* opens the pool again or brings the transport back.
LEMMA OthersKeepStop ==
  ASSUME [Next]_vars, ~StopStep, ~RunDrain
  PROVE  /\ UNCHANGED <<stopping, pool, transport, shutdown>>
         /\ connected' => connected
<1> DEFINE G == /\ UNCHANGED <<stopping, pool, transport, shutdown>>
                /\ connected' => connected
<1>1. ASSUME NEW r \in Reqs, StrandTask(r) PROVE G
  BY <1>1 DEF StrandTask, RunPing, RunAsk, RunRespond, RunRegister
<1>2. ASSUME NEW r \in Reqs, HandlerStep(r) PROVE G
  BY <1>2 DEF HandlerStep, WorkerTakes, HandlerReturns, CallTested, CallPosted,
     HandlerWakes, HandlerTells, HandlerTold
<1>3. ASSUME NEW r \in Reqs, Outside(r) PROVE G
  BY <1>3 DEF Outside, ServerAsks, SendReturns, CallSettles
<1>4. CASE AppStep \/ ServerLeaves \/ IoEnds \/ UNCHANGED vars
  BY <1>4 DEF AppStep, AppTells, AppTold, ServerLeaves, IoEnds, vars
<1>5. QED
  BY <1>1, <1>2, <1>3, <1>4, NextGroups

\* While the io thread is in stop(), it is in nothing else until stop() is done.
LEMMA IoStaysInStop ==
  ASSUME BusyInv, [Next]_vars, io = "stop"
  PROVE  io' = "stop" \/ (stopper = "io" /\ StopResets)
<1>1. ASSUME NEW r \in Reqs, HandlerReturns(r), Inline PROVE io = "handler"
  BY <1>1 DEF HandlerReturns, Goes, BusyInv, Busy, Inside
<1>2. QED
  BY <1>1, IoMoves

\* Every step keeps what the progress of stop() says.
LEMMA StopStepKeeps ==
  ASSUME IInv, [Next]_vars
  PROVE  StopInv'
<1>0. BusyInv /\ StopInv /\ owns' = owns /\ TypeOK
  BY ConfigStays DEF IInv, config
<1>1. ASSUME stopper' = stopper, stop_pc # "done", ~StopResets
      PROVE  stopper' = "io" /\ stop_pc' # "done" => io' = "stop"
  BY <1>0, <1>1, IoStaysInStop DEF StopInv
<1>2. CASE ~StopStep /\ ~RunDrain
  <2>1. /\ UNCHANGED <<stopping, pool, stop_pc, stopper, guard>>
        /\ connected' => connected
    BY <1>2, OthersKeepStop DEF shutdown
  <2>2. ~StopResets
    BY <1>2 DEF StopStep
  <2>3. QED
    BY <1>0, <1>1, <2>1, <2>2 DEF StopInv
<1>3. CASE RunDrain
  <2>1. io = "free"
    BY <1>3 DEF RunDrain, Running
  <2>2. QED
    BY <1>0, <1>3, <2>1 DEF StopInv, RunDrain
<1>4. ASSUME NEW who \in {"app", "io", "worker"}, StopBegins(who) PROVE StopInv'
  BY <1>0, <1>4 DEF StopInv, StopBegins
<1>5. CASE StopDrains
  BY <1>0, <1>5 DEF StopInv, StopDrains
<1>6. CASE DrainGivenUp \/ StopJoinsPool
  BY <1>0, <1>6 DEF StopInv, DrainGivenUp, StopJoinsPool
<1>7. CASE StopPool
  BY <1>0, <1>7 DEF StopInv, StopPool, TypeOK, StopOK
<1>8. CASE StopReleases \/ StopResets
  BY <1>0, <1>8 DEF StopInv, StopReleases, StopResets
<1>9. QED
  BY <1>2, <1>3, <1>4, <1>5, <1>6, <1>7, <1>8 DEF StopStep

\* Once the loop has returned, nobody posts to it any more.
LEMMA GoneIsQuiet ==
  ASSUME IInv, [Next]_vars, io = "gone"
  PROVE  io' = "gone" /\ UNCHANGED <<strand, guard>> /\ Busy = {}
<1>0. /\ owns /\ ~guard /\ strand = <<>> /\ pool = "off" /\ ~connected
      /\ stop_pc \in {"reset", "done"} /\ stopping /\ TypeOK /\ BusyInv
      /\ (stopper = "io" => stop_pc = "done")
  BY DEF IInv, LoopInv, StopInv
<1>1. Busy = {}
  BY <1>0 DEF BusyInv
<1>2. \A r \in Reqs : at[r] \notin {"handler", "waiting"}
  BY <1>1 DEF Busy, Inside
<1>3. \A r \in Reqs : ~StrandTask(r)
  BY DEF StrandTask, RunPing, RunAsk, RunRespond, RunRegister, Running
<1>4. ASSUME NEW r \in Reqs, HandlerStep(r) PROVE FALSE
  BY <1>0, <1>2, <1>4 DEF HandlerStep, WorkerTakes, HandlerReturns, CallTested,
     CallPosted, HandlerWakes, HandlerTells, HandlerTold, Goes
<1>5. ASSUME NEW r \in Reqs, Outside(r) PROVE FALSE
  BY <1>0, <1>5 DEF Outside, ServerAsks, SendReturns, CallSettles
<1>6. ~ServerLeaves /\ ~RunDrain /\ ~IoEnds
  BY DEF ServerLeaves, RunDrain, IoEnds, Running
<1>7. CASE StopStep
  BY <1>0, <1>1, <1>7 DEF StopStep, StopBegins, StopDrains, DrainGivenUp, StopPool,
     StopJoinsPool, StopReleases, StopResets
<1>8. CASE AppStep \/ UNCHANGED vars
  BY <1>1, <1>8 DEF AppStep, AppTells, AppTold, vars, shutdown
<1>9. QED
  BY <1>1, <1>3, <1>4, <1>5, <1>6, <1>7, <1>8, NextGroups

\* Every step keeps what holds of a loop that has returned.
LEMMA LoopStep ==
  ASSUME IInv, [Next]_vars
  PROVE  LoopInv'
<1>0. LoopInv /\ StopInv /\ TypeOK /\ owns' = owns
  BY ConfigStays DEF IInv, config
<1>1. io' = "gone" => owns' /\ ~guard' /\ strand' = <<>>
  <2>1. CASE io = "gone"
    BY <1>0, <2>1, GoneIsQuiet DEF LoopInv
  <2>2. CASE io # "gone"
    <3>1. SUFFICES ASSUME io' = "gone" PROVE owns' /\ ~guard' /\ strand' = <<>>
      OBVIOUS
    <3>2. IoEnds
      BY <2>2, <3>1, IoMoves
    <3>3. QED
      BY <1>0, <3>2 DEF IoEnds, shutdown
  <2>3. QED
    BY <2>1, <2>2
<1>2. ASSUME stop_pc' = "done", owns, stopper' # "io" PROVE io' = "gone"
  <2>1. StopResets \/ (stop_pc = "done" /\ UNCHANGED stopper)
    <3>1. CASE ~StopStep /\ ~RunDrain
      BY <1>2, <3>1, OthersKeepStop DEF shutdown
    <3>2. CASE StopStep \/ RunDrain
      BY <1>2, <3>2 DEF StopStep, RunDrain, StopBegins, StopDrains, DrainGivenUp, StopPool,
         StopJoinsPool, StopReleases
    <3>3. QED
      BY <3>1, <3>2
  <2>2. CASE StopResets
    BY <1>2, <2>2 DEF StopResets, LoopJoined
  <2>3. CASE stop_pc = "done" /\ UNCHANGED stopper
    BY <1>0, <1>2, <2>3, GoneIsQuiet DEF LoopInv
  <2>4. QED
    BY <2>1, <2>2, <2>3
<1>3. QED
  BY <1>0, <1>1, <1>2 DEF LoopInv

\* Only the last step of stop() takes the transport away, and it waits for the
\* thread of its own loop and for the pool.
LEMMA TransportStays ==
  ASSUME [Next]_vars, ~StopResets
  PROVE  UNCHANGED transport
<1>1. CASE ~StopStep /\ ~RunDrain
  BY <1>1, OthersKeepStop
<1>2. CASE StopStep \/ RunDrain
  BY <1>2 DEF StopStep, RunDrain, StopBegins, StopDrains, DrainGivenUp, StopPool,
     StopJoinsPool, StopReleases
<1>3. QED
  BY <1>1, <1>2

\* send_notification of a handler begins with the transport in place.
LEMMA TellsMoves ==
  ASSUME TypeOK, [Next]_vars, NEW r \in Reqs, call'[r] = "telling"
  PROVE  \/ call[r] = "telling" /\ ~HandlerReturns(r)
         \/ HandlerTells(r)
<1>0. call \in [Reqs -> {"none", "telling", "told", "tested", "posted", "pending", "over"}]
  BY DEF TypeOK, WorkOK
<1>1. ASSUME NEW q \in Reqs, StrandTask(q) \/ Outside(q)
      PROVE  call[r] = "telling" /\ ~HandlerReturns(r)
  BY <1>0, <1>1 DEF StrandTask, RunPing, RunAsk, RunRespond, RunRegister, Outside,
     ServerAsks, SendReturns, CallSettles, Settled, HandlerReturns
<1>2. ASSUME NEW q \in Reqs, HandlerStep(q)
      PROVE  \/ call[r] = "telling" /\ ~HandlerReturns(r)
             \/ HandlerTells(r)
  BY <1>0, <1>2 DEF HandlerStep, WorkerTakes, HandlerReturns, CallTested, CallPosted,
     HandlerWakes, HandlerTells, HandlerTold
<1>3. CASE AppStep \/ IoEnds \/ UNCHANGED vars
  BY <1>3 DEF AppStep, AppTells, AppTold, IoEnds, HandlerReturns, vars, inbound
<1>4. CASE ServerLeaves \/ RunDrain \/ StopStep
  BY <1>0, <1>4 DEF ServerLeaves, RunDrain, StopStep, StopBegins, StopDrains,
     DrainGivenUp, StopPool, StopJoinsPool, StopReleases, StopResets, AllFailed,
     HandlerReturns, inbound
<1>5. QED
  BY <1>1, <1>2, <1>3, <1>4, NextGroups

\* A task that runs leaves the strand with nothing else of its request in it.
LEMMA TaskTaken ==
  ASSUME TypeOK, TaskInv, strand # <<>>, strand' = Tail(strand)
  PROVE  /\ Fits(Head(strand), at)
         /\ \A i \in 1..Len(strand') : /\ strand'[i] = strand[i + 1] /\ i + 1 \in 1..Len(strand)
                                       /\ Moves(Head(strand)) => strand'[i] # Head(strand)
<1>1. strand \in Seq(Tasks) /\ Len(strand) \in Nat /\ Len(strand) > 0
  BY DEF TypeOK, WorkOK
<1>2. Head(strand) = strand[1] /\ 1 \in 1..Len(strand)
  BY <1>1
<1>3. Len(strand') = Len(strand) - 1 /\ \A i \in 1..Len(strand') : strand'[i] = strand[i + 1]
  BY <1>1
<1>4. \A i \in 1..Len(strand') : i + 1 \in 1..Len(strand) /\ i + 1 # 1
  BY <1>1, <1>3
<1>5. QED
  BY <1>2, <1>3, <1>4 DEF TaskInv

\* A task that is posted for the first time lies in the strand once.
LEMMA TaskPosted ==
  ASSUME TypeOK, TaskInv, NEW t \in Tasks, strand' = Append(strand, t),
         Moves(t) => \A i \in 1..Len(strand) : strand[i] # t
  PROVE  /\ \A i, j \in 1..Len(strand') : strand'[i] = strand'[j] /\ Moves(strand'[i]) => i = j
         /\ \A i \in 1..Len(strand') : strand'[i] = t \/ \E j \in 1..Len(strand) : strand'[i] = strand[j]
<1>1. strand \in Seq(Tasks) /\ Len(strand) \in Nat
  BY DEF TypeOK, WorkOK
<1>2. /\ Len(strand') = Len(strand) + 1 /\ strand'[Len(strand) + 1] = t
      /\ \A i \in 1..Len(strand) : strand'[i] = strand[i]
  BY <1>1
<1>3. \A i \in 1..Len(strand') : i \in 1..Len(strand) \/ i = Len(strand) + 1
  BY <1>1, <1>2
<1>4. QED
  BY <1>2, <1>3 DEF TaskInv

\* A request that waits for none of its tasks may move: the tasks still fit.
LEMMA FitsStays ==
  ASSUME TypeOK, TaskInv, NEW r \in Reqs, at[r] \notin {"strand", "posted"},
         NEW v, at' = [at EXCEPT ![r] = v]
  PROVE  \A i \in 1..Len(strand) : /\ Fits(strand[i], at')
                                   /\ strand[i] # <<"ask", r>> /\ strand[i] # <<"respond", r>>
<1>0. at \in [Reqs -> {"none", "strand", "pool", "handler", "waiting", "posted",
                       "sending", "answered"}]
  BY DEF TypeOK, WorkOK
<1>1. SUFFICES ASSUME NEW i \in 1..Len(strand)
               PROVE  /\ Fits(strand[i], at')
                      /\ strand[i] # <<"ask", r>> /\ strand[i] # <<"respond", r>>
  OBVIOUS
<1>2. Fits(strand[i], at)
  BY DEF TaskInv
<1>3. strand[i] # <<"ask", r>> /\ strand[i] # <<"respond", r>>
  <2>1. /\ strand[i] = <<"ask", r>> => at[r] = "strand"
        /\ strand[i] = <<"respond", r>> => at[r] = "posted"
    BY <1>2 DEF Fits
  <2>2. QED
    BY <2>1
<1>4. Fits(strand[i], at')
  BY <1>0, <1>2, <1>3 DEF Fits
<1>5. QED
  BY <1>3, <1>4

\* Nothing else of a request lies behind its task at the head.
LEMMA FitsBehind ==
  ASSUME TypeOK, TaskInv, strand # <<>>, strand' = Tail(strand), NEW r \in Reqs,
         Head(strand) = <<"ask", r>> \/ Head(strand) = <<"respond", r>>,
         \/ UNCHANGED at
         \/ \E v : at' = [at EXCEPT ![r] = v]
  PROVE  TaskInv'
<1>0. at \in [Reqs -> {"none", "strand", "pool", "handler", "waiting", "posted",
                       "sending", "answered"}]
  BY DEF TypeOK, WorkOK
<1>1. Moves(Head(strand)) /\ Fits(Head(strand), at)
  BY TaskTaken DEF Moves
<1>2. ASSUME NEW i \in 1..Len(strand') PROVE Fits(strand'[i], at')
  <2>1. strand'[i] # Head(strand) /\ Fits(strand'[i], at)
    BY <1>1, <1>2, TaskTaken DEF TaskInv
  <2>2. strand'[i] # <<"ask", r>> /\ strand'[i] # <<"respond", r>>
    <3>1. /\ strand'[i] = <<"ask", r>> => at[r] = "strand"
          /\ strand'[i] = <<"respond", r>> => at[r] = "posted"
          /\ Head(strand) = <<"ask", r>> => at[r] = "strand"
          /\ Head(strand) = <<"respond", r>> => at[r] = "posted"
      BY <1>1, <2>1 DEF Fits
    <3>2. QED
      BY <2>1, <3>1
  <2>3. \A q \in Reqs : q # r => at'[q] = at[q]
    BY <1>0
  <2>4. QED
    BY <2>1, <2>2, <2>3 DEF Fits
<1>3. ASSUME NEW i \in 1..Len(strand'), NEW j \in 1..Len(strand'),
             strand'[i] = strand'[j], Moves(strand'[i])
      PROVE  i = j
  <2>1. strand[i + 1] = strand[j + 1] /\ Moves(strand[i + 1])
        /\ i + 1 \in 1..Len(strand) /\ j + 1 \in 1..Len(strand)
    BY <1>3, TaskTaken
  <2>2. i + 1 = j + 1
    BY <2>1 DEF TaskInv
  <2>3. QED
    BY <2>2
<1>4. QED
  BY <1>2, <1>3 DEF TaskInv

\* A new task of a request that waits for none, which then waits for this one.
LEMMA FitsPosted ==
  ASSUME TypeOK, TaskInv, NEW r \in Reqs, at[r] \notin {"strand", "posted"},
         NEW t \in Tasks, strand' = Append(strand, t), NEW v, at' = [at EXCEPT ![r] = v],
         \/ t = <<"ask", r>> /\ v = "strand"
         \/ t = <<"respond", r>> /\ v = "posted"
         \/ ~Moves(t)
  PROVE  TaskInv'
<1>0. at \in [Reqs -> {"none", "strand", "pool", "handler", "waiting", "posted",
                       "sending", "answered"}]
  BY DEF TypeOK, WorkOK
<1>1. \A i \in 1..Len(strand) : Moves(t) => strand[i] # t
  BY FitsStays
<1>2. Fits(t, at')
  BY <1>0 DEF Fits, Moves
<1>3. QED
  BY <1>1, <1>2, FitsStays, TaskPosted DEF TaskInv

\* Every step keeps each task with its request.
LEMMA TaskStep ==
  ASSUME IInv, [Next]_vars
  PROVE  TaskInv'
<1>0. TypeOK /\ TaskInv
  BY DEF IInv
<1>1. ASSUME UNCHANGED at, UNCHANGED strand PROVE TaskInv'
  BY <1>0, <1>1 DEF TaskInv
<1>2. ASSUME UNCHANGED strand, NEW r \in Reqs, at[r] \notin {"strand", "posted"},
             NEW v, at' = [at EXCEPT ![r] = v]
      PROVE  TaskInv'
  BY <1>0, <1>2, FitsStays DEF TaskInv
<1>3. ASSUME UNCHANGED at, strand # <<>>, strand' = Tail(strand) PROVE TaskInv'
  <2>1. ASSUME NEW i \in 1..Len(strand')
        PROVE  strand'[i] = strand[i + 1] /\ i + 1 \in 1..Len(strand)
    BY <1>0, <1>3, <2>1, TaskTaken
  <2>2. ASSUME NEW i \in 1..Len(strand'), NEW j \in 1..Len(strand'), i + 1 = j + 1
        PROVE  i = j
    BY <2>2
  <2>3. QED
    BY <1>0, <1>3, <2>1, <2>2 DEF TaskInv
<1>4. ASSUME UNCHANGED at, strand' = Append(strand, <<"drain", 0>>) PROVE TaskInv'
  <2>1. ~Moves(<<"drain", 0>>) /\ Fits(<<"drain", 0>>, at)
    BY DEF Moves, Fits
  <2>2. QED
    BY <1>0, <1>4, <2>1, TaskTypes, TaskPosted DEF TaskInv
<1>5. ASSUME NEW r \in Reqs, StrandTask(r) PROVE TaskInv'
  <2>1. CASE RunPing(r) \/ RunAsk(r) \/ RunRespond(r)
    BY <1>0, <2>1, FitsBehind DEF RunPing, RunAsk, RunRespond, SendBegins, Running
  <2>2. CASE RunRegister(r)
    BY <1>3, <2>2 DEF RunRegister, Running
  <2>3. QED
    BY <1>5, <2>1, <2>2 DEF StrandTask
<1>6. ASSUME NEW r \in Reqs, HandlerStep(r) PROVE TaskInv'
  <2>1. CASE WorkerTakes(r) \/ HandlerWakes(r)
    BY <1>2, <2>1 DEF WorkerTakes, HandlerWakes
  <2>2. CASE CallTested(r) \/ HandlerTells(r) \/ HandlerTold(r)
    BY <1>1, <2>2 DEF CallTested, HandlerTells, HandlerTold
  <2>3. CASE HandlerReturns(r)
    BY <1>0, <2>3, FitsPosted, TaskTypes DEF HandlerReturns, Goes, Responded
  <2>4. CASE CallPosted(r)
    <3>1. ~Moves(<<"register", r>>)
      BY DEF Moves
    <3>2. QED
      BY <1>0, <2>4, <3>1, FitsPosted, TaskTypes DEF CallPosted
  <2>5. QED
    BY <1>6, <2>1, <2>2, <2>3, <2>4 DEF HandlerStep
<1>7. ASSUME NEW r \in Reqs, Outside(r) PROVE TaskInv'
  <2>1. CASE ServerAsks(r)
    BY <1>0, <2>1, FitsPosted, TaskTypes DEF ServerAsks
  <2>2. CASE SendReturns(r)
    BY <1>2, <2>2 DEF SendReturns
  <2>3. CASE CallSettles(r)
    BY <1>1, <2>3 DEF CallSettles
  <2>4. QED
    BY <1>7, <2>1, <2>2, <2>3 DEF Outside
<1>8. CASE AppStep \/ ServerLeaves \/ IoEnds \/ UNCHANGED vars
  BY <1>1, <1>8 DEF AppStep, AppTells, AppTold, ServerLeaves, IoEnds, inbound, vars
<1>9. CASE RunDrain
  BY <1>3, <1>9 DEF RunDrain, Running
<1>10. CASE StopStep
  BY <1>1, <1>4, <1>10 DEF StopStep, StopBegins, StopDrains, DrainGivenUp, StopPool,
     StopJoinsPool, StopReleases, StopResets, inbound
<1>11. QED
  BY <1>5, <1>6, <1>7, <1>8, <1>9, <1>10, NextGroups

\* A handler that sends has not returned.
LEMMA TellsInside ==
  ASSUME IInv, [Next]_vars, NEW r \in Reqs, call'[r] = "telling"
  PROVE  at'[r] = "handler"
<1>0. /\ TypeOK /\ SendInv /\ TaskInv
      /\ at \in [Reqs -> {"none", "strand", "pool", "handler", "waiting", "posted",
                          "sending", "answered"}]
  BY DEF IInv, TypeOK, WorkOK
<1>1. CASE HandlerTells(r)
  BY <1>1 DEF HandlerTells, Goes
<1>2. CASE call[r] = "telling" /\ ~HandlerReturns(r)
  <2>1. at[r] = "handler"
    BY <1>0, <1>2 DEF SendInv
  <2>2. ASSUME NEW q \in Reqs, StrandTask(q) PROVE at'[r] = at[r]
    <3>1. CASE RunRegister(q)
      BY <3>1 DEF RunRegister
    <3>2. CASE RunPing(q) \/ RunAsk(q) \/ RunRespond(q)
      <4>1. q # r
        <5>1. /\ strand # <<>> /\ strand' = Tail(strand)
              /\ Head(strand) = <<"ask", q>> \/ Head(strand) = <<"respond", q>>
          BY <3>2 DEF RunPing, RunAsk, RunRespond, Running
        <5>2. Fits(Head(strand), at)
          BY <1>0, <5>1, TaskTaken
        <5>3. at[q] = "strand" \/ at[q] = "posted"
          BY <5>1, <5>2 DEF Fits
        <5>4. QED
          BY <2>1, <5>3
      <4>2. QED
        BY <1>0, <3>2, <4>1 DEF RunPing, RunAsk, RunRespond, SendBegins
    <3>3. QED
      BY <2>2, <3>1, <3>2 DEF StrandTask
  <2>3. ASSUME NEW q \in Reqs, HandlerStep(q) \/ Outside(q) PROVE at'[r] = at[r]
    BY <1>0, <1>2, <2>1, <2>3 DEF HandlerStep, WorkerTakes, HandlerReturns, CallTested,
       CallPosted, HandlerWakes, HandlerTells, HandlerTold, Goes, Outside, ServerAsks,
       SendReturns, CallSettles
  <2>4. ASSUME AppStep \/ ServerLeaves \/ RunDrain \/ IoEnds \/ StopStep \/ UNCHANGED vars
        PROVE  at'[r] = at[r]
    <3>1. at' = at
      BY <2>4 DEF AppStep, AppTells, AppTold, ServerLeaves, RunDrain, IoEnds, StopStep,
         StopBegins, StopDrains, DrainGivenUp, StopPool, StopJoinsPool, StopReleases,
         StopResets, vars, inbound
    <3>2. QED
      BY <2>1, <3>1
  <2>5. QED
    BY <2>1, <2>2, <2>3, <2>4, NextGroups
<1>3. QED
  BY <1>0, <1>1, <1>2, TellsMoves

\* stop() takes no transport away from a handler that sends.
LEMMA TellsKeepTransport ==
  ASSUME IInv, StopResets, owns \/ ~Inline, NEW r \in Reqs
  PROVE  call[r] # "telling"
<1>0. TypeOK /\ SendInv /\ BusyInv /\ StopInv /\ LoopInv
  BY DEF IInv
<1>1. SUFFICES ASSUME call[r] = "telling" PROVE FALSE
  OBVIOUS
<1>2. r \in Busy
  BY <1>0, <1>1 DEF SendInv, Busy, Inside
<1>3. CASE Inline
  <2>1. io = "handler"
    BY <1>0, <1>2, <1>3 DEF BusyInv
  <2>2. QED
    BY <1>0, <1>3, <2>1 DEF StopResets, LoopJoined, StopInv
<1>4. CASE ~Inline
  BY <1>0, <1>2, <1>4 DEF BusyInv, StopInv, StopResets
<1>5. QED
  BY <1>3, <1>4

\* Every step keeps the transport for whoever sends.
LEMMA SendStep ==
  ASSUME IInv, [Next]_vars
  PROVE  SendInv'
<1>0. SendInv /\ StopInv /\ TypeOK /\ owns' = owns /\ Inline' = Inline
  BY ConfigStays DEF IInv, config, Inline
<1>1. ASSUME owns, io' = "send" PROVE transport'
  <2>1. transport
    <3>1. CASE io = "send"
      BY <1>0, <1>1, <3>1 DEF SendInv
    <3>2. CASE io # "send"
      <4>1. PICK r \in Reqs : StrandTask(r)
        BY <1>1, <3>2, IoMoves
      <4>2. QED
        BY <1>1, <3>2, <4>1 DEF StrandTask, RunPing, RunAsk, RunRespond, RunRegister,
           SendBegins
    <3>3. QED
      BY <3>1, <3>2
  <2>2. ~StopResets
    BY <1>1 DEF StopResets, LoopJoined
  <2>3. QED
    BY <2>1, <2>2, TransportStays
<1>2. ASSUME owns \/ ~Inline, NEW r \in Reqs, call'[r] = "telling" PROVE transport'
  <2>1. CASE HandlerTells(r)
    BY <2>1 DEF HandlerTells
  <2>2. CASE call[r] = "telling"
    BY <1>0, <1>2, <2>2, TellsKeepTransport, TransportStays DEF SendInv
  <2>3. QED
    BY <1>0, <1>2, <2>1, <2>2, TellsMoves
<1>3. SendIsSafe'
  <2>1. SendIsSafe
    BY <1>0 DEF SendInv
  <2>2. CASE UNCHANGED crashed
    BY <1>0, <2>1, <2>2 DEF SendIsSafe
  <2>3. ASSUME NEW r \in Reqs, SendReturns(r) PROVE SendIsSafe'
    BY <1>0, <2>1, <2>3 DEF SendReturns, Used, SendInv, SendIsSafe
  <2>4. ASSUME NEW r \in Reqs, HandlerTold(r) PROVE SendIsSafe'
    BY <1>0, <2>1, <2>4 DEF HandlerTold, Used, SendInv, SendIsSafe
  <2>5. CASE AppTold
    BY <1>0, <2>1, <2>5 DEF AppTold, Used, SendIsSafe
  <2>6. \/ UNCHANGED crashed
        \/ \E r \in Reqs : SendReturns(r) \/ HandlerTold(r)
        \/ AppTold
    BY NextGroups DEF StrandTask, RunPing, RunAsk, RunRespond, RunRegister,
       HandlerStep, WorkerTakes, HandlerReturns, CallTested, CallPosted, HandlerWakes,
       HandlerTells, Outside, ServerAsks, CallSettles, AppStep, AppTells, ServerLeaves,
       RunDrain, IoEnds, StopStep, StopBegins, StopDrains, DrainGivenUp, StopPool,
       StopJoinsPool, StopReleases, StopResets, vars, sends
  <2>7. QED
    BY <2>2, <2>3, <2>4, <2>5, <2>6
<1>4. QED
  BY <1>0, <1>1, <1>2, <1>3, TellsInside DEF SendInv

-----------------------------------------------------------------------------
(* The theorems *)

\* Before the first message nothing runs and nothing is stopped.
LEMMA InitIInv == Init => IInv
<1> SUFFICES ASSUME Init PROVE IInv
  OBVIOUS
<1>1. FlagsOK
  BY InboundAssumption DEF Init, FlagsOK
<1>2. WorkOK /\ StopOK
  BY InboundAssumption DEF Init, WorkOK, StopOK
<1>3. Busy = {}
  BY DEF Init, Busy, Inside
<1>4. PoolBound
  BY <1>2, <1>3, FS_EmptySet DEF PoolBound, WorkOK
<1>5. BusyInv
  BY <1>3 DEF BusyInv
<1>6. StopInv /\ LoopInv /\ TaskInv /\ SendInv
  BY DEF Init, StopInv, LoopInv, TaskInv, SendInv, SendIsSafe
<1>7. QED
  BY <1>1, <1>2, <1>4, <1>5, <1>6 DEF IInv, TypeOK

\* The invariant holds for every number of requests and workers.
THEOREM Invariance == Spec => []IInv
<1>1. IInv /\ [Next]_vars => IInv'
  BY TypeStep, PoolStep, BusyStep, StopStepKeeps, LoopStep, TaskStep,
     SendStep DEF IInv
<1>2. QED
  BY <1>1, InitIInv, PTL DEF Spec

\* stop() of the application on a loop of the client's own leaves nothing behind:
\* no handler, no worker, no task; and no pool ever runs more than its threads.
THEOREM StopLeavesNothing == Spec => []QuietAfterStop
<1>1. IInv => QuietAfterStop
  <2>1. SUFFICES ASSUME IInv PROVE QuietAfterStop
    OBVIOUS
  <2>2. TypeOK /\ PoolBound /\ BusyInv /\ StopInv /\ LoopInv
    BY <2>1 DEF IInv
  <2>3. ASSUME stop_pc = "done", owns, stopper = "app"
        PROVE  Busy = {} /\ strand = <<>> /\ io = "gone" /\ pool = "off"
    <3>1. io = "gone" /\ strand = <<>> /\ pool = "off"
      BY <2>2, <2>3 DEF LoopInv, StopInv
    <3>2. Busy = {}
      BY <2>2, <3>1 DEF BusyInv
    <3>3. QED
      BY <3>1, <3>2
  <2>4. QED
    BY <2>2, <2>3 DEF QuietAfterStop
<1>2. QED
  BY <1>1, Invariance, PTL

\* raw_send on the strand of a loop of the client's own, and send_notification in a
\* handler on a pool or on such a loop, never use a transport that stop() has reset
\* in between, whoever calls stop() and however many handlers send and respond
\* meanwhile.  It says nothing of a thread of the application that sends while
\* another one is in stop().
THEOREM SendsAreSafe == Spec => []SendIsSafe
<1>1. IInv => SendIsSafe
  BY DEF IInv, SendInv
<1>2. QED
  BY <1>1, Invariance, PTL

=============================================================================
