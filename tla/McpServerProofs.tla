-------------------------- MODULE McpServerProofs --------------------------
(***************************************************************************)
(* Proofs about the server: McpServer for every set of requests and any    *)
(* number of io threads and workers, and ListRequests for every set of     *)
(* lists and threads, every width of std::size_t and lists of any length.  *)
(***************************************************************************)
EXTENDS McpServer, ListRequests, TLAPS

\* A request is in the hands of at most one thread, and of none once it was
\* answered, posted or lost.
OneHandler ==
  \A t \in Threads : doing[t] # Idle =>
    /\ req[doing[t]] = "handled"
    /\ \A o \in Threads : doing[o] = doing[t] => o = t

\* Registries are frozen from the moment run() freezes them, and nothing is
\* received before the loop runs.
PhaseInv ==
  /\ run_pc \in {"frozen", "pooled", "loop", "returned"} => frozen
  /\ run_pc \notin {"loop", "returned"} => serving = {} /\ \A r \in Requests : req[r] = "new"

\* How far stop() is, against what is left of the server.
StopInv ==
  /\ stopping <=> stop_pc # "idle"
  /\ ~stopping => ~early
  /\ transport = "stopped" => stop_pc \in {"detached", "done"}
  /\ executor = "none" => WorkersDone
  /\ stop_pc = "done" => io_stopped

\* The same for a stop() that found the server up.
LateStopInv ==
  ~early =>
    /\ stopping => ~running /\ run_pc \in {"loop", "failed", "returned"}
    /\ stop_pc \in {"joining", "joined", "detached", "done", "thrown"} =>
         executor # "running"
    /\ stop_pc \in {"joined", "detached", "done"} => WorkersDone
    /\ stop_pc \in {"detached", "done"} => ~attached /\ transport = "stopped"

IInv == TypeOK /\ OneHandler /\ PhaseInv /\ StopInv /\ LateStopInv

\* A server that was not run satisfies the invariant.
LEMMA InitInv == Init => IInv
<1> SUFFICES ASSUME Init PROVE IInv
  OBVIOUS
<1>1. TypeOK
  BY DEF Init, TypeOK
<1>2. OneHandler /\ PhaseInv
  BY DEF Init, OneHandler, PhaseInv
<1>3. StopInv /\ LateStopInv
  BY DEF Init, StopInv, LateStopInv, WorkersDone, Threads
<1>4. QED
  BY <1>1, <1>2, <1>3 DEF IInv

\* Freezing keeps the invariant.
LEMMA RunFreezeInv ==
  ASSUME IInv, RunFreeze
  PROVE  IInv'
<1> USE DEF IInv
<1>1. TypeOK'
  BY DEF TypeOK, RunFreeze, flags, loop, work, stop
<1>2. OneHandler'
  BY DEF OneHandler, TypeOK, RunFreeze, flags, loop, work, stop
<1>3. PhaseInv'
  BY DEF PhaseInv, TypeOK, RunFreeze, flags, loop, work, stop
<1>4. StopInv'
  BY DEF StopInv, WorkersDone, TypeOK, RunFreeze, flags, loop, work, stop
<1>5. LateStopInv'
  BY DEF LateStopInv, StopInv, WorkersDone, TypeOK, RunFreeze, flags, loop, work, stop
<1>6. QED
  BY <1>1, <1>2, <1>3, <1>4, <1>5

\* Starting the pool keeps the invariant.
LEMMA RunStartPoolInv ==
  ASSUME IInv, RunStartPool
  PROVE  IInv'
<1> USE DEF IInv
<1>1. TypeOK'
  BY DEF TypeOK, RunStartPool, flags, loop, work, stop
<1>2. OneHandler'
  BY DEF OneHandler, TypeOK, RunStartPool, flags, loop, work, stop
<1>3. PhaseInv'
  BY DEF PhaseInv, TypeOK, RunStartPool, flags, loop, work, stop
<1>4. StopInv'
  BY DEF StopInv, WorkersDone, TypeOK, RunStartPool, flags, loop, work, stop
<1>5. LateStopInv'
  BY DEF LateStopInv, StopInv, WorkersDone, TypeOK, RunStartPool, flags, loop, work,
     stop
<1>6. QED
  BY <1>1, <1>2, <1>3, <1>4, <1>5

\* Starting the transport keeps the invariant.
LEMMA RunStartTransportInv ==
  ASSUME IInv, RunStartTransport
  PROVE  IInv'
<1> USE DEF IInv
<1>1. TypeOK'
  BY DEF TypeOK, RunStartTransport, flags, loop, work, stop
<1>2. OneHandler'
  BY DEF OneHandler, TypeOK, RunStartTransport, flags, loop, work, stop
<1>3. PhaseInv'
  BY DEF PhaseInv, TypeOK, RunStartTransport, flags, loop, work, stop
<1>4. StopInv'
  BY DEF StopInv, WorkersDone, TypeOK, RunStartTransport, flags, loop, work, stop
<1>5. LateStopInv'
  BY DEF LateStopInv, StopInv, WorkersDone, TypeOK, RunStartTransport, flags, loop,
     work, stop
<1>6. QED
  BY <1>1, <1>2, <1>3, <1>4, <1>5

\* A failed start keeps the invariant: nothing was received yet.
LEMMA RunStartFailsInv ==
  ASSUME IInv, RunStartFails
  PROVE  IInv'
<1> USE DEF IInv
<1>1. TypeOK'
  BY DEF TypeOK, RunStartFails, flags, loop, work, stop
<1>2. OneHandler'
  BY DEF OneHandler, TypeOK, RunStartFails, flags, loop, work, stop
<1>3. PhaseInv'
  BY DEF PhaseInv, TypeOK, RunStartFails, flags, loop, work, stop
<1>4. StopInv'
  BY DEF StopInv, WorkersDone, TypeOK, RunStartFails, flags, loop, work, stop
<1>5. LateStopInv'
  BY DEF LateStopInv, StopInv, WorkersDone, TypeOK, RunStartFails, flags, loop, work,
     stop
<1>6. QED
  BY <1>1, <1>2, <1>3, <1>4, <1>5

\* run() returning keeps the invariant.
LEMMA RunReturnsInv ==
  ASSUME IInv, RunReturns
  PROVE  IInv'
<1> USE DEF IInv
<1>1. TypeOK'
  BY DEF TypeOK, RunReturns, flags, loop, work, stop
<1>2. OneHandler'
  BY DEF OneHandler, TypeOK, RunReturns, flags, loop, work, stop
<1>3. PhaseInv'
  BY DEF PhaseInv, TypeOK, RunReturns, flags, loop, work, stop
<1>4. StopInv'
  BY DEF StopInv, WorkersDone, TypeOK, RunReturns, flags, loop, work, stop
<1>5. LateStopInv'
  BY DEF LateStopInv, StopInv, WorkersDone, TypeOK, RunReturns, flags, loop, work,
     stop
<1>6. QED
  BY <1>1, <1>2, <1>3, <1>4, <1>5

\* An io thread that leaves the loop keeps the invariant.
LEMMA LeavesLoopInv ==
  ASSUME IInv, NEW t \in IoThreads, LeavesLoop(t)
  PROVE  IInv'
<1> USE DEF IInv
<1>1. TypeOK'
  BY DEF TypeOK, LeavesLoop, flags, loop, work, stop
<1>2. OneHandler'
  BY DEF OneHandler, TypeOK, LeavesLoop, flags, loop, work, stop
<1>3. PhaseInv'
  BY DEF PhaseInv, TypeOK, LeavesLoop, flags, loop, work, stop
<1>4. StopInv'
  BY DEF StopInv, WorkersDone, TypeOK, LeavesLoop, flags, loop, work, stop
<1>5. LateStopInv'
  BY DEF LateStopInv, StopInv, WorkersDone, TypeOK, LeavesLoop, flags, loop, work,
     stop
<1>6. QED
  BY <1>1, <1>2, <1>3, <1>4, <1>5

\* Deferring a request keeps the invariant.
LEMMA DeferredInv ==
  ASSUME IInv, NEW t \in IoThreads, NEW r \in Requests, OnMessageDeferred(t, r)
  PROVE  IInv'
<1> USE DEF IInv
<1>1. TypeOK'
  BY DEF TypeOK, OnMessageDeferred, Serves, Free, Threads, flags, loop, work, stop
<1>2. OneHandler'
  BY DEF OneHandler, TypeOK, OnMessageDeferred, Serves, Free, Threads, flags, loop,
     work, stop
<1>3. PhaseInv'
  BY DEF PhaseInv, TypeOK, OnMessageDeferred, Serves, Free, Threads, flags, loop,
     work, stop
<1>4. StopInv'
  BY DEF StopInv, WorkersDone, TypeOK, OnMessageDeferred, Serves, Free, Threads,
     flags, loop, work, stop
<1>5. LateStopInv'
  BY DEF LateStopInv, StopInv, WorkersDone, TypeOK, OnMessageDeferred, Serves, Free,
     Threads, flags, loop, work, stop
<1>6. QED
  BY <1>1, <1>2, <1>3, <1>4, <1>5

\* A request handled on an io thread keeps the invariant.
LEMMA InlineInv ==
  ASSUME IInv, NEW t \in IoThreads, NEW r \in Requests, NEW batch \in BOOLEAN,
         OnMessageInline(t, r, batch)
  PROVE  IInv'
<1> USE DEF IInv
<1>0. t \notin Workers
  BY ServerAssumption
<1>1. TypeOK'
  BY DEF TypeOK, OnMessageInline, Serves, Free, Threads, flags, loop, work, stop
<1>2. OneHandler'
  BY DEF OneHandler, TypeOK, OnMessageInline, Serves, Free, Threads, flags, loop,
     work, stop
<1>3. PhaseInv'
  BY DEF PhaseInv, TypeOK, OnMessageInline, Serves, Free, Threads, flags, loop, work,
     stop
<1>4. StopInv'
  BY <1>0 DEF StopInv, WorkersDone, TypeOK, OnMessageInline, Serves, Free, Threads,
     flags, loop, work, stop
<1>5. LateStopInv'
  BY <1>0 DEF LateStopInv, StopInv, WorkersDone, TypeOK, OnMessageInline, Serves,
     Free, Threads, flags, loop, work, stop
<1>6. QED
  BY <1>1, <1>2, <1>3, <1>4, <1>5

\* An answer from an io thread keeps the invariant.
LEMMA RespondInlineInv ==
  ASSUME IInv, NEW t \in IoThreads, RespondInline(t)
  PROVE  IInv'
<1> USE DEF IInv
<1>1. TypeOK'
  BY DEF TypeOK, RespondInline, Written, Threads, OneHandler, flags, loop, work, stop
<1>2. OneHandler'
  BY DEF OneHandler, TypeOK, RespondInline, Written, Threads, OneHandler, flags,
     loop, work, stop
<1>3. PhaseInv'
  BY DEF PhaseInv, TypeOK, RespondInline, Written, Threads, OneHandler, flags, loop,
     work, stop
<1>4. StopInv'
  BY DEF StopInv, WorkersDone, TypeOK, RespondInline, Written, Threads, OneHandler,
     flags, loop, work, stop
<1>5. LateStopInv'
  BY DEF LateStopInv, StopInv, WorkersDone, TypeOK, RespondInline, Written, Threads,
     OneHandler, flags, loop, work, stop
<1>6. QED
  BY <1>1, <1>2, <1>3, <1>4, <1>5

\* A worker taking a request keeps the invariant.
LEMMA WorkerTakesInv ==
  ASSUME IInv, NEW w \in Workers, NEW r \in Requests, WorkerTakes(w, r)
  PROVE  IInv'
<1> USE DEF IInv
<1>1. TypeOK'
  BY DEF TypeOK, WorkerTakes, Free, Threads, flags, loop, work, stop
<1>2. OneHandler'
  BY DEF OneHandler, TypeOK, WorkerTakes, Free, Threads, flags, loop, work, stop
<1>3. PhaseInv'
  BY DEF PhaseInv, TypeOK, WorkerTakes, Free, Threads, flags, loop, work, stop
<1>4. StopInv'
  BY DEF StopInv, WorkersDone, TypeOK, WorkerTakes, Free, Threads, flags, loop, work,
     stop
<1>5. LateStopInv'
  BY DEF LateStopInv, StopInv, WorkersDone, TypeOK, WorkerTakes, Free, Threads,
     flags, loop, work, stop
<1>6. QED
  BY <1>1, <1>2, <1>3, <1>4, <1>5

\* A worker posting its answer keeps the invariant.
LEMMA WorkerPostsInv ==
  ASSUME IInv, NEW w \in Workers, WorkerPosts(w)
  PROVE  IInv'
<1> USE DEF IInv
<1>1. TypeOK'
  BY DEF TypeOK, WorkerPosts, HandedBack, Threads, OneHandler, flags, loop, work, stop
<1>2. OneHandler'
  BY DEF OneHandler, TypeOK, WorkerPosts, HandedBack, Threads, OneHandler, flags,
     loop, work, stop
<1>3. PhaseInv'
  BY DEF PhaseInv, TypeOK, WorkerPosts, HandedBack, Threads, OneHandler, flags, loop,
     work, stop
<1>4. StopInv'
  BY DEF StopInv, WorkersDone, TypeOK, WorkerPosts, HandedBack, Threads, OneHandler,
     flags, loop, work, stop
<1>5. LateStopInv'
  BY DEF LateStopInv, StopInv, WorkersDone, TypeOK, WorkerPosts, HandedBack, Threads,
     OneHandler, flags, loop, work, stop
<1>6. QED
  BY <1>1, <1>2, <1>3, <1>4, <1>5

\* Running a posted answer keeps the invariant.
LEMMA RespondPostedInv ==
  ASSUME IInv, NEW t \in IoThreads, NEW r \in Requests, RespondPosted(t, r)
  PROVE  IInv'
<1> USE DEF IInv
<1>1. TypeOK'
  BY DEF TypeOK, RespondPosted, Written, Serves, Free, flags, loop, work, stop
<1>2. OneHandler'
  BY DEF OneHandler, TypeOK, RespondPosted, Written, Serves, Free, flags, loop, work,
     stop
<1>3. PhaseInv'
  BY DEF PhaseInv, TypeOK, RespondPosted, Written, Serves, Free, flags, loop, work,
     stop
<1>4. StopInv'
  BY DEF StopInv, WorkersDone, TypeOK, RespondPosted, Written, Serves, Free, flags,
     loop, work, stop
<1>5. LateStopInv'
  BY DEF LateStopInv, StopInv, WorkersDone, TypeOK, RespondPosted, Written, Serves,
     Free, flags, loop, work, stop
<1>6. QED
  BY <1>1, <1>2, <1>3, <1>4, <1>5

\* The first call of stop() keeps the invariant.
LEMMA StopBeginInv ==
  ASSUME IInv, NEW t \in Threads \cup {Outside}, StopBegin(t)
  PROVE  IInv'
<1> USE DEF IInv
<1>0. early' \in BOOLEAN
  <2>1. early' = (run_pc \in {"idle", "frozen", "pooled"})
    BY DEF StopBegin
  <2>2. CASE run_pc \in {"idle", "frozen", "pooled"}
    BY <2>1, <2>2
  <2>3. CASE run_pc \notin {"idle", "frozen", "pooled"}
    BY <2>1, <2>3
  <2>4. QED
    BY <2>2, <2>3
<1>1. TypeOK'
  BY <1>0 DEF TypeOK, StopBegin, flags, loop, work, stop
<1>2. OneHandler'
  BY DEF OneHandler, TypeOK, StopBegin, flags, loop, work, stop
<1>3. PhaseInv'
  BY DEF PhaseInv, TypeOK, StopBegin, flags, loop, work, stop
<1>4. StopInv'
  BY DEF StopInv, WorkersDone, TypeOK, StopBegin, flags, loop, work, stop
<1>5. LateStopInv'
  BY DEF LateStopInv, StopInv, WorkersDone, TypeOK, StopBegin, flags, loop, work, stop
<1>6. QED
  BY <1>1, <1>2, <1>3, <1>4, <1>5

\* Stopping the pool keeps the invariant.
LEMMA StopPoolInv ==
  ASSUME IInv, StopPool
  PROVE  IInv'
<1> USE DEF IInv
<1>1. TypeOK'
  BY DEF TypeOK, StopPool, flags, loop, work, stop
<1>2. OneHandler'
  BY DEF OneHandler, TypeOK, StopPool, flags, loop, work, stop
<1>3. PhaseInv'
  BY DEF PhaseInv, TypeOK, StopPool, flags, loop, work, stop
<1>4. StopInv'
  BY DEF StopInv, WorkersDone, TypeOK, StopPool, flags, loop, work, stop
<1>5. LateStopInv'
  BY DEF LateStopInv, StopInv, WorkersDone, TypeOK, StopPool, flags, loop, work, stop
<1>6. QED
  BY <1>1, <1>2, <1>3, <1>4, <1>5

\* Joining the workers keeps the invariant: none of them runs a handler.
LEMMA StopJoinsInv ==
  ASSUME IInv, StopJoins
  PROVE  IInv'
<1> USE DEF IInv
<1>1. TypeOK'
  BY DEF TypeOK, StopJoins, flags, loop, work, stop
<1>2. OneHandler'
  BY DEF OneHandler, TypeOK, StopJoins, flags, loop, work, stop
<1>3. PhaseInv'
  BY DEF PhaseInv, TypeOK, StopJoins, flags, loop, work, stop
<1>4. StopInv'
  BY DEF StopInv, WorkersDone, TypeOK, StopJoins, flags, loop, work, stop
<1>5. LateStopInv'
  BY DEF LateStopInv, StopInv, WorkersDone, TypeOK, StopJoins, flags, loop, work, stop
<1>6. QED
  BY <1>1, <1>2, <1>3, <1>4, <1>5

\* A stop() that throws keeps the invariant.
LEMMA StopJoinsItselfInv ==
  ASSUME IInv, StopJoinsItself
  PROVE  IInv'
<1> USE DEF IInv
<1>1. TypeOK'
  BY DEF TypeOK, StopJoinsItself, flags, loop, work, stop
<1>2. OneHandler'
  BY DEF OneHandler, TypeOK, StopJoinsItself, flags, loop, work, stop
<1>3. PhaseInv'
  BY DEF PhaseInv, TypeOK, StopJoinsItself, flags, loop, work, stop
<1>4. StopInv'
  BY DEF StopInv, WorkersDone, TypeOK, StopJoinsItself, flags, loop, work, stop
<1>5. LateStopInv'
  BY DEF LateStopInv, StopInv, WorkersDone, TypeOK, StopJoinsItself, flags, loop,
     work, stop
<1>6. QED
  BY <1>1, <1>2, <1>3, <1>4, <1>5

\* Stopping the transport keeps the invariant.
LEMMA StopTransportInv ==
  ASSUME IInv, StopTransport
  PROVE  IInv'
<1> USE DEF IInv
<1>1. TypeOK'
  BY DEF TypeOK, StopTransport, flags, loop, work, stop
<1>2. OneHandler'
  BY DEF OneHandler, TypeOK, StopTransport, flags, loop, work, stop
<1>3. PhaseInv'
  BY DEF PhaseInv, TypeOK, StopTransport, flags, loop, work, stop
<1>4. StopInv'
  BY DEF StopInv, WorkersDone, TypeOK, StopTransport, flags, loop, work, stop
<1>5. LateStopInv'
  BY DEF LateStopInv, StopInv, WorkersDone, TypeOK, StopTransport, flags, loop, work,
     stop
<1>6. QED
  BY <1>1, <1>2, <1>3, <1>4, <1>5

\* Stopping the loop keeps the invariant.
LEMMA StopLoopInv ==
  ASSUME IInv, StopLoop
  PROVE  IInv'
<1> USE DEF IInv
<1>1. TypeOK'
  BY DEF TypeOK, StopLoop, LoopStopped, flags, loop, work, stop
<1>2. OneHandler'
  BY DEF OneHandler, TypeOK, StopLoop, LoopStopped, flags, loop, work, stop
<1>3. PhaseInv'
  BY DEF PhaseInv, TypeOK, StopLoop, LoopStopped, flags, loop, work, stop
<1>4. StopInv'
  BY DEF StopInv, WorkersDone, TypeOK, StopLoop, LoopStopped, flags, loop, work, stop
<1>5. LateStopInv'
  BY DEF LateStopInv, StopInv, WorkersDone, TypeOK, StopLoop, LoopStopped, flags,
     loop, work, stop
<1>6. QED
  BY <1>1, <1>2, <1>3, <1>4, <1>5

\* Every step keeps the invariant.
LEMMA NextInv ==
  ASSUME IInv, [Next]_vars
  PROVE  IInv'
<1>1. CASE UNCHANGED vars
  BY <1>1 DEF vars, flags, loop, work, stop, IInv, TypeOK, OneHandler, PhaseInv,
     StopInv,
     LateStopInv, WorkersDone
<1>2. CASE Run
  BY <1>2, RunFreezeInv, RunStartPoolInv, RunStartTransportInv, RunStartFailsInv,
     RunReturnsInv DEF Run
<1>3. ASSUME NEW t \in IoThreads,
             \/ IoThreadLeaves(t) \/ IoLoopDies(t) \/ RespondInline(t)
             \/ \E r \in Requests : Message(t, r) \/ RespondPosted(t, r)
      PROVE  IInv'
  BY <1>3, LeavesLoopInv, RespondInlineInv, DeferredInv, InlineInv, RespondPostedInv
     DEF IoThreadLeaves, IoLoopDies, Message
<1>4. ASSUME NEW w \in Workers,
             WorkerPosts(w) \/ \E r \in Requests : WorkerTakes(w, r)
      PROVE  IInv'
  BY <1>4, WorkerPostsInv, WorkerTakesInv
<1>5. CASE StopContinues
  BY <1>5, StopPoolInv, StopJoinsInv, StopJoinsItselfInv, StopTransportInv,
     StopLoopInv
     DEF StopContinues
<1>6. QED
  BY <1>1, <1>2, <1>3, <1>4, <1>5, StopBeginInv DEF Next

\* The server's invariant holds in every behaviour.
THEOREM Invariance == Spec => []IInv
BY InitInv, NextInv, PTL DEF Spec

\* The server's state stays in its range.
THEOREM TypeCorrect == Spec => []TypeOK
<1>1. IInv => TypeOK
  BY DEF IInv
<1>2. QED
  BY <1>1, Invariance, PTL

\* A handler of the server always reads frozen registries.
THEOREM FrozenForHandlers == Spec => []HandlersSeeFrozen
<1>1. IInv => HandlersSeeFrozen
  BY DEF IInv, TypeOK, OneHandler, PhaseInv, HandlersSeeFrozen
<1>2. QED
  BY <1>1, Invariance, PTL

\* stop() of a server that was up joins the workers before it closes the
\* transport.
THEOREM JoinPrecedesClose == Spec => []JoinedBeforeClosed
<1>1. IInv => JoinedBeforeClosed
  BY DEF IInv, StopInv, LateStopInv, WorkersDone, JoinedBeforeClosed
<1>2. QED
  BY <1>1, Invariance, PTL

\* stop() of a server that was up leaves nothing running.
THEOREM ShutdownIsClean == Spec => []CleanShutdown
<1>1. IInv => CleanShutdown
  BY DEF IInv, StopInv, LateStopInv, CleanShutdown
<1>2. QED
  BY <1>1, Invariance, PTL

\* stop() takes the server down in an order no handler notices, and leaves
\* nothing running.
THEOREM ShutdownIsOrderly == Spec => []OrderlyShutdown
<1>1. HandlersSeeFrozen /\ JoinedBeforeClosed /\ CleanShutdown => OrderlyShutdown
  BY DEF OrderlyShutdown
<1>2. QED
  BY <1>1, FrozenForHandlers, JoinPrecedesClose, ShutdownIsClean, PTL

-----------------------------------------------------------------------------
(* The list cache: ListCache, for every set of lists and of threads and any  *)
(* number of changes.                                                        *)

\* What was invalidated is not ahead of the list, and a request's floor is not
\* ahead of what was invalidated.
CacheOrdered ==
  /\ \A k \in Lists : announced[k] <= items[k]
  /\ \A t \in Askers : floor[t] <= announced[request[t]]

\* Only a cacheable request is about to fill, and it has something to fill in.
CacheFillInv ==
  \A t \in Askers :
    list_pc[t] = "fill" => cacheable[t] /\ produced[t] # Cache!NoResult

\* Without an overlap, what is about to be cached is not older than the last
\* invalidation.
CachePendingFresh ==
  ~overlapped =>
    \A t \in Askers : list_pc[t] = "fill" => produced[t] >= announced[request[t]]

CacheInv ==
  /\ Cache!TypeOK /\ CacheOrdered /\ CacheFillInv /\ CachePendingFresh
  /\ Cache!StaleNeedsOverlap /\ Cache!UncachedIsFresh

\* Initially no list is cached, produced or answered.
LEMMA CacheInitInv ==
  ASSUME Cache!ListAssumption, Cache!Init
  PROVE  CacheInv
<1>1. 1 \in Cache!Versions
  BY DEF Cache!ListAssumption, Cache!Versions
<1>2. Cache!TypeOK
  BY <1>1 DEF Cache!Init, Cache!TypeOK
<1>3. CacheOrdered /\ CacheFillInv /\ CachePendingFresh
  BY DEF Cache!Init, CacheOrdered, CacheFillInv, CachePendingFresh
<1>4. Cache!StaleNeedsOverlap /\ Cache!UncachedIsFresh
  BY DEF Cache!Init, Cache!StaleNeedsOverlap, Cache!UncachedIsFresh,
     Cache!FreshAfterInvalidate, Cache!Fresh
<1>5. QED
  BY <1>2, <1>3, <1>4 DEF CacheInv

\* The lookup keeps the invariant: a hit answers with what is cached, which is
\* no older than the floor it sets.
LEMMA ListBeginInv ==
  ASSUME CacheInv, NEW t \in Askers, NEW k \in Lists, Cache!ListBegin(t, k)
  PROVE  CacheInv'
<1> USE DEF CacheInv
<1>1. Cache!TypeOK'
  BY DEF Cache!TypeOK, Cache!ListBegin, Cache!Cacheable
<1>2. CacheOrdered' /\ CacheFillInv' /\ CachePendingFresh'
  BY DEF Cache!TypeOK, Cache!ListBegin, CacheOrdered, CacheFillInv,
     CachePendingFresh, Cache!Versions
<1>3. Cache!StaleNeedsOverlap' /\ Cache!UncachedIsFresh'
  BY DEF Cache!TypeOK, Cache!ListBegin, Cache!StaleNeedsOverlap,
     Cache!UncachedIsFresh, Cache!FreshAfterInvalidate, Cache!Fresh,
     Cache!Versions
<1>4. QED
  BY <1>1, <1>2, <1>3

\* Running the list handler keeps the invariant: its result is the current
\* version.
LEMMA ListProduceInv ==
  ASSUME CacheInv, NEW t \in Askers, Cache!ListProduce(t)
  PROVE  CacheInv'
<1> USE DEF CacheInv
<1>1. Cache!TypeOK'
  BY DEF Cache!TypeOK, Cache!ListProduce
<1>2. CacheOrdered' /\ CacheFillInv'
  BY DEF Cache!TypeOK, Cache!ListProduce, CacheOrdered, CacheFillInv,
     Cache!MayFill, Cache!Versions, Cache!NoResult
<1>3. CachePendingFresh'
  BY DEF Cache!TypeOK, Cache!ListProduce, CacheOrdered, CachePendingFresh,
     Cache!Versions
<1>4. Cache!StaleNeedsOverlap' /\ Cache!UncachedIsFresh'
  BY DEF Cache!TypeOK, Cache!ListProduce, Cache!StaleNeedsOverlap,
     Cache!UncachedIsFresh, Cache!FreshAfterInvalidate, Cache!Fresh, CacheOrdered,
     Cache!MayFill, Cache!Versions
<1>5. QED
  BY <1>1, <1>2, <1>3, <1>4

\* A list handler that throws keeps the invariant: nothing is answered or cached.
LEMMA ListThrowsInv ==
  ASSUME CacheInv, NEW t \in Askers, Cache!ListThrows(t)
  PROVE  CacheInv'
<1>1. Cache!TypeOK' /\ CacheOrdered'
  BY DEF CacheInv, Cache!TypeOK, Cache!ListThrows, CacheOrdered
<1>2. CacheFillInv' /\ CachePendingFresh'
  BY DEF CacheInv, Cache!TypeOK, Cache!ListThrows, CacheFillInv, CachePendingFresh
<1>3. Cache!StaleNeedsOverlap' /\ Cache!UncachedIsFresh'
  BY DEF CacheInv, Cache!TypeOK, Cache!ListThrows, Cache!StaleNeedsOverlap,
     Cache!UncachedIsFresh, Cache!FreshAfterInvalidate, Cache!Fresh
<1>4. QED
  BY <1>1, <1>2, <1>3 DEF CacheInv

\* Filling the cache keeps the invariant.
LEMMA ListFillInv ==
  ASSUME CacheInv, NEW t \in Askers, Cache!ListFill(t)
  PROVE  CacheInv'
<1> USE DEF CacheInv
<1>1. Cache!TypeOK'
  BY DEF Cache!TypeOK, Cache!ListFill
<1>2. CacheOrdered' /\ CacheFillInv' /\ CachePendingFresh'
  BY DEF Cache!TypeOK, Cache!ListFill, CacheOrdered, CacheFillInv, CachePendingFresh
<1>3. Cache!StaleNeedsOverlap' /\ Cache!UncachedIsFresh'
  BY DEF Cache!TypeOK, Cache!ListFill, Cache!StaleNeedsOverlap,
     Cache!UncachedIsFresh, Cache!FreshAfterInvalidate, Cache!Fresh, CacheOrdered,
     CacheFillInv, CachePendingFresh, Cache!Versions
<1>4. QED
  BY <1>1, <1>2, <1>3

\* A change of a list keeps the invariant.
LEMMA ListChangeInv ==
  ASSUME Cache!ListAssumption, CacheInv, NEW k \in Lists, Cache!Change(k)
  PROVE  CacheInv'
<1> USE DEF CacheInv
<1>1. Cache!TypeOK'
  BY DEF Cache!ListAssumption, Cache!TypeOK, Cache!Change, Cache!Versions
<1>2. CacheOrdered'
  BY DEF Cache!TypeOK, Cache!Change, CacheOrdered, Cache!Versions
<1>3. /\ CacheFillInv' /\ CachePendingFresh'
     /\ Cache!StaleNeedsOverlap' /\ Cache!UncachedIsFresh'
  BY DEF Cache!Change, CacheFillInv, CachePendingFresh, Cache!StaleNeedsOverlap,
     Cache!UncachedIsFresh, Cache!FreshAfterInvalidate, Cache!Fresh
<1>4. QED
  BY <1>1, <1>2, <1>3

\* Invalidation keeps the invariant: it empties the cache, and what is about to
\* be cached is current unless it overlaps.
LEMMA InvalidateListCacheInv ==
  ASSUME CacheInv, Cache!InvalidateListCache
  PROVE  CacheInv'
<1> USE DEF CacheInv
<1>1. Cache!TypeOK'
  BY DEF Cache!TypeOK, Cache!InvalidateListCache, Cache!Cleared
<1>2. CacheOrdered'
  BY DEF Cache!TypeOK, Cache!InvalidateListCache, CacheOrdered, Cache!Versions
<1>3. CacheFillInv' /\ Cache!UncachedIsFresh'
  BY DEF Cache!InvalidateListCache, CacheFillInv, Cache!UncachedIsFresh, Cache!Fresh
<1>4. CachePendingFresh'
  <2>1. SUFFICES ASSUME ~overlapped', NEW t \in Askers, list_pc[t] = "fill"
                 PROVE  produced[t] >= items[request[t]]
    BY DEF Cache!InvalidateListCache, CachePendingFresh
  <2>2. ~(produced[t] < items[request[t]])
    BY <2>1, Zenon DEF Cache!InvalidateListCache
  <2>3. produced[t] \in Nat /\ items[request[t]] \in Nat
    BY DEF Cache!TypeOK, Cache!Versions, Cache!NoResult
  <2>4. QED
    BY <2>2, <2>3
<1>5. Cache!StaleNeedsOverlap'
  BY DEF Cache!InvalidateListCache, Cache!Cleared, Cache!StaleNeedsOverlap,
     Cache!FreshAfterInvalidate, Cache!Fresh
<1>6. QED
  BY <1>1, <1>2, <1>3, <1>4, <1>5

\* Every step of the cache and the application keeps the invariant.
LEMMA CacheNextInv ==
  ASSUME Cache!ListAssumption, CacheInv, [Cache!Next]_(Cache!vars)
  PROVE  CacheInv'
<1>1. CASE Cache!SetListPageSize \/ Cache!Freeze \/ UNCHANGED Cache!vars
  BY <1>1 DEF Cache!SetListPageSize, Cache!Freeze, Cache!vars, CacheInv,
     Cache!TypeOK, CacheOrdered, CacheFillInv, CachePendingFresh,
     Cache!StaleNeedsOverlap, Cache!UncachedIsFresh, Cache!FreshAfterInvalidate,
     Cache!Fresh
<1>2. QED
  BY <1>1, ListBeginInv, ListProduceInv, ListThrowsInv, ListFillInv, ListChangeInv,
     InvalidateListCacheInv DEF Cache!Next

\* The list cache's invariant holds in every behaviour.
THEOREM CacheInvariance ==
  ASSUME Cache!ListAssumption
  PROVE  Cache!Spec => []CacheInv
BY CacheInitInv, CacheNextInv, PTL DEF Cache!Spec

-----------------------------------------------------------------------------
(* The pages of a list: Pagination, for every width of std::size_t, every    *)
(* page size, every cursor and lists of any length.                          *)

\* Where a walk is: its cursor is behind what was got, and it holds a cursor only
\* while the server paginates.
WalkInv ==
  ~unpaged /\ stage \in {"idle", "asked"} =>
    /\ Pages!Offset(cursor) = Pages!Offset(start) + Len(got)
    /\ cursor = <<>> => start = <<>> /\ got = <<>>
    /\ cursor # <<>> => page_size > 0
    /\ got # <<>> => Pages!Offset(cursor) <= length

\* What a request inside handle_list_request was let through with.
AskedInv ==
  stage = "asked" =>
    /\ paginated => ~Pages!BadCursor(cursor) /\ (~unpaged => page_size > 0)
    /\ ~paginated /\ ~unpaged => cursor = <<>>

\* The inductive invariant of the pages.
PagesInv == Pages!WalkInOrder /\ WalkInv /\ AskedInv

\* The bounds of a page: they are wrong only if the sum wraps.
LEMMA PageBounds ==
  ASSUME Pages!PaginationAssumption,
         NEW o \in 0..(SizeLimit - 1), NEW s \in 0..(SizeLimit - 1), NEW n \in Nat
  PROVE  /\ Pages!First(o, n) \in 0..n /\ Pages!End(o, s, n) \in 0..n
         /\ Pages!First(o, n) > Pages!End(o, s, n) => o + s >= SizeLimit
         /\ Pages!First(o, n) <= Pages!End(o, s, n) =>
              /\ Pages!End(o, s, n) - Pages!First(o, n) <= s
              /\ Pages!First(o, n) = IF o <= n THEN o ELSE n
              /\ Pages!End(o, s, n) < n =>
                   Pages!First(o, n) = o /\ Pages!End(o, s, n) = o + s
BY DEF Pages!PaginationAssumption, Pages!First, Pages!End, Pages!Least, Pages!Plus

\* The items of a page.
LEMMA SliceItems ==
  ASSUME NEW n \in Nat, NEW a \in 0..n, NEW b \in 0..n, a <= b
  PROVE  /\ Pages!Slice(a, b) \in Seq(1..n) /\ Len(Pages!Slice(a, b)) = b - a
         /\ \A i \in 1..(b - a) : Pages!Slice(a, b)[i] = a + i /\ a + i \in 1..n
<1>1. b - a \in Nat
  OBVIOUS
<1>2. \A i \in 1..(b - a) : a + i \in 1..n
  OBVIOUS
<1>3. QED
  BY <1>1, <1>2 DEF Pages!Slice

\* What the client has got after a page.
LEMMA TakenItems ==
  ASSUME Pages!PaginationAssumption,
         Pages!TypeOK, NEW a \in 0..length, NEW b \in 0..length, a <= b
  PROVE  /\ got \o Pages!Slice(a, b) \in Seq(1..MaxItems)
         /\ Len(got \o Pages!Slice(a, b)) = Len(got) + (b - a)
         /\ Len(got) \in Nat
         /\ \A i \in 1..Len(got) : (got \o Pages!Slice(a, b))[i] = got[i]
         /\ \A i \in 1..(b - a) : (got \o Pages!Slice(a, b))[Len(got) + i] = a + i
         /\ \A i \in (Len(got) + 1)..(Len(got) + (b - a)) :
              (got \o Pages!Slice(a, b))[i] = a + (i - Len(got))
<1>1. length \in Nat /\ length <= MaxItems /\ MaxItems \in Nat
  BY DEF Pages!PaginationAssumption, Pages!TypeOK
<1>2. a \in 0..MaxItems /\ b \in 0..MaxItems
  BY <1>1
<1> DEFINE page == Pages!Slice(a, b)
<1>3. /\ page \in Seq(1..MaxItems) /\ Len(page) = b - a
      /\ \A i \in 1..(b - a) : page[i] = a + i
      /\ got \in Seq(1..MaxItems)
  <2>1. /\ page \in Seq(1..MaxItems) /\ Len(page) = b - a
        /\ \A i \in 1..(b - a) : page[i] = a + i
    BY <1>1, <1>2, SliceItems
  <2>2. got \in Seq(1..MaxItems)
    BY DEF Pages!TypeOK
  <2>3. QED
    BY <2>1, <2>2
<1> HIDE DEF page
<1>4. /\ got \o page \in Seq(1..MaxItems)
      /\ Len(got \o page) = Len(got) + (b - a)
      /\ Len(got) \in Nat
      /\ \A i \in 1..Len(got) : (got \o page)[i] = got[i]
  <2>1. got \o page \in Seq(1..MaxItems)
    BY <1>3
  <2>2. Len(got) \in Nat /\ Len(got \o page) = Len(got) + (b - a)
    <3>1. got \in Seq(1..MaxItems) /\ page \in Seq(1..MaxItems) /\ Len(page) = b - a
      BY <1>3
    <3>2. Len(got \o page) = Len(got) + Len(page)
      BY <3>1
    <3>3. QED
      BY <3>1, <3>2
  <2>3. \A i \in 1..Len(got) : (got \o page)[i] = got[i]
    BY <1>3
  <2>4. QED
    BY <2>1, <2>2, <2>3
<1>5. ASSUME NEW i \in 1..(b - a)
      PROVE  (got \o page)[Len(got) + i] = a + i
  BY <1>3, <1>4
<1>6. ASSUME NEW i \in (Len(got) + 1)..(Len(got) + (b - a))
      PROVE  (got \o page)[i] = a + (i - Len(got))
  <2>1. i - Len(got) \in 1..(b - a) /\ i = Len(got) + (i - Len(got))
    BY <1>4
  <2>2. QED
    BY <1>5, <2>1
<1>7. QED
  BY <1>4, <1>5, <1>6 DEF page

\* A server with an empty list and a client that asked for nothing satisfy the invariant.
LEMMA PagesInitInv ==
  ASSUME Pages!PaginationAssumption
  PROVE  Pages!Init => PagesInv
<1>1. SUFFICES ASSUME Pages!Init PROVE PagesInv
  OBVIOUS
<1>2. Pages!TypeOK
  <2>1. /\ 0 \in 0..MaxItems /\ 0 \in PageSizes
        /\ <<>> \in Seq(1..MaxItems) /\ <<>> \in Pages!Cursors
    BY DEF Pages!PaginationAssumption, Pages!Cursors
  <2>2. QED
    BY <1>1, <2>1 DEF Pages!Init, Pages!TypeOK
<1>3. QED
  BY <1>1, <1>2 DEF Pages!Init, PagesInv, Pages!WalkInOrder, WalkInv, AskedInv,
     Pages!Offset

\* The start of a walk keeps the invariant.
LEMMA StartWalkInv ==
  ASSUME Pages!PaginationAssumption,
         PagesInv, NEW c \in Pages!Cursors, Pages!StartWalk(c)
  PROVE  PagesInv'
<1>1. Pages!TypeOK'
  BY DEF PagesInv, Pages!WalkInOrder, Pages!TypeOK, Pages!StartWalk, Pages!server
<1>2. /\ stage' = "idle" /\ start' = c /\ cursor' = c /\ got' = <<>>
      /\ unpaged' = (page_size = 0 /\ c # <<>>) /\ page_size' = page_size
  BY DEF Pages!StartWalk, Pages!server
<1>3. page_size \in Nat /\ Pages!Offset(c) \in Int
  BY DEF Pages!PaginationAssumption, PagesInv, Pages!WalkInOrder, Pages!TypeOK,
     Pages!Offset, Pages!Cursors
<1>4. Pages!WalkInOrder'
  BY <1>1, <1>2 DEF Pages!WalkInOrder
<1>5. WalkInv'
  <2>1. SUFFICES ASSUME ~unpaged'
                 PROVE  /\ Pages!Offset(c) = Pages!Offset(c) + Len(<<>>)
                        /\ c # <<>> => page_size > 0
    BY <1>2 DEF WalkInv
  <2>2. c # <<>> => page_size # 0
    BY <1>2, <2>1
  <2>3. QED
    BY <1>3, <2>2
<1>6. AskedInv'
  BY <1>2 DEF AskedInv
<1>7. QED
  BY <1>4, <1>5, <1>6 DEF PagesInv

\* The beginning of a request keeps the invariant.
LEMMA ListRequestInv ==
  ASSUME Pages!PaginationAssumption,
         PagesInv, Pages!ListRequest
  PROVE  PagesInv'
<1>1. UNCHANGED <<length, page_size, start, cursor, got, total, unpaged>>
  BY DEF Pages!ListRequest, Pages!server
<1>2. Pages!TypeOK'
  BY <1>1 DEF PagesInv, Pages!WalkInOrder, Pages!TypeOK, Pages!ListRequest
<1>3. page_size \in Nat
  BY DEF Pages!PaginationAssumption, PagesInv, Pages!WalkInOrder, Pages!TypeOK
<1>4. Pages!WalkInOrder'
  BY <1>1, <1>2 DEF PagesInv, Pages!WalkInOrder, Pages!ListRequest, Pages!Offset
<1>5. WalkInv'
  BY <1>1 DEF PagesInv, WalkInv, Pages!ListRequest, Pages!Offset
<1>6. AskedInv'
  <2>1. SUFFICES ASSUME stage' = "asked"
                 PROVE  /\ paginated' => ~Pages!BadCursor(cursor) /\ page_size > 0
                        /\ ~paginated' /\ ~unpaged => cursor = <<>>
    BY <1>1 DEF AskedInv
  <2>2. /\ paginated' <=> page_size > 0
        /\ page_size > 0 => ~Pages!BadCursor(cursor)
    BY <2>1 DEF Pages!ListRequest
  <2>3. ~unpaged /\ cursor # <<>> => page_size > 0
    BY DEF PagesInv, WalkInv, Pages!ListRequest
  <2>4. QED
    BY <2>2, <2>3
<1>7. QED
  BY <1>4, <1>5, <1>6 DEF PagesInv

\* An item that the application adds between two pages keeps the invariant.
LEMMA GrowInv ==
  ASSUME Pages!PaginationAssumption,
         PagesInv, Pages!Grow
  PROVE  PagesInv'
<1>1. /\ UNCHANGED <<page_size, stage, start, cursor, paginated, got, total, unpaged>>
      /\ length' = length + 1 /\ length < MaxItems
  BY DEF Pages!Grow
<1>2. length \in Nat /\ MaxItems \in Nat /\ Pages!Offset(cursor) \in Int
  BY DEF Pages!PaginationAssumption, PagesInv, Pages!WalkInOrder, Pages!TypeOK,
     Pages!Offset, Pages!Cursors
<1>3. Pages!TypeOK'
  BY <1>1, <1>2 DEF PagesInv, Pages!WalkInOrder, Pages!TypeOK
<1>4. Pages!WalkInOrder'
  BY <1>1, <1>3 DEF PagesInv, Pages!WalkInOrder, Pages!Offset
<1>5. WalkInv'
  <2>1. /\ Pages!Offset(cursor') = Pages!Offset(cursor)
        /\ Pages!Offset(start') = Pages!Offset(start)
    BY <1>1 DEF Pages!Offset
  <2>2. Pages!Offset(cursor) <= length => Pages!Offset(cursor) <= length'
    BY <1>1, <1>2
  <2>3. QED
    BY <1>1, <2>1, <2>2 DEF PagesInv, WalkInv
<1>6. AskedInv'
  BY <1>1 DEF PagesInv, AskedInv, Pages!BadCursor
<1>7. QED
  BY <1>4, <1>5, <1>6 DEF PagesInv

\* set_list_page_size keeps the invariant, in the middle of a request too.
LEMMA SetListPageSizeInv ==
  ASSUME Pages!PaginationAssumption,
         PagesInv, NEW n \in PageSizes, Pages!SetListPageSize(n)
  PROVE  PagesInv'
<1>1. /\ UNCHANGED <<length, stage, start, cursor, paginated, got, total>>
      /\ page_size' = n /\ n \in Nat
      /\ ~unpaged' => ~unpaged
      /\ ~unpaged' => n > 0 \/ (cursor = <<>> /\ ~(stage = "asked" /\ paginated))
  BY DEF Pages!PaginationAssumption, Pages!SetListPageSize
<1>2. Pages!TypeOK'
  BY <1>1 DEF PagesInv, Pages!WalkInOrder, Pages!TypeOK, Pages!SetListPageSize
<1>3. Pages!WalkInOrder'
  BY <1>1, <1>2 DEF PagesInv, Pages!WalkInOrder, Pages!Offset
<1>4. WalkInv'
  BY <1>1 DEF PagesInv, WalkInv, Pages!Offset
<1>5. AskedInv'
  BY <1>1 DEF PagesInv, AskedInv, Pages!BadCursor
<1>6. QED
  BY <1>3, <1>4, <1>5 DEF PagesInv

\* The answer keeps the invariant: a page begins where the last one ended.
LEMMA ListAnswerInv ==
  ASSUME Pages!PaginationAssumption,
         PagesInv, Pages!ListAnswer
  PROVE  PagesInv' /\ Pages!PageStep
<1> DEFINE o == Pages!Offset(cursor)
           first == Pages!First(o, length)
           end == Pages!End(o, page_size, length)
<1>1. /\ stage = "asked" /\ Pages!TypeOK
      /\ UNCHANGED <<length, page_size, start, paginated, unpaged>>
  BY DEF Pages!ListAnswer, PagesInv, Pages!WalkInOrder, Pages!server
<1>2. /\ length \in Nat /\ page_size \in 0..(SizeLimit - 1) /\ SizeLimit \in Nat
      /\ Pages!Offset(start) \in Int /\ o \in Int /\ Len(got) \in Nat
      /\ paginated \in BOOLEAN /\ unpaged \in BOOLEAN
  <2>1. /\ length \in Nat /\ page_size \in 0..(SizeLimit - 1) /\ SizeLimit \in Nat
        /\ paginated \in BOOLEAN /\ unpaged \in BOOLEAN
    BY <1>1 DEF Pages!PaginationAssumption, Pages!TypeOK
  <2>2. Len(got) \in Nat
    BY <1>1 DEF Pages!TypeOK
  <2>3. Pages!Offset(start) \in Int /\ o \in Int
    <3>1. Numbers \subseteq Int
      BY DEF Pages!PaginationAssumption
    <3>2. ASSUME NEW c \in Pages!Cursors \cup {<<n>> : n \in 0..MaxItems}
          PROVE  Pages!Offset(c) \in Int
      BY <3>1 DEF Pages!Offset, Pages!Cursors
    <3>3. QED
      BY <1>1, <3>2 DEF Pages!TypeOK
  <2>4. QED
    BY <2>1, <2>2, <2>3
<1>3. paginated => o \in 0..(SizeLimit - 1)
  BY <1>1, <1>2 DEF Pages!PaginationAssumption, PagesInv, AskedInv,
     Pages!BadCursor, Pages!Offset
<1>4. ASSUME paginated PROVE first \in 0..length /\ end \in 0..length
  BY <1>2, <1>3, <1>4, PageBounds
<1>5. CASE ~paginated
  <2>1. /\ got' = got \o Pages!Slice(0, length) /\ cursor' = <<>> /\ stage' = "done"
        /\ total' = length
    BY <1>5 DEF Pages!ListAnswer, Pages!Take
  <2>2. /\ got \o Pages!Slice(0, length) \in Seq(1..MaxItems)
        /\ Len(got \o Pages!Slice(0, length)) = Len(got) + length
        /\ \A i \in (Len(got) + 1)..(Len(got) + length) :
              (got \o Pages!Slice(0, length))[i] = i - Len(got)
    <3>1. 0 \in 0..length /\ length \in 0..length /\ 0 <= length /\ length - 0 = length
      BY <1>2
    <3>2. ASSUME NEW i \in Int PROVE 0 + (i - Len(got)) = i - Len(got)
      BY <1>2
    <3>3. /\ got \o Pages!Slice(0, length) \in Seq(1..MaxItems)
          /\ Len(got \o Pages!Slice(0, length)) = Len(got) + (length - 0)
          /\ \A i \in (Len(got) + 1)..(Len(got) + (length - 0)) :
                (got \o Pages!Slice(0, length))[i] = 0 + (i - Len(got))
      BY <1>1, <3>1, TakenItems
    <3>4. QED
      BY <1>2, <3>1, <3>2, <3>3
  <2>3. Pages!TypeOK'
    <3>1. got' \in Seq(1..MaxItems)
      BY <2>1, <2>2
    <3>2. QED
      BY <1>1, <2>1, <3>1 DEF Pages!TypeOK, Pages!Cursors
  <2>4. Pages!WalkInOrder'
    <3>1. SUFFICES ASSUME ~unpaged
                   PROVE  /\ \A i \in 1..Len(got') : got'[i] = Pages!Offset(start) + i
                          /\ Len(got') = IF Pages!Offset(start) < length
                                         THEN length - Pages!Offset(start) ELSE 0
      BY <1>1, <2>1, <2>3 DEF Pages!WalkInOrder, Pages!Offset
    <3>2. cursor = <<>> /\ start = <<>> /\ got = <<>> /\ Pages!Offset(start) = 0
      BY <1>1, <1>5, <3>1 DEF PagesInv, AskedInv, WalkInv, Pages!Offset
    <3>3. Len(got) = 0
      BY <3>2
    <3>4. Len(got') = length
      BY <1>2, <2>1, <2>2, <3>3
    <3>5. ASSUME NEW i \in 1..length PROVE got'[i] = i
      BY <1>2, <2>1, <2>2, <3>3, <3>5
    <3>6. QED
      BY <1>2, <3>2, <3>4, <3>5
  <2>5. WalkInv' /\ AskedInv'
    BY <2>1 DEF WalkInv, AskedInv
  <2>6. Pages!PageStep
    <3>1. ASSUME NEW i \in (Len(got) + 1)..Len(got') PROVE got'[i] \in 1..length
      BY <1>2, <2>1, <2>2, <3>1
    <3>2. QED
      BY <1>5, <2>1, <3>1 DEF Pages!PageStep
  <2>7. QED
    BY <2>4, <2>5, <2>6 DEF PagesInv
<1>6. CASE paginated /\ first > end
  <2>1. stage' = "failed" /\ UNCHANGED <<got, cursor, total>>
    <3>1. ~(first <= end)
      BY <1>2, <1>6, <1>4
    <3>2. QED
      BY <1>6, <3>1 DEF Pages!ListAnswer, Pages!Take
  <2>2. Pages!TypeOK'
    BY <1>1, <2>1 DEF Pages!TypeOK
  <2>3. Pages!WalkInOrder' /\ WalkInv' /\ AskedInv'
    BY <1>1, <2>1, <2>2 DEF PagesInv, Pages!WalkInOrder, WalkInv, AskedInv,
       Pages!Offset
  <2>4. o + page_size >= SizeLimit
    BY <1>2, <1>3, <1>6, PageBounds
  <2>5. QED
    BY <2>1, <2>3, <2>4 DEF PagesInv, Pages!PageStep
<1>7. CASE paginated /\ first <= end
  <2>1. /\ got' = got \o Pages!Slice(first, end)
        /\ cursor' = Pages!NextCursor(end, length)
        /\ stage' = IF Pages!NextCursor(end, length) = <<>> THEN "done" ELSE "idle"
        /\ total' = length
    <3>1. ~(first > end)
      BY <1>2, <1>7, <1>4
    <3>2. QED
      BY <1>7, <3>1 DEF Pages!ListAnswer, Pages!Take
  <2>2. /\ first \in 0..length /\ end \in 0..length /\ end - first <= page_size
        /\ first = IF o <= length THEN o ELSE length
        /\ end < length => first = o /\ end = o + page_size
    BY <1>2, <1>3, <1>7, PageBounds
  <2> HIDE DEF first, end, o
  <2>3. /\ got' \in Seq(1..MaxItems) /\ Len(got') = Len(got) + (end - first)
        /\ \A i \in 1..Len(got) : got'[i] = got[i]
        /\ \A i \in (Len(got) + 1)..Len(got') : got'[i] = first + (i - Len(got))
    <3> DEFINE taken == got \o Pages!Slice(first, end)
    <3>1. /\ taken \in Seq(1..MaxItems) /\ Len(taken) = Len(got) + (end - first)
          /\ \A i \in 1..Len(got) : taken[i] = got[i]
          /\ \A i \in (Len(got) + 1)..(Len(got) + (end - first)) :
               taken[i] = first + (i - Len(got))
      BY <1>1, <1>7, <2>2, TakenItems
    <3> HIDE DEF taken
    <3>2. got' = taken
      BY <2>1 DEF taken
    <3>3. QED
      BY <3>1, <3>2
  <2>4. IF end < length THEN stage' = "idle" /\ cursor' = <<end>>
                        ELSE stage' = "done" /\ cursor' = <<>>
    BY <2>1 DEF Pages!NextCursor
  <2>5. Pages!TypeOK'
    <3>1. cursor' \in Pages!Cursors \cup {<<n>> : n \in 0..MaxItems}
      <4>1. end \in 0..MaxItems
        BY <1>1, <2>2 DEF Pages!PaginationAssumption, Pages!TypeOK
      <4>2. QED
        BY <2>4, <4>1 DEF Pages!Cursors
    <3>2. QED
      BY <1>1, <2>1, <2>3, <2>4, <3>1 DEF Pages!TypeOK
  <2>6. ASSUME ~unpaged
        PROVE  /\ o = Pages!Offset(start) + Len(got) /\ page_size > 0
               /\ got # <<>> => o <= length
               /\ \A i \in 1..Len(got) : got[i] = Pages!Offset(start) + i
    BY <1>1, <1>7, <2>6 DEF PagesInv, WalkInv, AskedInv, Pages!WalkInOrder, o
  <2>7. ASSUME ~unpaged, NEW i \in 1..Len(got')
        PROVE  got'[i] = Pages!Offset(start) + i
    <3>1. CASE i \in 1..Len(got)
      BY <2>3, <2>6, <2>7, <3>1
    <3>2. CASE i \notin 1..Len(got)
      <4>1. i \in (Len(got) + 1)..Len(got') /\ first < end /\ i \in Int
        BY <1>2, <1>7, <2>2, <2>3, <2>7, <3>2
      <4>2. first = o
        BY <1>2, <2>2, <4>1
      <4>3. got'[i] = first + (i - Len(got))
        BY <2>3, <4>1
      <4>4. QED
        BY <1>2, <2>6, <2>7, <4>1, <4>2, <4>3
    <3>3. QED
      BY <3>1, <3>2
  <2>8. ASSUME ~unpaged, end >= length
        PROVE  Len(got') = IF Pages!Offset(start) < length
                           THEN length - Pages!Offset(start) ELSE 0
    <3>1. end = length
      BY <1>2, <2>2, <2>8
    <3>2. CASE o <= length
      <4>1. /\ Len(got') = Len(got) + (length - o)
            /\ o = Pages!Offset(start) + Len(got)
        BY <2>2, <2>3, <2>6, <2>8, <3>1, <3>2
      <4>2. QED
        BY <1>2, <3>2, <4>1
    <3>3. CASE ~(o <= length)
      <4>1. got = <<>> /\ Len(got) = 0
        BY <2>6, <2>8, <3>3
      <4>2. QED
        BY <1>2, <2>2, <2>3, <2>6, <2>8, <3>1, <3>3, <4>1
    <3>4. QED
      BY <3>2, <3>3
  <2>9. Pages!WalkInOrder'
    <3>1. /\ Pages!Offset(start') = Pages!Offset(start)
          /\ unpaged' = unpaged /\ total' = length
      BY <1>1, <2>1 DEF Pages!Offset
    <3>2. stage' = "done" => end >= length
      BY <1>2, <2>2, <2>4
    <3>3. QED
      BY <2>5, <2>7, <2>8, <3>1, <3>2 DEF Pages!WalkInOrder
  <2>10. WalkInv'
    <3>1. SUFFICES ASSUME ~unpaged, stage' = "idle"
                   PROVE  /\ Pages!Offset(cursor') = Pages!Offset(start) + Len(got')
                          /\ cursor' # <<>> /\ page_size > 0
                          /\ Pages!Offset(cursor') <= length
      BY <1>1, <2>4 DEF WalkInv, Pages!Offset
    <3>2. end < length /\ cursor' = <<end>> /\ Pages!Offset(cursor') = end
      BY <2>4, <3>1 DEF Pages!Offset
    <3>3. first = o
      BY <2>2, <3>2
    <3>4. QED
      BY <1>2, <2>2, <2>3, <2>6, <3>1, <3>2, <3>3
  <2>11. AskedInv'
    BY <2>4 DEF AskedInv
  <2>12. Pages!PageStep
    <3>1. ASSUME NEW i \in (Len(got) + 1)..Len(got') PROVE got'[i] \in 1..length
      <4>1. got'[i] = first + (i - Len(got))
        BY <2>3, <3>1
      <4>2. QED
        BY <1>2, <2>2, <2>3, <3>1, <4>1
    <3>2. Len(got') - Len(got) <= page_size
      BY <1>2, <2>2, <2>3
    <3>3. ASSUME stage' = "idle"
          PROVE  /\ Pages!Offset(cursor') \in o..(length - 1)
                 /\ page_size > 0 => Pages!Offset(cursor') > o
      <4>1. end < length /\ Pages!Offset(cursor') = end
        BY <2>4, <3>3 DEF Pages!Offset
      <4>2. QED
        BY <1>2, <2>2, <4>1
    <3>4. stage' # "failed"
      BY <2>4
    <3>5. QED
      BY <3>1, <3>2, <3>3, <3>4 DEF Pages!PageStep, o
  <2>13. QED
    BY <2>9, <2>10, <2>11, <2>12 DEF PagesInv
<1>8. paginated => first <= end \/ first > end
  BY <1>2, <1>4
<1>9. QED
  BY <1>2, <1>5, <1>6, <1>7, <1>8

\* Every step of the server, its application and the client keeps the invariant.
LEMMA PagesNextInv ==
  ASSUME Pages!PaginationAssumption,
         PagesInv, [Pages!Next]_(Pages!vars)
  PROVE  PagesInv'
<1>1. CASE UNCHANGED Pages!vars
  BY <1>1 DEF Pages!vars, Pages!server, PagesInv, Pages!WalkInOrder, Pages!TypeOK,
     WalkInv, AskedInv, Pages!Offset, Pages!BadCursor
<1>2. QED
  BY <1>1, StartWalkInv, ListRequestInv, ListAnswerInv, GrowInv, SetListPageSizeInv
     DEF Pages!Next

\* The invariant of the pages holds in every behaviour.
THEOREM PagesInvariance ==
  ASSUME Pages!PaginationAssumption
  PROVE  Pages!Spec => []PagesInv
BY PagesInitInv, PagesNextInv, PTL DEF Pages!Spec

\* A step of the pages that keeps to the invariant is what PageInRange allows.
LEMMA PageSteps ==
  ASSUME Pages!PaginationAssumption, PagesInv, [Pages!Next]_(Pages!vars)
  PROVE  [Pages!PageStep]_(Pages!vars)
<1>1. CASE \E c \in Pages!Cursors : Pages!StartWalk(c)
  BY <1>1 DEF Pages!StartWalk, Pages!PageStep
<1>2. CASE Pages!ListRequest
  BY <1>2 DEF Pages!ListRequest, Pages!PageStep
<1>3. CASE Pages!Grow \/ \E n \in PageSizes : Pages!SetListPageSize(n)
  BY <1>3 DEF Pages!Grow, Pages!SetListPageSize, Pages!PageStep
<1>4. QED
  BY <1>1, <1>2, <1>3, ListAnswerInv DEF Pages!Next

-----------------------------------------------------------------------------
(* Both halves of handle_list_request: each is a system of its own, and a    *)
(* step of one leaves the other alone.                                       *)

\* A behaviour of ListRequests is one of the cache and one of the pages.
LEMMA HalvesImplemented == ListsSpec => Cache!Spec /\ Pages!Spec
<1>1. ListsInit => Cache!Init /\ Pages!Init
  BY DEF ListsInit
<1>2. ASSUME [ListsNext]_listvars
      PROVE  [Cache!Next]_(Cache!vars) /\ [Pages!Next]_(Pages!vars)
  <2>1. UNCHANGED cachevars => UNCHANGED Cache!vars
    BY DEF cachevars, Cache!vars
  <2>2. UNCHANGED pagevars => UNCHANGED Pages!vars
    BY DEF pagevars, Pages!vars, Pages!server
  <2>3. CASE UNCHANGED listvars
    BY <2>1, <2>2, <2>3 DEF listvars
  <2>4. CASE ListsNext
    BY <2>1, <2>2, <2>4 DEF ListsNext
  <2>5. QED
    BY <1>2, <2>3, <2>4
<1>3. QED
  BY <1>1, <1>2, PTL DEF ListsSpec, Cache!Spec, Pages!Spec

\* The invariants of both halves hold in every behaviour.
THEOREM ListsInvariance == ListsSpec => [](CacheInv /\ PagesInv)
<1>1. Cache!ListAssumption /\ Pages!PaginationAssumption
  BY ListRequestsAssumption
<1>2. Cache!Spec => []CacheInv
  BY <1>1, CacheInvariance
<1>3. Pages!Spec => []PagesInv
  BY <1>1, PagesInvariance
<1>4. QED
  BY <1>2, <1>3, HalvesImplemented, PTL

\* The variables of handle_list_request's cache and pages, and of the client that
\* asks for pages, stay in their ranges.
THEOREM ListsTypeCorrect == ListsSpec => [](Cache!TypeOK /\ Pages!TypeOK)
<1>1. CacheInv /\ PagesInv => Cache!TypeOK /\ Pages!TypeOK
  BY DEF CacheInv, PagesInv, Pages!WalkInOrder
<1>2. QED
  BY <1>1, ListsInvariance, PTL

\* A list request gets something older than the last invalidation before it only
\* from a cache that was filled across an invalidation.
THEOREM ListsStayFresh == ListsSpec => []ListsFresh
<1>1. CacheInv => ListsFresh
  BY DEF CacheInv, ListsFresh, Cache!ListsFresh
<1>2. QED
  BY <1>1, ListsInvariance, PTL

\* A client that follows handle_list_request's cursors gets every item once and in
\* order, whatever the page sizes, while the list grows.
THEOREM WalksInOrder == ListsSpec => []WalkInOrder
<1>1. PagesInv => WalkInOrder
  BY DEF PagesInv, WalkInOrder
<1>2. QED
  BY <1>1, ListsInvariance, PTL

\* An answer of handle_list_request is a page of existing items and its cursor makes
\* progress; a request fails only for a cursor out of std::size_t or a sum that wraps.
THEOREM PagesInRange == ListsSpec => PageInRange
<1>1. Pages!PaginationAssumption
  BY ListRequestsAssumption
<1>2. ASSUME PagesInv, [Pages!Next]_(Pages!vars) PROVE [Pages!PageStep]_(Pages!vars)
  BY <1>1, <1>2, PageSteps
<1>3. QED
  BY <1>2, ListsInvariance, HalvesImplemented, PTL
     DEF Pages!Spec, PageInRange, Pages!PageInRange

=============================================================================
