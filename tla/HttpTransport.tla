--------------------------- MODULE HttpTransport ---------------------------
(***************************************************************************)
(* HttpTransport, the HTTP server transport: connections and their slots,  *)
(* sessions, SSE streams, the idle sweep and stop().                       *)
(*                                                                         *)
(* Several io threads run the loop.  The handlers of one connection run on *)
(* its strand, one after the other (`pc`); strands, the sweep, write       *)
(* completions and the thread in stop() interleave.                        *)
(*                                                                         *)
(* `mutex` is the mutex that guards the lists of streams: sessions_mutex_, *)
(* and connections_mutex_ in legacy SSE mode (each mode has nothing to do  *)
(* under the other).  A critical section is one step that needs it free,   *)
(* except where the code is to let it go before it closes streams: there,  *)
(* taking it and letting it go are two.                                    *)
(*                                                                         *)
(* A request is abstracted to what its handler does to this state, an HTTP *)
(* answer to nothing; the message handler terminates.  In legacy SSE mode  *)
(* the flat list of streams is the list of the pseudo session LEGACY.      *)
(***************************************************************************)
EXTENDS Integers, FiniteSets

CONSTANTS
  Modes,           \* config_.mode: "streamable", "sse"
  CloseOnError,    \* config_.write_queue_overflow is CloseOnError, with a limit
  MaxConnections,  \* config_.max_connections, 0 is no limit
  MaxSessions,     \* config_.max_sessions, 0 is no limit
  MaxConns,        \* bound: connections accepted
  MaxSids,         \* bound: session ids generated
  MaxStreams,      \* bound: SSE streams opened
  MaxRequests      \* bound: requests handled

Conns == 1..MaxConns  \* numbered as they are accepted
Sids == 1..MaxSids  \* random in the code, numbered here as they are drawn
LEGACY == 0
Streams == 1..MaxStreams
Sweeper == 0
Stopper == -1
Closers == -1..MaxConns  \* the strands in a DELETE, the sweep, and stop()

\* What the mutex is when no closer holds it: free, or held for ever, shared or
\* exclusively, by a thread that waits for it itself.
Free == -2
Shared == -3
Exclusive == -4

ASSUME HttpAssumption ==
  /\ MaxConnections \in Nat /\ MaxSessions \in Nat
  /\ MaxConns \in Nat /\ MaxSids \in Nat /\ MaxStreams \in Nat
  /\ MaxRequests \in Nat
  /\ CloseOnError \in BOOLEAN
  /\ Modes \subseteq {"streamable", "sse"}

VARIABLES
  mode,            \* config_.mode
  running,         \* running_
  accepting,       \* an async_accept is pending
  count,           \* active_connection_count_
  pc,              \* where the strand of a connection is
  arg,             \* the session its handler works on
  active,          \* HttpConnection::active
  streaming,       \* HttpConnection::is_streaming
  on_disconnect,   \* the stream on_disconnect removes; 0 is none
  sessions,        \* keys of sessions_
  initialized,     \* sessions with HttpSession::initialized
  idle,            \* sessions whose last_activity is too long ago
  issued,          \* number of ids generated
  known,           \* ids that clients have been told
  owner, home,     \* a stream's connection and session
  stat,            \* none, made, listed, gone, or orphan (listed too late)
  to_close,        \* streams a closer still has to close
  sweep,           \* the sweep timer: off, armed, closing
  stop_pc,         \* stop(): idle, reap, close, done
  mutex,           \* the closer that holds the mutex, Free, Shared or Exclusive
  budget           \* requests that may still arrive

listener == <<running, accepting>>
strand == <<pc, arg, budget>>
slots == <<active, count>>
table == <<sessions, initialized, issued, known>>
lists == <<owner, home, stat, on_disconnect, streaming>>
vars == <<mode, listener, strand, slots, table, idle, lists, to_close,
          sweep, stop_pc, mutex>>

Init ==
  /\ mode \in Modes
  /\ running = FALSE /\ accepting = FALSE
  /\ count = 0
  /\ pc = [c \in Conns |-> "new"]
  /\ arg = [c \in Conns |-> LEGACY]
  /\ active = [c \in Conns |-> TRUE]
  /\ streaming = [c \in Conns |-> FALSE]
  /\ on_disconnect = [c \in Conns |-> 0]
  /\ sessions = {} /\ initialized = {} /\ idle = {}
  /\ issued = 0 /\ known = {}
  /\ owner = [x \in Streams |-> 0]
  /\ home = [x \in Streams |-> LEGACY]
  /\ stat = [x \in Streams |-> "none"]
  /\ to_close = [a \in Closers |-> {}]
  /\ sweep = "off" /\ stop_pc = "idle" /\ mutex = Free
  /\ budget = MaxRequests

\* start() succeeds; when it fails it leaves everything as it was.
Start ==
  /\ ~running /\ stop_pc = "idle"
  /\ running' = TRUE /\ accepting' = TRUE /\ sweep' = "armed"
  /\ UNCHANGED <<mode, strand, slots, table, idle, lists, to_close, stop_pc,
                 mutex>>

MayLock == mutex = Free
MayShare == mutex \in {Free, Shared}
Wedged == mutex \in {Shared, Exclusive}

\* on_error of c will run on_disconnect, which locks the mutex; it waits while a
\* closer holds it, and for ever when nobody will let it go.
NeedsMutex(c) == active[c] /\ on_disconnect[c] # 0
Blocks(c) == NeedsMutex(c) /\ Wedged

\* The stream that on_disconnect removes leaves its list.
Unlisted(c) ==
  IF Wedged THEN stat
  ELSE [x \in Streams |-> IF x = on_disconnect[c] /\ stat[x] # "made"
                          THEN "gone" ELSE stat[x]]

-----------------------------------------------------------------------------
(* Faulty variants of definitions below; used only to show that the         *)
(* properties notice them.                                                   *)

\* on_error that does not notice that it has run before.
OnErrorAgain(c) ==
  /\ active' = [active EXCEPT ![c] = FALSE]
  /\ count' = IF count > 0 THEN count - 1 ELSE 0
  /\ stat' = Unlisted(c)

\* A rejected initialize leaves its half-made session behind.
RolledBackNever(s) == sessions

\* Sessions are removed, but nobody closes their streams.
ToCloseNone(S) == {}

\* The sweep timer is not armed again.
RearmedNever == "off"

\* Streams are closed before the mutex is let go.
MayUnlockLast(a) == to_close[a] = {}

-----------------------------------------------------------------------------
(* Connections *)

\* HttpConnection::on_error: the first caller gives the slot back and, if the
\* connection has a stream, takes it off its list, for which it needs the mutex.
OnError(c) ==
  /\ NeedsMutex(c) => mutex \notin Closers
  /\ IF active[c]
     THEN /\ active' = [active EXCEPT ![c] = FALSE]
          /\ count' = IF count > 0 THEN count - 1 ELSE 0
          /\ stat' = Unlisted(c)
     ELSE UNCHANGED <<active, count, stat>>

Full == MaxConnections > 0 /\ count >= MaxConnections

\* do_accept: a connection within the cap; start_read_with_dispatch.
Accept(c) ==
  /\ accepting /\ stop_pc # "done" /\ ~Full
  /\ pc[c] = "new" /\ \A d \in 1..(c - 1) : pc[d] # "new"
  /\ count' = count + 1
  /\ pc' = [pc EXCEPT ![c] = "read"]
  /\ accepting' = running
  /\ UNCHANGED <<mode, running, arg, budget, active, table, idle,
                 lists, to_close, sweep, stop_pc, mutex>>

\* do_accept: the accept failed, or the connection is answered 503.
AcceptNothing ==
  /\ accepting /\ (Full \/ stop_pc = "done")
  /\ accepting' = running
  /\ UNCHANGED <<mode, running, strand, slots, table, idle, lists, to_close,
                 sweep, stop_pc, mutex>>

\* The read completes with bytes.
Receive(c) ==
  /\ pc[c] = "read"
  /\ pc' = [pc EXCEPT ![c] = "chunk"]
  /\ UNCHANGED <<mode, listener, arg, budget, slots, table, idle, lists,
                 to_close, sweep, stop_pc, mutex>>

\* The read fails, or what was received is no HTTP (after a 400).
ReadFails(c) ==
  /\ pc[c] \in {"read", "chunk"}
  /\ pc' = [pc EXCEPT ![c] = IF Blocks(c) THEN "stuck" ELSE "done"]
  /\ OnError(c)
  /\ UNCHANGED <<mode, listener, arg, budget, table, idle, owner, home,
                 on_disconnect, streaming, to_close, sweep, stop_pc, mutex>>

\* Everything received is handled: read on, if the connection is still active.
EndChunk(c) ==
  /\ pc[c] = "chunk"
  /\ pc' = [pc EXCEPT ![c] = IF active[c] THEN "read" ELSE "done"]
  /\ UNCHANGED <<mode, listener, arg, budget, slots, table, idle, lists,
                 to_close, sweep, stop_pc, mutex>>

\* The read timer, which is armed with every read unless the connection is
\* streaming, closes the connection.
ReadTimeout(c) ==
  /\ pc[c] = "read" /\ ~streaming[c]
  /\ pc' = [pc EXCEPT ![c] = IF Blocks(c) THEN "stuck" ELSE "read"]
  /\ OnError(c)
  /\ UNCHANGED <<mode, listener, arg, budget, table, idle, owner, home,
                 on_disconnect, streaming, to_close, sweep, stop_pc, mutex>>

\* A write fails, or an answer overflows the queue outside any lock; on an io
\* thread, which is lost if the mutex is wedged.
WriteFails(c) ==
  /\ pc[c] # "new" /\ active[c]
  /\ OnError(c)
  /\ UNCHANGED <<mode, listener, strand, table, idle, owner, home,
                 on_disconnect, streaming, to_close, sweep, stop_pc, mutex>>

-----------------------------------------------------------------------------
(* Requests: handle_request, on the strand of the connection *)

Request(c) ==
  /\ pc[c] = "chunk" /\ budget > 0
  /\ budget' = budget - 1

\* The handler returns to the loop over the requests received.
Return(c) ==
  /\ pc' = [pc EXCEPT ![c] = "chunk"]
  /\ arg' = [arg EXCEPT ![c] = LEGACY]

\* A request that is answered and changes nothing here: OPTIONS, a POST that is
\* malformed, has no session or finds no room for one, a batch (which sets no
\* last_activity), a DELETE of an unknown session, a message in legacy mode.
Answered(c) ==
  /\ pc[c] = "chunk"
  /\ UNCHANGED vars

\* 403 for a foreign host or origin, 404 for an unknown path, and the 404 and
\* 400 of handle_get_sse: `active` is cleared, and on_error will not release.
Refuse(c) ==
  /\ Request(c)
  /\ active' = [active EXCEPT ![c] = FALSE]
  /\ UNCHANGED <<mode, listener, pc, arg, count, table, idle, lists,
                 to_close, sweep, stop_pc, mutex>>

\* create_session looks at the cap twice: before it makes a session, and
\* (`final`) under the lock that inserts it.
SessionsFull(final) == MaxSessions > 0 /\ Cardinality(sessions) >= MaxSessions

\* handle_post: initialize without a session id.
PostInitialize(c) ==
  /\ mode = "streamable" /\ Request(c) /\ MayShare /\ ~SessionsFull(FALSE)
  /\ issued < MaxSids
  /\ issued' = issued + 1
  /\ arg' = [arg EXCEPT ![c] = issued']
  /\ pc' = [pc EXCEPT ![c] = "create"]
  /\ UNCHANGED <<mode, listener, slots, sessions, initialized, known,
                 idle, lists, to_close, sweep, stop_pc, mutex>>

\* The new session is inserted, or the client gets a 429 after all.
CreateSession(c) ==
  /\ pc[c] = "create" /\ MayLock
  /\ IF SessionsFull(TRUE)
     THEN Return(c) /\ UNCHANGED sessions
     ELSE /\ sessions' = sessions \cup {arg[c]}
          /\ pc' = [pc EXCEPT ![c] = "init"]
          /\ UNCHANGED arg
  /\ UNCHANGED <<mode, listener, budget, slots, initialized, issued, known,
                 idle, lists, to_close, sweep, stop_pc, mutex>>

\* The initialize handler answers through the sink, which tells the client the
\* id, or throws (or is no longer set).
InitializeAnswers(c) ==
  /\ pc[c] = "init"
  /\ \/ /\ known' = known \cup {arg[c]}
        /\ \E r \in {"accepted", "rejected"} : pc' = [pc EXCEPT ![c] = r]
     \/ /\ pc' = [pc EXCEPT ![c] = "rejected"]
        /\ UNCHANGED known
  /\ UNCHANGED <<mode, listener, arg, budget, slots, sessions,
                 initialized, issued, idle, lists, to_close, sweep, stop_pc,
                 mutex>>

RolledBack(s) == sessions \ {s}

\* The new session is committed, or removed again.
InitializeEnds(c) ==
  /\ \/ /\ pc[c] = "accepted"
        /\ initialized' = initialized \cup {arg[c]}
        /\ UNCHANGED <<sessions, idle>>
     \/ /\ pc[c] = "rejected" /\ MayLock
        /\ sessions' = RolledBack(arg[c])
        /\ idle' = idle \ {arg[c]}
        /\ UNCHANGED initialized
  /\ Return(c)
  /\ UNCHANGED <<mode, listener, budget, slots, issued, known,
                 lists, to_close, sweep, stop_pc, mutex>>

\* handle_post: any other message, for an initialized session.
Post(c, s) ==
  /\ Request(c) /\ MayShare /\ s \in known /\ s \in sessions /\ s \in initialized
  /\ arg' = [arg EXCEPT ![c] = s]
  /\ pc' = [pc EXCEPT ![c] = "found"]
  /\ UNCHANGED <<mode, listener, slots, table, idle, lists, to_close,
                 sweep, stop_pc, mutex>>

\* last_activity is set, then the handler runs and answers, now or later.
Touch(c) ==
  /\ pc[c] = "found" /\ MayLock
  /\ idle' = idle \ {arg[c]}
  /\ Return(c)
  /\ UNCHANGED <<mode, listener, budget, slots, table, lists,
                 to_close, sweep, stop_pc, mutex>>

-----------------------------------------------------------------------------
(* SSE streams *)

\* A stream is made for a connection, which forgets the one it had.
MakeStream(c, s) ==
  /\ \E x \in Streams :
       /\ stat[x] = "none" /\ \A y \in 1..(x - 1) : stat[y] # "none"
       /\ stat' = [stat EXCEPT ![x] = "made"]
       /\ owner' = [owner EXCEPT ![x] = c]
       /\ home' = [home EXCEPT ![x] = s]
       /\ on_disconnect' = [on_disconnect EXCEPT ![c] = x]
  /\ arg' = [arg EXCEPT ![c] = s]
  /\ pc' = [pc EXCEPT ![c] = "open"]

\* handle_get_sse, until it registers the stream.
GetSse(c, s) ==
  /\ Request(c) /\ MayShare /\ s \in known /\ s \in sessions
  /\ MakeStream(c, s)
  /\ streaming' = [streaming EXCEPT ![c] = TRUE]
  /\ UNCHANGED <<mode, listener, slots, table, idle, to_close, sweep,
                 stop_pc, mutex>>

\* handle_sse_connect, until it registers the stream.
SseConnect(c) ==
  /\ mode = "sse" /\ Request(c)
  /\ MakeStream(c, LEGACY)
  /\ UNCHANGED <<mode, listener, slots, table, idle, streaming,
                 to_close, sweep, stop_pc, mutex>>

\* The list a stream goes to will still be closed with its session.
Attended(s) == s \in sessions \/ (s = LEGACY /\ stop_pc \in {"idle", "reap"})

\* The stream is registered, without a second look at its session.
Register(c) ==
  /\ pc[c] = "open" /\ MayLock
  /\ stat' = [stat EXCEPT ![on_disconnect[c]] =
                IF Attended(arg[c]) THEN "listed" ELSE "orphan"]
  /\ idle' = idle \ {arg[c]}
  /\ Return(c)
  /\ UNCHANGED <<mode, listener, budget, slots, table, owner,
                 home, on_disconnect, streaming, to_close, sweep, stop_pc,
                 mutex>>

\* push_to_*: a frame overflows a queue whose policy is CloseOnError; on_error
\* runs under the shared lock and waits for the exclusive one.
PushOverflows(x) ==
  /\ CloseOnError /\ MayShare
  /\ stat[x] \in {"listed", "orphan"} /\ home[x] \in sessions \cup {LEGACY}
  /\ active[owner[x]]
  /\ active' = [active EXCEPT ![owner[x]] = FALSE]
  /\ count' = IF count > 0 THEN count - 1 ELSE 0
  /\ mutex' = Shared
  /\ UNCHANGED <<mode, listener, strand, table, idle, lists,
                 to_close, sweep, stop_pc>>

\* The same in handle_delete, whose 404 is written under the exclusive lock.
DeleteOverflows(c) ==
  /\ CloseOnError /\ MayLock /\ mode = "streamable"
  /\ Request(c) /\ active[c] /\ on_disconnect[c] # 0
  /\ active' = [active EXCEPT ![c] = FALSE]
  /\ count' = IF count > 0 THEN count - 1 ELSE 0
  /\ mutex' = Exclusive
  /\ pc' = [pc EXCEPT ![c] = "stuck"]
  /\ UNCHANGED <<mode, listener, arg, table, idle, lists,
                 to_close, sweep, stop_pc>>

-----------------------------------------------------------------------------
(* Sessions end *)

Listed(S) == {x \in Streams : stat[x] = "listed" /\ home[x] \in S}

\* What the closer of the sessions S closes once it has let the mutex go.
ToClose(S) == Listed(S)

\* The sessions S go, and their lists with them, under the mutex.
Remove(S, closer) ==
  /\ MayLock /\ mutex' = closer
  /\ sessions' = sessions \ S
  /\ idle' = idle \ S
  /\ stat' = [x \in Streams |-> IF x \in Listed(S) THEN "gone" ELSE stat[x]]
  /\ to_close' = [to_close EXCEPT ![closer] = ToClose(S)]

\* A closer lets the mutex go before it closes a stream.
MayUnlock(a) == TRUE

Unlock(a) ==
  /\ mutex = a /\ MayUnlock(a)
  /\ mutex' = Free
  /\ UNCHANGED <<mode, listener, strand, slots, table, idle, lists, to_close,
                 sweep, stop_pc>>

\* The closer waits for ever.
Sticks(a) ==
  /\ pc' = [c \in Conns |-> IF c = a THEN "stuck" ELSE pc[c]]
  /\ sweep' = IF a = Sweeper THEN "stuck" ELSE sweep
  /\ stop_pc' = IF a = Stopper THEN "stuck" ELSE stop_pc

Stuck(a) ==
  \/ a \in Conns /\ pc[a] = "stuck"
  \/ a = Sweeper /\ sweep = "stuck"
  \/ a = Stopper /\ stop_pc = "stuck"

\* queue shutdown, socket close and on_error, which waits for the mutex.
CloseStream(a) ==
  /\ ~Stuck(a)
  /\ \E x \in to_close[a] :
       /\ OnError(owner[x])
       /\ IF Blocks(owner[x])
          THEN Sticks(a) /\ UNCHANGED to_close
          ELSE /\ to_close' = [to_close EXCEPT ![a] = @ \ {x}]
               /\ UNCHANGED <<pc, sweep, stop_pc>>
  /\ UNCHANGED <<mode, listener, arg, budget, table, idle, owner, home,
                 on_disconnect, streaming, mutex>>

\* The closer has let the mutex go and closed every stream.
Closed(a) == mutex # a /\ to_close[a] = {}

\* handle_delete of a session.
Delete(c, s) ==
  /\ Request(c) /\ s \in known /\ s \in sessions
  /\ Remove({s}, c)
  /\ pc' = [pc EXCEPT ![c] = "close"]
  /\ UNCHANGED <<mode, listener, arg, slots, initialized, issued,
                 known, owner, home, on_disconnect, streaming, sweep,
                 stop_pc>>

DeleteAnswers(c) ==
  /\ pc[c] = "close" /\ Closed(c)
  /\ pc' = [pc EXCEPT ![c] = "chunk"]
  /\ UNCHANGED <<mode, listener, arg, budget, slots, table, idle,
                 lists, to_close, sweep, stop_pc, mutex>>

\* Time passes: a session has been quiet for session_idle_timeout.
BecomesIdle(s) ==
  /\ s \in sessions \ idle
  /\ idle' = idle \cup {s}
  /\ UNCHANGED <<mode, listener, strand, slots, table, lists, to_close,
                 sweep, stop_pc, mutex>>

\* sweep_sessions removes the idle sessions (and only re-arms without one).
SweepSessions ==
  /\ sweep = "armed" /\ running
  /\ sessions \cap idle # {}
  /\ Remove(sessions \cap idle, Sweeper)
  /\ sweep' = "closing"
  /\ UNCHANGED <<mode, listener, strand, slots, initialized, issued, known,
                 owner, home, on_disconnect, streaming, stop_pc>>

Rearmed == "armed"

\* arm_session_sweep at the end of a sweep.
SweepEnds ==
  /\ sweep = "closing" /\ Closed(Sweeper)
  /\ sweep' = Rearmed
  /\ UNCHANGED <<mode, listener, strand, slots, table, idle, lists, to_close,
                 stop_pc, mutex>>

\* A sweep timer that a late sweep armed fires after stop(), or the wait is
\* cancelled.
SweepAborted ==
  /\ sweep = "armed" /\ ~running
  /\ sweep' = "off"
  /\ UNCHANGED <<mode, listener, strand, slots, table, idle, lists, to_close,
                 stop_pc, mutex>>

-----------------------------------------------------------------------------
(* stop() *)

StopBegins ==
  /\ stop_pc = "idle"
  /\ running' = FALSE
  /\ stop_pc' = "reap"
  /\ UNCHANGED <<mode, accepting, strand, slots, table, idle, lists,
                 to_close, sweep, mutex>>

Everywhere == sessions \cup {LEGACY}

\* Every list is emptied and sessions_ is cleared (in each mode, one of the two
\* critical sections finds nothing).
StopReaps ==
  /\ stop_pc = "reap"
  /\ Remove(Everywhere, Stopper)
  /\ stop_pc' = "close"
  /\ UNCHANGED <<mode, listener, strand, slots, initialized, issued, known,
                 owner, home, on_disconnect, streaming, sweep>>

\* The acceptor is closed; connections without a stream stay as they are.
StopEnds ==
  /\ stop_pc = "close" /\ Closed(Stopper)
  /\ stop_pc' = "done"
  /\ UNCHANGED <<mode, listener, strand, slots, table, idle, lists, to_close,
                 sweep, mutex>>

-----------------------------------------------------------------------------
\* The code a handler has still to run.
Handler(c) ==
  \/ CreateSession(c) \/ InitializeAnswers(c) \/ InitializeEnds(c)
  \/ Touch(c) \/ Register(c) \/ DeleteAnswers(c)

Arrives(c) ==
  \/ Answered(c) \/ Refuse(c) \/ PostInitialize(c) \/ SseConnect(c)
  \/ DeleteOverflows(c)
  \/ \E s \in Sids : Post(c, s) \/ GetSse(c, s) \/ Delete(c, s)

Next ==
  \/ Start \/ AcceptNothing
  \/ \E c \in Conns : Accept(c) \/ Receive(c) \/ Arrives(c) \/ Handler(c)
                      \/ EndChunk(c) \/ ReadFails(c) \/ ReadTimeout(c)
                      \/ WriteFails(c)
  \/ \E x \in Streams : PushOverflows(x)
  \/ \E a \in Closers : Unlock(a) \/ CloseStream(a)
  \/ \E s \in Sids : BecomesIdle(s)
  \/ SweepSessions \/ SweepEnds \/ SweepAborted
  \/ StopBegins \/ StopReaps \/ StopEnds

Spec == Init /\ [][Next]_vars

\* What threads of the program and the clock do without waiting for a client.
Work ==
  \/ \E c \in Conns : Handler(c)
  \/ \E a \in Closers : Unlock(a) \/ CloseStream(a)
  \/ \E s \in Sids : BecomesIdle(s)
  \/ SweepSessions \/ SweepEnds \/ StopReaps \/ StopEnds

\* The threads go on while they have something to do; which of them does is
\* left open, since the requests are finitely many.
Fairness == WF_vars(Work)

FairSpec == Spec /\ Fairness

-----------------------------------------------------------------------------
(* Properties *)

\* Every variable stays in its range; the connection count neither wraps below
\* zero nor passes the cap.
TypeOK ==
  /\ mode \in {"streamable", "sse"}
  /\ running \in BOOLEAN /\ accepting \in BOOLEAN
  /\ mutex \in Closers \cup {Free, Shared, Exclusive}
  /\ count \in Nat /\ (MaxConnections > 0 => count <= MaxConnections)
  /\ pc \in [Conns -> {"new", "read", "chunk", "create", "init", "accepted",
                       "rejected", "found", "open", "close", "stuck", "done"}]
  /\ arg \in [Conns -> Sids \cup {LEGACY}]
  /\ active \in [Conns -> BOOLEAN] /\ streaming \in [Conns -> BOOLEAN]
  /\ on_disconnect \in [Conns -> Streams \cup {0}]
  /\ sessions \in SUBSET Sids /\ initialized \in SUBSET Sids
  /\ idle \in SUBSET Sids /\ issued \in 0..MaxSids /\ known \in SUBSET Sids
  /\ owner \in [Streams -> 0..MaxConns]
  /\ home \in [Streams -> Sids \cup {LEGACY}]
  /\ stat \in [Streams -> {"none", "made", "listed", "gone", "orphan"}]
  /\ to_close \in [Closers -> SUBSET Streams]
  /\ sweep \in {"off", "armed", "closing", "stuck"}
  /\ stop_pc \in {"idle", "reap", "close", "done", "stuck"}
  /\ budget \in Nat

Live == {c \in Conns : pc[c] # "new" /\ active[c]}

\* No live connection is without a slot, whatever read errors, write errors, the
\* read timeout and every closer release at the same time: a slot released twice
\* would let more than max_connections in.
SlotsHeld == TypeOK /\ Cardinality(Live) <= count

\* on_release is "invoked exactly once when the connection becomes inactive": once
\* every connection that was accepted has ended, every slot is back.
SlotsComeBack == (\A c \in Conns : pc[c] \in {"new", "done"}) => count = 0

\* max_sessions holds even when several io threads create sessions at once.
SessionCap == MaxSessions > 0 => Cardinality(sessions) <= MaxSessions

\* A session that is not initialized is being initialized right now: one whose
\* initialize was rejected, or whose handler threw, does not stay.
HalfSessionHasOwner ==
  \A s \in sessions \ initialized : \E c \in Conns :
    arg[c] = s /\ pc[c] \in {"init", "accepted", "rejected"}

\* However many io threads create, initialize, delete, sweep and roll back
\* sessions at once, sessions_ keeps to max_sessions and holds no session that
\* nobody will finish or remove.
SessionTable == SessionCap /\ HalfSessionHasOwner

\* A stream that was registered in time is closed with its session: it is
\* listed only while its session exists (or its initialize was rolled back),
\* and once off the list its connection is inactive or about to be closed.
StreamsFollowSession ==
  \A x \in Streams :
    /\ stat[x] = "listed" /\ home[x] \in initialized => home[x] \in sessions
    /\ stat[x] = "gone" =>
         ~active[owner[x]] \/ \E a \in Closers : x \in to_close[a]

\* Abandoned clients do not exhaust max_sessions: once requests cease, all
\* sessions are reaped while the transport runs, whatever their streams do.
AbandonedSessionsReaped == []<>(sessions = {} \/ ~running \/ Wedged)

\* stop() returns: a closer never waits for the mutex while it holds it, and all
\* others let it go, except one that an overflowing queue has wedged.
StopReturns == stop_pc = "reap" ~> (stop_pc = "done" \/ Wedged)

\* The same without the exception: "connections are now closed outside the lock",
\* so the shutdown path does not hang.
StopAlwaysReturns == stop_pc = "reap" ~> stop_pc = "done"

=============================================================================
