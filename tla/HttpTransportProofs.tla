------------------------ MODULE HttpTransportProofs ------------------------
(***************************************************************************)
(* Proofs about HttpTransport for every number of connections, sessions    *)
(* and streams, every cap and both modes: no live connection is without a  *)
(* slot, the session table keeps to its cap and holds no abandoned half-made     *)
(* session, and no stream outlives its session unnoticed.                  *)
(***************************************************************************)
EXTENDS HttpTransport, FiniteSetTheorems, TLAPS

-----------------------------------------------------------------------------
(* The inductive invariant *)

Stats == {"none", "made", "listed", "gone", "orphan"}

\* The steps of a handler that makes a session.
InitPhases == {"create", "init", "accepted", "rejected"}

\* A connection that is not accepted yet is active.
SlotInv == \A c \in Conns : pc[c] = "new" => active[c]

\* A stream belongs to an accepted connection, on_disconnect of a connection is
\* about a stream of its own, and a handler that is about to register a stream
\* has made it for the session it works on.
StreamInv ==
  /\ \A x \in Streams :
       stat[x] # "none" => owner[x] \in Conns /\ pc[owner[x]] # "new"
  /\ \A c \in Conns : on_disconnect[c] # 0 =>
       stat[on_disconnect[c]] # "none" /\ owner[on_disconnect[c]] = c
  /\ \A c \in Conns : pc[c] = "open" =>
       /\ on_disconnect[c] # 0
       /\ stat[on_disconnect[c]] = "made"
       /\ home[on_disconnect[c]] = arg[c]

\* A closer has streams to close only while it closes, or once it waits for ever;
\* the sweep begins with start().
CloserInv ==
  /\ ~running /\ stop_pc = "idle" => sweep = "off"
  /\ \A c \in Conns : pc[c] \notin {"close", "stuck"} => to_close[c] = {}
  /\ sweep \notin {"closing", "stuck"} => to_close[Sweeper] = {}
  /\ stop_pc \notin {"close", "stuck"} => to_close[Stopper] = {}
  /\ \A a \in Closers : \A x \in to_close[a] : stat[x] # "none"

\* No id is used before it is drawn, and an id that a handler makes a session
\* of is that handler's alone.
IdInv ==
  /\ \A s \in sessions \cup initialized \cup known : s <= issued
  /\ \A x \in Streams : home[x] <= issued
  /\ \A c \in Conns : pc[c] \in InitPhases =>
       arg[c] # LEGACY /\ arg[c] <= issued /\ arg[c] \notin initialized
  /\ \A c, d \in Conns :
       pc[c] \in InitPhases /\ pc[d] \in InitPhases /\ arg[c] = arg[d] => c = d

\* A stream is listed under a session that exists, or under one whose
\* initialize was rolled back.
ListedInv ==
  \A x \in Streams : stat[x] = "listed" =>
    \/ home[x] \in sessions \cup {LEGACY}
    \/ /\ home[x] \notin initialized
       /\ \A c \in Conns : pc[c] \in InitPhases => arg[c] # home[x]

\* A stream off its list is closed, or will be.
GoneInv ==
  \A x \in Streams : stat[x] = "gone" =>
    ~active[owner[x]] \/ \E a \in Closers : x \in to_close[a]

IInv ==
  /\ TypeOK /\ SlotInv /\ Cardinality(Live) <= count
  /\ StreamInv /\ CloserInv /\ IdInv /\ ListedInv /\ GoneInv
  /\ SessionCap /\ HalfSessionHasOwner

-----------------------------------------------------------------------------
(* Facts about the operators the actions are built from *)

\* on_error makes the connection inactive, if it is not yet, and takes at most
\* the stream of its on_disconnect off its list.
LEMMA OnErrorEffect ==
  ASSUME TypeOK, NEW c \in Conns, OnError(c)
  PROVE  /\ active' \in [Conns -> BOOLEAN] /\ stat' \in [Streams -> Stats]
         /\ \A d \in Conns : active'[d] = (active[d] /\ d # c)
         /\ \A x \in Streams :
              \/ stat'[x] = stat[x]
              \/ stat'[x] = "gone" /\ stat[x] # "made" /\ x = on_disconnect[c]
<1>1. CASE ~active[c]
  BY <1>1 DEF OnError, TypeOK, Stats
<1>2. CASE active[c]
  <2>1. active' = [active EXCEPT ![c] = FALSE] /\ stat' = Unlisted(c)
    BY <1>2 DEF OnError
  <2>2. \A x \in Streams :
          \/ stat'[x] = stat[x]
          \/ stat'[x] = "gone" /\ stat[x] # "made" /\ x = on_disconnect[c]
    BY <2>1 DEF Unlisted
  <2>3. stat' \in [Streams -> Stats]
    BY <2>1 DEF Unlisted, TypeOK, Stats
  <2>4. QED
    BY <2>1, <2>2, <2>3 DEF TypeOK
<1>3. QED
  BY <1>1, <1>2

\* on_error keeps the count natural and within the cap.
LEMMA OnErrorCount ==
  ASSUME TypeOK, NEW c \in Conns, OnError(c)
  PROVE  count' \in Nat /\ count' <= count
BY DEF OnError, TypeOK

-----------------------------------------------------------------------------
(* Type correctness *)

\* Initially every variable is in its range.
LEMMA InitType == Init => TypeOK
<1> SUFFICES ASSUME Init PROVE TypeOK
  OBVIOUS
<1>1. /\ owner \in [Streams -> 0..MaxConns] /\ issued \in 0..MaxSids
      /\ budget \in Nat /\ count \in Nat
      /\ (MaxConnections > 0 => count <= MaxConnections)
  BY HttpAssumption DEF Init
<1>2. /\ arg \in [Conns -> Sids \cup {LEGACY}] /\ home \in [Streams -> Sids \cup {LEGACY}]
      /\ to_close \in [Closers -> SUBSET Streams]
      /\ on_disconnect \in [Conns -> Streams \cup {0}]
  BY DEF Init
<1>3. /\ active \in [Conns -> BOOLEAN] /\ streaming \in [Conns -> BOOLEAN]
      /\ stat \in [Streams -> {"none", "made", "listed", "gone", "orphan"}]
      /\ pc \in [Conns -> {"new", "read", "chunk", "create", "init", "accepted",
                           "rejected", "found", "open", "close", "stuck", "done"}]
  BY DEF Init
<1>4. QED
  BY <1>1, <1>2, <1>3, HttpAssumption DEF Init, TypeOK

\* The steps of the listener, of the sweep and of stop() keep the types.
LEMMA ServiceType ==
  ASSUME TypeOK,
         Start \/ AcceptNothing \/ SweepSessions \/ SweepEnds \/ SweepAborted
           \/ StopBegins \/ StopReaps \/ StopEnds
  PROVE  TypeOK'
<1> USE DEF TypeOK, listener, strand, slots, table, lists
<1>1. CASE Start \/ AcceptNothing \/ StopBegins \/ StopEnds
  BY <1>1 DEF Start, AcceptNothing, StopBegins, StopEnds
<1>2. CASE SweepEnds \/ SweepAborted
  BY <1>2 DEF SweepEnds, SweepAborted, Rearmed
<1>3. ASSUME NEW S, NEW a \in Closers, Remove(S, a)
      PROVE  /\ sessions' \in SUBSET Sids /\ idle' \in SUBSET Sids
             /\ stat' \in [Streams -> Stats] /\ to_close' \in [Closers -> SUBSET Streams]
  BY <1>3 DEF Remove, ToClose, Listed, Stats
<1>4. ASSUME NEW S, NEW a \in Closers, Remove(S, a)
      PROVE  mutex' \in Closers \cup {Free, Shared, Exclusive}
  BY <1>4 DEF Remove
<1>5. CASE SweepSessions
  BY <1>3, <1>4, <1>5, HttpAssumption DEF SweepSessions, Closers, Sweeper, Stats
<1>6. CASE StopReaps
  BY <1>3, <1>4, <1>6, HttpAssumption DEF StopReaps, Closers, Stopper, Stats
<1>7. QED
  BY <1>1, <1>2, <1>5, <1>6

\* Closing a stream keeps the types.
LEMMA CloseStreamType ==
  ASSUME TypeOK, NEW a \in Closers, NEW x \in to_close[a], owner[x] \in Conns,
         OnError(owner[x]),
         \/ Sticks(a) /\ UNCHANGED to_close
         \/ /\ to_close' = [to_close EXCEPT ![a] = @ \ {x}]
            /\ UNCHANGED <<pc, sweep, stop_pc>>,
         UNCHANGED <<mode, listener, arg, budget, table, idle, owner, home,
                     on_disconnect, streaming, mutex>>
  PROVE  TypeOK'
<1>1. /\ active' \in [Conns -> BOOLEAN] /\ stat' \in [Streams -> Stats]
      /\ count' \in Nat /\ count' <= count
  BY OnErrorEffect, OnErrorCount
<1>2. to_close' \in [Closers -> SUBSET Streams]
  BY DEF TypeOK
<1>3. /\ pc' \in [Conns -> {"new", "read", "chunk", "create", "init", "accepted",
                           "rejected", "found", "open", "close", "stuck", "done"}]
      /\ sweep' \in {"off", "armed", "closing", "stuck"}
      /\ stop_pc' \in {"idle", "reap", "close", "done", "stuck"}
  BY DEF TypeOK, Sticks
<1>4. QED
  BY <1>1, <1>2, <1>3, HttpAssumption DEF TypeOK, listener, table, Stats

\* What the connection c does on its strand, the end of its session's handler
\* apart, keeps the types.
LEMMA ConnectionType ==
  ASSUME TypeOK, NEW c \in Conns,
         Accept(c) \/ Receive(c) \/ EndChunk(c) \/ ReadFails(c) \/ ReadTimeout(c)
           \/ WriteFails(c)
  PROVE  TypeOK'
<1> USE DEF listener, strand, table
<1>1. CASE Accept(c)
  BY <1>1, HttpAssumption DEF Accept, Full, TypeOK, lists
<1>2. CASE Receive(c) \/ EndChunk(c)
  BY <1>2 DEF Receive, EndChunk, TypeOK, slots, lists
<1>3. ASSUME OnError(c)
      PROVE  /\ active' \in [Conns -> BOOLEAN] /\ stat' \in [Streams -> Stats]
             /\ count' \in Nat /\ count' <= count
  BY <1>3, OnErrorEffect, OnErrorCount
<1>4. CASE ReadFails(c)
  <2>1. OnError(c)
    BY <1>4 DEF ReadFails
  <2>2. QED
    BY <1>3, <1>4, <2>1, HttpAssumption DEF ReadFails, TypeOK, Stats
<1>5. CASE ReadTimeout(c) \/ WriteFails(c)
  <2>1. OnError(c)
    BY <1>5 DEF ReadTimeout, WriteFails
  <2>2. QED
    BY <1>3, <1>5, <2>1, HttpAssumption DEF ReadTimeout, WriteFails, TypeOK, Stats
<1>6. QED
  BY <1>1, <1>2, <1>4, <1>5

\* A request that arrives keeps the types.
LEMMA ArrivesType ==
  ASSUME TypeOK, NEW c \in Conns, Arrives(c)
  PROVE  TypeOK'
<1> USE DEF listener, strand, table
<1>1. CASE Answered(c)
  BY <1>1 DEF Answered, vars, TypeOK, slots, lists
<1>2. CASE Refuse(c)
  BY <1>2 DEF Refuse, Request, TypeOK, lists
<1>3. CASE PostInitialize(c)
  BY <1>3, HttpAssumption DEF PostInitialize, Request, TypeOK, slots, lists, Sids
<1>4. ASSUME NEW s \in Sids \cup {LEGACY}, MakeStream(c, s)
      PROVE  /\ stat' \in [Streams -> Stats] /\ owner' \in [Streams -> 0..MaxConns]
             /\ home' \in [Streams -> Sids \cup {LEGACY}]
             /\ on_disconnect' \in [Conns -> Streams \cup {0}]
             /\ arg' \in [Conns -> Sids \cup {LEGACY}]
             /\ pc' = [pc EXCEPT ![c] = "open"]
  BY <1>4, HttpAssumption DEF MakeStream, TypeOK, Stats, Conns
<1>5. CASE SseConnect(c)
  <2>1. MakeStream(c, LEGACY)
    BY <1>5 DEF SseConnect
  <2>2. QED
    BY <1>4, <1>5, <2>1 DEF SseConnect, Request, TypeOK, slots, Stats
<1>6. CASE DeleteOverflows(c)
  <2>1. /\ count' \in Nat /\ count' <= count /\ budget' \in Nat
        /\ active' \in [Conns -> BOOLEAN]
    BY <1>6 DEF DeleteOverflows, Request, TypeOK
  <2>2. QED
    BY <1>6, <2>1, HttpAssumption DEF DeleteOverflows, TypeOK, lists
<1>7. ASSUME NEW s \in Sids, Post(c, s) PROVE TypeOK'
  BY <1>7 DEF Post, Request, TypeOK, slots, lists
<1>8. ASSUME NEW s \in Sids, GetSse(c, s) PROVE TypeOK'
  BY <1>4, <1>8 DEF GetSse, Request, TypeOK, slots, Stats
<1>9. ASSUME NEW s \in Sids, Delete(c, s) PROVE TypeOK'
  <2>1. c \in Closers
    BY HttpAssumption DEF Conns, Closers
  <2>2. /\ sessions' \in SUBSET Sids /\ idle' \in SUBSET Sids
        /\ stat' \in [Streams -> Stats] /\ to_close' \in [Closers -> SUBSET Streams]
    BY <1>9, <2>1 DEF Delete, Remove, ToClose, Listed, TypeOK, Stats
  <2>3. mutex' = c
    BY <1>9 DEF Delete, Remove
  <2>4. QED
    BY <1>9, <2>1, <2>2, <2>3 DEF Delete, Request, TypeOK, slots, Stats
<1>10. QED
  BY <1>1, <1>2, <1>3, <1>5, <1>6, <1>7, <1>8, <1>9 DEF Arrives

\* The rest of a handler keeps the types.
LEMMA HandlerType ==
  ASSUME TypeOK, StreamInv, NEW c \in Conns, Handler(c), pc[c] \in InitPhases => arg[c] # LEGACY
  PROVE  TypeOK'
<1> USE DEF listener, slots, lists, table
<1>1. CASE CreateSession(c)
  <2>1. arg[c] \in Sids /\ arg' \in [Conns -> Sids \cup {LEGACY}]
    BY <1>1 DEF CreateSession, Return, TypeOK, InitPhases
  <2>2. sessions' \in SUBSET Sids
    BY <1>1, <2>1 DEF CreateSession, TypeOK
  <2>3. pc' = [pc EXCEPT ![c] = "chunk"] \/ pc' = [pc EXCEPT ![c] = "init"]
    BY <1>1 DEF CreateSession, Return
  <2>4. QED
    BY <1>1, <2>1, <2>2, <2>3 DEF CreateSession, TypeOK
<1>2. CASE InitializeAnswers(c)
  BY <1>2 DEF InitializeAnswers, TypeOK, InitPhases, LEGACY
<1>3. CASE InitializeEnds(c)
  BY <1>3 DEF InitializeEnds, Return, RolledBack, TypeOK, InitPhases, LEGACY
<1>4. CASE Touch(c)
  BY <1>4 DEF Touch, Return, TypeOK
<1>5. CASE Register(c)
  BY <1>5 DEF Register, Return, TypeOK
<1>6. CASE DeleteAnswers(c)
  BY <1>6 DEF DeleteAnswers, TypeOK
<1>7. QED
  BY <1>1, <1>2, <1>3, <1>4, <1>5, <1>6 DEF Handler

\* Every step keeps the types.
LEMMA TypeStep ==
  ASSUME IInv, [Next]_vars
  PROVE  TypeOK'
<1> USE DEF IInv
<1>1. CASE Start \/ AcceptNothing \/ SweepSessions \/ SweepEnds \/ SweepAborted
             \/ StopBegins \/ StopReaps \/ StopEnds
  BY <1>1, ServiceType
<1>2. ASSUME NEW c \in Conns,
             Accept(c) \/ Receive(c) \/ EndChunk(c) \/ ReadFails(c) \/ ReadTimeout(c)
               \/ WriteFails(c)
      PROVE  TypeOK'
  BY <1>2, ConnectionType
<1>3. ASSUME NEW c \in Conns, Arrives(c) PROVE TypeOK'
  BY <1>3, ArrivesType
<1>4. ASSUME NEW c \in Conns, Handler(c) PROVE TypeOK'
  BY <1>4, HandlerType DEF IdInv
<1>5. ASSUME NEW x \in Streams, PushOverflows(x) PROVE TypeOK'
  <2>1. stat[x] # "none" /\ owner[x] \in Conns
    BY <1>5 DEF PushOverflows, StreamInv
  <2>2. count' \in Nat /\ count' <= count /\ active' \in [Conns -> BOOLEAN]
    BY <1>5, <2>1 DEF PushOverflows, TypeOK
  <2>3. QED
    BY <1>5, <2>2, HttpAssumption DEF PushOverflows, TypeOK, listener, strand, table, lists
<1>6. ASSUME NEW a \in Closers, CloseStream(a) PROVE TypeOK'
  <2>1. PICK x \in to_close[a] :
          /\ OnError(owner[x])
          /\ \/ Sticks(a) /\ UNCHANGED to_close
             \/ /\ to_close' = [to_close EXCEPT ![a] = @ \ {x}]
                /\ UNCHANGED <<pc, sweep, stop_pc>>
    BY <1>6 DEF CloseStream
  <2>2. x \in Streams /\ stat[x] # "none"
    <3>1. to_close[a] \in SUBSET Streams
      BY DEF TypeOK
    <3>2. QED
      BY <3>1, <2>1 DEF CloserInv
  <2>3. owner[x] \in Conns
    BY <2>2 DEF StreamInv
  <2>4. QED
    BY <1>6, <2>1, <2>3, CloseStreamType DEF CloseStream
<1>7. ASSUME NEW s \in Sids, BecomesIdle(s) PROVE TypeOK'
  BY <1>7 DEF BecomesIdle, TypeOK, listener, strand, slots, table, lists
<1>8. CASE UNCHANGED vars
  BY <1>8 DEF vars, TypeOK, listener, strand, slots, table, lists
<1>9. ASSUME NEW a \in Closers, Unlock(a) PROVE TypeOK'
  BY <1>9 DEF Unlock, TypeOK, listener, strand, slots, table, lists
<1>10. QED
  BY <1>1, <1>2, <1>3, <1>4, <1>5, <1>6, <1>7, <1>8, <1>9 DEF Next

-----------------------------------------------------------------------------
(* The slots of the connections *)

SlotCount == SlotInv /\ Cardinality(Live) <= count

\* The step leaves it as it was which connections have been accepted.
NewKept == \A d \in Conns : pc'[d] = "new" <=> pc[d] = "new"

\* The live connections are finitely many.
LEMMA LiveFinite == IsFiniteSet(Live) /\ Cardinality(Live) \in Nat
<1>1. IsFiniteSet(Conns)
  BY HttpAssumption, FS_Interval DEF Conns
<1>2. IsFiniteSet(Live)
  BY <1>1, FS_Subset DEF Live
<1>3. QED
  BY <1>2, FS_CardinalityType

\* A step that touches no slot keeps the account.
LEMMA SlotsKept ==
  ASSUME SlotCount, NewKept, UNCHANGED slots
  PROVE  SlotCount'
<1>1. Live' = Live
  BY DEF Live, NewKept, slots
<1>2. SlotInv'
  BY DEF SlotCount, SlotInv, NewKept, slots
<1>3. QED
  BY <1>1, <1>2 DEF SlotCount, slots

\* An active connection that becomes inactive gives back one slot at most.
LEMMA SlotReleased ==
  ASSUME TypeOK, SlotCount, NewKept, NEW c \in Conns, pc[c] # "new", active[c],
         active' = [active EXCEPT ![c] = FALSE],
         count' = count \/ count' = IF count > 0 THEN count - 1 ELSE 0
  PROVE  SlotCount'
<1>1. c \in Live
  BY DEF Live
<1>2. Live' = Live \ {c}
  BY <1>1 DEF Live, NewKept, TypeOK
<1>3. Cardinality(Live') = Cardinality(Live) - 1
  BY <1>1, <1>2, LiveFinite, FS_RemoveElement
<1>4. Cardinality(Live) # 0
  BY <1>1, LiveFinite, FS_EmptySet
<1>5. SlotInv'
  BY DEF SlotCount, SlotInv, NewKept, TypeOK
<1>6. count \in Nat /\ Cardinality(Live) <= count
  BY DEF SlotCount, TypeOK
<1>7. Cardinality(Live') <= count'
  BY <1>3, <1>4, <1>6, LiveFinite
<1>8. QED
  BY <1>5, <1>7 DEF SlotCount

\* on_error of an accepted connection keeps the account, however often it runs.
LEMMA SlotsOnError ==
  ASSUME TypeOK, SlotCount, NewKept, NEW c \in Conns, pc[c] # "new", OnError(c)
  PROVE  SlotCount'
<1>1. CASE active[c]
  BY <1>1, SlotReleased DEF OnError
<1>2. CASE ~active[c]
  BY <1>2, SlotsKept DEF OnError, slots
<1>3. QED
  BY <1>1, <1>2

\* An accepted connection takes a slot.
LEMMA SlotTaken ==
  ASSUME TypeOK, SlotCount, NEW c \in Conns, Accept(c)
  PROVE  SlotCount'
<1>1. /\ pc[c] = "new" /\ active[c] /\ count' = count + 1
      /\ pc' = [pc EXCEPT ![c] = "read"] /\ UNCHANGED active
  BY DEF Accept, SlotCount, SlotInv
<1>2. c \notin Live /\ Live' = Live \cup {c}
  BY <1>1 DEF Live, TypeOK
<1>3. Cardinality(Live') = Cardinality(Live) + 1
  BY <1>2, LiveFinite, FS_AddElement
<1>4. SlotInv'
  BY <1>1 DEF SlotCount, SlotInv, TypeOK
<1>5. count \in Nat /\ Cardinality(Live) <= count
  BY DEF SlotCount, TypeOK
<1>6. Cardinality(Live') <= count'
  BY <1>1, <1>3, <1>5, LiveFinite
<1>7. QED
  BY <1>4, <1>6 DEF SlotCount

\* A closer that waits for ever leaves its strand where it is.
LEMMA CloserPc ==
  ASSUME TypeOK, CloserInv, NEW a \in Closers, CloseStream(a), NEW d \in Conns
  PROVE  pc'[d] = pc[d] \/ (pc[d] = "close" /\ pc'[d] = "stuck")
<1>1. to_close[a] # {} /\ ~Stuck(a)
  BY DEF CloseStream
<1>2. UNCHANGED pc \/ pc' = [c \in Conns |-> IF c = a THEN "stuck" ELSE pc[c]]
  BY DEF CloseStream, Sticks
<1>3. CASE d = a
  BY <1>1, <1>2, <1>3 DEF CloserInv, Stuck
<1>4. CASE d # a
  BY <1>2, <1>4 DEF TypeOK
<1>5. QED
  BY <1>3, <1>4

\* Every step keeps the account of the slots.
LEMMA SlotStep ==
  ASSUME IInv, [Next]_vars
  PROVE  SlotCount'
<1>0. TypeOK /\ SlotCount /\ StreamInv /\ CloserInv
  BY DEF IInv, SlotCount
<1>1. CASE Start \/ AcceptNothing \/ SweepSessions \/ SweepEnds \/ SweepAborted
             \/ StopBegins \/ StopReaps \/ StopEnds
  BY <1>0, <1>1, SlotsKept DEF Start, AcceptNothing, SweepSessions, SweepEnds,
     SweepAborted, StopBegins, StopReaps, StopEnds, strand, NewKept
<1>2. ASSUME NEW c \in Conns, Receive(c) \/ EndChunk(c) PROVE SlotCount'
  <2>1. NewKept
    BY <1>0, <1>2 DEF Receive, EndChunk, NewKept, TypeOK
  <2>2. QED
    BY <1>0, <1>2, <2>1, SlotsKept DEF Receive, EndChunk
<1>3. ASSUME NEW c \in Conns, ReadFails(c) \/ ReadTimeout(c) \/ WriteFails(c)
      PROVE  SlotCount'
  <2>1. NewKept /\ pc[c] # "new" /\ OnError(c)
    BY <1>0, <1>3 DEF ReadFails, ReadTimeout, WriteFails, strand, NewKept, TypeOK
  <2>2. QED
    BY <1>0, <2>1, SlotsOnError
<1>4. ASSUME NEW c \in Conns, Arrives(c) PROVE SlotCount'
  <2>1. CASE Answered(c)
    BY <1>0, <2>1, SlotsKept DEF Answered, vars, strand, NewKept
  <2>2. CASE Refuse(c)
    <3>1. NewKept /\ pc[c] # "new" /\ UNCHANGED <<pc, count>>
      BY <2>2 DEF Refuse, Request, NewKept
    <3>2. active' = [active EXCEPT ![c] = FALSE]
      BY <2>2 DEF Refuse
    <3>3. CASE active[c]
      BY <1>0, <3>1, <3>2, <3>3, SlotReleased
    <3>4. CASE ~active[c]
      <4>1. UNCHANGED slots
        BY <1>0, <3>1, <3>2, <3>4 DEF slots, TypeOK
      <4>2. QED
        BY <1>0, <3>1, <4>1, SlotsKept
    <3>5. QED
      BY <3>3, <3>4
  <2>3. CASE DeleteOverflows(c)
    <3>1. NewKept /\ pc[c] # "new"
      BY <1>0, <2>3 DEF DeleteOverflows, Request, NewKept, TypeOK
    <3>2. QED
      BY <1>0, <2>3, <3>1, SlotReleased DEF DeleteOverflows
  <2>4. CASE PostInitialize(c) \/ SseConnect(c)
    <3>1. NewKept
      BY <1>0, <2>4 DEF PostInitialize, SseConnect, MakeStream, Request, NewKept, TypeOK
    <3>2. QED
      BY <1>0, <2>4, <3>1, SlotsKept DEF PostInitialize, SseConnect
  <2>5. ASSUME NEW s \in Sids, Post(c, s) \/ GetSse(c, s) \/ Delete(c, s)
        PROVE  SlotCount'
    <3>1. NewKept
      BY <1>0, <2>5 DEF Post, GetSse, MakeStream, Delete, Request, NewKept, TypeOK
    <3>2. QED
      BY <1>0, <2>5, <3>1, SlotsKept DEF Post, GetSse, Delete
  <2>6. QED
    BY <1>4, <2>1, <2>2, <2>3, <2>4, <2>5 DEF Arrives
<1>5. ASSUME NEW c \in Conns, Handler(c) PROVE SlotCount'
  <2>1. NewKept
    BY <1>0, <1>5 DEF Handler, CreateSession, InitializeAnswers, InitializeEnds,
       Touch, Register, DeleteAnswers, Return, NewKept, TypeOK
  <2>2. QED
    BY <1>0, <1>5, <2>1, SlotsKept DEF Handler, CreateSession, InitializeAnswers,
       InitializeEnds, Touch, Register, DeleteAnswers
<1>6. ASSUME NEW x \in Streams, PushOverflows(x) PROVE SlotCount'
  <2>1. owner[x] \in Conns /\ pc[owner[x]] # "new" /\ NewKept
    BY <1>0, <1>6 DEF PushOverflows, StreamInv, strand, NewKept
  <2>2. QED
    BY <1>0, <1>6, <2>1, SlotReleased DEF PushOverflows
<1>7. ASSUME NEW a \in Closers, CloseStream(a) PROVE SlotCount'
  <2>1. PICK x \in to_close[a] : OnError(owner[x])
    BY <1>7 DEF CloseStream
  <2>2. x \in Streams /\ stat[x] # "none"
    <3>1. to_close[a] \in SUBSET Streams
      BY <1>0 DEF TypeOK
    <3>2. QED
      BY <1>0, <3>1, <2>1 DEF CloserInv
  <2>3. owner[x] \in Conns /\ pc[owner[x]] # "new"
    BY <1>0, <2>2 DEF StreamInv
  <2>4. NewKept
    BY <1>0, <1>7, CloserPc DEF NewKept
  <2>5. QED
    BY <1>0, <2>1, <2>3, <2>4, SlotsOnError
<1>8. CASE (\E s \in Sids : BecomesIdle(s)) \/ \E a \in Closers : Unlock(a)
  BY <1>0, <1>8, SlotsKept DEF BecomesIdle, Unlock, strand, NewKept
<1>9. CASE UNCHANGED vars
  BY <1>0, <1>9, SlotsKept DEF vars, strand, NewKept
<1>10. QED
  BY <1>0, <1>1, <1>2, <1>3, <1>4, <1>5, <1>6, <1>7, <1>8, <1>9, SlotTaken DEF Next

-----------------------------------------------------------------------------
(* The session table *)

\* Sessions are only added under the cap.
LEMMA CapStep ==
  ASSUME IInv, [Next]_vars
  PROVE  SessionCap'
<1>0. TypeOK /\ SessionCap
  BY DEF IInv
<1>1. IsFiniteSet(sessions)
  <2>1. IsFiniteSet(Sids)
    BY HttpAssumption, FS_Interval DEF Sids
  <2>2. QED
    BY <1>0, <2>1, FS_Subset DEF TypeOK
<1>2. ASSUME sessions' \subseteq sessions PROVE SessionCap'
  <2>1. Cardinality(sessions') <= Cardinality(sessions)
    BY <1>1, <1>2, FS_Subset
  <2>2. Cardinality(sessions) \in Nat /\ Cardinality(sessions') \in Nat
    BY <1>1, <1>2, FS_Subset, FS_CardinalityType
  <2>3. QED
    BY <1>0, <2>1, <2>2, HttpAssumption DEF SessionCap
<1>3. ASSUME NEW c \in Conns, CreateSession(c) PROVE SessionCap'
  <2>1. CASE SessionsFull(TRUE)
    BY <1>2, <1>3, <2>1 DEF CreateSession
  <2>2. CASE ~SessionsFull(TRUE)
    <3>1. sessions' = sessions \cup {arg[c]}
      BY <1>3, <2>2 DEF CreateSession
    <3>2. /\ IsFiniteSet(sessions')
          /\ Cardinality(sessions') =
               IF arg[c] \in sessions THEN Cardinality(sessions) ELSE Cardinality(sessions) + 1
      BY <1>1, <3>1, FS_AddElement
    <3>3. Cardinality(sessions) \in Nat /\ Cardinality(sessions') \in Nat
      BY <1>1, <3>2, FS_CardinalityType
    <3>4. QED
      BY <2>2, <3>2, <3>3, HttpAssumption DEF SessionsFull, SessionCap
  <2>3. QED
    BY <2>1, <2>2
<1>4. ASSUME NEW c \in Conns, Handler(c), ~CreateSession(c) PROVE sessions' \subseteq sessions
  BY <1>4 DEF Handler, InitializeAnswers, InitializeEnds, RolledBack, Touch,
     Register, DeleteAnswers, table
<1>5. ASSUME NEW c \in Conns, Arrives(c) PROVE sessions' \subseteq sessions
  BY <1>5 DEF Arrives, Answered, vars, Refuse, PostInitialize, SseConnect,
     DeleteOverflows, Post, GetSse, Delete, Remove, table
<1>6. ASSUME NEW c \in Conns,
             Accept(c) \/ Receive(c) \/ EndChunk(c) \/ ReadFails(c) \/ ReadTimeout(c)
               \/ WriteFails(c)
      PROVE  UNCHANGED sessions
  BY <1>6 DEF Accept, Receive, EndChunk, ReadFails, ReadTimeout, WriteFails, table
<1>7. CASE Start \/ AcceptNothing \/ SweepSessions \/ SweepEnds \/ SweepAborted
             \/ StopBegins \/ StopReaps \/ StopEnds
  <2>1. sessions' \subseteq sessions
    BY <1>7 DEF Start, AcceptNothing, SweepSessions, SweepEnds, SweepAborted,
       StopBegins, StopReaps, StopEnds, Remove, table
  <2>2. QED
    BY <1>2, <2>1
<1>8. ASSUME UNCHANGED sessions PROVE SessionCap'
  BY <1>0, <1>8 DEF SessionCap
<1>9. CASE \/ \E x \in Streams : PushOverflows(x)
           \/ \E a \in Closers : Unlock(a) \/ CloseStream(a)
           \/ \E s \in Sids : BecomesIdle(s)
           \/ UNCHANGED vars
  BY <1>8, <1>9 DEF PushOverflows, Unlock, CloseStream, BecomesIdle, vars, table
<1>10. QED
  BY <1>2, <1>3, <1>4, <1>5, <1>6, <1>7, <1>8, <1>9 DEF Next

\* Only the handler that makes a session leaves it half-made, and it does not end
\* without finishing or removing it.
LEMMA HalfSessionStep ==
  ASSUME IInv, [Next]_vars
  PROVE  HalfSessionHasOwner'
<1>0. TypeOK /\ HalfSessionHasOwner
  BY DEF IInv
<1> DEFINE Makes(c, s) == arg[c] = s /\ pc[c] \in {"init", "accepted", "rejected"}
<1>1. ASSUME sessions' \subseteq sessions, initialized \subseteq initialized',
             \A c \in Conns, s \in sessions' \ initialized' : Makes(c, s) => Makes(c, s)'
      PROVE  HalfSessionHasOwner'
  BY <1>0, <1>1 DEF HalfSessionHasOwner
<1>2. ASSUME NEW c \in Conns, CreateSession(c) PROVE HalfSessionHasOwner'
  <2>1. CASE SessionsFull(TRUE)
    BY <1>0, <1>1, <1>2, <2>1 DEF CreateSession, Return, TypeOK
  <2>2. CASE ~SessionsFull(TRUE)
    <3>1. /\ sessions' = sessions \cup {arg[c]} /\ UNCHANGED <<arg, initialized>>
          /\ pc' = [pc EXCEPT ![c] = "init"]
      BY <1>2, <2>2 DEF CreateSession
    <3>2. \A d \in Conns, s \in Sids : Makes(d, s) => Makes(d, s)'
      BY <1>0, <3>1 DEF TypeOK
    <3>3. Makes(c, arg[c])'
      BY <1>0, <3>1 DEF TypeOK
    <3>4. \A s \in sessions' \ initialized' : \E d \in Conns : Makes(d, s)'
      BY <1>0, <3>1, <3>2, <3>3 DEF HalfSessionHasOwner, TypeOK
    <3>5. QED
      BY <3>4 DEF HalfSessionHasOwner
  <2>3. QED
    BY <2>1, <2>2
<1>3. ASSUME NEW c \in Conns, InitializeAnswers(c) PROVE HalfSessionHasOwner'
  BY <1>0, <1>1, <1>3 DEF InitializeAnswers, TypeOK
<1>4. ASSUME NEW c \in Conns, InitializeEnds(c) PROVE HalfSessionHasOwner'
  BY <1>0, <1>1, <1>4 DEF InitializeEnds, RolledBack, Return, TypeOK
<1>5. ASSUME NEW c \in Conns, Touch(c) \/ Register(c) \/ DeleteAnswers(c)
      PROVE  HalfSessionHasOwner'
  BY <1>0, <1>1, <1>5 DEF Touch, Register, DeleteAnswers, Return, table, TypeOK
<1>6. ASSUME NEW c \in Conns, Arrives(c) PROVE HalfSessionHasOwner'
  <2>1. sessions' \subseteq sessions /\ UNCHANGED initialized
    BY <1>6 DEF Arrives, Answered, vars, Refuse, PostInitialize, SseConnect,
       DeleteOverflows, Post, GetSse, Delete, Remove, table
  <2>2. /\ pc[c] = "chunk"
        /\ \A d \in Conns : d # c => arg'[d] = arg[d] /\ pc'[d] = pc[d]
    BY <1>0, <1>6 DEF Arrives, Answered, vars, Refuse, PostInitialize, SseConnect,
       DeleteOverflows, Post, GetSse, Delete, MakeStream, Request, strand, TypeOK
  <2>3. QED
    BY <1>1, <2>1, <2>2
<1>7. ASSUME NEW c \in Conns,
             Accept(c) \/ Receive(c) \/ EndChunk(c) \/ ReadFails(c) \/ ReadTimeout(c)
               \/ WriteFails(c)
      PROVE  HalfSessionHasOwner'
  <2>1. UNCHANGED <<sessions, initialized, arg>>
    BY <1>7 DEF Accept, Receive, EndChunk, ReadFails, ReadTimeout, WriteFails,
       table, strand
  <2>2. \A d \in Conns : pc'[d] = pc[d] \/ pc[d] \in {"new", "read", "chunk"}
    BY <1>0, <1>7 DEF Accept, Receive, EndChunk, ReadFails, ReadTimeout,
       WriteFails, strand, TypeOK
  <2>3. QED
    BY <1>1, <2>1, <2>2
<1>8. CASE \/ Start \/ AcceptNothing \/ SweepSessions \/ SweepEnds \/ SweepAborted
           \/ StopBegins \/ StopReaps \/ StopEnds
           \/ \E x \in Streams : PushOverflows(x)
           \/ \E a \in Closers : Unlock(a)
           \/ \E s \in Sids : BecomesIdle(s)
           \/ UNCHANGED vars
  <2>1. sessions' \subseteq sessions /\ UNCHANGED <<initialized, arg, pc>>
    BY <1>8 DEF Start, AcceptNothing, SweepSessions, SweepEnds, SweepAborted,
       StopBegins, StopReaps, StopEnds, Remove, PushOverflows, Unlock,
       BecomesIdle, vars, table, strand
  <2>2. QED
    BY <1>1, <2>1
<1>9. ASSUME NEW a \in Closers, CloseStream(a) PROVE HalfSessionHasOwner'
  <2>1. UNCHANGED <<sessions, initialized, arg>>
    BY <1>9 DEF CloseStream, table
  <2>2. \A d \in Conns : pc'[d] = pc[d] \/ pc[d] = "close"
    BY <1>0, <1>9, CloserPc DEF IInv
  <2>3. QED
    BY <1>1, <2>1, <2>2
<1>10. QED
  BY <1>2, <1>3, <1>4, <1>5, <1>6, <1>7, <1>8, <1>9 DEF Next, Handler

-----------------------------------------------------------------------------
(* Streams and their closers *)

\* Streams only leave their lists.
StatShrinks ==
  \A x \in Streams :
    stat'[x] = stat[x] \/ (stat[x] \notin {"none", "made"} /\ stat'[x] = "gone")

Service ==
  \/ Start \/ AcceptNothing \/ SweepSessions \/ SweepEnds \/ SweepAborted
  \/ StopBegins \/ StopReaps \/ StopEnds

Traffic(c) ==
  \/ Accept(c) \/ Receive(c) \/ EndChunk(c) \/ ReadFails(c) \/ ReadTimeout(c)
  \/ WriteFails(c)

\* on_error and the removal of sessions only take streams off their lists.
LEMMA OnErrorShrinks ==
  ASSUME TypeOK, StreamInv, NEW c \in Conns, OnError(c)
  PROVE  StatShrinks
<1>1. \A x \in Streams :
        \/ stat'[x] = stat[x]
        \/ stat'[x] = "gone" /\ stat[x] # "made" /\ x = on_disconnect[c]
  BY OnErrorEffect
<1>2. 0 \notin Streams
  BY DEF Streams
<1>3. \A x \in Streams : x = on_disconnect[c] => stat[x] # "none"
  BY <1>2 DEF StreamInv
<1>4. QED
  BY <1>1, <1>3 DEF StatShrinks

\* Ending sessions only takes streams off their lists.
LEMMA RemoveShrinks ==
  ASSUME TypeOK, NEW S, NEW a, Remove(S, a)
  PROVE  StatShrinks
BY DEF Remove, Listed, StatShrinks, TypeOK

\* The connection whose stream a closer takes was accepted.
LEMMA CloserOwner ==
  ASSUME TypeOK, StreamInv, CloserInv, NEW a \in Closers, NEW x \in to_close[a]
  PROVE  x \in Streams /\ stat[x] # "none" /\ owner[x] \in Conns
<1>1. to_close[a] \in SUBSET Streams
  BY DEF TypeOK
<1>2. QED
  BY <1>1 DEF CloserInv, StreamInv

\* A step that does not make or register a stream only takes streams off their
\* lists.
LEMMA ListsShrink ==
  ASSUME TypeOK, StreamInv, CloserInv, [Next]_vars,
         ~ \E c \in Conns : Register(c) \/ SseConnect(c) \/ \E s \in Sids : GetSse(c, s)
  PROVE  StatShrinks /\ UNCHANGED <<owner, home, on_disconnect>>
<1> DEFINE G == StatShrinks /\ UNCHANGED <<owner, home, on_disconnect>>
<1> SUFFICES G
  OBVIOUS
<1>1. ASSUME UNCHANGED lists PROVE G
  BY <1>1 DEF lists, StatShrinks
<1>2. CASE Service
  <2>1. CASE SweepSessions \/ StopReaps
    BY <2>1, RemoveShrinks DEF SweepSessions, StopReaps
  <2>2. CASE Start \/ AcceptNothing \/ SweepEnds \/ SweepAborted \/ StopBegins \/ StopEnds
    BY <1>1, <2>2 DEF Start, AcceptNothing, SweepEnds, SweepAborted, StopBegins, StopEnds
  <2>3. QED
    BY <1>2, <2>1, <2>2 DEF Service
<1>3. ASSUME NEW c \in Conns, Traffic(c) PROVE G
  <2>1. CASE Accept(c) \/ Receive(c) \/ EndChunk(c)
    BY <1>1, <2>1 DEF Accept, Receive, EndChunk
  <2>2. CASE ReadFails(c) \/ ReadTimeout(c) \/ WriteFails(c)
    BY <2>2, OnErrorShrinks DEF ReadFails, ReadTimeout, WriteFails
  <2>3. QED
    BY <1>3, <2>1, <2>2 DEF Traffic
<1>4. ASSUME NEW c \in Conns, Arrives(c) PROVE G
  <2>1. ASSUME NEW s \in Sids, Delete(c, s) PROVE G
    BY <2>1, RemoveShrinks DEF Delete
  <2>2. CASE Answered(c) \/ Refuse(c) \/ PostInitialize(c) \/ DeleteOverflows(c)
    BY <1>1, <2>2 DEF Answered, vars, Refuse, PostInitialize, DeleteOverflows
  <2>3. ASSUME NEW s \in Sids, Post(c, s) PROVE G
    BY <1>1, <2>3 DEF Post
  <2>4. QED
    BY <1>4, <2>1, <2>2, <2>3 DEF Arrives
<1>5. ASSUME NEW c \in Conns, Handler(c) PROVE G
  BY <1>1, <1>5 DEF Handler, CreateSession, InitializeAnswers, InitializeEnds, Touch,
     DeleteAnswers
<1>6. ASSUME NEW a \in Closers, CloseStream(a) PROVE G
  BY <1>6, OnErrorShrinks, CloserOwner DEF CloseStream
<1>7. CASE \/ \E x \in Streams : PushOverflows(x)
           \/ \E a \in Closers : Unlock(a)
           \/ \E s \in Sids : BecomesIdle(s)
           \/ UNCHANGED vars
  BY <1>1, <1>7 DEF PushOverflows, Unlock, BecomesIdle, vars
<1>8. QED
  BY <1>2, <1>3, <1>4, <1>5, <1>6, <1>7 DEF Next, Service, Traffic

\* Where a step takes the handlers of the connections.
LEMMA HandlerMoves ==
  ASSUME TypeOK, CloserInv, [Next]_vars
  PROVE  /\ \A c \in Conns : pc'[c] = "new" => pc[c] = "new"
         /\ \A c \in Conns : pc'[c] = "open" =>
              \/ pc[c] = "open" /\ arg'[c] = arg[c]
              \/ SseConnect(c) \/ \E s \in Sids : GetSse(c, s)
         /\ \A c \in Conns : pc[c] \in {"close", "stuck"} =>
              pc'[c] \in {"close", "stuck"} \/ DeleteAnswers(c)
         /\ \A c \in Conns : pc'[c] \in InitPhases =>
              \/ pc[c] \in InitPhases /\ arg'[c] = arg[c]
              \/ PostInitialize(c)
<1> DEFINE Kept(d) == pc'[d] = pc[d] /\ arg'[d] = arg[d]
           M(d) == /\ pc'[d] = "new" => pc[d] = "new"
                   /\ pc'[d] = "open" =>
                        \/ pc[d] = "open" /\ arg'[d] = arg[d]
                        \/ SseConnect(d) \/ \E s \in Sids : GetSse(d, s)
                   /\ pc[d] \in {"close", "stuck"} =>
                        pc'[d] \in {"close", "stuck"} \/ DeleteAnswers(d)
                   /\ pc'[d] \in InitPhases =>
                        \/ pc[d] \in InitPhases /\ arg'[d] = arg[d]
                        \/ PostInitialize(d)
<1> SUFFICES ASSUME NEW d \in Conns PROVE M(d)
  OBVIOUS
<1>1. ASSUME Kept(d) PROVE M(d)
  BY <1>1
<1> HIDE DEF M
<1>2. ASSUME NEW c \in Conns, Arrives(c) PROVE M(d)
  <2>1. CASE d # c
    <3>1. Kept(d)
      BY <1>2, <2>1 DEF Arrives, Answered, vars, Refuse, PostInitialize, SseConnect,
         DeleteOverflows, Post, GetSse, Delete, MakeStream, Request, strand, TypeOK
    <3>2. QED
      BY <1>1, <3>1
  <2>2. CASE d = c
    <3>1. CASE Answered(c) \/ Refuse(c)
      BY <1>1, <2>2, <3>1 DEF Answered, vars, Refuse, strand
    <3>2. pc[c] = "chunk"
      BY <1>2 DEF Arrives, Answered, Refuse, PostInitialize, SseConnect,
         DeleteOverflows, Post, GetSse, Delete, Request
    <3>3. ASSUME pc'[c] \in {"found", "close", "stuck"} PROVE M(d)
      BY <2>2, <3>2, <3>3 DEF M, InitPhases
    <3>4. CASE PostInitialize(c)
      BY <2>2, <3>2, <3>4 DEF M, PostInitialize, TypeOK
    <3>5. CASE SseConnect(c) \/ \E s \in Sids : GetSse(c, s)
      <4>1. pc'[c] = "open"
        BY <3>5 DEF SseConnect, GetSse, MakeStream, TypeOK
      <4>2. QED
        BY <2>2, <3>2, <3>5, <4>1 DEF M, InitPhases
    <3>6. CASE DeleteOverflows(c) \/ \E s \in Sids : Post(c, s) \/ Delete(c, s)
      BY <3>3, <3>6 DEF DeleteOverflows, Post, Delete, TypeOK
    <3>7. QED
      BY <1>2, <3>1, <3>4, <3>5, <3>6 DEF Arrives
  <2>3. QED
    BY <2>1, <2>2
<1>3. ASSUME NEW c \in Conns, Handler(c) PROVE M(d)
  <2>1. CASE d # c
    <3>1. Kept(d)
      BY <1>3, <2>1 DEF Handler, CreateSession, InitializeAnswers, InitializeEnds,
         Touch, Register, DeleteAnswers, Return, TypeOK
    <3>2. QED
      BY <1>1, <3>1
  <2>2. CASE d = c
    BY <1>3, <2>2 DEF Handler, CreateSession, InitializeAnswers, InitializeEnds,
       Touch, Register, DeleteAnswers, Return, TypeOK, M, InitPhases
  <2>3. QED
    BY <2>1, <2>2
<1>4. ASSUME NEW c \in Conns, Traffic(c) PROVE M(d)
  BY <1>4 DEF Traffic, Accept, Receive, EndChunk, ReadFails, ReadTimeout, WriteFails,
     strand, TypeOK, M, InitPhases
<1>5. CASE \/ Service
           \/ \E x \in Streams : PushOverflows(x)
           \/ \E a \in Closers : Unlock(a)
           \/ \E s \in Sids : BecomesIdle(s)
           \/ UNCHANGED vars
  <2>1. Kept(d)
    BY <1>5 DEF Service, Start, AcceptNothing, SweepSessions, SweepEnds, SweepAborted,
       StopBegins, StopReaps, StopEnds, PushOverflows, Unlock, BecomesIdle, vars,
       strand
  <2>2. QED
    BY <1>1, <2>1
<1>6. ASSUME NEW a \in Closers, CloseStream(a) PROVE M(d)
  <2>1. CASE pc'[d] = pc[d]
    <3>1. arg'[d] = arg[d]
      BY <1>6 DEF CloseStream
    <3>2. QED
      BY <1>1, <2>1, <3>1
  <2>2. CASE pc[d] = "close" /\ pc'[d] = "stuck"
    BY <2>2 DEF M, InitPhases
  <2>3. QED
    BY <1>6, <2>1, <2>2, CloserPc
<1>7. QED
  BY <1>2, <1>3, <1>4, <1>5, <1>6 DEF Next, Service, Traffic

\* Every step keeps the relation between streams and connections.
LEMMA StreamStep ==
  ASSUME IInv, [Next]_vars
  PROVE  StreamInv'
<1>0. TypeOK /\ StreamInv /\ CloserInv /\ 0 \notin Streams
  BY DEF IInv, Streams
<1>1. ASSUME NEW c \in Conns, Register(c) PROVE StreamInv'
  <2>1. /\ pc[c] = "open" /\ on_disconnect[c] # 0
        /\ UNCHANGED <<owner, home, on_disconnect>>
        /\ pc' = [pc EXCEPT ![c] = "chunk"] /\ arg' = [arg EXCEPT ![c] = LEGACY]
    BY <1>0, <1>1 DEF Register, Return, StreamInv
  <2>2. /\ owner[on_disconnect[c]] = c /\ on_disconnect[c] \in Streams
        /\ stat[on_disconnect[c]] = "made"
    BY <1>0, <2>1 DEF StreamInv, TypeOK
  <2>3. \A x \in Streams : /\ stat'[x] # "none" => stat[x] # "none"
                           /\ stat[x] # "none" => stat'[x] # "none"
                           /\ x # on_disconnect[c] => stat'[x] = stat[x]
    BY <1>0, <1>1, <2>2 DEF Register, TypeOK
  <2>4. \A d \in Conns : /\ pc'[d] = "new" => pc[d] = "new"
                         /\ pc'[d] = "open" => d # c /\ pc[d] = "open" /\ arg'[d] = arg[d]
    BY <1>0, <2>1 DEF TypeOK
  <2>5. \A x \in Streams :
          stat'[x] # "none" => owner'[x] \in Conns /\ pc'[owner'[x]] # "new"
    BY <1>0, <2>1, <2>3, <2>4 DEF StreamInv
  <2>6. \A d \in Conns : on_disconnect'[d] # 0 =>
          stat'[on_disconnect'[d]] # "none" /\ owner'[on_disconnect'[d]] = d
    BY <1>0, <2>1, <2>3 DEF StreamInv, TypeOK
  <2>7. \A d \in Conns : pc'[d] = "open" =>
          /\ on_disconnect'[d] # 0 /\ stat'[on_disconnect'[d]] = "made"
          /\ home'[on_disconnect'[d]] = arg'[d]
    BY <1>0, <2>1, <2>2, <2>3, <2>4 DEF StreamInv, TypeOK
  <2>8. QED
    BY <2>5, <2>6, <2>7 DEF StreamInv
<1>2. ASSUME NEW c \in Conns, NEW s, pc[c] = "chunk", MakeStream(c, s) PROVE StreamInv'
  <2>1. PICK x \in Streams :
          /\ stat[x] = "none"
          /\ stat' = [stat EXCEPT ![x] = "made"]
          /\ owner' = [owner EXCEPT ![x] = c]
          /\ home' = [home EXCEPT ![x] = s]
          /\ on_disconnect' = [on_disconnect EXCEPT ![c] = x]
    BY <1>2 DEF MakeStream
  <2>2. arg' = [arg EXCEPT ![c] = s] /\ pc' = [pc EXCEPT ![c] = "open"]
    BY <1>2 DEF MakeStream
  <2>3. \A y \in Streams : y # x =>
          stat'[y] = stat[y] /\ owner'[y] = owner[y] /\ home'[y] = home[y]
    BY <1>0, <2>1 DEF TypeOK
  <2>4. stat'[x] = "made" /\ owner'[x] = c /\ home'[x] = s /\ on_disconnect'[c] = x
    BY <1>0, <2>1 DEF TypeOK
  <2>5. \A d \in Conns : d # c => /\ pc'[d] = pc[d] /\ arg'[d] = arg[d]
                                  /\ on_disconnect'[d] = on_disconnect[d]
    BY <1>0, <2>1, <2>2 DEF TypeOK
  <2>6. pc'[c] = "open" /\ arg'[c] = s
    BY <1>0, <2>2 DEF TypeOK
  <2>7. \A d \in Conns : on_disconnect[d] # x
    BY <1>0, <2>1 DEF StreamInv
  <2>8. \A y \in Streams :
          stat'[y] # "none" => owner'[y] \in Conns /\ pc'[owner'[y]] # "new"
    BY <1>0, <1>2, <2>3, <2>4, <2>5, <2>6 DEF StreamInv
  <2>9. ASSUME NEW d \in Conns
        PROVE  /\ on_disconnect'[d] # 0 =>
                    stat'[on_disconnect'[d]] # "none" /\ owner'[on_disconnect'[d]] = d
               /\ pc'[d] = "open" =>
                    /\ on_disconnect'[d] # 0 /\ stat'[on_disconnect'[d]] = "made"
                    /\ home'[on_disconnect'[d]] = arg'[d]
    <3>1. CASE d = c
      BY <1>0, <3>1, <2>1, <2>4, <2>6
    <3>2. CASE d # c
      <4>1. on_disconnect[d] \in Streams \cup {0} /\ on_disconnect[d] # x
        BY <1>0, <2>7 DEF TypeOK
      <4>2. QED
        BY <1>0, <3>2, <4>1, <2>3, <2>5 DEF StreamInv
    <3>3. QED
      BY <3>1, <3>2
  <2>10. QED
    BY <2>8, <2>9 DEF StreamInv
<1>3. ASSUME NEW c \in Conns, SseConnect(c) \/ \E s \in Sids : GetSse(c, s)
      PROVE  StreamInv'
  BY <1>2, <1>3 DEF SseConnect, GetSse, Request
<1>4. CASE ~ \E c \in Conns : Register(c) \/ SseConnect(c) \/ \E s \in Sids : GetSse(c, s)
  <2>1. StatShrinks /\ UNCHANGED <<owner, home, on_disconnect>>
    BY <1>0, <1>4, ListsShrink
  <2>2. /\ \A c \in Conns : pc'[c] = "new" => pc[c] = "new"
        /\ \A c \in Conns : pc'[c] = "open" => pc[c] = "open" /\ arg'[c] = arg[c]
    BY <1>0, <1>4, HandlerMoves
  <2>3. \A x \in Streams :
          stat'[x] # "none" => owner'[x] \in Conns /\ pc'[owner'[x]] # "new"
    BY <1>0, <2>1, <2>2 DEF StreamInv, StatShrinks
  <2>4. \A d \in Conns : on_disconnect'[d] # 0 =>
          stat'[on_disconnect'[d]] # "none" /\ owner'[on_disconnect'[d]] = d
    BY <1>0, <2>1 DEF StreamInv, StatShrinks, TypeOK
  <2>5. \A d \in Conns : pc'[d] = "open" =>
          /\ on_disconnect'[d] # 0 /\ stat'[on_disconnect'[d]] = "made"
          /\ home'[on_disconnect'[d]] = arg'[d]
    BY <1>0, <2>1, <2>2 DEF StreamInv, StatShrinks, TypeOK
  <2>6. QED
    BY <2>3, <2>4, <2>5 DEF StreamInv
<1>5. QED
  BY <1>1, <1>3, <1>4

\* A stream that was made keeps its connection and its session for good.
LEMMA StreamsStay ==
  ASSUME IInv, [Next]_vars, NEW x \in Streams, stat[x] # "none"
  PROVE  stat'[x] # "none" /\ owner'[x] = owner[x] /\ home'[x] = home[x]
<1>0. TypeOK /\ StreamInv /\ CloserInv
  BY DEF IInv
<1>1. ASSUME NEW c \in Conns, Register(c)
      PROVE  stat'[x] # "none" /\ owner'[x] = owner[x] /\ home'[x] = home[x]
  BY <1>0, <1>1 DEF Register, TypeOK
<1>2. ASSUME NEW c \in Conns, SseConnect(c) \/ \E s \in Sids : GetSse(c, s)
      PROVE  stat'[x] # "none" /\ owner'[x] = owner[x] /\ home'[x] = home[x]
  BY <1>0, <1>2 DEF SseConnect, GetSse, MakeStream, TypeOK
<1>3. CASE ~ \E c \in Conns : Register(c) \/ SseConnect(c) \/ \E s \in Sids : GetSse(c, s)
  BY <1>0, <1>3, ListsShrink DEF StatShrinks
<1>4. QED
  BY <1>1, <1>2, <1>3

\* The closers, and when their work changes.
LEMMA CloserMoves ==
  ASSUME IInv, [Next]_vars
  PROVE  \/ /\ UNCHANGED to_close
            /\ stop_pc \in {"close", "stuck"} =>
                 stop_pc' \in {"close", "stuck"} \/ StopEnds
            /\ sweep \in {"closing", "stuck"} =>
                 sweep' \in {"closing", "stuck"} \/ SweepEnds
         \/ \E a \in Closers : CloseStream(a)
         \/ \E c \in Conns, s \in Sids : Delete(c, s)
         \/ SweepSessions \/ StopReaps
<1> DEFINE G == /\ UNCHANGED to_close
                /\ stop_pc \in {"close", "stuck"} =>
                     stop_pc' \in {"close", "stuck"} \/ StopEnds
                /\ sweep \in {"closing", "stuck"} =>
                     sweep' \in {"closing", "stuck"} \/ SweepEnds
<1>1. CASE Start \/ AcceptNothing \/ SweepEnds \/ SweepAborted \/ StopBegins \/ StopEnds
  <2>1. CASE SweepEnds
    <3>1. UNCHANGED <<to_close, stop_pc>>
      BY <2>1 DEF SweepEnds
    <3>2. QED
      BY <2>1, <3>1
  <2>2. CASE StopEnds
    <3>1. UNCHANGED <<to_close, sweep>>
      BY <2>2 DEF StopEnds
    <3>2. QED
      BY <2>2, <3>1
  <2>3. CASE Start
    BY <2>3 DEF Start, IInv, CloserInv
  <2>4. CASE AcceptNothing \/ SweepAborted \/ StopBegins
    BY <2>4 DEF AcceptNothing, SweepAborted, StopBegins
  <2>5. QED
    BY <1>1, <2>1, <2>2, <2>3, <2>4
<1>2. ASSUME NEW c \in Conns, Traffic(c) PROVE G
  BY <1>2 DEF Traffic, Accept, Receive, EndChunk, ReadFails, ReadTimeout, WriteFails
<1>3. ASSUME NEW c \in Conns, Arrives(c), ~ \E s \in Sids : Delete(c, s) PROVE G
  BY <1>3 DEF Arrives, Answered, vars, Refuse, PostInitialize, SseConnect,
     DeleteOverflows, Post, GetSse
<1>4. ASSUME NEW c \in Conns, Handler(c) PROVE G
  BY <1>4 DEF Handler, CreateSession, InitializeAnswers, InitializeEnds, Touch, Register,
     DeleteAnswers
<1>5. CASE \/ \E x \in Streams : PushOverflows(x)
           \/ \E a \in Closers : Unlock(a)
           \/ \E s \in Sids : BecomesIdle(s)
           \/ UNCHANGED vars
  BY <1>5 DEF PushOverflows, Unlock, BecomesIdle, vars
<1>6. QED
  BY <1>1, <1>2, <1>3, <1>4, <1>5 DEF Next, Traffic

\* The closers are distinct.
LEMMA CloserIds ==
  /\ Sweeper \in Closers /\ Stopper \in Closers /\ Sweeper # Stopper
  /\ \A c \in Conns : c \in Closers /\ c # Sweeper /\ c # Stopper
BY HttpAssumption DEF Sweeper, Stopper, Closers, Conns

\* What a closer of the sessions S takes on was listed.
LEMMA RemoveCloses ==
  ASSUME TypeOK, NEW S, NEW a \in Closers, Remove(S, a)
  PROVE  /\ to_close' = [to_close EXCEPT ![a] = Listed(S)]
         /\ \A x \in Listed(S) : x \in Streams /\ stat[x] = "listed"
BY DEF Remove, ToClose, Listed

\* Before start() there is no sweep.
LEMMA NoSweepYet ==
  ASSUME IInv, [Next]_vars, ~running', stop_pc' = "idle"
  PROVE  sweep' = "off"
<1>0. TypeOK /\ CloserInv
  BY DEF IInv
<1>1. ASSUME UNCHANGED <<running, stop_pc, sweep>> PROVE sweep' = "off"
  BY <1>0, <1>1 DEF CloserInv
<1>2. CASE Service
  BY <1>0, <1>1, <1>2 DEF Service, Start, AcceptNothing, SweepSessions, SweepEnds,
     SweepAborted, StopBegins, StopReaps, StopEnds, listener, CloserInv
<1>3. ASSUME NEW c \in Conns, Traffic(c) PROVE sweep' = "off"
  BY <1>1, <1>3 DEF Traffic, Accept, Receive, EndChunk, ReadFails, ReadTimeout,
     WriteFails, listener
<1>4. ASSUME NEW c \in Conns, Arrives(c) PROVE sweep' = "off"
  BY <1>1, <1>4 DEF Arrives, Answered, vars, Refuse, PostInitialize, SseConnect,
     DeleteOverflows, Post, GetSse, Delete, listener
<1>5. ASSUME NEW c \in Conns, Handler(c) PROVE sweep' = "off"
  BY <1>1, <1>5 DEF Handler, CreateSession, InitializeAnswers, InitializeEnds, Touch,
     Register, DeleteAnswers, listener
<1>6. CASE \/ \E x \in Streams : PushOverflows(x)
           \/ \E a \in Closers : Unlock(a)
           \/ \E s \in Sids : BecomesIdle(s)
           \/ UNCHANGED vars
  BY <1>1, <1>6 DEF PushOverflows, Unlock, BecomesIdle, vars, listener
<1>7. ASSUME NEW a \in Closers, CloseStream(a) PROVE sweep' = "off"
  <2>1. to_close[a] # {} /\ UNCHANGED running /\ (UNCHANGED stop_pc \/ stop_pc' = "stuck")
    BY <1>0, <1>7 DEF CloseStream, Sticks, listener
  <2>2. UNCHANGED stop_pc /\ sweep = "off"
    BY <1>0, <2>1 DEF CloserInv
  <2>3. a # Sweeper
    BY <1>0, <2>1, <2>2 DEF CloserInv
  <2>4. QED
    BY <1>7, <2>2, <2>3 DEF CloseStream, Sticks
<1>8. QED
  BY <1>2, <1>3, <1>4, <1>5, <1>6, <1>7 DEF Next, Service, Traffic

\* Every step keeps the closers' work with the closers.
LEMMA CloserStep ==
  ASSUME IInv, [Next]_vars
  PROVE  CloserInv'
<1>0. /\ TypeOK /\ StreamInv /\ CloserInv
      /\ ~running' /\ stop_pc' = "idle" => sweep' = "off"
  BY NoSweepYet DEF IInv
<1> USE CloserIds
<1>1. \A x \in Streams : stat[x] # "none" => stat'[x] # "none"
  BY StreamsStay
<1>2. CASE /\ UNCHANGED to_close
           /\ stop_pc \in {"close", "stuck"} =>
                stop_pc' \in {"close", "stuck"} \/ StopEnds
           /\ sweep \in {"closing", "stuck"} =>
                sweep' \in {"closing", "stuck"} \/ SweepEnds
  <2>1. \A c \in Conns : pc'[c] \notin {"close", "stuck"} => to_close[c] = {}
    <3>1. \A c \in Conns : pc[c] \in {"close", "stuck"} =>
            pc'[c] \in {"close", "stuck"} \/ DeleteAnswers(c)
      BY <1>0, HandlerMoves
    <3>2. QED
      BY <1>0, <3>1 DEF CloserInv, DeleteAnswers, Closed
  <2>2. /\ sweep' \notin {"closing", "stuck"} => to_close[Sweeper] = {}
        /\ stop_pc' \notin {"close", "stuck"} => to_close[Stopper] = {}
    BY <1>0, <1>2 DEF CloserInv, SweepEnds, StopEnds, Closed
  <2>3. \A a \in Closers : \A x \in to_close[a] : x \in Streams /\ stat[x] # "none"
    BY <1>0, CloserOwner
  <2>4. QED
    BY <1>0, <1>1, <1>2, <2>1, <2>2, <2>3 DEF CloserInv
<1>3. ASSUME NEW a \in Closers, CloseStream(a) PROVE CloserInv'
  <2>1. /\ \A b \in Closers : to_close'[b] \subseteq to_close[b]
        /\ UNCHANGED sweep \/ sweep' = "stuck"
        /\ UNCHANGED stop_pc \/ stop_pc' = "stuck"
    BY <1>0, <1>3 DEF CloseStream, Sticks, TypeOK
  <2>2. \A c \in Conns : pc'[c] = pc[c] \/ pc'[c] = "stuck"
    BY <1>0, <1>3, CloserPc
  <2>3. \A b \in Closers : \A x \in to_close[b] : x \in Streams /\ stat[x] # "none"
    BY <1>0, CloserOwner
  <2>4. \A b \in Closers : to_close[b] = {} => to_close'[b] = {}
    BY <2>1
  <2>5. QED
    BY <1>0, <1>1, <2>1, <2>2, <2>3, <2>4 DEF CloserInv
<1>4. ASSUME NEW S, NEW a \in Closers, Remove(S, a),
             \A c \in Conns : pc'[c] \notin {"close", "stuck"} =>
               pc[c] \notin {"close", "stuck"} /\ c # a,
             sweep' \notin {"closing", "stuck"} =>
               sweep \notin {"closing", "stuck"} /\ a # Sweeper,
             stop_pc' \notin {"close", "stuck"} =>
               stop_pc \notin {"close", "stuck"} /\ a # Stopper
      PROVE  CloserInv'
  <2>1. /\ to_close' = [to_close EXCEPT ![a] = Listed(S)]
        /\ \A x \in Listed(S) : x \in Streams /\ stat[x] = "listed"
    BY <1>0, <1>4, RemoveCloses
  <2>2. /\ to_close'[a] = Listed(S)
        /\ \A b \in Closers : b # a => to_close'[b] = to_close[b]
    BY <1>0, <2>1 DEF TypeOK
  <2>3. \A b \in Closers : \A x \in to_close[b] : x \in Streams /\ stat[x] # "none"
    BY <1>0, CloserOwner
  <2>4. \A b \in Closers : \A x \in to_close'[b] : stat'[x] # "none"
    BY <1>1, <2>1, <2>2, <2>3
  <2>5. QED
    BY <1>0, <1>4, <2>2, <2>4 DEF CloserInv
<1>5. ASSUME NEW c \in Conns, NEW s \in Sids, Delete(c, s) PROVE CloserInv'
  <2>1. /\ Remove({s}, c) /\ UNCHANGED <<sweep, stop_pc>>
        /\ pc' = [pc EXCEPT ![c] = "close"]
    BY <1>5 DEF Delete
  <2>2. \A d \in Conns : pc'[d] \notin {"close", "stuck"} =>
          pc[d] \notin {"close", "stuck"} /\ d # c
    BY <1>0, <2>1 DEF TypeOK
  <2>3. QED
    BY <1>4, <2>1, <2>2
<1>6. CASE SweepSessions
  BY <1>4, <1>6 DEF SweepSessions, strand
<1>7. CASE StopReaps
  BY <1>4, <1>7 DEF StopReaps, strand
<1>8. QED
  BY <1>2, <1>3, <1>5, <1>6, <1>7, CloserMoves

\* A connection that is inactive stays so.
LEMMA InactiveStays ==
  ASSUME IInv, [Next]_vars, NEW d \in Conns, ~active[d]
  PROVE  ~active'[d]
<1>0. TypeOK /\ StreamInv /\ CloserInv
  BY DEF IInv
<1>1. ASSUME UNCHANGED active PROVE ~active'[d]
  BY <1>1
<1>2. ASSUME NEW c \in Conns, OnError(c) PROVE ~active'[d]
  BY <1>0, <1>2, OnErrorEffect
<1>3. CASE Service
  BY <1>1, <1>3 DEF Service, Start, AcceptNothing, SweepSessions, SweepEnds, SweepAborted,
     StopBegins, StopReaps, StopEnds, slots
<1>4. ASSUME NEW c \in Conns, Traffic(c) PROVE ~active'[d]
  BY <1>1, <1>2, <1>4 DEF Traffic, Accept, Receive, EndChunk, ReadFails, ReadTimeout,
     WriteFails, slots
<1>5. ASSUME NEW c \in Conns, Arrives(c) PROVE ~active'[d]
  BY <1>0, <1>1, <1>5 DEF Arrives, Answered, vars, Refuse, PostInitialize, SseConnect,
     DeleteOverflows, Post, GetSse, Delete, slots, TypeOK
<1>6. ASSUME NEW c \in Conns, Handler(c) PROVE ~active'[d]
  BY <1>1, <1>6 DEF Handler, CreateSession, InitializeAnswers, InitializeEnds, Touch,
     Register, DeleteAnswers, slots
<1>7. ASSUME NEW a \in Closers, CloseStream(a) PROVE ~active'[d]
  BY <1>0, <1>2, <1>7, CloserOwner DEF CloseStream
<1>8. ASSUME NEW x \in Streams, PushOverflows(x) PROVE ~active'[d]
  BY <1>0, <1>8 DEF PushOverflows, TypeOK
<1>9. CASE \/ \E a \in Closers : Unlock(a)
           \/ \E s \in Sids : BecomesIdle(s)
           \/ UNCHANGED vars
  BY <1>1, <1>9 DEF Unlock, BecomesIdle, vars, slots
<1>10. QED
  BY <1>3, <1>4, <1>5, <1>6, <1>7, <1>8, <1>9 DEF Next, Service, Traffic

\* A stream that is off its list is closed, or a closer has it.
LEMMA GoneStep ==
  ASSUME IInv, [Next]_vars
  PROVE  GoneInv'
<1>0. TypeOK /\ StreamInv /\ CloserInv /\ GoneInv
  BY DEF IInv
<1> USE CloserIds
<1>1. SUFFICES ASSUME NEW x \in Streams, stat'[x] = "gone", active'[owner'[x]]
               PROVE  \E a \in Closers : x \in to_close'[a]
  BY DEF GoneInv
<1>2. ASSUME stat[x] = "gone" PROVE \E a \in Closers : x \in to_close[a]
  <2>1. owner'[x] = owner[x] /\ owner[x] \in Conns
    BY <1>0, <1>2, StreamsStay DEF StreamInv
  <2>2. active[owner[x]]
    BY <1>1, <2>1, InactiveStays
  <2>3. QED
    BY <1>0, <1>2, <2>2 DEF GoneInv
<1>3. ASSUME NEW c \in Conns, OnError(c), UNCHANGED owner PROVE stat[x] = "gone"
  <2>1. SUFFICES ASSUME stat[x] # "gone" PROVE FALSE
    OBVIOUS
  <2>2. x = on_disconnect[c] /\ ~active'[c]
    BY <1>0, <1>1, <1>3, <2>1, OnErrorEffect
  <2>3. owner[x] = c
    BY <1>0, <2>2 DEF StreamInv, Streams
  <2>4. QED
    BY <1>1, <1>3, <2>2, <2>3
<1>4. ASSUME NEW S, NEW a \in Closers, Remove(S, a), to_close[a] = {}
      PROVE  \E b \in Closers : x \in to_close'[b]
  <2>1. /\ to_close'[a] = Listed(S)
        /\ \A b \in Closers : b # a => to_close'[b] = to_close[b]
    BY <1>0, <1>4, RemoveCloses DEF TypeOK
  <2>2. CASE x \in Listed(S)
    BY <2>1, <2>2
  <2>3. CASE x \notin Listed(S)
    <3>1. stat[x] = "gone"
      BY <1>1, <1>4, <2>3 DEF Remove
    <3>2. QED
      BY <1>2, <1>4, <2>1, <3>1
  <2>4. QED
    BY <2>2, <2>3
<1>5. ASSUME NEW c \in Conns, NEW s \in Sids, Delete(c, s)
      PROVE  \E a \in Closers : x \in to_close'[a]
  <2>1. to_close[c] = {} /\ Remove({s}, c)
    BY <1>0, <1>5 DEF Delete, Request, CloserInv
  <2>2. QED
    BY <1>4, <2>1
<1>6. CASE SweepSessions
  <2>1. to_close[Sweeper] = {} /\ Remove(sessions \cap idle, Sweeper)
    BY <1>0, <1>6 DEF SweepSessions, CloserInv
  <2>2. QED
    BY <1>4, <2>1
<1>7. CASE StopReaps
  <2>1. to_close[Stopper] = {} /\ Remove(Everywhere, Stopper)
    BY <1>0, <1>7 DEF StopReaps, CloserInv
  <2>2. QED
    BY <1>4, <2>1
<1>8. ASSUME NEW a \in Closers, CloseStream(a)
      PROVE  \E b \in Closers : x \in to_close'[b]
  <2>1. PICK y \in to_close[a] :
          /\ OnError(owner[y])
          /\ to_close' = [to_close EXCEPT ![a] = @ \ {y}] \/ UNCHANGED to_close
    BY <1>8 DEF CloseStream
  <2>2. owner[y] \in Conns /\ UNCHANGED owner
    BY <1>0, <1>8, CloserOwner DEF CloseStream
  <2>3. stat[x] = "gone"
    BY <1>3, <2>1, <2>2
  <2>4. x # y
    <3>1. ~active'[owner[y]]
      BY <1>0, <2>1, <2>2, OnErrorEffect
    <3>2. QED
      BY <1>1, <2>2, <3>1
  <2>5. \A b \in Closers : x \in to_close[b] => x \in to_close'[b]
    BY <1>0, <2>1, <2>4 DEF TypeOK
  <2>6. QED
    BY <1>2, <2>3, <2>5
<1>9. CASE UNCHANGED to_close
  <2>1. CASE stat[x] = "gone"
    BY <1>2, <1>9, <2>1
  <2>2. ASSUME UNCHANGED stat PROVE stat[x] = "gone"
    BY <1>1, <2>2
  <2>3. ASSUME NEW c \in Conns, Traffic(c) PROVE stat[x] = "gone"
    BY <1>3, <2>2, <2>3 DEF Traffic, Accept, Receive, EndChunk, ReadFails, ReadTimeout,
       WriteFails, lists
  <2>4. ASSUME NEW c \in Conns, SseConnect(c) \/ \E s \in Sids : GetSse(c, s)
        PROVE  stat[x] = "gone"
    BY <1>0, <1>1, <2>4 DEF SseConnect, GetSse, MakeStream, TypeOK
  <2>5. ASSUME NEW c \in Conns, Register(c) PROVE stat[x] = "gone"
    BY <1>0, <1>1, <2>5 DEF Register, TypeOK
  <2>6. ASSUME NEW c \in Conns,
               \/ Answered(c) \/ Refuse(c) \/ PostInitialize(c) \/ DeleteOverflows(c)
               \/ \E s \in Sids : Post(c, s)
               \/ CreateSession(c) \/ InitializeAnswers(c) \/ InitializeEnds(c)
               \/ Touch(c) \/ DeleteAnswers(c)
        PROVE  stat[x] = "gone"
    BY <2>2, <2>6 DEF Answered, vars, Refuse, PostInitialize, DeleteOverflows, Post,
       CreateSession, InitializeAnswers, InitializeEnds, Touch, DeleteAnswers, lists
  <2>7. CASE \/ Start \/ AcceptNothing \/ SweepEnds \/ SweepAborted \/ StopBegins
             \/ StopEnds
             \/ \E y \in Streams : PushOverflows(y)
             \/ \E a \in Closers : Unlock(a)
             \/ \E s \in Sids : BecomesIdle(s)
             \/ UNCHANGED vars
    BY <2>2, <2>7, <2>1 DEF Start, AcceptNothing, SweepEnds, SweepAborted, StopBegins,
       StopEnds, PushOverflows, Unlock, BecomesIdle, vars, lists
  <2>8. QED
    BY <1>5, <1>6, <1>7, <1>8, <2>1, <2>3, <2>4, <2>5, <2>6, <2>7 DEF Next, Traffic,
       Arrives, Handler
<1>10. QED
  BY <1>5, <1>6, <1>7, <1>8, <1>9, CloserMoves

-----------------------------------------------------------------------------
(* Ids and lists *)

\* Which steps add to the session table.
LEMMA TableMoves ==
  ASSUME [Next]_vars
  PROVE  /\ UNCHANGED issued \/ \E c \in Conns : PostInitialize(c)
         /\ UNCHANGED known \/ \E c \in Conns : InitializeAnswers(c)
         /\ UNCHANGED initialized \/ \E c \in Conns : InitializeEnds(c)
         /\ sessions' \subseteq sessions \/ \E c \in Conns : CreateSession(c)
<1> DEFINE G == UNCHANGED <<issued, known, initialized>> /\ sessions' \subseteq sessions
<1>1. CASE Service
  BY <1>1 DEF Service, Start, AcceptNothing, SweepSessions, SweepEnds, SweepAborted,
     StopBegins, StopReaps, StopEnds, Remove, table
<1>2. ASSUME NEW c \in Conns, Traffic(c) PROVE G
  BY <1>2 DEF Traffic, Accept, Receive, EndChunk, ReadFails, ReadTimeout, WriteFails,
     table
<1>3. ASSUME NEW c \in Conns, Arrives(c)
      PROVE  /\ UNCHANGED <<known, initialized>> /\ sessions' \subseteq sessions
             /\ UNCHANGED issued \/ PostInitialize(c)
  BY <1>3 DEF Arrives, Answered, vars, Refuse, SseConnect, PostInitialize,
     DeleteOverflows, Post, GetSse, Delete, Remove, table
<1>4. ASSUME NEW c \in Conns, CreateSession(c) PROVE UNCHANGED <<issued, known, initialized>>
  BY <1>4 DEF CreateSession
<1>5. ASSUME NEW c \in Conns, InitializeAnswers(c)
      PROVE  UNCHANGED <<issued, initialized, sessions>>
  BY <1>5 DEF InitializeAnswers
<1>6. ASSUME NEW c \in Conns, InitializeEnds(c)
      PROVE  UNCHANGED <<issued, known>> /\ sessions' \subseteq sessions
  BY <1>6 DEF InitializeEnds, RolledBack
<1>7. ASSUME NEW c \in Conns, Touch(c) \/ Register(c) \/ DeleteAnswers(c) PROVE G
  BY <1>7 DEF Touch, Register, DeleteAnswers, table
<1>8. CASE \/ \E x \in Streams : PushOverflows(x)
           \/ \E a \in Closers : Unlock(a) \/ CloseStream(a)
           \/ \E s \in Sids : BecomesIdle(s)
           \/ UNCHANGED vars
  BY <1>8 DEF PushOverflows, Unlock, CloseStream, BecomesIdle, vars, table
<1>9. QED
  BY <1>1, <1>2, <1>3, <1>4, <1>5, <1>6, <1>7, <1>8 DEF Next, Service, Traffic, Handler

\* Every step uses ids only after they were drawn, each for one session.
LEMMA IdStep ==
  ASSUME IInv, [Next]_vars
  PROVE  IdInv'
<1>0. TypeOK /\ StreamInv /\ CloserInv /\ IdInv
  BY DEF IInv
<1>1. /\ issued \in Nat /\ issued' \in Nat /\ issued <= issued'
      /\ \A s \in Sids \cup {LEGACY} : s \in Int
  <2>1. issued' \in Nat /\ issued \in Nat
    BY <1>0, TypeStep, HttpAssumption DEF TypeOK
  <2>2. UNCHANGED issued \/ issued' = issued + 1
    BY TableMoves DEF PostInitialize
  <2>3. QED
    BY <2>1, <2>2 DEF Sids, LEGACY
<1>2. \A s \in sessions' \cup initialized' \cup known' : s <= issued'
  <2>1. \A s \in sessions' : s \in sessions
                             \/ \E c \in Conns : pc[c] \in InitPhases /\ s = arg[c]
    BY TableMoves DEF CreateSession, InitPhases
  <2>2. \A s \in initialized' : s \in initialized
                             \/ \E c \in Conns : pc[c] \in InitPhases /\ s = arg[c]
    BY TableMoves DEF InitializeEnds, InitPhases
  <2>3. \A s \in known' : s \in known
                             \/ \E c \in Conns : pc[c] \in InitPhases /\ s = arg[c]
    BY TableMoves DEF InitializeAnswers, InitPhases
  <2>4. \A c \in Conns : pc[c] \in InitPhases => arg[c] \in Int /\ arg[c] <= issued
    BY <1>0, <1>1 DEF IdInv, TypeOK
  <2>5. \A s \in sessions \cup initialized \cup known : s \in Int /\ s <= issued
    BY <1>0, <1>1 DEF IdInv, TypeOK
  <2>6. QED
    BY <1>1, <2>1, <2>2, <2>3, <2>4, <2>5
<1>3. \A x \in Streams : home'[x] <= issued'
  <2>1. \A x \in Streams : home[x] \in Int /\ home[x] <= issued
    BY <1>0, <1>1 DEF IdInv, TypeOK
  <2>2. ASSUME NEW c \in Conns, SseConnect(c) \/ \E s \in Sids : GetSse(c, s)
        PROVE  \E s \in known \cup {LEGACY} : \A x \in Streams :
                 home'[x] = home[x] \/ home'[x] = s
    <3>1. PICK s \in known \cup {LEGACY} : MakeStream(c, s)
      BY <2>2 DEF SseConnect, GetSse
    <3>2. PICK x \in Streams : home' = [home EXCEPT ![x] = s]
      BY <3>1 DEF MakeStream
    <3>3. home \in [Streams -> Sids \cup {LEGACY}]
      BY <1>0 DEF TypeOK
    <3>4. QED
      BY <3>2, <3>3
  <2>3. \A s \in known \cup {LEGACY} : s \in Int /\ s <= issued
    BY <1>0, <1>1 DEF IdInv, TypeOK, LEGACY
  <2>4. ASSUME NEW c \in Conns, SseConnect(c) \/ \E s \in Sids : GetSse(c, s)
        PROVE  \A x \in Streams : home'[x] <= issued'
    BY <1>1, <2>1, <2>2, <2>3, <2>4
  <2>5. CASE ~ \E c \in Conns : SseConnect(c) \/ \E s \in Sids : GetSse(c, s)
    <3>1. UNCHANGED home
      BY <1>0, <2>5, ListsShrink DEF Register
    <3>2. QED
      BY <1>1, <2>1, <3>1
  <2>6. QED
    BY <2>4, <2>5
<1>4. \A c \in Conns : pc'[c] \in InitPhases =>
        \/ pc[c] \in InitPhases /\ arg'[c] = arg[c]
        \/ PostInitialize(c)
  BY <1>0, HandlerMoves
<1>5. \A c \in Conns : PostInitialize(c) =>
        /\ arg'[c] = issued + 1 /\ issued' = issued + 1 /\ pc[c] = "chunk"
        /\ \A d \in Conns : d # c => pc'[d] = pc[d] /\ arg'[d] = arg[d]
        /\ UNCHANGED initialized
  BY <1>0 DEF PostInitialize, Request, TypeOK
<1>6. \A c \in Conns : pc[c] \in InitPhases =>
        arg[c] \in Int /\ arg[c] # LEGACY /\ arg[c] <= issued /\ arg[c] \notin initialized
  BY <1>0, <1>1 DEF IdInv, TypeOK
<1>7. \A c, d \in Conns :
        pc[c] \in InitPhases /\ pc[d] \in InitPhases /\ arg[c] = arg[d] => c = d
  BY <1>0 DEF IdInv
<1>8. ASSUME NEW c \in Conns, pc'[c] \in InitPhases
      PROVE  arg'[c] # LEGACY /\ arg'[c] <= issued' /\ arg'[c] \notin initialized'
  <2>1. CASE PostInitialize(c)
    <3>1. \A s \in initialized : s \in Int /\ s <= issued
      BY <1>0, <1>1 DEF IdInv, TypeOK
    <3>2. QED
      BY <1>1, <1>5, <2>1, <3>1 DEF LEGACY
  <2>2. CASE pc[c] \in InitPhases /\ arg'[c] = arg[c]
    <3>1. arg[c] \notin initialized'
      <4>1. SUFFICES ASSUME NEW d \in Conns, InitializeEnds(d) PROVE arg[c] \notin initialized'
        BY <1>6, <2>2, TableMoves
      <4>2. pc[d] \in InitPhases /\ pc'[d] = "chunk"
        BY <1>0, <4>1 DEF InitializeEnds, Return, InitPhases, TypeOK
      <4>3. arg[c] # arg[d]
        BY <1>7, <1>8, <2>2, <4>2 DEF InitPhases
      <4>4. QED
        BY <1>6, <2>2, <4>1, <4>3 DEF InitializeEnds
    <3>2. QED
      BY <1>1, <1>6, <2>2, <3>1
  <2>3. QED
    BY <1>4, <1>8, <2>1, <2>2
<1>9. ASSUME NEW c \in Conns, NEW d \in Conns, pc'[c] \in InitPhases,
             pc'[d] \in InitPhases, arg'[c] = arg'[d]
      PROVE  c = d
  <2>1. ASSUME NEW p \in Conns, NEW q \in Conns, PostInitialize(p), pc'[q] \in InitPhases,
               arg'[p] = arg'[q]
        PROVE  p = q
    <3>1. SUFFICES ASSUME p # q PROVE FALSE
      OBVIOUS
    <3>2. pc[q] \in InitPhases /\ arg'[q] = arg[q] /\ arg'[p] = issued + 1
      BY <1>5, <2>1, <3>1
    <3>3. QED
      BY <1>1, <1>6, <2>1, <3>2
  <2>2. QED
    BY <1>4, <1>7, <1>9, <2>1
<1>10. QED
  BY <1>2, <1>3, <1>8, <1>9 DEF IdInv

\* Every step keeps listed streams with sessions that exist or were rolled back.
LEMMA ListedStep ==
  ASSUME IInv, [Next]_vars
  PROVE  ListedInv'
<1>0. TypeOK /\ StreamInv /\ CloserInv /\ IdInv /\ ListedInv
  BY DEF IInv
<1> DEFINE Home(x) == home[x] \in sessions \cup {LEGACY}
           Lost(x) == /\ home[x] \notin initialized
                      /\ \A c \in Conns : pc[c] \in InitPhases => arg[c] # home[x]
<1>1. SUFFICES ASSUME NEW x \in Streams, stat'[x] = "listed" PROVE Home(x)' \/ Lost(x)'
  BY DEF ListedInv
<1>2. ASSUME NEW c \in Conns, SseConnect(c) \/ \E s \in Sids : GetSse(c, s)
      PROVE  stat[x] = "listed"
  BY <1>0, <1>1, <1>2 DEF SseConnect, GetSse, MakeStream, TypeOK
<1>3. ASSUME NEW c \in Conns, Register(c), stat[x] # "listed" PROVE Home(x)'
  <2>1. x = on_disconnect[c] /\ Attended(arg[c]) /\ UNCHANGED <<home, sessions>>
    BY <1>0, <1>1, <1>3 DEF Register, TypeOK, table
  <2>2. home[x] = arg[c]
    BY <1>0, <1>3, <2>1 DEF Register, StreamInv
  <2>3. QED
    BY <2>1, <2>2 DEF Attended
<1>4. CASE stat[x] # "listed"
  <2>1. \E c \in Conns : Register(c)
    BY <1>0, <1>1, <1>2, <1>4, ListsShrink DEF StatShrinks
  <2>2. QED
    BY <1>3, <1>4, <2>1
<1>5. CASE stat[x] = "listed"
  <2>1. home'[x] = home[x] /\ home[x] \in Int /\ home[x] <= issued /\ issued \in Int
    BY <1>0, <1>5, StreamsStay DEF IdInv, TypeOK, Sids, LEGACY
  <2>2. ASSUME Lost(x) PROVE Lost(x)'
    <3>1. home[x] \notin initialized'
      <4>1. \A s \in initialized' : s \in initialized
                             \/ \E c \in Conns : pc[c] \in InitPhases /\ s = arg[c]
        BY TableMoves DEF InitializeEnds, InitPhases
      <4>2. QED
        BY <2>2, <4>1
    <3>2. ASSUME NEW c \in Conns, pc'[c] \in InitPhases PROVE arg'[c] # home[x]
      <4>1. CASE PostInitialize(c)
        <5>1. arg'[c] = issued + 1
          BY <1>0, <4>1 DEF PostInitialize, TypeOK
        <5>2. QED
          BY <2>1, <5>1
      <4>2. CASE pc[c] \in InitPhases /\ arg'[c] = arg[c]
        BY <2>2, <4>2
      <4>3. QED
        BY <1>0, <3>2, <4>1, <4>2, HandlerMoves
    <3>3. QED
      BY <2>1, <3>1, <3>2
  <2>3. ASSUME Home(x), ~Home(x)' PROVE Lost(x)'
    <3>1. ASSUME NEW S, NEW a, Remove(S, a), sessions' = sessions \ S,
                 LEGACY \in S \/ home[x] # LEGACY
          PROVE  FALSE
      <4>1. x \in Listed(S)
        BY <1>5, <2>1, <2>3, <3>1 DEF Listed
      <4>2. QED
        BY <1>1, <3>1, <4>1 DEF Remove
    <3>2. home[x] # LEGACY /\ home[x] \in sessions /\ home[x] \notin sessions'
      BY <2>1, <2>3
    <3>3. ~SweepSessions /\ ~StopReaps
      BY <3>1, <3>2 DEF SweepSessions, StopReaps, Remove
    <3>4. ASSUME NEW c \in Conns, NEW s \in Sids, Delete(c, s) PROVE FALSE
      BY <3>1, <3>2, <3>4 DEF Delete, Remove
    <3>5. ASSUME NEW c \in Conns, Arrives(c) PROVE FALSE
      BY <3>2, <3>4, <3>5 DEF Arrives, Answered, vars, Refuse, SseConnect,
         PostInitialize, DeleteOverflows, Post, GetSse, table
    <3>6. ASSUME NEW c \in Conns, Traffic(c) PROVE FALSE
      BY <3>2, <3>6 DEF Traffic, Accept, Receive, EndChunk, ReadFails, ReadTimeout,
         WriteFails, table
    <3>7. ASSUME NEW c \in Conns, Handler(c) PROVE InitializeEnds(c)
      BY <3>2, <3>7 DEF Handler, CreateSession, InitializeAnswers, Touch, Register,
         DeleteAnswers, table
    <3>8. PICK c \in Conns : InitializeEnds(c)
      BY <3>2, <3>3, <3>5, <3>6, <3>7 DEF Next, Traffic, Start, AcceptNothing,
         SweepEnds, SweepAborted, StopBegins, StopEnds, PushOverflows, Unlock,
         CloseStream, BecomesIdle, vars, table
    <3>9. /\ pc[c] \in InitPhases /\ arg[c] = home[x] /\ UNCHANGED initialized
          /\ pc'[c] = "chunk"
          /\ \A d \in Conns : d # c => pc'[d] = pc[d] /\ arg'[d] = arg[d]
      BY <1>0, <3>2, <3>8 DEF InitializeEnds, RolledBack, Return, InitPhases, TypeOK
    <3>10. home[x] \notin initialized'
      BY <1>0, <3>9 DEF IdInv
    <3>11. ASSUME NEW d \in Conns, pc'[d] \in InitPhases PROVE arg'[d] # home[x]
      <4>1. d # c /\ pc[d] \in InitPhases /\ arg'[d] = arg[d]
        BY <3>9, <3>11 DEF InitPhases
      <4>2. QED
        BY <1>0, <3>9, <4>1 DEF IdInv
    <3>12. QED
      BY <2>1, <3>10, <3>11
  <2>4. QED
    BY <1>0, <1>5, <2>2, <2>3 DEF ListedInv
<1>6. QED
  BY <1>4, <1>5

-----------------------------------------------------------------------------
(* The theorems *)

\* The invariant holds before start().
LEMMA InitIInv == Init => IInv
<1> SUFFICES ASSUME Init PROVE IInv
  OBVIOUS
<1>1. TypeOK
  BY InitType
<1>2. SlotInv /\ StreamInv /\ ListedInv /\ GoneInv /\ HalfSessionHasOwner
  BY DEF Init, SlotInv, StreamInv, ListedInv, GoneInv, HalfSessionHasOwner
<1>3. CloserInv
  BY CloserIds DEF Init, CloserInv
<1>4. IdInv
  <2>1. /\ sessions = {} /\ initialized = {} /\ known = {} /\ issued = 0
        /\ \A x \in Streams : home[x] = 0
        /\ \A c \in Conns : pc[c] = "new"
    BY DEF Init, LEGACY
  <2>2. \A c \in Conns : pc[c] \notin InitPhases
    BY <2>1 DEF InitPhases
  <2>3. QED
    BY <2>1, <2>2 DEF IdInv
<1>5. Cardinality(Live) <= count
  <2>1. Live = {}
    BY DEF Init, Live
  <2>2. QED
    BY <2>1, FS_EmptySet DEF Init
<1>6. SessionCap
  <2>1. Cardinality(sessions) = 0
    BY FS_EmptySet DEF Init
  <2>2. QED
    BY <2>1, HttpAssumption DEF SessionCap
<1>7. QED
  BY <1>1, <1>2, <1>3, <1>4, <1>5, <1>6 DEF IInv

\* The invariant holds for every number of connections, sessions and streams.
THEOREM Invariance == Spec => []IInv
<1>1. IInv /\ [Next]_vars => IInv'
  BY TypeStep, SlotStep, StreamStep, CloserStep, IdStep, ListedStep, GoneStep, CapStep,
     HalfSessionStep DEF IInv, SlotCount
<1>2. QED
  BY <1>1, InitIInv, PTL DEF Spec

\* No live connection is without a slot: whichever of read errors, write errors,
\* timeouts, overflows and closers come together, no slot is released twice, and
\* active_connection_count_ neither wraps nor passes its cap.
THEOREM SlotsAreHeld == Spec => []SlotsHeld
<1>1. IInv => SlotsHeld
  BY DEF IInv, SlotsHeld
<1>2. QED
  BY <1>1, Invariance, PTL

\* However many threads create, initialize, delete, sweep and roll back sessions,
\* sessions_ keeps to max_sessions and every half-made session has a handler that
\* will finish or remove it.
THEOREM SessionTableIsSound == Spec => []SessionTable
<1>1. IInv => SessionTable
  BY DEF IInv, SessionTable
<1>2. QED
  BY <1>1, Invariance, PTL

\* A stream that was registered in time does not outlive its session: it is listed
\* with a session that exists, and off the list it is closed or a closer has it.
THEOREM StreamsEndWithSession == Spec => []StreamsFollowSession
<1>1. IInv => StreamsFollowSession
  <2>1. SUFFICES ASSUME IInv, NEW x \in Streams
                 PROVE  /\ stat[x] = "listed" /\ home[x] \in initialized =>
                             home[x] \in sessions
                        /\ stat[x] = "gone" =>
                             ~active[owner[x]] \/ \E a \in Closers : x \in to_close[a]
    BY DEF StreamsFollowSession
  <2>2. TypeOK /\ ListedInv /\ GoneInv
    BY <2>1 DEF IInv
  <2>3. LEGACY \notin initialized
    BY <2>2 DEF TypeOK, Sids, LEGACY
  <2>4. stat[x] = "listed" /\ home[x] \in initialized => home[x] \in sessions
    BY <2>2, <2>3 DEF ListedInv
  <2>5. QED
    BY <2>2, <2>4 DEF GoneInv
<1>2. QED
  BY <1>1, Invariance, PTL

=============================================================================
