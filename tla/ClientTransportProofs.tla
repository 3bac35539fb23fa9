----------------------- MODULE ClientTransportProofs -----------------------
(***************************************************************************)
(* Proofs about ClientTransport for every number of links, tasks and GET   *)
(* streams and all three transports.  For an application that reconnects   *)
(* only when disconnect() and the loop are done with the link before       *)
(* (~overlap): a connected transport is read by one reader and heard, the  *)
(* end of a link is told once (twice by the stdio transport), and there is *)
(* one GET stream.  At the end, what travels over a link (WireFormats):    *)
(* event streams of any number of frames, and JSON-RPC messages for every  *)
(* width of the integers and every id.                                     *)
(***************************************************************************)
EXTENDS ClientTransport, WireFormats, FiniteSetTheorems, TLAPS

-----------------------------------------------------------------------------
(* Counting the tasks of a sequence *)

Count(s, P) == Cardinality({i \in 1..Len(s) : s[i] \in P})

\* A count is a natural number, and zero when nothing is in P.
LEMMA CountNat ==
  ASSUME NEW T, NEW s \in Seq(T), NEW P
  PROVE  /\ IsFiniteSet({i \in 1..Len(s) : s[i] \in P})
         /\ Count(s, P) \in Nat
         /\ Count(s, P) = 0 <=> \A i \in 1..Len(s) : s[i] \notin P
<1> DEFINE A == {i \in 1..Len(s) : s[i] \in P}
<1>1. IsFiniteSet(A)
  <2>1. IsFiniteSet(1..Len(s))
    BY FS_Interval
  <2>2. QED
    BY <2>1, FS_Subset
<1>2. Cardinality(A) \in Nat /\ (Cardinality(A) = 0 <=> A = {})
  BY <1>1, FS_CardinalityType, FS_EmptySet
<1>3. A = {} <=> \A i \in 1..Len(s) : s[i] \notin P
  OBVIOUS
<1>4. QED
  BY <1>1, <1>2, <1>3 DEF Count

\* Appending a task counts it.
LEMMA CountAppend ==
  ASSUME NEW T, NEW s \in Seq(T), NEW t \in T, NEW P
  PROVE  Count(Append(s, t), P) = Count(s, P) + (IF t \in P THEN 1 ELSE 0)
<1> DEFINE A == {i \in 1..Len(s) : s[i] \in P}
           B == {i \in 1..Len(Append(s, t)) : Append(s, t)[i] \in P}
<1>1. IsFiniteSet(A) /\ Cardinality(A) \in Nat
  BY CountNat DEF Count
<1>2. /\ Len(s) \in Nat /\ Len(Append(s, t)) = Len(s) + 1
      /\ \A i \in 1..Len(s) : Append(s, t)[i] = s[i]
      /\ Append(s, t)[Len(s) + 1] = t
  OBVIOUS
<1>3. CASE t \in P
  <2>1. B = A \cup {Len(s) + 1} /\ Len(s) + 1 \notin A
    BY <1>2, <1>3
  <2>2. Cardinality(B) = Cardinality(A) + 1
    BY <1>1, <2>1, FS_AddElement
  <2>3. QED
    BY <1>3, <2>2 DEF Count
<1>4. CASE t \notin P
  <2>1. B = A
    BY <1>2, <1>4
  <2>2. Cardinality(B) = Cardinality(A)
    BY <2>1
  <2>3. Count(s, P) = Cardinality(A) /\ Count(Append(s, t), P) = Cardinality(B)
    BY DEF Count
  <2> HIDE DEF A, B
  <2>4. QED
    BY <1>1, <1>4, <2>2, <2>3
<1>5. QED
  BY <1>3, <1>4

\* Taking the first task off discounts it.
LEMMA CountTail ==
  ASSUME NEW T, NEW s \in Seq(T), s # <<>>, NEW P
  PROVE  Count(Tail(s), P) = Count(s, P) - (IF Head(s) \in P THEN 1 ELSE 0)
<1> DEFINE A == {i \in 1..Len(s) : s[i] \in P}
           B == {i \in 1..Len(Tail(s)) : Tail(s)[i] \in P}
           f == [i \in A \ {1} |-> i - 1]
<1>1. IsFiniteSet(A) /\ Cardinality(A) \in Nat
  BY CountNat DEF Count
<1>2. /\ Len(s) \in Nat \ {0} /\ Len(Tail(s)) = Len(s) - 1 /\ Head(s) = s[1]
      /\ \A i \in 1..(Len(s) - 1) : Tail(s)[i] = s[i + 1]
  OBVIOUS
<1>3. ASSUME NEW i \in A \ {1} PROVE i - 1 \in B /\ i \in Int
  BY <1>2
<1>4. ASSUME NEW j \in B PROVE j + 1 \in A \ {1} /\ j \in Int
  BY <1>2
<1>5. f \in Bijection(A \ {1}, B)
  <2>1. f \in [A \ {1} -> B]
    BY <1>3
  <2>2. \A i, j \in A \ {1} : f[i] = f[j] => i = j
    BY <1>3
  <2>3. \A j \in B : \E i \in A \ {1} : f[i] = j
    <3>1. SUFFICES ASSUME NEW j \in B PROVE f[j + 1] = j /\ j + 1 \in A \ {1}
      OBVIOUS
    <3>2. QED
      BY <1>4
  <2>4. QED
    BY <2>1, <2>2, <2>3 DEF Bijection, Injection, Surjection, IsInjective
<1>6. IsFiniteSet(A \ {1}) /\ Cardinality(A \ {1}) =
        IF 1 \in A THEN Cardinality(A) - 1 ELSE Cardinality(A)
  BY <1>1, FS_RemoveElement
<1>7. Cardinality(B) = Cardinality(A \ {1})
  <2>1. ExistsBijection(A \ {1}, B)
    BY <1>5 DEF ExistsBijection
  <2> HIDE DEF A, B
  <2>2. QED
    BY <1>6, <2>1, FS_Bijection
<1>8. 1 \in A <=> Head(s) \in P
  BY <1>2
<1>9. Count(s, P) = Cardinality(A) /\ Count(Tail(s), P) = Cardinality(B)
  BY DEF Count
<1> HIDE DEF A, B
<1>10. QED
  BY <1>1, <1>6, <1>7, <1>8, <1>9

\* Nothing is counted in the empty sequence.
LEMMA CountEmpty ==
  ASSUME NEW P
  PROVE  Count(<<>>, P) = 0
<1>1. {i \in 1..Len(<<>>) : <<>>[i] \in P} = {}
  OBVIOUS
<1>2. QED
  BY <1>1, FS_EmptySet DEF Count

-----------------------------------------------------------------------------
(* The inductive invariant *)

AllTasks == {"line", "failed", "notify", "clear"} \X (0..MaxLinks)

\* Completions of reads, requests to clear the handlers, and tasks that are of a
\* link to come or completions of an earlier one.
Ends == {t \in AllTasks : t[1] \in {"line", "failed"}}
Clears == {t \in AllTasks : t[1] = "clear"}
Stray == {t \in AllTasks : t[2] > link \/ (t \in Ends /\ t[2] # link)}

\* One read is pending or completed, unless the link has ended; it is there from
\* the moment a link is armed, and a connected transport has it.
ReadInv ==
  /\ reads + Count(tasks, Ends) <= 1
  /\ conn_pc = "dialed" => reads + Count(tasks, Ends) = 0 /\ open /\ peer
  /\ connected /\ conn_pc \in {"idle", "attached"} =>
       open /\ ~stopping /\ reads + Count(tasks, Ends) = 1
  /\ conn_pc \in {"dialing", "dialed"} /\ (connected \/ kind = "http") => ~stopping

\* connect() and disconnect() keep out of each other's way.
CallInv ==
  /\ connected \/ conn_pc # "idle" =>
       handlers /\ disc_pc = "idle" /\ Count(tasks, Clears) = 0
  /\ disc_pc # "idle" => stopping

\* Who can still report the end of the current link: its reader, and in the stdio
\* transport its write queue.
Reader == reads + Count(tasks, Ends) > 0 \/ conn_pc = "dialed"
Writer == kind = "stdio" /\ (queue = "active" \/ conn_pc = "dialed")

\* Reports of the end of a link: made, queued, and to come.
Load(l) ==
  told[l] + Count(tasks, {<<"notify", l>>})
    + (IF l = link /\ Reader THEN 1 ELSE 0) + (IF l = link /\ Writer THEN 1 ELSE 0)

Cap == IF kind = "stdio" THEN 2 ELSE 1

ToldInv ==
  /\ Count(tasks, Stray) = 0
  /\ \A l \in Links : Load(l) <= Cap
  /\ \A l \in Links : l > link => told[l] = 0

\* No GET is under way.
NoGet == \A g \in Gets : gets[g] = "none"

\* sse_open_ says whether a GET is under way, except while disconnect() or a
\* reconnect comes between.
SseInv ==
  /\ kind # "http" => ~sse_open /\ NoGet
  /\ \A g, h \in Gets : gets[g] # "none" /\ gets[h] # "none" => g = h
  /\ sse_open => sse_socket # 0
  /\ sse_open /\ disc_pc # "marked" => ~NoGet
  /\ stopping /\ disc_pc # "marked" => ~sse_open
  /\ ~stopping /\ ~sse_open => NoGet
  /\ stopping /\ conn_pc # "idle" => NoGet
  /\ crashed => stopping

\* An HTTP transport has no lines, and no limit on them.
FullInv == full => kind # "http"

CleanInv == ReadInv /\ CallInv /\ ToldInv /\ SseInv
IInv == TypeOK /\ FullInv /\ (~overlap => CleanInv)

-----------------------------------------------------------------------------
(* Groups of actions *)

Connect == Attach \/ Claim \/ Begin \/ DialFails \/ Dial \/ Arm
Disconnect == Mark \/ Close \/ Forget
Server == PeerSends \/ PeerLeaves \/ WriteFails
GetStep(g) ==
  \/ GetProceeds(g, "resolve", "connect") \/ GetProceeds(g, "connect", "write")
  \/ GetWritten(g) \/ OnSseRead(g)

\* The groups are all there is.
LEMMA NextGroups ==
  ASSUME [Next]_vars
  PROVE  \/ Connect \/ ArmOversized \/ Disconnect \/ Server \/ Loop
         \/ \E g \in Gets : GetStep(g)
         \/ UNCHANGED vars
BY DEF Next, Connect, Disconnect, Server, GetStep

-----------------------------------------------------------------------------
(* Type correctness *)

\* What is queued are tasks, and reads that fail make as many tasks.
LEMMA TaskTypes ==
  ASSUME TypeOK
  PROVE  /\ tasks \in Seq(AllTasks)
         /\ \A w \in {"line", "failed", "notify", "clear"} : <<w, link>> \in AllTasks
         /\ \A n \in Nat : Failed(n) \in Seq(AllTasks)
         /\ tasks # <<>> => Tail(tasks) \in Seq(AllTasks) /\ Head(tasks) \in AllTasks
<1>1. tasks \in Seq(AllTasks) /\ link \in 0..MaxLinks
  BY DEF TypeOK, LinkOK, AllTasks
<1>2. \A w \in {"line", "failed", "notify", "clear"} : <<w, link>> \in AllTasks
  BY <1>1 DEF AllTasks
<1>3. \A n \in Nat : Failed(n) \in Seq(AllTasks)
  BY <1>2 DEF Failed
<1>4. tasks # <<>> => Tail(tasks) \in Seq(AllTasks) /\ Head(tasks) \in AllTasks
  BY <1>1
<1>5. QED
  BY <1>1, <1>2, <1>3, <1>4

\* Every step leaves a sequence of tasks.
LEMMA TasksStep ==
  ASSUME TypeOK, [Next]_vars
  PROVE  tasks' \in Seq(AllTasks)
<1>0. /\ tasks \in Seq(AllTasks) /\ reads \in Nat
      /\ \A w \in {"line", "failed", "notify", "clear"} : <<w, link>> \in AllTasks
      /\ \A n \in Nat : Failed(n) \in Seq(AllTasks)
      /\ tasks # <<>> => Tail(tasks) \in Seq(AllTasks) /\ Head(tasks) \in AllTasks
  BY TaskTypes DEF TypeOK, LinkOK
<1>1. ASSUME NEW s \in Seq(AllTasks)
      PROVE  /\ \A n \in Nat : s \o Failed(n) \in Seq(AllTasks)
             /\ Append(s, <<"line", link>>) \in Seq(AllTasks)
             /\ Append(s, <<"failed", link>>) \in Seq(AllTasks)
             /\ Append(s, <<"notify", link>>) \in Seq(AllTasks)
             /\ Append(s, <<"clear", link>>) \in Seq(AllTasks)
  <2>1. /\ <<"line", link>> \in AllTasks /\ <<"failed", link>> \in AllTasks
        /\ <<"notify", link>> \in AllTasks /\ <<"clear", link>> \in AllTasks
    BY <1>0
  <2>2. QED
    BY <1>0, <2>1
<1>2. CASE Connect
  <2>1. CASE Attach \/ Claim \/ Begin \/ DialFails
    BY <1>0, <2>1 DEF Attach, Claim, Begin, DialFails
  <2>2. CASE Dial
    BY <1>0, <1>1, <2>2 DEF Dial
  <2>3. CASE Arm
    BY <1>0, <1>1, <2>3 DEF Arm
  <2>4. QED
    BY <1>2, <2>1, <2>2, <2>3 DEF Connect
<1>3. CASE Disconnect
  <2>1. CASE Mark
    BY <1>0, <2>1 DEF Mark
  <2>2. CASE Close
    BY <1>0, <1>1, <2>2 DEF Close
  <2>3. CASE Forget
    BY <1>0, <1>1, <2>3 DEF Forget
  <2>4. QED
    BY <1>3, <2>1, <2>2, <2>3 DEF Disconnect
<1>4. CASE Server
  <2>1. CASE PeerSends
    BY <1>0, <1>1, <2>1 DEF PeerSends
  <2>2. CASE PeerLeaves
    BY <1>0, <1>1, <2>2 DEF PeerLeaves
  <2>3. CASE WriteFails
    BY <1>0, <1>1, <2>3 DEF WriteFails
  <2>4. QED
    BY <1>4, <2>1, <2>2, <2>3 DEF Server
<1>5. CASE RunNotify \/ RunClear \/ RunLine \/ RunResponse
  <2>1. tasks # <<>>
    BY <1>5 DEF RunNotify, RunClear, RunLine, RunResponse, Running
  <2>2. /\ Tail(tasks) \in Seq(AllTasks)
        /\ Append(Tail(tasks), <<"failed", link>>) \in Seq(AllTasks)
    BY <1>0, <1>1, <2>1
  <2>3. tasks' \in {Tail(tasks), Append(Tail(tasks), <<"failed", link>>)}
    BY <1>5 DEF RunNotify, RunClear, RunLine, RunResponse
  <2>4. QED
    BY <2>2, <2>3
<1>6. CASE RunFailed
  <2>1. tasks # <<>> /\ Head(tasks)[2] \in 0..MaxLinks
    BY <1>0, <1>6 DEF RunFailed, Running, AllTasks
  <2>2. <<"notify", Head(tasks)[2]>> \in AllTasks
    BY <2>1 DEF AllTasks
  <2>3. QED
    BY <1>0, <1>6, <2>1, <2>2 DEF RunFailed, LossTells
<1>7. CASE RunOversized
  <2>1. Tail(tasks) \o Failed(reads) \in Seq(AllTasks)
    BY <1>0, <1>1, <1>7 DEF RunOversized, Running
  <2>2. <<<<"notify", link>>>> \in Seq(AllTasks) /\ <<>> \in Seq(AllTasks)
    BY <1>0
  <2>3. QED
    BY <1>7, <2>1, <2>2 DEF RunOversized, Drop
<1>8. CASE ArmOversized
  <2>1. tasks \o Failed(reads) \in Seq(AllTasks)
    BY <1>0, <1>1
  <2>2. <<<<"notify", link>>>> \in Seq(AllTasks) /\ <<>> \in Seq(AllTasks)
    BY <1>0
  <2>3. QED
    BY <1>8, <2>1, <2>2 DEF ArmOversized, Drop
<1>9. CASE \/ UNCHANGED vars
           \/ \E g \in Gets : GetStep(g)
  BY <1>0, <1>9 DEF vars, GetStep, GetProceeds, GetWritten, OnSseRead
<1>10. QED
  BY <1>2, <1>3, <1>4, <1>5, <1>6, <1>7, <1>8, <1>9, NextGroups DEF Loop

\* Every step keeps every variable in its range.
LEMMA TypeStep ==
  ASSUME TypeOK, [Next]_vars
  PROVE  TypeOK'
<1>0. FlagsOK /\ LinkOK /\ CallsOK /\ SseOK /\ MaxLinks \in Nat /\ MaxGets \in Nat
  BY ClientTransportAssumption DEF TypeOK
<1>1. tasks' \in Seq(AllTasks)
  BY TasksStep
<1> DEFINE LinkType == /\ kind' \in {"stdio", "pipe", "http"} /\ link' \in 0..MaxLinks
                       /\ queue' \in {"none", "active", "dead"} /\ reads' \in Nat
<1>t. ASSUME LinkType PROVE LinkOK'
  BY <1>1, <1>t DEF LinkOK, AllTasks
<1>l. /\ kind \in {"stdio", "pipe", "http"} /\ link \in 0..MaxLinks
      /\ queue \in {"none", "active", "dead"} /\ reads \in Nat
  BY <1>0 DEF LinkOK
<1>2. CASE Connect
  <2>1. FlagsOK'
    BY <1>0, <1>2 DEF FlagsOK, Connect, Attach, Claim, Begin, DialFails, Dial, Arm, flags,
       wire, sse
  <2>2. LinkOK'
    <3>1. LinkType
      <4>1. kind' = kind /\ queue' \in {queue, "active"}
        BY <1>2 DEF Connect, Attach, Claim, Begin, DialFails, Dial, Arm, wire
      <4>2. link' = link \/ (link < MaxLinks /\ link' = link + 1)
        BY <1>2 DEF Connect, Attach, Claim, Begin, DialFails, Dial, Arm, wire
      <4>3. reads' \in {reads, 0, reads + 1}
        BY <1>2 DEF Connect, Attach, Claim, Begin, DialFails, Dial, Arm, wire
      <4>4. QED
        BY <1>0, <1>l, <4>1, <4>2, <4>3
    <3>2. QED
      BY <1>t, <3>1
  <2>3. CallsOK'
    BY <1>0, <1>2 DEF CallsOK, Connect, Attach, Claim, Begin, DialFails, Dial, Arm
  <2>4. SseOK'
    BY <1>0, <1>2 DEF SseOK, Connect, Attach, Claim, Begin, DialFails, Dial, Arm, sse
  <2>5. QED
    BY <2>1, <2>2, <2>3, <2>4 DEF TypeOK
<1>3. CASE Disconnect
  <2>1. FlagsOK'
    BY <1>0, <1>3 DEF FlagsOK, Disconnect, Mark, Close, Forget, CloseSse, flags, wire, sse
  <2>2. LinkOK'
    <3>1. LinkType
      BY <1>l, <1>3 DEF Disconnect, Mark, Close, Forget, wire
    <3>2. QED
      BY <1>t, <3>1
  <2>3. CallsOK'
    BY <1>0, <1>3 DEF CallsOK, Disconnect, Mark, Close, Forget
  <2>4. SseOK'
    BY <1>0, <1>3 DEF SseOK, Disconnect, Mark, Close, Forget, CloseSse, sse
  <2>5. QED
    BY <2>1, <2>2, <2>3, <2>4 DEF TypeOK
<1>4. CASE Server
  <2>1. FlagsOK'
    BY <1>0, <1>4 DEF FlagsOK, Server, PeerSends, PeerLeaves, WriteFails, flags, calls, sse
  <2>2. LinkOK'
    <3>1. LinkType
      <4>1. kind' = kind /\ link' = link /\ queue' \in {queue, "dead"}
        BY <1>4 DEF Server, PeerSends, PeerLeaves, WriteFails
      <4>2. reads' \in {reads, 0} \/ (reads > 0 /\ reads' = reads - 1)
        BY <1>4 DEF Server, PeerSends, PeerLeaves, WriteFails
      <4>3. QED
        BY <1>l, <4>1, <4>2
    <3>2. QED
      BY <1>t, <3>1
  <2>3. CallsOK'
    BY <1>0, <1>4 DEF CallsOK, Server, PeerSends, PeerLeaves, WriteFails, calls
  <2>4. SseOK'
    BY <1>0, <1>4 DEF SseOK, Server, PeerSends, PeerLeaves, WriteFails, sse
  <2>5. QED
    BY <2>1, <2>2, <2>3, <2>4 DEF TypeOK
<1>5. CASE Loop
  <2>1. FlagsOK'
    <3>1. CASE RunFailed \/ RunNotify \/ RunClear \/ RunLine
      BY <1>0, <3>1 DEF FlagsOK, RunFailed, RunNotify, RunClear, RunLine, flags, wire,
         calls, sse
    <3>2. CASE RunResponse
      BY <1>0, <3>2 DEF FlagsOK, RunResponse, StartSseGet, flags, calls
    <3>3. CASE RunOversized
      BY <1>0, <3>3 DEF FlagsOK, RunOversized, Drop, calls, sse
    <3>4. QED
      BY <1>5, <3>1, <3>2, <3>3 DEF Loop
  <2>2. LinkOK'
    <3>1. LinkType
      <4>1. kind' = kind /\ link' = link /\ queue' \in {queue, "dead"}
        BY <1>5 DEF Loop, RunFailed, RunNotify, RunClear, RunLine, RunResponse,
           RunOversized, Drop, wire
      <4>2. reads' \in {reads, 0, reads + 1}
        BY <1>5 DEF Loop, RunFailed, RunNotify, RunClear, RunLine, RunResponse,
           RunOversized, Drop, Rearmed, wire
      <4>3. QED
        BY <1>l, <4>1, <4>2
    <3>2. QED
      BY <1>t, <3>1
  <2>3. CallsOK'
    <3>1. conn_pc' = conn_pc /\ disc_pc' = disc_pc
      BY <1>5 DEF Loop, RunFailed, RunNotify, RunClear, RunLine, RunResponse, RunOversized,
         calls
    <3>2. told' = told \/ \E l : told' = [told EXCEPT ![l] = @ + 1]
      BY <1>5 DEF Loop, RunFailed, LossTells, RunNotify, RunClear, RunLine, RunResponse,
         RunOversized
    <3>3. told \in [Links -> Nat]
      BY <1>0 DEF CallsOK
    <3>4. told' \in [Links -> Nat]
      BY <3>2, <3>3
    <3>5. QED
      BY <1>0, <3>1, <3>4 DEF CallsOK
  <2>4. SseOK'
    <3>1. CASE UNCHANGED <<sse_socket, gets>>
      BY <1>0, <3>1 DEF SseOK
    <3>2. CASE StartSseGet
      BY <1>0, <3>2 DEF SseOK, StartSseGet, Gets
    <3>3. QED
      BY <1>5, <3>1, <3>2 DEF Loop, RunFailed, RunNotify, RunClear, RunLine, RunResponse,
         RunOversized, sse
  <2>5. QED
    BY <2>1, <2>2, <2>3, <2>4 DEF TypeOK
<1>6. ASSUME NEW g \in Gets, GetStep(g) PROVE TypeOK'
  <2>1. FlagsOK'
    <3>1. /\ UNCHANGED <<connected, stopping, handlers, open, peer, overlap, full, session>>
          /\ sse_open' \in {sse_open, FALSE}
          /\ crashed' \in {crashed, sse_socket = 0}
      BY <1>6 DEF GetStep, GetProceeds, GetWritten, OnSseRead, flags, wire, calls
    <3>2. QED
      BY <1>0, <3>1 DEF FlagsOK
  <2>2. LinkOK' /\ CallsOK'
    BY <1>0, <1>6 DEF LinkOK, CallsOK, GetStep, GetProceeds, GetWritten, OnSseRead, wire,
       calls
  <2>3. SseOK'
    BY <1>0, <1>6 DEF SseOK, GetStep, GetProceeds, GetWritten, OnSseRead, GetEnds
  <2>4. QED
    BY <2>1, <2>2, <2>3 DEF TypeOK
<1>7. CASE ArmOversized
  <2>1. FlagsOK' /\ CallsOK' /\ SseOK'
    BY <1>0, <1>7 DEF FlagsOK, CallsOK, SseOK, ArmOversized, Drop, sse
  <2>2. LinkOK'
    BY <1>t, <1>l, <1>7 DEF ArmOversized, Drop
  <2>3. QED
    BY <2>1, <2>2 DEF TypeOK
<1>8. CASE UNCHANGED vars
  BY <1>0, <1>8 DEF TypeOK, FlagsOK, LinkOK, CallsOK, SseOK, vars, flags, wire, calls, sse
<1>9. QED
  BY <1>2, <1>3, <1>4, <1>5, <1>6, <1>7, <1>8, NextGroups

-----------------------------------------------------------------------------
(* How the steps change the counts *)

\* What appending a task does to the counts.
LEMMA Appended ==
  ASSUME NEW s \in Seq(AllTasks), NEW w \in {"line", "failed", "notify", "clear"},
         NEW k \in 0..MaxLinks
  PROVE  LET z == Append(s, <<w, k>>) IN
         /\ z \in Seq(AllTasks)
         /\ Count(z, Ends) = Count(s, Ends) + IF w \in {"line", "failed"} THEN 1 ELSE 0
         /\ Count(z, Clears) = Count(s, Clears) + IF w = "clear" THEN 1 ELSE 0
         /\ link \in 0..MaxLinks /\ (k = link \/ (k <= link /\ w = "notify")) =>
              Count(z, Stray) = Count(s, Stray)
<1> DEFINE t == <<w, k>>
<1>1. t \in AllTasks /\ t[1] = w /\ t[2] = k
  BY DEF AllTasks
<1>2. /\ t \in Ends <=> w \in {"line", "failed"}
      /\ t \in Clears <=> w = "clear"
  BY <1>1 DEF Ends, Clears
<1>3. link \in 0..MaxLinks /\ (k = link \/ (k <= link /\ w = "notify")) => t \notin Stray
  BY <1>1, <1>2, ClientTransportAssumption DEF Stray
<1>4. /\ Count(s, Stray) \in Nat /\ Append(s, t) \in Seq(AllTasks)
      /\ \A P : Count(Append(s, t), P) = Count(s, P) + (IF t \in P THEN 1 ELSE 0)
  <2>1. Count(s, Stray) \in Nat
    BY CountNat
  <2>2. Append(s, t) \in Seq(AllTasks)
    BY <1>1
  <2>3. ASSUME NEW P
        PROVE  Count(Append(s, t), P) = Count(s, P) + (IF t \in P THEN 1 ELSE 0)
    BY <1>1, CountAppend
  <2>4. QED
    BY <2>1, <2>2, <2>3
<1> HIDE DEF t
<1>5. /\ Count(Append(s, t), Ends) = Count(s, Ends) + IF w \in {"line", "failed"} THEN 1 ELSE 0
      /\ Count(Append(s, t), Clears) = Count(s, Clears) + IF w = "clear" THEN 1 ELSE 0
  BY <1>2, <1>4
<1>6. link \in 0..MaxLinks /\ (k = link \/ (k <= link /\ w = "notify")) =>
        Count(Append(s, t), Stray) = Count(s, Stray)
  BY <1>3, <1>4
<1>7. QED
  BY <1>4, <1>5, <1>6 DEF t

\* What it does to the reports of the end of a link.
LEMMA AppendedReport ==
  ASSUME NEW s \in Seq(AllTasks), NEW w \in {"line", "failed", "notify", "clear"},
         NEW k \in 0..MaxLinks, NEW l \in Links
  PROVE  Count(Append(s, <<w, k>>), {<<"notify", l>>}) =
           Count(s, {<<"notify", l>>}) + IF w = "notify" /\ k = l THEN 1 ELSE 0
<1> DEFINE t == <<w, k>>
<1>1. t \in AllTasks /\ (t \in {<<"notify", l>>} <=> w = "notify" /\ k = l)
  BY DEF AllTasks
<1> HIDE DEF t
<1>2. Count(Append(s, t), {<<"notify", l>>}) =
        Count(s, {<<"notify", l>>}) + (IF t \in {<<"notify", l>>} THEN 1 ELSE 0)
  BY <1>1, CountAppend
<1>3. QED
  BY <1>1, <1>2 DEF t

\* What taking the first task off does to the counts; a completion is of the link
\* there is now when no task is stray.
LEMMA Removed ==
  ASSUME TypeOK, tasks # <<>>
  PROVE  LET z == Tail(tasks) h == Head(tasks) IN
         /\ z \in Seq(AllTasks) /\ h[2] \in 0..MaxLinks
         /\ h[1] \in {"line", "failed", "notify", "clear"}
         /\ Count(z, Ends) = Count(tasks, Ends) - IF h[1] \in {"line", "failed"} THEN 1 ELSE 0
         /\ Count(z, Clears) = Count(tasks, Clears) - IF h[1] = "clear" THEN 1 ELSE 0
         /\ Count(tasks, Stray) = 0 =>
              /\ Count(z, Stray) = 0 /\ h[2] <= link
              /\ h[1] \in {"line", "failed"} => h[2] = link
         /\ \A l \in Links : Count(z, {<<"notify", l>>}) =
              Count(tasks, {<<"notify", l>>}) - IF h[1] = "notify" /\ h[2] = l THEN 1 ELSE 0
<1> DEFINE z == Tail(tasks) h == Head(tasks)
<1>1. /\ tasks \in Seq(AllTasks) /\ z \in Seq(AllTasks) /\ h \in AllTasks
      /\ link \in 0..MaxLinks
  BY TaskTypes DEF TypeOK, LinkOK
<1>2. /\ h = <<h[1], h[2]>> /\ h[2] \in 0..MaxLinks
      /\ h[1] \in {"line", "failed", "notify", "clear"}
  BY <1>1 DEF AllTasks
<1>3. /\ h \in Ends <=> h[1] \in {"line", "failed"}
      /\ h \in Clears <=> h[1] = "clear"
  BY <1>1 DEF Ends, Clears
<1>4. \A l \in Links : h \in {<<"notify", l>>} <=> h[1] = "notify" /\ h[2] = l
  BY <1>2
<1>5. h \notin Stray => h[2] <= link /\ (h[1] \in {"line", "failed"} => h[2] = link)
  BY <1>1, <1>2, <1>3, ClientTransportAssumption DEF Stray
<1>6. \A P : /\ Count(tasks, P) \in Nat /\ Count(z, P) \in Nat
             /\ Count(z, P) = Count(tasks, P) - (IF h \in P THEN 1 ELSE 0)
  BY <1>1, CountNat, CountTail
<1> HIDE DEF z, h
<1>7. /\ Count(z, Ends) = Count(tasks, Ends) - IF h[1] \in {"line", "failed"} THEN 1 ELSE 0
      /\ Count(z, Clears) = Count(tasks, Clears) - IF h[1] = "clear" THEN 1 ELSE 0
  BY <1>3, <1>6
<1>8. Count(tasks, Stray) = 0 => Count(z, Stray) = 0 /\ h \notin Stray
  <2>1. /\ Count(z, Stray) \in Nat
        /\ Count(z, Stray) = Count(tasks, Stray) - (IF h \in Stray THEN 1 ELSE 0)
    BY <1>6
  <2>2. ASSUME h \in Stray PROVE Count(tasks, Stray) # 0
    BY <2>1, <2>2
  <2>3. ASSUME h \notin Stray, Count(tasks, Stray) = 0 PROVE Count(z, Stray) = 0
    <3>1. Count(z, Stray) = 0 - 0
      BY <2>1, <2>3, Zenon
    <3>2. QED
      BY <3>1
  <2>4. QED
    BY <2>2, <2>3
<1>9. ASSUME NEW l \in Links
      PROVE  Count(z, {<<"notify", l>>}) =
               Count(tasks, {<<"notify", l>>}) - IF h[1] = "notify" /\ h[2] = l THEN 1 ELSE 0
  <2>1. h \in {<<"notify", l>>} <=> h[1] = "notify" /\ h[2] = l
    BY <1>4
  <2>2. Count(z, {<<"notify", l>>}) =
          Count(tasks, {<<"notify", l>>}) - (IF h \in {<<"notify", l>>} THEN 1 ELSE 0)
    BY <1>6
  <2>3. QED
    BY <2>1, <2>2
<1>10. QED
  BY <1>1, <1>2, <1>5, <1>7, <1>8, <1>9 DEF z, h

\* At most one read fails at a time.
LEMMA FailedOnce ==
  ASSUME TypeOK, reads <= 1, NEW s \in Seq(AllTasks)
  PROVE  s \o Failed(reads) =
           IF reads = 0 THEN s ELSE Append(s, <<"failed", link>>)
<1>1. reads \in {0, 1}
  BY DEF TypeOK, LinkOK
<1>2. CASE reads = 0
  <2>1. Failed(reads) = <<>>
    BY <1>2 DEF Failed
  <2>2. QED
    BY <1>2, <2>1
<1>3. CASE reads = 1
  <2>1. Failed(reads) = <<<<"failed", link>>>>
    BY <1>3 DEF Failed
  <2>2. s \o <<<<"failed", link>>>> = Append(s, <<"failed", link>>)
    OBVIOUS
  <2>3. reads # 0
    BY <1>3
  <2>4. QED
    BY <2>1, <2>2, <2>3, Zenon
<1>4. QED
  BY <1>1, <1>2, <1>3

\* The counts are numbers.
LEMMA Numbers ==
  ASSUME TypeOK
  PROVE  /\ Count(tasks, Ends) \in Nat /\ Count(tasks, Clears) \in Nat
         /\ Count(tasks, Stray) \in Nat
         /\ \A l \in Links : Count(tasks, {<<"notify", l>>}) \in Nat
         /\ \A l \in Links : told[l] \in Nat
         /\ reads \in Nat /\ link \in Nat
<1>1. tasks \in Seq(AllTasks)
  BY TaskTypes
<1>2. ASSUME NEW P PROVE Count(tasks, P) \in Nat
  BY <1>1, CountNat
<1>3. (\A l \in Links : told[l] \in Nat) /\ reads \in Nat /\ link \in Nat
  BY ClientTransportAssumption DEF TypeOK, LinkOK, CallsOK
<1>4. QED
  BY <1>2, <1>3

\* A step that stays with its link changes the number of completions by e, of
\* requests to clear by c and of reports of the end of link k by n.
Effect(e, c, n, k) ==
  /\ link' = link
  /\ Count(tasks', Ends) = Count(tasks, Ends) + e
  /\ Count(tasks', Clears) = Count(tasks, Clears) + c
  /\ Count(tasks', Stray') = 0
  /\ \A l \in Links : Count(tasks', {<<"notify", l>>}) =
                        Count(tasks, {<<"notify", l>>}) + IF l = k THEN n ELSE 0

One(b) == IF b THEN 1 ELSE 0

\* The effect of leaving the queue alone, of appending a task of the link there
\* is, of running a task, and of doing both.
LEMMA Effects ==
  ASSUME TypeOK, Count(tasks, Stray) = 0, link' = link
  PROVE  /\ tasks' = tasks => Effect(0, 0, 0, 0)
         /\ \A w \in {"line", "failed", "notify", "clear"} :
              tasks' = Append(tasks, <<w, link>>) =>
                Effect(One(w \in {"line", "failed"}), One(w = "clear"), One(w = "notify"), link)
<1>0. tasks \in Seq(AllTasks) /\ link \in 0..MaxLinks
  BY TaskTypes DEF TypeOK, LinkOK
<1>1. Stray' = Stray
  BY DEF Stray, Ends
<1>2. ASSUME tasks' = tasks PROVE Effect(0, 0, 0, 0)
  BY Numbers, <1>1, <1>2 DEF Effect
<1>3. ASSUME NEW w \in {"line", "failed", "notify", "clear"}, tasks' = Append(tasks, <<w, link>>)
      PROVE  Effect(One(w \in {"line", "failed"}), One(w = "clear"), One(w = "notify"), link)
  <2>1. /\ Count(tasks', Ends) = Count(tasks, Ends) + IF w \in {"line", "failed"} THEN 1 ELSE 0
        /\ Count(tasks', Clears) = Count(tasks, Clears) + IF w = "clear" THEN 1 ELSE 0
    BY <1>0, <1>3, Appended
  <2>s. Count(tasks', Stray) = Count(tasks, Stray)
    BY <1>0, <1>3, Appended
  <2>2. \A l \in Links : Count(tasks', {<<"notify", l>>}) =
          Count(tasks, {<<"notify", l>>}) + IF w = "notify" /\ link = l THEN 1 ELSE 0
    <3>1. ASSUME NEW l \in Links
          PROVE  Count(Append(tasks, <<w, link>>), {<<"notify", l>>}) =
                   Count(tasks, {<<"notify", l>>}) + IF w = "notify" /\ link = l THEN 1 ELSE 0
      BY <1>0, <1>3, AppendedReport
    <3>2. QED
      BY <1>3, <3>1, Zenon
  <2>3. \A l \in Links : (IF w = "notify" /\ link = l THEN 1 ELSE 0) =
                           IF l = link THEN One(w = "notify") ELSE 0
    BY DEF One
  <2>4. \A l \in Links : Count(tasks', {<<"notify", l>>}) =
          Count(tasks, {<<"notify", l>>}) + IF l = link THEN One(w = "notify") ELSE 0
    BY <2>2, <2>3, Zenon
  <2>5. QED
    BY <1>1, <2>1, <2>s, <2>4 DEF Effect, One
<1>4. QED
  BY <1>2, <1>3

\* The effect of running a task, and of running a completion that appends one.
LEMMA RunEffects ==
  ASSUME TypeOK, Count(tasks, Stray) = 0, link' = link, tasks # <<>>
  PROVE  /\ tasks' = Tail(tasks) =>
              Effect(0 - One(Head(tasks)[1] \in {"line", "failed"}),
                     0 - One(Head(tasks)[1] = "clear"),
                     0 - One(Head(tasks)[1] = "notify"), Head(tasks)[2])
         /\ \A w \in {"failed", "notify"} :
              /\ tasks' = Append(Tail(tasks), <<w, link>>)
              /\ Head(tasks)[1] \in {"line", "failed"}
              => Effect(One(w = "failed") - 1, 0, One(w = "notify"), link)
         /\ Head(tasks)[1] \in {"line", "failed"} =>
              Count(tasks, Ends) >= 1 /\ Head(tasks)[2] = link
         /\ Head(tasks)[1] = "clear" => Count(tasks, Clears) >= 1
         /\ Head(tasks)[2] <= link
<1> DEFINE z == Tail(tasks) h1 == Head(tasks)[1] h2 == Head(tasks)[2]
<1>0. /\ z \in Seq(AllTasks) /\ link \in 0..MaxLinks
      /\ h2 \in 0..MaxLinks /\ h1 \in {"line", "failed", "notify", "clear"}
  BY Removed DEF TypeOK, LinkOK
<1>1. Stray' = Stray
  BY DEF Stray, Ends
<1>2. /\ Count(z, Ends) = Count(tasks, Ends) - IF h1 \in {"line", "failed"} THEN 1 ELSE 0
      /\ Count(z, Clears) = Count(tasks, Clears) - IF h1 = "clear" THEN 1 ELSE 0
      /\ Count(z, Stray) = 0 /\ h2 <= link
      /\ h1 \in {"line", "failed"} => h2 = link
  BY Removed
<1>3. \A l \in Links : Count(z, {<<"notify", l>>}) =
        Count(tasks, {<<"notify", l>>}) - IF h1 = "notify" /\ h2 = l THEN 1 ELSE 0
  BY Removed, Zenon
<1>4. /\ Count(z, Ends) \in Nat /\ Count(z, Clears) \in Nat
      /\ \A l \in Links : Count(z, {<<"notify", l>>}) \in Nat
  <2>1. ASSUME NEW P PROVE Count(z, P) \in Nat
    BY <1>0, CountNat
  <2>2. QED
    BY <2>1
<1> HIDE DEF z, h1, h2
<1>5. /\ h1 \in {"line", "failed"} => Count(tasks, Ends) >= 1
      /\ h1 = "clear" => Count(tasks, Clears) >= 1
  BY Numbers, <1>2, <1>4
<1>6. ASSUME tasks' = z
      PROVE  Effect(0 - One(h1 \in {"line", "failed"}), 0 - One(h1 = "clear"),
                    0 - One(h1 = "notify"), h2)
  <2>1. ASSUME NEW l \in Links
        PROVE  Count(tasks', {<<"notify", l>>}) = Count(tasks, {<<"notify", l>>})
                 + IF l = h2 THEN 0 - One(h1 = "notify") ELSE 0
    <3>1. /\ Count(tasks, {<<"notify", l>>}) \in Nat
          /\ Count(tasks', {<<"notify", l>>}) =
               Count(tasks, {<<"notify", l>>}) - IF h1 = "notify" /\ h2 = l THEN 1 ELSE 0
      BY Numbers, <1>3, <1>6, Zenon
    <3>2. QED
      BY <3>1 DEF One
  <2>2. /\ Count(tasks', Ends) = Count(tasks, Ends) + (0 - One(h1 \in {"line", "failed"}))
        /\ Count(tasks', Clears) = Count(tasks, Clears) + (0 - One(h1 = "clear"))
        /\ Count(tasks', Stray') = 0
    BY Numbers, <1>1, <1>2, <1>6 DEF One
  <2>3. QED
    BY <2>1, <2>2 DEF Effect
<1>7. ASSUME NEW w \in {"failed", "notify"}, tasks' = Append(z, <<w, link>>),
             h1 \in {"line", "failed"}
      PROVE  Effect(One(w = "failed") - 1, 0, One(w = "notify"), link)
  <2>1. /\ Count(tasks', Ends) = Count(z, Ends) + IF w \in {"line", "failed"} THEN 1 ELSE 0
        /\ Count(tasks', Clears) = Count(z, Clears) + IF w = "clear" THEN 1 ELSE 0
        /\ Count(tasks', Stray) = Count(z, Stray)
    BY <1>0, <1>7, Appended
  <2>2. ASSUME NEW l \in Links
        PROVE  Count(tasks', {<<"notify", l>>}) = Count(tasks, {<<"notify", l>>})
                 + IF l = link THEN One(w = "notify") ELSE 0
    <3>1. Count(tasks', {<<"notify", l>>}) =
            Count(z, {<<"notify", l>>}) + IF w = "notify" /\ link = l THEN 1 ELSE 0
      BY <1>0, <1>7, AppendedReport
    <3>2. /\ Count(tasks, {<<"notify", l>>}) \in Nat
          /\ Count(z, {<<"notify", l>>}) =
               Count(tasks, {<<"notify", l>>}) - IF h1 = "notify" /\ h2 = l THEN 1 ELSE 0
      BY Numbers, <1>3, Zenon
    <3>3. h1 # "notify"
      BY <1>7
    <3>4. QED
      BY <3>1, <3>2, <3>3 DEF One
  <2>3. /\ Count(tasks', Ends) = Count(tasks, Ends) + (One(w = "failed") - 1)
        /\ Count(tasks', Clears) = Count(tasks, Clears) + 0
        /\ Count(tasks', Stray') = 0
    BY Numbers, <1>1, <1>2, <1>4, <1>7, <2>1 DEF One
  <2>4. QED
    BY <2>2, <2>3 DEF Effect
<1>8. QED
  BY <1>2, <1>5, <1>6, <1>7 DEF z, h1, h2

\* The effect of every action but Dial.
LEMMA ActionEffects ==
  ASSUME TypeOK, ReadInv, Count(tasks, Stray) = 0
  PROVE  /\ Attach \/ Claim \/ Begin \/ DialFails \/ Arm \/ Mark => Effect(0, 0, 0, 0)
         /\ Close \/ PeerLeaves => Effect(reads, 0, 0, link)
         /\ Forget => Effect(0, One(handlers), 0, link)
         /\ PeerSends => Effect(1, 0, 0, link)
         /\ WriteFails => Effect(0, 0, One(kind = "stdio" /\ handlers), link)
         /\ RunFailed => Effect(0 - 1, 0, One(handlers), link)
         /\ RunNotify => Effect(0, 0, 0 - 1, Head(tasks)[2])
         /\ RunClear => Effect(0, 0 - 1, 0, Head(tasks)[2])
         /\ RunLine \/ RunResponse => Effect(0 - One(stopping \/ open), 0, 0, link)
         /\ RunOversized => Effect(0 - 1, 0, One(handlers), link)
         /\ ArmOversized => Effect(0, 0, One(handlers), link)
<1>0. /\ Count(tasks, Ends) \in Nat /\ reads \in Nat /\ reads <= 1
      /\ tasks \in Seq(AllTasks) /\ handlers \in BOOLEAN
  BY Numbers, TaskTypes DEF ReadInv, TypeOK, FlagsOK
<1>1. ASSUME tasks' = tasks, link' = link PROVE Effect(0, 0, 0, link)
  <2>1. Effect(0, 0, 0, 0)
    BY <1>1, Effects
  <2>2. QED
    BY <2>1 DEF Effect
<1>2. ASSUME Attach \/ Claim \/ Begin \/ DialFails \/ Arm \/ Mark PROVE Effect(0, 0, 0, 0)
  <2>1. tasks' = tasks /\ link' = link
    BY <1>2 DEF Attach, Claim, Begin, DialFails, Arm, Mark, ReadInv, wire
  <2>2. QED
    BY <2>1, Effects
<1>3. ASSUME Close \/ PeerLeaves PROVE Effect(reads, 0, 0, link)
  <2>1. link' = link /\ tasks' = tasks \o Failed(reads)
    BY <1>3 DEF Close, PeerLeaves
  <2>2. tasks' = IF reads = 0 THEN tasks ELSE Append(tasks, <<"failed", link>>)
    BY <1>0, <2>1, FailedOnce
  <2>3. CASE reads = 0
    BY <1>1, <2>1, <2>2, <2>3
  <2>4. CASE reads = 1
    <3>1. Effect(1, 0, 0, link)
      <4>1. tasks' = Append(tasks, <<"failed", link>>)
        BY <2>2, <2>4
      <4>2. Effect(One("failed" \in {"line", "failed"}), One("failed" = "clear"),
                   One("failed" = "notify"), link)
        BY <2>1, <4>1, Effects
      <4>3. QED
        BY <4>2 DEF One
    <3>2. QED
      BY <2>4, <3>1
  <2>5. QED
    BY <1>0, <2>3, <2>4
<1>4. ASSUME Forget PROVE Effect(0, One(handlers), 0, link)
  <2>1. /\ link' = link
        /\ tasks' = IF handlers THEN Append(tasks, <<"clear", link>>) ELSE tasks
    BY <1>4 DEF Forget, wire
  <2>2. CASE handlers
    <3>1. Effect(One("clear" \in {"line", "failed"}), One("clear" = "clear"),
                 One("clear" = "notify"), link)
      BY <2>1, <2>2, Effects
    <3>2. QED
      BY <2>2, <3>1 DEF One
  <2>3. CASE ~handlers
    BY <1>1, <2>1, <2>3 DEF One
  <2>4. QED
    BY <2>2, <2>3
<1>5. ASSUME PeerSends PROVE Effect(1, 0, 0, link)
  <2>1. link' = link /\ tasks' = Append(tasks, <<"line", link>>)
    BY <1>5 DEF PeerSends
  <2>2. Effect(One("line" \in {"line", "failed"}), One("line" = "clear"),
               One("line" = "notify"), link)
    BY <2>1, Effects
  <2>3. QED
    BY <2>2 DEF One
<1>6. ASSUME WriteFails PROVE Effect(0, 0, One(kind = "stdio" /\ handlers), link)
  <2>1. /\ link' = link
        /\ tasks' = IF kind = "stdio" /\ handlers
                    THEN Append(tasks, <<"notify", link>>) ELSE tasks
    BY <1>6 DEF WriteFails
  <2>2. CASE kind = "stdio" /\ handlers
    <3>1. Effect(One("notify" \in {"line", "failed"}), One("notify" = "clear"),
                 One("notify" = "notify"), link)
      BY <2>1, <2>2, Effects
    <3>2. QED
      BY <2>2, <3>1 DEF One
  <2>3. CASE ~(kind = "stdio" /\ handlers)
    BY <1>1, <2>1, <2>3 DEF One
  <2>4. QED
    BY <2>2, <2>3
<1>7. ASSUME RunFailed PROVE Effect(0 - 1, 0, One(handlers), link)
  <2>1. /\ link' = link /\ tasks # <<>> /\ Head(tasks)[1] = "failed"
        /\ tasks' = IF handlers THEN Append(Tail(tasks), <<"notify", Head(tasks)[2]>>)
                    ELSE Tail(tasks)
    BY <1>7 DEF RunFailed, LossTells, Running, wire
  <2>2. Head(tasks)[2] = link
    BY <2>1, RunEffects
  <2>3. CASE handlers
    <3>1. tasks' = Append(Tail(tasks), <<"notify", link>>)
      BY <2>1, <2>2, <2>3
    <3>2. Effect(One("notify" = "failed") - 1, 0, One("notify" = "notify"), link)
      BY <2>1, <3>1, RunEffects
    <3>3. QED
      BY <2>3, <3>2 DEF One
  <2>4. CASE ~handlers
    <3>1. Effect(0 - One(Head(tasks)[1] \in {"line", "failed"}),
                 0 - One(Head(tasks)[1] = "clear"),
                 0 - One(Head(tasks)[1] = "notify"), Head(tasks)[2])
      BY <2>1, <2>4, RunEffects
    <3>2. QED
      BY <2>1, <2>2, <2>4, <3>1 DEF One
  <2>5. QED
    BY <2>3, <2>4
<1>8. ASSUME RunNotify PROVE Effect(0, 0, 0 - 1, Head(tasks)[2])
  <2>1. /\ link' = link /\ tasks # <<>> /\ tasks' = Tail(tasks)
        /\ Head(tasks)[1] = "notify"
    BY <1>8 DEF RunNotify, Running, wire
  <2>2. Effect(0 - One(Head(tasks)[1] \in {"line", "failed"}),
               0 - One(Head(tasks)[1] = "clear"),
               0 - One(Head(tasks)[1] = "notify"), Head(tasks)[2])
    BY <2>1, RunEffects
  <2>3. QED
    BY <2>1, <2>2 DEF One
<1>9. ASSUME RunClear PROVE Effect(0, 0 - 1, 0, Head(tasks)[2])
  <2>1. /\ link' = link /\ tasks # <<>> /\ tasks' = Tail(tasks)
        /\ Head(tasks)[1] = "clear"
    BY <1>9 DEF RunClear, Running, wire
  <2>2. Effect(0 - One(Head(tasks)[1] \in {"line", "failed"}),
               0 - One(Head(tasks)[1] = "clear"),
               0 - One(Head(tasks)[1] = "notify"), Head(tasks)[2])
    BY <2>1, RunEffects
  <2>3. QED
    BY <2>1, <2>2 DEF One
<1>10. ASSUME RunLine \/ RunResponse PROVE Effect(0 - One(stopping \/ open), 0, 0, link)
  <2>1. /\ link' = link /\ tasks # <<>> /\ Head(tasks)[1] = "line"
        /\ tasks' = IF ~stopping /\ ~open
                    THEN Append(Tail(tasks), <<"failed", link>>) ELSE Tail(tasks)
    BY <1>10 DEF RunLine, RunResponse, Running
  <2>2. Head(tasks)[2] = link
    BY <2>1, RunEffects
  <2>3. CASE ~stopping /\ ~open
    <3>1. Effect(One("failed" = "failed") - 1, 0, One("failed" = "notify"), link)
      BY <2>1, <2>3, RunEffects
    <3>2. QED
      BY <2>3, <3>1 DEF One
  <2>4. CASE stopping \/ open
    <3>1. Effect(0 - One(Head(tasks)[1] \in {"line", "failed"}),
                 0 - One(Head(tasks)[1] = "clear"),
                 0 - One(Head(tasks)[1] = "notify"), Head(tasks)[2])
      BY <2>1, <2>4, RunEffects
    <3>2. QED
      BY <2>1, <2>2, <2>4, <3>1 DEF One
  <2>5. QED
    BY <2>3, <2>4
<1>11. ASSUME RunOversized PROVE Effect(0 - 1, 0, One(handlers), link)
  <2>1. /\ link' = link /\ tasks # <<>> /\ Head(tasks)[1] = "line"
        /\ tasks' = Tail(tasks) \o Failed(reads)
                      \o (IF handlers THEN <<<<"notify", link>>>> ELSE <<>>)
    BY <1>11 DEF RunOversized, Drop, Running
  <2>2. /\ Head(tasks)[2] = link /\ Count(tasks, Ends) >= 1
        /\ Tail(tasks) \in Seq(AllTasks)
    BY <2>1, RunEffects, Removed
  <2>3. reads = 0
    BY <1>0, <2>2 DEF ReadInv
  <2>4. Tail(tasks) \o Failed(reads) = Tail(tasks)
    BY <2>2, <2>3, FailedOnce
  <2>5. tasks' = IF handlers THEN Append(Tail(tasks), <<"notify", link>>) ELSE Tail(tasks)
    <3>1. tasks' = Tail(tasks) \o (IF handlers THEN <<<<"notify", link>>>> ELSE <<>>)
      BY <2>1, <2>4
    <3>2. /\ Tail(tasks) \o <<<<"notify", link>>>> = Append(Tail(tasks), <<"notify", link>>)
          /\ Tail(tasks) \o <<>> = Tail(tasks)
      BY <2>2
    <3>3. QED
      BY <3>1, <3>2, Zenon
  <2>6. CASE handlers
    <3>1. Effect(One("notify" = "failed") - 1, 0, One("notify" = "notify"), link)
      BY <2>1, <2>5, <2>6, RunEffects
    <3>2. QED
      BY <2>6, <3>1 DEF One
  <2>7. CASE ~handlers
    <3>1. Effect(0 - One(Head(tasks)[1] \in {"line", "failed"}),
                 0 - One(Head(tasks)[1] = "clear"),
                 0 - One(Head(tasks)[1] = "notify"), Head(tasks)[2])
      BY <2>1, <2>5, <2>7, RunEffects
    <3>2. QED
      BY <2>1, <2>2, <2>7, <3>1 DEF One
  <2>8. QED
    BY <2>6, <2>7
<1>12. ASSUME ArmOversized PROVE Effect(0, 0, One(handlers), link)
  <2>1. /\ link' = link /\ reads = 0
        /\ tasks' = tasks \o Failed(reads)
                      \o (IF handlers THEN <<<<"notify", link>>>> ELSE <<>>)
    BY <1>0, <1>12 DEF ArmOversized, Drop, ReadInv
  <2>2. tasks \o Failed(reads) = tasks
    BY <1>0, <2>1, FailedOnce
  <2>3. tasks' = IF handlers THEN Append(tasks, <<"notify", link>>) ELSE tasks
    <3>1. tasks' = tasks \o (IF handlers THEN <<<<"notify", link>>>> ELSE <<>>)
      BY <2>1, <2>2
    <3>2. /\ tasks \o <<<<"notify", link>>>> = Append(tasks, <<"notify", link>>)
          /\ tasks \o <<>> = tasks
      BY <1>0
    <3>3. QED
      BY <3>1, <3>2, Zenon
  <2>4. CASE handlers
    <3>1. Effect(One("notify" \in {"line", "failed"}), One("notify" = "clear"),
                 One("notify" = "notify"), link)
      BY <2>1, <2>3, <2>4, Effects
    <3>2. QED
      BY <2>4, <3>1 DEF One
  <2>5. CASE ~handlers
    BY <1>1, <2>1, <2>3, <2>5 DEF One
  <2>6. QED
    BY <2>4, <2>5
<1>13. QED
  BY <1>2, <1>3, <1>4, <1>5, <1>6, <1>7, <1>8, <1>9, <1>10, <1>11, <1>12

-----------------------------------------------------------------------------
(* The invariant is inductive *)

\* An overlap is never forgotten.
LEMMA OverlapStays ==
  ASSUME TypeOK, [Next]_vars, ~overlap'
  PROVE  ~overlap
<1>1. CASE Connect
  BY <1>1 DEF Connect, Attach, Claim, Begin, DialFails, Dial, Arm, TypeOK, FlagsOK
<1>2. CASE Disconnect
  BY <1>2 DEF Disconnect, Mark, Close, Forget, TypeOK, FlagsOK
<1>3. CASE Server
  BY <1>3 DEF Server, PeerSends, PeerLeaves, WriteFails, calls, TypeOK, FlagsOK
<1>4. CASE Loop
  BY <1>4 DEF Loop, RunFailed, RunNotify, RunClear, RunLine, RunResponse, RunOversized, calls
<1>5. ASSUME NEW g \in Gets, GetStep(g) PROVE ~overlap
  BY <1>5 DEF GetStep, GetProceeds, GetWritten, OnSseRead, calls
<1>6. CASE ArmOversized \/ UNCHANGED vars
  BY <1>6 DEF ArmOversized, vars, calls
<1>7. QED
  BY <1>1, <1>2, <1>3, <1>4, <1>5, <1>6, NextGroups

\* A socket is replaced when nothing is left of the one before.
LEMMA DialIsClean ==
  ASSUME TypeOK, Dial, ~overlap'
  PROVE  /\ reads = 0 /\ tasks = <<>> /\ tasks' = <<>> /\ NoGet
         /\ Count(tasks, Ends) = 0 /\ Count(tasks, Clears) = 0
         /\ Count(tasks', Ends) = 0 /\ Count(tasks', Clears) = 0
         /\ Count(tasks', Stray') = 0
         /\ \A l \in Links : Count(tasks', {<<"notify", l>>}) = 0
<1>1. Quiet /\ ~(reads > 0) /\ reads \in Nat
  BY Numbers DEF Dial, TypeOK, FlagsOK
<1>2. reads = 0 /\ tasks = <<>> /\ NoGet
  BY <1>1 DEF Quiet, NoGet
<1>3. tasks' = <<>>
  <2>1. tasks' = tasks \o Failed(reads) /\ tasks \in Seq(AllTasks)
    BY TaskTypes DEF Dial
  <2>2. reads <= 1
    BY <1>2
  <2>3. tasks' = tasks
    BY <1>2, <2>1, <2>2, FailedOnce
  <2>4. QED
    BY <1>2, <2>3
<1>4. \A P : Count(tasks, P) = 0 /\ Count(tasks', P) = 0
  BY <1>2, <1>3, CountEmpty
<1>5. QED
  BY <1>2, <1>3, <1>4

\* One reader, through every step.
LEMMA ReadStep ==
  ASSUME TypeOK, CleanInv, [Next]_vars, ~overlap'
  PROVE  ReadInv'
<1>0. /\ Count(tasks, Ends) \in Nat /\ reads \in Nat /\ Count(tasks, Stray) = 0
      /\ ReadInv /\ CallInv /\ FlagsOK
  BY Numbers DEF CleanInv, ToldInv, TypeOK
<1> DEFINE E == Count(tasks, Ends)
           F == Count(tasks', Ends)
<1>i. ASSUME /\ reads' + F <= 1
             /\ conn_pc' = "dialed" => reads' + F = 0 /\ open' /\ peer'
             /\ connected' /\ conn_pc' \in {"idle", "attached"} =>
                  open' /\ ~stopping' /\ reads' + F = 1
             /\ conn_pc' \in {"dialing", "dialed"} /\ (connected' \/ kind' = "http") => ~stopping'
      PROVE ReadInv'
  BY <1>i DEF ReadInv
<1>a. /\ E \in Nat
      /\ reads + E <= 1
      /\ conn_pc = "dialed" => reads + E = 0 /\ open /\ peer
      /\ connected /\ conn_pc \in {"idle", "attached"} =>
           open /\ ~stopping /\ reads + E = 1
      /\ conn_pc \in {"dialing", "dialed"} /\ (connected \/ kind = "http") => ~stopping
  BY <1>0 DEF ReadInv
<1> HIDE DEF E, F
<1>1. CASE Dial
  <2>1. F = 0
    BY <1>1, DialIsClean DEF F
  <2>2. QED
    BY <1>0, <1>1, <1>a, <1>i, <2>1 DEF Dial, flags
<1>2. CASE Attach \/ Claim \/ Begin \/ DialFails \/ Arm \/ Mark
  <2>1. F = E
    BY <1>0, <1>2, ActionEffects DEF Effect, E, F
  <2>2. CASE Attach
    BY <1>0, <1>a, <1>i, <2>1, <2>2 DEF Attach, flags, wire
  <2>3. CASE Claim \/ Begin \/ DialFails
    BY <1>0, <1>a, <1>i, <2>1, <2>3 DEF Claim, Begin, DialFails, wire
  <2>4. CASE Arm
    BY <1>0, <1>a, <1>i, <2>1, <2>4 DEF Arm
  <2>5. CASE Mark
    BY <1>0, <1>a, <1>i, <2>1, <2>5 DEF Mark, FlagsOK
  <2>6. QED
    BY <1>2, <2>2, <2>3, <2>4, <2>5
<1>3. CASE Close \/ PeerLeaves
  <2>1. F = E + reads
    BY <1>0, <1>3, ActionEffects DEF Effect, E, F
  <2>2. CASE Close
    BY <1>0, <1>a, <1>i, <2>1, <2>2 DEF Close, flags, CallInv
  <2>3. CASE PeerLeaves
    BY <1>0, <1>a, <1>i, <2>1, <2>3 DEF PeerLeaves, flags, calls
  <2>4. QED
    BY <1>3, <2>2, <2>3
<1>4. CASE Forget \/ WriteFails \/ PeerSends
  <2>1. F = IF PeerSends THEN E + 1 ELSE E
    BY <1>0, <1>4, ActionEffects DEF Effect, E, F
  <2>2. CASE Forget
    BY <1>0, <1>a, <1>i, <2>1, <2>2 DEF Forget, PeerSends, flags, wire
  <2>3. CASE WriteFails
    BY <1>0, <1>a, <1>i, <2>1, <2>3 DEF WriteFails, PeerSends, calls
  <2>4. CASE PeerSends
    BY <1>0, <1>a, <1>i, <2>1, <2>4 DEF PeerSends, flags, calls
  <2>5. QED
    BY <1>4, <2>2, <2>3, <2>4
<1>5. CASE RunFailed \/ RunOversized
  <2>1. F = E - 1
    <3>1. F = E + (0 - 1)
      BY <1>0, <1>5, ActionEffects DEF Effect, E, F
    <3>2. QED
      BY <1>a, <3>1
  <2>2. E >= 1
    BY <1>0, <1>5, RunEffects DEF E, RunFailed, RunOversized, Running, wire
  <2>3. /\ reads' \in {reads, 0} /\ ~connected' /\ UNCHANGED <<calls, kind>>
        /\ kind = "http" => UNCHANGED stopping
    BY <1>5 DEF RunFailed, RunOversized, Drop, wire
  <2>4. reads = 0 /\ reads' + F <= 1 /\ conn_pc # "dialed"
    <3>1. reads \in Nat /\ E \in Nat /\ reads + E <= 1
      BY <1>0, <1>a
    <3>2. reads = 0 /\ E = 1
      BY <2>2, <3>1
    <3>3. F = 0 /\ reads' = 0
      BY <2>1, <2>3, <3>2
    <3>4. conn_pc # "dialed"
      BY <1>a, <3>2
    <3>5. QED
      BY <3>2, <3>3, <3>4
  <2>5. conn_pc' = conn_pc /\ kind' = kind
    BY <2>3 DEF calls
  <2>6. QED
    BY <1>a, <1>i, <2>3, <2>4, <2>5
<1>6. CASE RunNotify \/ RunClear
  <2>1. F = E
    BY <1>0, <1>6, ActionEffects DEF Effect, E, F
  <2>2. QED
    BY <1>0, <1>6, <1>a, <1>i, <2>1 DEF RunNotify, RunClear, flags, wire, calls
<1>7. CASE RunLine \/ RunResponse
  <2>1. F = E - One(stopping \/ open)
    <3>1. F = E + (0 - One(stopping \/ open))
      BY <1>0, <1>7, ActionEffects DEF Effect, E, F
    <3>2. QED
      BY <1>a, <3>1 DEF One
  <2>2. /\ reads' = IF ~stopping /\ open THEN reads + 1 ELSE reads
        /\ UNCHANGED <<flags, calls, kind, open, peer>>
    BY <1>7 DEF RunLine, RunResponse, Rearmed
  <2>3. E >= 1
    BY <1>0, <1>7, RunEffects DEF E, RunLine, RunResponse, Running
  <2>4. QED
    BY <1>0, <1>a, <1>i, <2>1, <2>2, <2>3 DEF flags, calls, One
<1>8. CASE \/ \E g \in Gets : GetStep(g)
           \/ UNCHANGED vars
  <2>1. UNCHANGED <<flags, wire, calls, kind, tasks>>
    BY <1>8 DEF vars, GetStep, GetProceeds, GetWritten, OnSseRead
  <2>2. F = E
    BY <2>1 DEF E, F
  <2>3. QED
    BY <1>a, <1>i, <2>1, <2>2 DEF flags, wire, calls
<1>9. CASE ArmOversized
  <2>1. F = E
    BY <1>0, <1>9, ActionEffects DEF Effect, E, F
  <2>2. QED
    BY <1>0, <1>a, <1>i, <1>9, <2>1 DEF ArmOversized, Drop
<1>10. QED
  BY <1>1, <1>2, <1>3, <1>4, <1>5, <1>6, <1>7, <1>8, <1>9, NextGroups
     DEF Connect, Disconnect, Server, Loop

\* connect() and disconnect() stay apart.
LEMMA CallStep ==
  ASSUME TypeOK, CleanInv, [Next]_vars, ~overlap'
  PROVE  CallInv'
<1> DEFINE C == Count(tasks, Clears)
           D == Count(tasks', Clears)
<1>0. /\ C \in Nat /\ Count(tasks, Stray) = 0 /\ ReadInv
      /\ overlap \in BOOLEAN /\ disc_pc \in {"idle", "marked", "closed"}
  BY Numbers DEF CleanInv, ToldInv, TypeOK, FlagsOK, CallsOK
<1>i. ASSUME /\ connected' \/ conn_pc' # "idle" => handlers' /\ disc_pc' = "idle" /\ D = 0
             /\ disc_pc' # "idle" => stopping'
      PROVE  CallInv'
  BY <1>i DEF CallInv
<1>a. /\ connected \/ conn_pc # "idle" => handlers /\ disc_pc = "idle" /\ C = 0
      /\ disc_pc # "idle" => stopping
  BY DEF CleanInv, CallInv
<1> HIDE DEF C, D
<1>1. CASE Attach
  <2>1. tasks' = tasks /\ tasks = <<>> /\ disc_pc = "idle" /\ disc_pc' = "idle"
    BY <1>0, <1>1 DEF Attach, Quiet
  <2>2. D = 0
    BY <2>1, CountEmpty DEF D
  <2>3. QED
    BY <1>1, <1>i, <2>1, <2>2 DEF Attach
<1>2. CASE Claim \/ Begin \/ DialFails \/ Arm \/ Mark
  <2>1. D = C
    BY <1>0, <1>2, ActionEffects DEF Effect, C, D
  <2>2. CASE Claim \/ Begin \/ DialFails \/ Arm
    BY <1>a, <1>i, <2>1, <2>2 DEF Claim, Begin, DialFails, Arm
  <2>3. CASE Mark
    BY <1>0, <1>i, <2>3 DEF Mark
  <2>4. QED
    BY <1>2, <2>2, <2>3
<1>3. CASE Dial
  <2>1. D = 0
    BY <1>3, DialIsClean DEF D
  <2>2. QED
    BY <1>3, <1>a, <1>i, <2>1 DEF Dial, flags
<1>4. CASE Close \/ Forget
  <2>1. ~connected /\ conn_pc = "idle" /\ stopping
    BY <1>4, <1>a DEF Close, Forget
  <2>2. UNCHANGED <<flags, conn_pc>>
    BY <1>4 DEF Close, Forget
  <2>3. QED
    BY <1>i, <2>1, <2>2 DEF flags
<1>5. CASE Server
  <2>1. D = C
    BY <1>0, <1>5, ActionEffects DEF Effect, C, D, Server
  <2>2. /\ connected' => connected
        /\ UNCHANGED <<stopping, handlers, conn_pc, disc_pc>>
    BY <1>5 DEF Server, PeerSends, PeerLeaves, WriteFails, flags, calls
  <2>3. QED
    BY <1>a, <1>i, <2>1, <2>2
<1>6. CASE RunFailed \/ RunNotify \/ RunLine \/ RunResponse \/ RunOversized
  <2>1. D = C
    BY <1>0, <1>6, ActionEffects DEF Effect, C, D
  <2>2. /\ connected' => connected
        /\ stopping => stopping'
        /\ UNCHANGED <<handlers, calls>>
    <3>1. CASE RunFailed \/ RunOversized
      <4>1. ~connected' /\ UNCHANGED <<handlers, calls>>
        BY <3>1 DEF RunFailed, RunOversized, Drop
      <4>2. stopping' \/ stopping' = stopping
        BY <3>1 DEF RunFailed, RunOversized, Drop
      <4>3. QED
        BY <4>1, <4>2
    <3>2. CASE RunNotify \/ RunLine \/ RunResponse
      BY <3>2 DEF RunNotify, RunLine, RunResponse, flags
    <3>3. QED
      BY <1>6, <3>1, <3>2
  <2>3. QED
    BY <1>a, <1>i, <2>1, <2>2 DEF calls
<1>7. CASE RunClear
  <2>1. C >= 1
    BY <1>0, <1>7, RunEffects DEF C, RunClear, Running, wire
  <2>2. UNCHANGED <<flags, calls>>
    BY <1>7 DEF RunClear
  <2>3. QED
    BY <1>a, <1>i, <2>1, <2>2 DEF flags, calls
<1>8. CASE \/ \E g \in Gets : GetStep(g)
           \/ UNCHANGED vars
  <2>1. UNCHANGED <<flags, handlers, calls, tasks>>
    BY <1>8 DEF vars, GetStep, GetProceeds, GetWritten, OnSseRead
  <2>2. D = C
    BY <2>1 DEF C, D
  <2>3. QED
    BY <1>a, <1>i, <2>1, <2>2 DEF flags, calls
<1>9. CASE ArmOversized
  BY <1>a, <1>i, <1>9 DEF ArmOversized, Drop
<1>10. QED
  BY <1>1, <1>2, <1>3, <1>4, <1>5, <1>6, <1>7, <1>8, <1>9, NextGroups
     DEF Connect, Disconnect, Loop

\* The reports of a link stay bounded when what a step adds, made (x) or queued (n),
\* is made up for by a reader or a writer that cannot report any more.
LEMMA LoadStep ==
  ASSUME TypeOK, ToldInv, NEW e, NEW c, NEW n \in Int, NEW k, NEW x \in Int,
         Effect(e, c, n, k), kind' = kind,
         \A l \in Links : told'[l] = told[l] + IF l = k THEN x ELSE 0,
         x = 0 \/ k <= link,
         \/ x + n <= 0 /\ (Reader' => Reader) /\ (Writer' => Writer)
         \/ k = link /\ x + n + One(Reader') + One(Writer') <= One(Reader) + One(Writer)
  PROVE  ToldInv'
<1>1. Count(tasks', Stray') = 0 /\ link' = link /\ link \in Nat
  BY Numbers DEF Effect
<1>2. ASSUME NEW l \in Links PROVE Load(l)' <= Cap'
  <2> DEFINE N == Count(tasks, {<<"notify", l>>})
             M == Count(tasks', {<<"notify", l>>})
  <2>1. M = N + (IF l = k THEN n ELSE 0) /\ N \in Nat /\ told[l] \in Nat
    BY Numbers DEF Effect
  <2>2. told'[l] = told[l] + IF l = k THEN x ELSE 0
    OBVIOUS
  <2>3. told[l] + N + (IF l = link /\ Reader THEN 1 ELSE 0)
          + (IF l = link /\ Writer THEN 1 ELSE 0) <= Cap
    BY DEF ToldInv, Load
  <2>4. Cap' = Cap /\ Cap \in Nat
    BY DEF Cap
  <2> HIDE DEF N, M
  <2>5. told'[l] + M + (IF l = link /\ Reader' THEN 1 ELSE 0)
          + (IF l = link /\ Writer' THEN 1 ELSE 0) <= Cap
    BY <2>1, <2>2, <2>3, <2>4 DEF One
  <2>6. QED
    BY <1>1, <2>4, <2>5 DEF Load, M
<1>3. ASSUME NEW l \in Links, l > link' PROVE told'[l] = 0
  <2>1. told[l] = 0 /\ told'[l] = told[l] + IF l = k THEN x ELSE 0
    BY <1>1, <1>3 DEF ToldInv
  <2>2. l \in Nat
    BY ClientTransportAssumption DEF Links
  <2>3. QED
    BY <1>1, <1>3, <2>1, <2>2
<1>4. QED
  BY <1>1, <1>2, <1>3 DEF ToldInv

\* The same for a step that reports nothing.
LEMMA QuietLoad ==
  ASSUME TypeOK, ToldInv, NEW e, NEW c, NEW k, Effect(e, c, 0, k), kind' = kind,
         told' = told, Reader' => Reader, Writer' => Writer
  PROVE  ToldInv'
<1>1. \A l \in Links : told'[l] = told[l] + IF l = k THEN 0 ELSE 0
  BY Numbers
<1>2. QED
  BY <1>1, LoadStep

\* The same for a step that queues n reports of the end of the link there is now.
LEMMA ReportLoad ==
  ASSUME TypeOK, ToldInv, NEW e, NEW c, NEW n \in {0, 1}, Effect(e, c, n, link),
         kind' = kind, told' = told,
         n + One(Reader') + One(Writer') <= One(Reader) + One(Writer)
  PROVE  ToldInv'
<1>1. \A l \in Links : told'[l] = told[l] + IF l = link THEN 0 ELSE 0
  BY Numbers
<1>2. 0 + n + One(Reader') + One(Writer') <= One(Reader) + One(Writer) /\ n \in Int
  BY DEF One
<1>3. QED
  BY <1>1, <1>2, LoadStep

\* Nobody hears of the end of a link once too often, through every step.
LEMMA ToldStep ==
  ASSUME TypeOK, CleanInv, [Next]_vars, ~overlap'
  PROVE  ToldInv'
<1> DEFINE E == Count(tasks, Ends)
           F == Count(tasks', Ends)
<1>0. /\ E \in Nat /\ reads \in Nat /\ Count(tasks, Stray) = 0
      /\ ReadInv /\ ToldInv /\ link \in Nat /\ handlers \in BOOLEAN
  BY Numbers DEF CleanInv, ToldInv, TypeOK, FlagsOK
<1>a. reads + E <= 1 /\ (conn_pc = "dialed" => reads + E = 0 /\ open /\ peer)
  BY <1>0 DEF ReadInv
<1>r. /\ Reader <=> reads + E > 0 \/ conn_pc = "dialed"
      /\ Reader' <=> reads' + F > 0 \/ conn_pc' = "dialed"
      /\ Writer <=> kind = "stdio" /\ (queue = "active" \/ conn_pc = "dialed")
      /\ Writer' <=> kind' = "stdio" /\ (queue' = "active" \/ conn_pc' = "dialed")
  BY DEF Reader, Writer
<1> HIDE DEF E, F
<1>1. CASE Dial
  <2>1. /\ kind' = kind /\ told' = told /\ link' = link + 1 /\ Count(tasks', Stray') = 0
        /\ \A l \in Links : Count(tasks', {<<"notify", l>>}) = 0
    BY <1>1, DialIsClean DEF Dial
  <2>2. ASSUME NEW l \in Links PROVE Load(l)' <= Cap'
    <3>1. /\ told[l] \in Nat /\ Count(tasks, {<<"notify", l>>}) \in Nat /\ Load(l) <= Cap
          /\ l > link => told[l] = 0
      BY <1>0, Numbers DEF ToldInv
    <3>2. told[l] <= Cap /\ Cap' = Cap /\ Cap \in {1, 2} /\ (kind = "stdio" => Cap = 2)
      BY <2>1, <3>1 DEF Load, Cap
    <3>3. /\ Load(l)' = told[l] + 0 + (IF l = link + 1 /\ Reader' THEN 1 ELSE 0)
                          + (IF l = link + 1 /\ Writer' THEN 1 ELSE 0)
          /\ Writer' => kind = "stdio"
      BY <2>1 DEF Load, Writer
    <3>4. l \in Nat /\ link \in Nat
      BY <1>0, ClientTransportAssumption DEF Links
    <3>5. CASE l = link + 1
      BY <3>1, <3>2, <3>3, <3>4, <3>5
    <3>6. CASE l # link + 1
      BY <3>1, <3>2, <3>3, <3>6
    <3>7. QED
      BY <3>5, <3>6
  <2>3. ASSUME NEW l \in Links, l > link' PROVE told'[l] = 0
    <3>1. l \in Nat /\ l > link
      BY <1>0, <2>1, <2>3, ClientTransportAssumption DEF Links
    <3>2. QED
      BY <1>0, <2>1, <3>1 DEF ToldInv
  <2>4. QED
    BY <2>1, <2>2, <2>3 DEF ToldInv
<1>2. CASE Attach \/ Claim \/ Begin \/ DialFails \/ Arm \/ Mark
  <2>1. Effect(0, 0, 0, 0)
    BY <1>0, <1>2, ActionEffects
  <2>2. F = E
    BY <1>0, <2>1 DEF Effect, E, F
  <2>3. kind' = kind /\ told' = told
    BY <1>2 DEF Attach, Claim, Begin, DialFails, Arm, Mark
  <2>4. (Reader' => Reader) /\ (Writer' => Writer)
    BY <1>r, <1>2, <2>2 DEF Attach, Claim, Begin, DialFails, Arm, Mark, wire
  <2>5. QED
    BY <1>0, <2>1, <2>3, <2>4, QuietLoad
<1>3. CASE Close \/ PeerLeaves
  <2>1. Effect(reads, 0, 0, link)
    BY <1>0, <1>3, ActionEffects
  <2>2. F = E + reads
    BY <2>1 DEF Effect, E, F
  <2>3. kind' = kind /\ told' = told /\ reads' = 0 /\ conn_pc' = conn_pc /\ queue' = queue
    BY <1>3 DEF Close, PeerLeaves, calls
  <2>4. (Reader' => Reader) /\ (Writer' => Writer)
    BY <1>0, <1>r, <2>2, <2>3
  <2>5. QED
    BY <1>0, <2>1, <2>3, <2>4, QuietLoad
<1>4. CASE Forget
  <2>1. Effect(0, One(handlers), 0, link)
    BY <1>0, <1>4, ActionEffects
  <2>2. F = E
    BY <1>0, <2>1 DEF Effect, E, F
  <2>3. (Reader' => Reader) /\ (Writer' => Writer) /\ kind' = kind /\ told' = told
    BY <1>r, <1>4, <2>2 DEF Forget, wire
  <2>4. QED
    BY <1>0, <2>1, <2>3, QuietLoad
<1>5. CASE PeerSends
  <2>1. Effect(1, 0, 0, link)
    BY <1>0, <1>5, ActionEffects
  <2>2. F = E + 1
    BY <2>1 DEF Effect, E, F
  <2>3. (Reader' => Reader) /\ (Writer' => Writer) /\ kind' = kind /\ told' = told
    BY <1>0, <1>r, <1>5, <2>2 DEF PeerSends, calls
  <2>4. QED
    BY <1>0, <2>1, <2>3, QuietLoad
<1>6. CASE WriteFails
  <2> DEFINE n == One(kind = "stdio" /\ handlers)
  <2>1. Effect(0, 0, n, link)
    BY <1>0, <1>6, ActionEffects
  <2>2. F = E
    BY <1>0, <2>1 DEF Effect, E, F
  <2>3. /\ kind' = kind /\ told' = told /\ conn_pc' = conn_pc /\ reads' = reads
        /\ queue = "active" /\ queue' = "dead" /\ conn_pc # "dialed"
    BY <1>6 DEF WriteFails, TypeOK, FlagsOK
  <2>4. (Reader' <=> Reader) /\ ~Writer' /\ (kind = "stdio" => Writer)
    BY <1>r, <2>2, <2>3
  <2>5. n \in {0, 1} /\ n + One(Reader') + One(Writer') <= One(Reader) + One(Writer)
    BY <2>4 DEF One
  <2> HIDE DEF n
  <2>6. QED
    BY <1>0, <2>1, <2>3, <2>5, ReportLoad
<1>7. CASE RunFailed \/ RunOversized
  <2> DEFINE n == One(handlers)
  <2>1. Effect(0 - 1, 0, n, link)
    BY <1>0, <1>7, ActionEffects
  <2>2. F = E + (0 - 1)
    BY <2>1 DEF Effect, E, F
  <2>3. E >= 1
    BY <1>0, <1>7, RunEffects DEF E, RunFailed, RunOversized, Running, wire
  <2>4. /\ kind' = kind /\ told' = told /\ conn_pc' = conn_pc /\ reads' \in {reads, 0}
        /\ queue' \in {queue, "dead"}
    BY <1>7 DEF RunFailed, RunOversized, Drop, LossTells, wire, calls
  <2>5. reads = 0 /\ E = 1 /\ conn_pc # "dialed"
    BY <1>0, <1>a, <2>3
  <2>6. Reader /\ ~Reader' /\ (Writer' => Writer)
    <3>1. F = 0 /\ reads' = 0 /\ conn_pc' # "dialed"
      BY <2>2, <2>4, <2>5
    <3>2. Reader /\ ~Reader'
      BY <1>r, <2>5, <3>1
    <3>3. Writer' => Writer
      BY <1>r, <2>4
    <3>4. QED
      BY <3>2, <3>3
  <2>7. n \in {0, 1} /\ n + One(Reader') + One(Writer') <= One(Reader) + One(Writer)
    BY <2>6 DEF One
  <2> HIDE DEF n
  <2>8. QED
    BY <1>0, <2>1, <2>4, <2>7, ReportLoad
<1>8. CASE RunNotify
  <2> DEFINE k == Head(tasks)[2]
             x == One(handlers)
  <2>1. Effect(0, 0, 0 - 1, k)
    BY <1>0, <1>8, ActionEffects
  <2>2. F = E
    BY <1>0, <2>1 DEF Effect, E, F
  <2>3. k <= link
    BY <1>0, <1>8, RunEffects DEF RunNotify, Running, wire
  <2>4. /\ kind' = kind /\ (Reader' <=> Reader) /\ (Writer' <=> Writer)
        /\ told' = IF handlers THEN [told EXCEPT ![k] = @ + 1] ELSE told
    BY <1>r, <1>8, <2>2 DEF RunNotify, wire, calls
  <2>5. \A l \in Links : told'[l] = told[l] + IF l = k THEN x ELSE 0
    <3>1. (\A l \in Links : told[l] \in Nat) /\ told \in [Links -> Nat]
      BY Numbers DEF TypeOK, CallsOK
    <3> HIDE DEF k
    <3>2. CASE handlers
      BY <2>4, <3>1, <3>2 DEF One
    <3>3. CASE ~handlers
      BY <2>4, <3>1, <3>3 DEF One
    <3>4. QED
      BY <3>2, <3>3
  <2>6. x \in Int /\ 0 - 1 \in Int /\ x + (0 - 1) <= 0
    BY DEF One
  <2> HIDE DEF k, x
  <2>7. QED
    BY <1>0, <2>1, <2>3, <2>4, <2>5, <2>6, LoadStep
<1>9. CASE RunClear
  <2>1. Effect(0, 0 - 1, 0, Head(tasks)[2])
    BY <1>0, <1>9, ActionEffects
  <2>2. F = E
    BY <1>0, <2>1 DEF Effect, E, F
  <2>3. (Reader' => Reader) /\ (Writer' => Writer) /\ kind' = kind /\ told' = told
    BY <1>r, <1>9, <2>2 DEF RunClear, wire, calls
  <2>4. QED
    BY <1>0, <2>1, <2>3, QuietLoad
<1>10. CASE RunLine \/ RunResponse
  <2>1. Effect(0 - One(stopping \/ open), 0, 0, link)
    BY <1>0, <1>10, ActionEffects
  <2>2. E >= 1
    BY <1>0, <1>10, RunEffects DEF E, RunLine, RunResponse, Running
  <2>3. /\ kind' = kind /\ told' = told /\ queue' = queue /\ conn_pc' = conn_pc
    BY <1>10 DEF RunLine, RunResponse, calls
  <2>4. (Reader' => Reader) /\ (Writer' => Writer)
    BY <1>0, <1>r, <2>2, <2>3
  <2>5. QED
    BY <1>0, <2>1, <2>3, <2>4, QuietLoad
<1>11. CASE \/ \E g \in Gets : GetStep(g)
            \/ UNCHANGED vars
  <2>1. UNCHANGED <<wire, calls, kind, tasks, told>>
    BY <1>11 DEF vars, GetStep, GetProceeds, GetWritten, OnSseRead
  <2>2. F = E /\ link' = link
    BY <2>1 DEF E, F, wire
  <2>3. (Reader' => Reader) /\ (Writer' => Writer)
    BY <1>r, <2>1, <2>2 DEF wire, calls
  <2>4. Effect(0, 0, 0, 0)
    BY <1>0, <2>1, <2>2, Effects
  <2>5. QED
    BY <1>0, <2>1, <2>3, <2>4, QuietLoad
<1>12. CASE ArmOversized
  <2> DEFINE n == One(handlers)
  <2>1. Effect(0, 0, n, link)
    BY <1>0, <1>12, ActionEffects
  <2>2. F = E
    BY <1>0, <2>1 DEF Effect, E, F
  <2>3. /\ kind' = kind /\ told' = told /\ reads' = 0 /\ queue' = "dead"
        /\ conn_pc = "dialed" /\ conn_pc' = "idle"
    BY <1>12 DEF ArmOversized, Drop
  <2>4. Reader /\ ~Reader' /\ ~Writer'
    BY <1>0, <1>a, <1>r, <2>2, <2>3
  <2>5. n \in {0, 1} /\ n + One(Reader') + One(Writer') <= One(Reader) + One(Writer)
    BY <2>4 DEF One
  <2> HIDE DEF n
  <2>6. QED
    BY <1>0, <2>1, <2>3, <2>5, ReportLoad
<1>13. QED
  BY <1>1, <1>2, <1>3, <1>4, <1>5, <1>6, <1>7, <1>8, <1>9, <1>10, <1>11, <1>12, NextGroups
     DEF Connect, Disconnect, Server, Loop

\* A GET that goes on, or ends, leaves at most one.
LEMMA GetMoves ==
  ASSUME TypeOK, SseInv, NEW g \in Gets, gets[g] # "none", NEW to,
         gets' = [gets EXCEPT ![g] = to]
  PROVE  /\ \A h, i \in Gets : gets'[h] # "none" /\ gets'[i] # "none" => h = i
         /\ to = "none" => NoGet'
         /\ to # "none" => ~NoGet'
<1>1. \A h \in Gets : gets'[h] = IF h = g THEN to ELSE gets[h]
  BY DEF TypeOK, SseOK
<1>2. \A h \in Gets : gets[h] # "none" => h = g
  BY DEF SseInv
<1>3. \A h \in Gets : gets'[h] # "none" => h = g
  BY <1>1, <1>2
<1>4. QED
  BY <1>1, <1>3 DEF NoGet

\* One GET stream, through every step.
LEMMA SseStep ==
  ASSUME TypeOK, FullInv, CleanInv, [Next]_vars, ~overlap'
  PROVE  SseInv'
<1>0. /\ SseInv /\ CallInv /\ overlap \in BOOLEAN
      /\ stopping \in BOOLEAN /\ sse_open \in BOOLEAN /\ crashed \in BOOLEAN
  BY DEF CleanInv, TypeOK, FlagsOK
<1>c. ~UNCHANGED vars => ~crashed
  BY DEF Next
<1>s. ASSUME UNCHANGED <<kind, sse>>,
             /\ sse_open /\ disc_pc' # "marked" => ~NoGet
             /\ stopping' /\ disc_pc' # "marked" => ~sse_open
             /\ ~stopping' /\ ~sse_open => NoGet
             /\ stopping' /\ conn_pc' # "idle" => NoGet
             /\ crashed => stopping'
      PROVE  SseInv'
  <2>1. /\ kind' = kind /\ sse_open' = sse_open /\ sse_socket' = sse_socket
        /\ gets' = gets /\ crashed' = crashed
    BY <1>s DEF sse
  <2>2. NoGet' <=> NoGet
    BY <2>1 DEF NoGet
  <2>3. QED
    BY <1>0, <1>s, <2>1, <2>2 DEF SseInv
<1>a. /\ kind # "http" => ~sse_open /\ NoGet
      /\ sse_open => sse_socket # 0
      /\ sse_open /\ disc_pc # "marked" => ~NoGet
      /\ stopping /\ disc_pc # "marked" => ~sse_open
      /\ ~stopping /\ ~sse_open => NoGet
      /\ stopping /\ conn_pc # "idle" => NoGet
      /\ crashed => stopping
  BY <1>0 DEF SseInv
<1>1. CASE Attach
  <2>1. NoGet
    BY <1>0, <1>1 DEF Attach, Quiet, NoGet
  <2>2. QED
    BY <1>1, <1>a, <1>s, <2>1 DEF Attach, flags
<1>2. CASE Claim \/ Begin \/ DialFails \/ Dial \/ Arm
  <2>1. /\ UNCHANGED <<kind, sse, disc_pc>> /\ (stopping' => stopping)
        /\ conn_pc # "idle"
    <3>1. CASE Begin
      BY <3>1 DEF Begin
    <3>2. CASE Claim \/ DialFails \/ Dial \/ Arm
      <4>1. UNCHANGED <<kind, sse, disc_pc, stopping>> /\ conn_pc # "idle"
        BY <3>2 DEF Claim, DialFails, Dial, Arm, flags
      <4>2. QED
        BY <4>1
    <3>3. QED
      BY <1>2, <3>1, <3>2
  <2>2. ~crashed
    <3>1. ~UNCHANGED vars
      BY <1>2 DEF Claim, Begin, DialFails, Dial, Arm, vars, calls
    <3>2. QED
      BY <1>c, <3>1
  <2>3. QED
    BY <1>0, <1>a, <1>s, <2>1, <2>2
<1>3. CASE Mark
  <2>1. /\ UNCHANGED <<kind, sse, conn_pc>> /\ stopping' /\ conn_pc = "idle"
        /\ disc_pc' = "marked"
    BY <1>0, <1>3 DEF Mark
  <2>2. QED
    BY <1>a, <1>s, <2>1
<1>4. CASE Close
  <2>1. /\ kind' = kind /\ gets' = gets /\ crashed' = crashed /\ stopping' = stopping
        /\ sse_open' = FALSE /\ sse_socket' = 0 /\ conn_pc' = conn_pc
    BY <1>4 DEF Close, CloseSse, flags
  <2>2. stopping /\ conn_pc = "idle"
    BY <1>0, <1>4 DEF CallInv, Close
  <2>3. NoGet' <=> NoGet
    BY <2>1 DEF NoGet
  <2>4. QED
    BY <1>0, <1>a, <2>1, <2>2, <2>3 DEF SseInv
<1>5. CASE Forget
  <2>1. /\ kind' = kind /\ gets' = gets /\ crashed' = crashed /\ stopping' = stopping
        /\ sse_open' = sse_open /\ sse_socket' = sse_socket /\ conn_pc' = conn_pc
        /\ disc_pc = "closed" /\ disc_pc' = "idle"
    BY <1>5 DEF Forget, flags
  <2>2. NoGet' <=> NoGet
    BY <2>1 DEF NoGet
  <2>3. QED
    BY <1>0, <1>a, <2>1, <2>2 DEF SseInv
<1>6. CASE Server \/ RunFailed \/ RunNotify \/ RunClear \/ RunLine \/ UNCHANGED vars
  <2>1. UNCHANGED <<kind, sse, conn_pc, disc_pc, stopping>>
    BY <1>6 DEF Server, PeerSends, PeerLeaves, WriteFails, RunFailed, RunNotify, RunClear,
       RunLine, vars, flags, calls
  <2>2. QED
    BY <1>a, <1>s, <2>1
<1>7. CASE RunOversized \/ ArmOversized
  <2>1. UNCHANGED <<kind, sse, disc_pc>> /\ stopping' /\ kind # "http"
    BY <1>7 DEF RunOversized, ArmOversized, Drop, FullInv, calls
  <2>2. QED
    BY <1>a, <1>s, <2>1
<1>8. CASE RunResponse
  <2>1. /\ kind = "http" /\ UNCHANGED <<kind, calls, flags, crashed>>
        /\ \/ UNCHANGED <<sse_open, sse_socket, gets>>
           \/ MayGet /\ StartSseGet
    BY <1>8 DEF RunResponse
  <2>2. CASE UNCHANGED <<sse_open, sse_socket, gets>>
    <3>1. NoGet' <=> NoGet
      BY <2>2 DEF NoGet
    <3>2. QED
      BY <1>0, <2>1, <2>2, <3>1 DEF SseInv, calls, flags
  <2>3. CASE MayGet /\ StartSseGet
    <3>1. NoGet /\ ~stopping
      BY <1>a, <2>3 DEF MayGet
    <3>2. PICK g \in Gets : /\ gets' = [gets EXCEPT ![g] = "resolve"]
                            /\ sse_open' = TRUE /\ sse_socket' = g
      BY <2>3 DEF StartSseGet
    <3>3. \A h \in Gets : gets'[h] = IF h = g THEN "resolve" ELSE "none"
      BY <3>1, <3>2 DEF NoGet, TypeOK, SseOK
    <3>4. /\ \A h, i \in Gets : gets'[h] # "none" /\ gets'[i] # "none" => h = i
          /\ ~NoGet' /\ g # 0
      BY <3>2, <3>3 DEF NoGet, Gets
    <3>5. stopping' = stopping /\ kind' = kind /\ crashed' = crashed
      BY <2>1 DEF flags
    <3>6. QED
      BY <1>a, <2>1, <3>1, <3>2, <3>4, <3>5 DEF SseInv
  <2>4. QED
    BY <2>1, <2>2, <2>3
<1>9. ASSUME NEW g \in Gets, GetStep(g) PROVE SseInv'
  <2>1. UNCHANGED <<kind, flags, calls>> /\ gets[g] # "none"
    BY <1>9 DEF GetStep, GetProceeds, GetWritten, OnSseRead
  <2>2. /\ ~NoGet /\ kind = "http" /\ ~(stopping /\ conn_pc # "idle")
        /\ stopping \/ sse_open
    BY <1>a, <2>1 DEF NoGet
  <2>3. kind' = kind /\ stopping' = stopping /\ conn_pc' = conn_pc /\ disc_pc' = disc_pc
    BY <2>1 DEF flags, calls
  <2>4. ASSUME gets' = [gets EXCEPT ![g] = "none"], crashed' = crashed,
               /\ sse_open' => sse_open
               /\ sse_open' => sse_socket' # 0
               /\ sse_open' /\ disc_pc # "marked" => FALSE
        PROVE  SseInv'
    <3>1. /\ \A h, i \in Gets : gets'[h] # "none" /\ gets'[i] # "none" => h = i
          /\ NoGet'
      BY <1>0, <2>1, <2>4, GetMoves
    <3>2. QED
      BY <1>a, <2>2, <2>3, <2>4, <3>1 DEF SseInv
  <2>5. ASSUME NEW to, to # "none", gets' = [gets EXCEPT ![g] = to],
               sse_open' = sse_open, sse_socket' = sse_socket,
               crashed' => crashed \/ sse_socket = 0
        PROVE  SseInv'
    <3>1. /\ \A h, i \in Gets : gets'[h] # "none" /\ gets'[i] # "none" => h = i
          /\ ~NoGet'
      BY <1>0, <2>1, <2>5, GetMoves
    <3>2. QED
      BY <1>a, <2>2, <2>3, <2>5, <3>1 DEF SseInv
  <2>6. CASE GetProceeds(g, "resolve", "connect")
    BY <2>4, <2>5, <2>6 DEF GetProceeds, GetEnds
  <2>7. CASE GetProceeds(g, "connect", "write")
    BY <2>4, <2>5, <2>7 DEF GetProceeds, GetEnds
  <2>8. CASE GetWritten(g)
    BY <2>4, <2>5, <2>8 DEF GetWritten, GetEnds
  <2>9. CASE OnSseRead(g)
    BY <1>a, <2>4, <2>9 DEF OnSseRead, GetEnds
  <2>10. QED
    BY <1>9, <2>6, <2>7, <2>8, <2>9 DEF GetStep
<1>10. QED
  BY <1>1, <1>2, <1>3, <1>4, <1>5, <1>6, <1>7, <1>8, <1>9, NextGroups
     DEF Connect, Disconnect, Loop

-----------------------------------------------------------------------------
(* Results *)

\* Only a line transport gets full.
LEMMA FullStep ==
  ASSUME FullInv, [Next]_vars
  PROVE  FullInv'
<1>1. CASE RunOversized
  BY <1>1 DEF RunOversized, FullInv
<1>2. CASE UNCHANGED <<kind, full>>
  BY <1>2 DEF FullInv
<1>3. RunOversized \/ UNCHANGED <<kind, full>>
  BY NextGroups DEF Connect, Attach, Claim, Begin, DialFails, Dial, Arm, ArmOversized,
     Disconnect, Mark, Close, Forget, Server, PeerSends, PeerLeaves, WriteFails, Loop,
     RunFailed, RunNotify, RunClear, RunLine, RunResponse, GetStep, GetProceeds,
     GetWritten, OnSseRead, vars
<1>4. QED
  BY <1>1, <1>2, <1>3

\* The transport starts with nothing set, queued or under way.
LEMMA InitInv ==
  ASSUME Init
  PROVE  IInv
<1>1. TypeOK
  <2>1. FlagsOK
    BY DEF Init, FlagsOK
  <2>2. LinkOK
    BY ClientTransportAssumption DEF Init, LinkOK
  <2>3. CallsOK /\ SseOK
    BY ClientTransportAssumption DEF Init, CallsOK, SseOK
  <2>4. QED
    BY <2>1, <2>2, <2>3 DEF TypeOK
<1>2. \A P : Count(tasks, P) = 0
  BY CountEmpty DEF Init
<1>3. ReadInv /\ CallInv
  BY <1>2 DEF Init, ReadInv, CallInv
<1>4. ToldInv
  <2>1. reads + Count(tasks, Ends) = 0 /\ ~Reader /\ ~Writer
    BY <1>2 DEF Init, Reader, Writer
  <2>2. ASSUME NEW l \in Links PROVE Load(l) <= Cap /\ told[l] = 0
    <3>1. told[l] = 0 /\ Count(tasks, {<<"notify", l>>}) = 0
      BY <1>2 DEF Init
    <3>2. Load(l) = 0
      BY <2>1, <3>1 DEF Load
    <3>3. QED
      BY <3>1, <3>2 DEF Cap
  <2>3. QED
    BY <1>2, <2>2 DEF ToldInv
<1>5. SseInv
  BY DEF Init, SseInv, NoGet
<1>6. QED
  BY <1>1, <1>3, <1>4, <1>5 DEF IInv, FullInv, Init, CleanInv

\* Every step preserves the invariant.
LEMMA NextInv ==
  ASSUME IInv, [Next]_vars
  PROVE  IInv'
<1>1. TypeOK /\ TypeOK'
  BY TypeStep DEF IInv
<1>2. ASSUME ~overlap' PROVE CleanInv'
  <2>1. CleanInv
    BY <1>1, <1>2, OverlapStays DEF IInv
  <2>2. ReadInv' /\ CallInv' /\ ToldInv' /\ SseInv'
    BY <1>1, <1>2, <2>1, ReadStep, CallStep, ToldStep, SseStep DEF IInv
  <2>3. QED
    BY <2>2 DEF CleanInv
<1>3. QED
  BY <1>1, <1>2, FullStep DEF IInv

\* The invariant holds in every state of the transport.
THEOREM Invariance == Spec => []IInv
<1>1. Init => IInv
  BY InitInv
<1>2. IInv /\ [Next]_vars => IInv'
  BY NextInv
<1>3. QED
  BY <1>1, <1>2, PTL DEF Spec

\* What the count of completions says of the completions.
LEMMA CompletionsCounted ==
  ASSUME TypeOK, Count(tasks, Ends) <= 1
  PROVE  /\ Count(tasks, Ends) \in {0, 1}
         /\ Count(tasks, Ends) = 0 <=> Completions = {}
         /\ \A i, j \in Completions : i = j
<1>1. tasks \in Seq(AllTasks)
  BY TaskTypes
<1>2. \A i \in 1..Len(tasks) : tasks[i] \in Ends <=> tasks[i][1] \in {"line", "failed"}
  BY <1>1 DEF Ends
<1>3. Completions = {i \in 1..Len(tasks) : tasks[i] \in Ends}
  BY <1>2 DEF Completions
<1>4. /\ IsFiniteSet(Completions) /\ Count(tasks, Ends) \in Nat
      /\ Count(tasks, Ends) = Cardinality(Completions)
  BY <1>1, <1>3, CountNat DEF Count
<1>5. Count(tasks, Ends) = 0 <=> Completions = {}
  BY <1>4, FS_EmptySet
<1>6. ASSUME NEW i \in Completions, NEW j \in Completions, i # j PROVE FALSE
  <2>1. /\ IsFiniteSet(Completions \ {i})
        /\ Cardinality(Completions \ {i}) = Cardinality(Completions) - 1
    BY <1>4, FS_RemoveElement
  <2>2. Cardinality(Completions \ {i}) \in Nat
    BY <2>1, FS_CardinalityType
  <2>3. Cardinality(Completions \ {i}) = 0
    BY <1>4, <2>1, <2>2
  <2>4. Completions \ {i} = {}
    BY <2>1, <2>3, FS_EmptySet
  <2>5. QED
    BY <1>6, <2>4
<1>7. QED
  BY <1>4, <1>5, <1>6

\* For every number of links, tasks and GET streams: when a reconnect waits until
\* the loop is done with the link before, a transport that says it is connected is
\* open and heard and has exactly one read, pending or completed; the state is
\* well-formed whatever the application does.
THEOREM OneReader == Spec => []CleanLink
<1>1. IInv => CleanLink
  <2>1. SUFFICES ASSUME IInv PROVE CleanLink
    OBVIOUS
  <2>2. TypeOK
    BY <2>1 DEF IInv
  <2>3. ASSUME ~overlap
        PROVE  /\ connected /\ conn_pc = "idle" =>
                    open /\ handlers /\ (reads = 1 \/ Completions # {})
               /\ reads = 0 \/ (reads = 1 /\ Completions = {})
               /\ \A i, j \in Completions : i = j
    <3>1. ReadInv /\ CallInv
      BY <2>1, <2>3 DEF IInv, CleanInv
    <3>2. Count(tasks, Ends) \in Nat /\ reads \in Nat /\ reads + Count(tasks, Ends) <= 1
      BY <2>2, <3>1, Numbers DEF ReadInv
    <3>3. /\ Count(tasks, Ends) = 0 <=> Completions = {}
          /\ \A i, j \in Completions : i = j
      <4>1. Count(tasks, Ends) <= 1
        BY <3>2
      <4>2. QED
        BY <2>2, <4>1, CompletionsCounted
    <3>4. reads = 0 \/ (reads = 1 /\ Completions = {})
      BY <3>2, <3>3
    <3>5. ASSUME connected, conn_pc = "idle"
          PROVE  open /\ handlers /\ (reads = 1 \/ Completions # {})
      <4>1. open /\ handlers /\ reads + Count(tasks, Ends) = 1
        BY <3>1, <3>5 DEF ReadInv, CallInv
      <4>2. QED
        BY <3>2, <3>3, <4>1
    <3>6. QED
      BY <3>3, <3>4, <3>5
  <2>4. QED
    BY <2>2, <2>3 DEF CleanLink
<1>2. QED
  BY <1>1, Invariance, PTL

\* For every number of links, tasks and GET streams: when reconnects wait, the
\* disconnect handler runs at most once for a link (twice in the stdio transport,
\* which reports a failed write and a failed read each), however the failures, the
\* tasks that clear the handlers and later connections interleave.
THEOREM EndToldOnce == Spec => []ToldOnce
<1>1. IInv => ToldOnce
  <2>1. SUFFICES ASSUME IInv, ~overlap, NEW l \in Links
                 PROVE  told[l] <= IF kind = "stdio" THEN 2 ELSE 1
    BY DEF ToldOnce
  <2>2. TypeOK /\ Load(l) <= Cap
    BY <2>1 DEF IInv, CleanInv, ToldInv
  <2>3. told[l] \in Nat /\ Count(tasks, {<<"notify", l>>}) \in Nat
    BY <2>2, Numbers
  <2>4. QED
    BY <2>2, <2>3 DEF Load, Cap
<1>2. QED
  BY <1>1, Invariance, PTL

\* For every number of links, tasks and GET streams: when reconnects wait, there is
\* at most one GET stream, sse_open_ says so, and its socket is used after it is
\* gone only when disconnect() has begun.
THEOREM OneGetStream == Spec => []OneStream
<1>1. IInv => OneStream
  <2>1. SUFFICES ASSUME IInv, ~overlap
                 PROVE  /\ \A g, h \in Gets : gets[g] # "none" /\ gets[h] # "none" => g = h
                        /\ sse_open /\ disc_pc = "idle" => \E g \in Gets : gets[g] # "none"
                        /\ crashed => stopping
    BY DEF OneStream
  <2>2. SseInv
    BY <2>1 DEF IInv, CleanInv
  <2>3. QED
    BY <2>2 DEF SseInv, NoGet
<1>2. QED
  BY <1>1, Invariance, PTL

-----------------------------------------------------------------------------
(* Server-sent events: SseFraming, for any number of frames.                 *)

Da == Sse!Text("da")
Kind == frames[Sse!Current]
Lines == Seq(Sse!Texts \cup Sse!Halves)

\* A sequence of lines has the JSON of message n.
Holds(s, n) == s # <<>> /\ Sse!Payload(s[1]) = Sse!Json(n)

\* Message n was read and is not handed over yet.
OnWay(n) == Holds(data, n) \/ Holds(rest, n)

\* The line of the current message was read without an interruption, so far.
Unbroken == Len(line) = pos /\ \A i \in 1..pos : line[i] = Sse!Frame[i]

\* What is at hand, by the frame that is being read.
HeadInv ==
  Kind = "head" =>
    /\ line # <<>> => line[1] # Da /\ pos \in {1, 4}
    /\ pos >= 3 => data = <<>>
    /\ mode = "body" => pos = 6

EndpointInv ==
  Kind = "endpoint" =>
    /\ line \in Seq(Sse!Texts) /\ (line # <<>> => pos \in {1, 3, 4, 5})
    /\ Len(line) <= IF pos >= 3 THEN pos - 2 ELSE pos
    /\ data # <<>> => pos \in {5, 6} /\ line = <<>>

MessageInv ==
  Kind = "message" =>
    /\ pos <= 4 => \/ Sse!Current \in torn /\ pos >= 1
                        /\ (line # <<>> => line[1] # Da)
                   \/ Sse!Current \notin torn /\ Unbroken /\ data = <<>>
                   \/ pos = 4 /\ line = <<>> /\ mode = "get"
    /\ pos >= 5 => line = <<>>
    /\ pos = 6 => data = <<>>

\* handle_sse_frame is called between two lines, and sse_data_ is only of GETs.
RestInv ==
  /\ rest # <<>> => data = <<>> /\ line = <<>>
  /\ mode = "body" => data = <<>> /\ torn = {} /\ closed = 0

WayInv ==
  \A n \in 1..MaxFrames : OnWay(n) =>
    /\ n <= Sse!Current /\ frames[n] = "message" /\ n \notin torn
    /\ \A i \in 1..Len(out) : out[i] < n
    /\ n = Sse!Current => pos >= 4 /\ line = <<>> /\ (rest # <<>> => pos >= 5)
    /\ n < Sse!Current => Kind = "head"

OutInv ==
  /\ \A i, j \in 1..Len(out) : i < j => out[i] < out[j]
  /\ \A i \in 1..Len(out) : frames[out[i]] = "message" /\ out[i] \notin torn
  /\ \A i \in 1..Len(out) : out[i] = Sse!Current => pos >= 5

OwedInv ==
  \A n \in (closed + 1)..Sse!Current : frames[n] = "message" /\ n \notin torn =>
    \/ \E i \in 1..Len(out) : out[i] = n
    \/ OnWay(n)
    \/ n = Sse!Current /\ pos <= 4 /\ Unbroken

StreamInv ==
  /\ Sse!TypeOK /\ HeadInv /\ EndpointInv /\ MessageInv /\ RestInv
  /\ WayInv /\ OutInv /\ OwedInv

\* The pieces of an answer's headers and its first comment.
LEMMA HeadPieces ==
  ASSUME NEW n
  PROVE  /\ Len(Sse!Pieces("head", n)) = 6
         /\ \A i \in 1..6 : /\ Sse!Pieces("head", n)[i] = Sse!NL <=>
                                 i \in {2, 3, 5, 6}
                            /\ i \in {1, 4} =>
                                 /\ Sse!Pieces("head", n)[i] \in Sse!Texts
                                               /\ Sse!Pieces("head", n)[i] # Da
<1> DEFINE P == Sse!Pieces("head", n)
<1>1. P = <<Sse!Text("header"), Sse!NL, Sse!NL, Sse!Text("comment"), Sse!NL, Sse!NL>>
  BY DEF Sse!Pieces, Sse!Opening
<1> HIDE DEF P
<1>2. Len(P) = 6 /\ P[1] = Sse!Text("header") /\ P[2] = Sse!NL /\ P[3] = Sse!NL
      /\ P[4] = Sse!Text("comment") /\ P[5] = Sse!NL /\ P[6] = Sse!NL
  BY <1>1
<1>3. /\ Sse!Text("header") # Sse!NL /\ Sse!Text("comment") # Sse!NL
      /\ Sse!Text("header") # Da /\ Sse!Text("comment") # Da
  BY DEF Sse!Text, Sse!NL, Da
<1>4. Sse!Text("header") \in Sse!Texts /\ Sse!Text("comment") \in Sse!Texts
  BY DEF Sse!Texts
<1>5. \A i \in 1..6 : i = 1 \/ i = 2 \/ i = 3 \/ i = 4 \/ i = 5 \/ i = 6
  OBVIOUS
<1>6. QED
  BY <1>2, <1>3, <1>4, <1>5 DEF P

\* The pieces of an endpoint event.
LEMMA EndpointPieces ==
  ASSUME NEW n
  PROVE  /\ Len(Sse!Pieces("endpoint", n)) = 7
         /\ \A i \in 1..7 : /\ Sse!Pieces("endpoint", n)[i] = Sse!NL <=>
                                 i \in {2, 6, 7}
                            /\ i \in {1, 3, 4, 5} =>
                                 Sse!Pieces("endpoint", n)[i] \in Sse!Texts
<1> DEFINE P == Sse!Pieces("endpoint", n)
<1>1. P = <<Sse!Text("event:"), Sse!NL, Sse!Text("da"), Sse!Text("ta:"),
            Sse!Text("path"), Sse!NL, Sse!NL>>
  BY DEF Sse!Pieces, Sse!Endpoint
<1> HIDE DEF P
<1>2. Len(P) = 7 /\ P[1] = Sse!Text("event:") /\ P[2] = Sse!NL
      /\ P[3] = Sse!Text("da")
      /\ P[4] = Sse!Text("ta:") /\ P[5] = Sse!Text("path") /\ P[6] = Sse!NL
      /\ P[7] = Sse!NL
  BY <1>1
<1>3. /\ Sse!Text("event:") # Sse!NL /\ Sse!Text("da") # Sse!NL
      /\ Sse!Text("ta:") # Sse!NL /\ Sse!Text("path") # Sse!NL
  BY DEF Sse!Text, Sse!NL
<1>4. /\ Sse!Text("event:") \in Sse!Texts /\ Sse!Text("da") \in Sse!Texts
      /\ Sse!Text("ta:") \in Sse!Texts /\ Sse!Text("path") \in Sse!Texts
  BY DEF Sse!Texts
<1>5. \A i \in 1..7 : i = 1 \/ i = 2 \/ i = 3 \/ i = 4 \/ i = 5 \/ i = 6 \/ i = 7
  OBVIOUS
<1>6. QED
  BY <1>2, <1>3, <1>4, <1>5 DEF P

\* The pieces of a message's event.
LEMMA MessagePieces ==
  ASSUME NEW n \in 1..MaxFrames
  PROVE  /\ Len(Sse!Pieces("message", n)) = 6
         /\ \A i \in 1..6 : /\ Sse!Pieces("message", n)[i] = Sse!NL <=> i \in {5, 6}
                            /\ i \in 1..4 =>
                                 Sse!Pieces("message", n)[i] \in Sse!Texts \cup Sse!Halves
                            /\ i \in 2..4 => Sse!Pieces("message", n)[i] # Da
         /\ Sse!Pieces("message", n)[1] = Da
         /\ Sse!Pieces("message", n)[2] = Sse!Text("ta:")
         /\ Sse!Pieces("message", n)[3] = <<"j1", n>>
         /\ Sse!Pieces("message", n)[4] = <<"j2", n>>
<1> DEFINE P == Sse!Pieces("message", n)
<1>1. P = <<Sse!Text("da"), Sse!Text("ta:"), <<"j1", n>>, <<"j2", n>>, Sse!NL, Sse!NL>>
  BY DEF Sse!Pieces, Sse!Message
<1> HIDE DEF P
<1>2. Len(P) = 6 /\ P[1] = Sse!Text("da") /\ P[2] = Sse!Text("ta:")
      /\ P[3] = <<"j1", n>>
      /\ P[4] = <<"j2", n>> /\ P[5] = Sse!NL /\ P[6] = Sse!NL
  BY <1>1
<1>3. /\ Sse!Text("da") # Sse!NL /\ Sse!Text("ta:") # Sse!NL
      /\ <<"j1", n>> # Sse!NL /\ <<"j2", n>> # Sse!NL
      /\ Sse!Text("ta:") # Da /\ <<"j1", n>> # Da /\ <<"j2", n>> # Da
  BY DEF Sse!Text, Sse!NL, Da
<1>4. /\ Sse!Text("da") \in Sse!Texts /\ Sse!Text("ta:") \in Sse!Texts
      /\ <<"j1", n>> \in Sse!Halves /\ <<"j2", n>> \in Sse!Halves
  BY DEF Sse!Texts, Sse!Halves
<1>5. \A i \in 1..6 : i = 1 \/ i = 2 \/ i = 3 \/ i = 4 \/ i = 5 \/ i = 6
  OBVIOUS
<1>6. QED
  BY <1>2, <1>3, <1>4, <1>5 DEF P, Da

\* No text is a part of a message's JSON, and JSON tells of its message.
LEMMA JsonFacts ==
  ASSUME NEW n \in 1..MaxFrames
  PROVE  /\ Len(Sse!Json(n)) = 2 /\ Sse!Json(n)[1] \notin Sse!Texts
         /\ Sse!Json(n) # <<>>
         /\ Sse!Json(n)[1] = <<"j1", n>> /\ Sse!Json(n)[2] = <<"j2", n>>
         /\ \A m \in 1..MaxFrames : Sse!Json(m) = Sse!Json(n) => m = n
<1>1. Sse!Json(n) = <<<<"j1", n>>, <<"j2", n>>>>
  BY DEF Sse!Json
<1>2. Len(Sse!Json(n)) = 2 /\ Sse!Json(n)[1] = <<"j1", n>>
      /\ Sse!Json(n)[2] = <<"j2", n>>
  BY <1>1
<1>3. <<"j1", n>> \notin Sse!Texts
  BY DEF Sse!Texts, Sse!Text
<1>4. ASSUME NEW m \in 1..MaxFrames, Sse!Json(m) = Sse!Json(n) PROVE m = n
  <2>1. <<"j1", m>> = <<"j1", n>>
    BY <1>4 DEF Sse!Json
  <2>2. QED
    BY <2>1
<1>5. QED
  BY <1>2, <1>3, <1>4

\* A line that does not begin with "data:".
LEMMA OtherLine ==
  ASSUME NEW l \in Lines, l = <<>> \/ l[1] # Da \/ Len(l) < 2
  PROVE  ~Sse!IsData(l) /\ Sse!Payload(l) = l
BY DEF Sse!IsData, Sse!Payload, Da, Lines

\* The payload of a line.
LEMMA DataLine ==
  ASSUME NEW l \in Lines, Sse!IsData(l)
  PROVE  /\ Sse!Payload(l) \in Lines /\ Len(Sse!Payload(l)) = Len(l) - 2
         /\ \A i \in 1..(Len(l) - 2) : Sse!Payload(l)[i] = l[i + 2]
<1>1. /\ Sse!Payload(l) = [i \in 1..(Len(l) - 2) |-> l[i + 2]]
      /\ Len(l) - 2 \in Nat
  BY DEF Sse!Payload, Sse!IsData, Lines
<1>2. \A i \in 1..(Len(l) - 2) : l[i + 2] \in Sse!Texts \cup Sse!Halves
  BY <1>1 DEF Lines
<1>3. QED
  BY <1>1, <1>2 DEF Lines

\* A payload is a sequence of pieces.
LEMMA PayloadType ==
  ASSUME NEW l \in Lines
  PROVE  Sse!Payload(l) \in Lines
BY DataLine DEF Sse!Payload

\* A line of texts carries no message.
LEMMA TextLine ==
  ASSUME NEW l \in Lines, l \in Seq(Sse!Texts), NEW n \in 1..MaxFrames
  PROVE  Sse!Payload(l) # Sse!Json(n)
<1>1. SUFFICES ASSUME Sse!Payload(l) = Sse!Json(n) PROVE FALSE
  OBVIOUS
<1>2. Len(Sse!Payload(l)) = 2 /\ Sse!Payload(l)[1] \notin Sse!Texts
  BY <1>1, JsonFacts
<1>3. CASE Sse!IsData(l)
  <2>1. Len(l) = 4 /\ Sse!Payload(l)[1] = l[3]
    BY <1>2, <1>3, DataLine DEF Lines
  <2>2. l[3] \in Sse!Texts
    BY <2>1
  <2>3. QED
    BY <1>2, <2>1, <2>2
<1>4. CASE ~Sse!IsData(l)
  <2>1. Sse!Payload(l) = l
    BY <1>4 DEF Sse!Payload
  <2>2. Len(l) = 2 /\ l[1] \notin Sse!Texts
    BY <1>2, <2>1
  <2>3. l[1] \in Sse!Texts
    BY <2>2
  <2>4. QED
    BY <2>2, <2>3
<1>5. QED
  BY <1>3, <1>4

\* The line of a message, read up to a piece of its JSON, or as a whole.
LEMMA MessageLine ==
  ASSUME NEW n \in 1..MaxFrames, NEW k \in 0..4, NEW l \in Lines, Len(l) = k,
         \A i \in 1..k : l[i] = Sse!Pieces("message", n)[i]
  PROVE  /\ Sse!IsData(l) <=> k >= 2
         /\ k = 4 => Sse!Payload(l) = Sse!Json(n)
         /\ k < 4 => \A m \in 1..MaxFrames : Sse!Payload(l) # Sse!Json(m)
         /\ k = 2 => Sse!Payload(l) = <<>>
         /\ k = 3 => Sse!Payload(l) # <<>>
<1>1. Sse!IsData(l) <=> k >= 2
  BY MessagePieces DEF Sse!IsData, Da
<1>2. ASSUME k = 4 PROVE Sse!Payload(l) = Sse!Json(n)
  <2>1. /\ Sse!Payload(l) \in Lines /\ Len(Sse!Payload(l)) = 2
        /\ Sse!Payload(l)[1] = l[3] /\ Sse!Payload(l)[2] = l[4]
    <3>1. Sse!IsData(l) /\ 1 \in 1..(Len(l) - 2) /\ 2 \in 1..(Len(l) - 2)
      BY <1>1, <1>2
    <3>2. QED
      <4>1. \A i \in 1..(Len(l) - 2) : Sse!Payload(l)[i] = l[i + 2]
        BY <3>1, DataLine
      <4>2. Sse!Payload(l)[1] = l[1 + 2] /\ Sse!Payload(l)[2] = l[2 + 2]
        BY <3>1, <4>1
      <4>3. Sse!Payload(l) \in Lines /\ Len(Sse!Payload(l)) = 2
        <5>1. Sse!Payload(l) \in Lines /\ Len(Sse!Payload(l)) = Len(l) - 2
          BY <3>1, DataLine
        <5>2. QED
          BY <1>2, <5>1
      <4>4. QED
        BY <4>2, <4>3
  <2>2. l[3] = <<"j1", n>> /\ l[4] = <<"j2", n>>
    BY <1>2, MessagePieces
  <2>3. Sse!Payload(l) = <<<<"j1", n>>, <<"j2", n>>>>
    BY <2>1, <2>2 DEF Lines
  <2>4. QED
    BY <2>3 DEF Sse!Json
<1>3. ASSUME k < 4, NEW m \in 1..MaxFrames PROVE Sse!Payload(l) # Sse!Json(m)
  <2>1. CASE k >= 2
    BY <1>1, <1>3, <2>1, DataLine, JsonFacts
  <2>2. CASE k < 2
    <3>1. Sse!Payload(l) = l
      BY <1>1, <2>2 DEF Sse!Payload
    <3>2. QED
      BY <2>2, <3>1, JsonFacts
  <2>3. QED
    BY <2>1, <2>2
<1>4. k \in {2, 3} => Sse!Payload(l) \in Lines /\ Len(Sse!Payload(l)) = k - 2
  BY <1>1, DataLine
<1>5. k = 2 => Sse!Payload(l) = <<>>
  BY <1>4 DEF Lines
<1>6. k = 3 => Sse!Payload(l) # <<>>
  <2>1. SUFFICES ASSUME k = 3 PROVE Sse!Payload(l) # <<>>
    OBVIOUS
  <2>2. k \in {2, 3} /\ k - 2 = 1
    BY <2>1
  <2>3. Len(Sse!Payload(l)) = 1
    BY <1>4, <2>2
  <2>4. Len(<<>>) = 0
    OBVIOUS
  <2>5. QED
    BY <2>3, <2>4
<1>7. QED
  BY <1>1, <1>2, <1>3, <1>5, <1>6

\* What the type invariant says of the current frame.
LEMMA FrameFacts ==
  ASSUME Sse!FramingAssumption,
         Sse!TypeOK
  PROVE  /\ Sse!Current \in 1..MaxFrames /\ Sse!Current \in Nat
         /\ MaxFrames \in Nat /\ pos \in Nat
         /\ Kind \in {"head", "endpoint", "message"}
         /\ Sse!Frame = Sse!Pieces(Kind, Sse!Current)
         /\ Len(Sse!Frame) = (IF Kind = "endpoint" THEN 7 ELSE 6)
         /\ pos <= Len(Sse!Frame)
         /\ \A i \in 1..Len(Sse!Frame) : Sse!Frame[i] # Sse!NL =>
              Sse!Frame[i] \in Sse!Texts \cup Sse!Halves
         /\ Kind = "head" =>
              \A i \in 1..6 : /\ Sse!Frame[i] = Sse!NL <=> i \in {2, 3, 5, 6}
                              /\ i \in {1, 4} => Sse!Frame[i] # Da
         /\ Kind = "endpoint" =>
              \A i \in 1..7 : /\ Sse!Frame[i] = Sse!NL <=> i \in {2, 6, 7}
                              /\ i \in {1, 3, 4, 5} => Sse!Frame[i] \in Sse!Texts
         /\ Kind = "message" =>
              \A i \in 1..6 : /\ Sse!Frame[i] = Sse!NL <=> i \in {5, 6}
                              /\ i \in 2..4 => Sse!Frame[i] # Da
         /\ line \in Lines /\ data \in Seq(Lines) /\ rest \in Seq(Lines)
<1>1. /\ Sse!Current \in 1..MaxFrames /\ Sse!Current \in Nat /\ MaxFrames \in Nat
      /\ Kind \in {"head", "endpoint", "message"}
  <2>1. Sse!Current \in 1..MaxFrames /\ MaxFrames \in Nat
    BY DEF Sse!FramingAssumption, Sse!TypeOK
  <2>2. Sse!Current \in 1..Len(frames)
        /\ frames \in Seq({"head", "endpoint", "message"})
    BY <2>1 DEF Sse!TypeOK, Sse!Current
  <2>3. QED
    BY <2>1, <2>2 DEF Kind
<1>2. Sse!Frame = Sse!Pieces(Kind, Sse!Current)
  BY DEF Sse!Frame, Kind
<1>3. /\ pos \in 0..Len(Sse!Frame)
      /\ line \in Lines /\ data \in Seq(Lines) /\ rest \in Seq(Lines)
  BY DEF Sse!TypeOK, Lines
<1>4. CASE Kind = "head"
  <2>1. /\ Len(Sse!Frame) = 6
        /\ \A i \in 1..6 : /\ Sse!Frame[i] = Sse!NL <=> i \in {2, 3, 5, 6}
                           /\ i \in {1, 4} => Sse!Frame[i] \in Sse!Texts
                           /\ i \in {1, 4} => Sse!Frame[i] # Da
    BY <1>2, <1>4, HeadPieces
  <2>2. \A i \in 1..6 : i \in {2, 3, 5, 6} \/ i \in {1, 4}
    OBVIOUS
  <2>3. pos \in Nat /\ pos <= 6
    BY <1>3, <2>1
  <2>4. QED
    BY <1>1, <1>2, <1>3, <1>4, <2>1, <2>2, <2>3
<1>5. CASE Kind = "endpoint"
  <2>1. /\ Len(Sse!Frame) = 7
        /\ \A i \in 1..7 : /\ Sse!Frame[i] = Sse!NL <=> i \in {2, 6, 7}
                           /\ i \in {1, 3, 4, 5} => Sse!Frame[i] \in Sse!Texts
    BY <1>2, <1>5, EndpointPieces
  <2>2. \A i \in 1..7 : i \in {2, 6, 7} \/ i \in {1, 3, 4, 5}
    OBVIOUS
  <2>3. pos \in Nat /\ pos <= 7
    BY <1>3, <2>1
  <2>4. QED
    BY <1>1, <1>2, <1>3, <1>5, <2>1, <2>2, <2>3
<1>6. CASE Kind = "message"
  <2>1. /\ Len(Sse!Frame) = 6
        /\ \A i \in 1..6 : /\ Sse!Frame[i] = Sse!NL <=> i \in {5, 6}
                           /\ i \in 1..4 => Sse!Frame[i] \in Sse!Texts \cup Sse!Halves
                           /\ i \in 2..4 => Sse!Frame[i] # Da
    BY <1>1, <1>2, <1>6, MessagePieces
  <2>2. \A i \in 1..6 : i \in {5, 6} \/ i \in 1..4
    OBVIOUS
  <2>3. pos \in Nat /\ pos <= 6
    BY <1>3, <2>1
  <2>4. QED
    BY <1>1, <1>2, <1>3, <1>6, <2>1, <2>2, <2>3
<1>7. QED
  BY <1>1, <1>4, <1>5, <1>6

\* A new frame leaves the numbers of the others.
LEMMA NewFrame ==
  ASSUME Sse!FramingAssumption,
         Sse!TypeOK, Sse!Current < MaxFrames,
              NEW what \in {"head", "endpoint", "message"},
         frames' = Append(frames, what)
  PROVE  /\ Sse!Current' = Sse!Current + 1 /\ Kind' = what
         /\ frames' \in Seq({"head", "endpoint", "message"})
         /\ Sse!Current' \in 1..MaxFrames
         /\ \A n \in 1..Sse!Current : frames'[n] = frames[n]
         /\ Sse!Frame' = Sse!Pieces(what, Sse!Current + 1)
         /\ Len(Sse!Frame') \in Nat
<1>1. frames \in Seq({"head", "endpoint", "message"}) /\ Sse!Current = Len(frames)
  BY DEF Sse!TypeOK, Sse!Current
<1>2. Sse!Current \in Nat /\ Sse!Current \in 1..MaxFrames /\ MaxFrames \in Nat
  BY FrameFacts
<1>3. /\ frames' \in Seq({"head", "endpoint", "message"})
      /\ Len(frames') = Len(frames) + 1 /\ frames'[Len(frames) + 1] = what
      /\ \A n \in 1..Len(frames) : frames'[n] = frames[n]
  BY <1>1
<1>4. Sse!Current' = Sse!Current + 1 /\ Kind' = what
      /\ Sse!Frame' = Sse!Pieces(what, Sse!Current + 1)
  BY <1>1, <1>3 DEF Sse!Current, Kind, Sse!Frame
<1>5. Sse!Current + 1 \in 1..MaxFrames
  BY <1>2
<1>6. Len(Sse!Pieces(what, Sse!Current + 1)) \in Nat
  BY <1>5, HeadPieces, EndpointPieces, MessagePieces
<1>7. QED
  BY <1>1, <1>3, <1>4, <1>5, <1>6

\* A client that has just opened its stream, or got an answer's headers.
LEMMA SseInitInv ==
  ASSUME Sse!FramingAssumption
  PROVE  Sse!Init => StreamInv
<1>1. SUFFICES ASSUME Sse!Init PROVE StreamInv
  OBVIOUS
<1>2. /\ frames = <<"head">> /\ Sse!Current = 1 /\ Kind = "head"
      /\ Sse!Frame = Sse!Pieces("head", 1)
  BY <1>1 DEF Sse!Init, Sse!Current, Kind, Sse!Frame
<1>3. Len(Sse!Frame) = 6
  BY <1>2, HeadPieces
<1>4. Sse!TypeOK
  <2>1. 1 \in 1..MaxFrames
    BY DEF Sse!FramingAssumption
  <2>2. QED
    <3>1. /\ mode \in {"get", "body"} /\ pos \in {0, 6} /\ line = <<>> /\ data = <<>>
          /\ rest = <<>> /\ out = <<>> /\ torn = {} /\ closed = 0
      BY <1>1 DEF Sse!Init
    <3>2. pos \in 0..Len(Sse!Frame)
      BY <1>3, <3>1
    <3>3. frames \in Seq({"head", "endpoint", "message"})
      BY <1>2
    <3>4. /\ line \in Seq(Sse!Texts \cup Sse!Halves)
          /\ data \in Seq(Seq(Sse!Texts \cup Sse!Halves)) /\ Len(data) <= 1
          /\ rest \in Seq(Seq(Sse!Texts \cup Sse!Halves)) /\ Len(rest) <= 1
          /\ out \in Seq(1..Sse!Current)
      BY <3>1
    <3>5. torn \in SUBSET (1..Sse!Current) /\ closed \in 0..Sse!Current
      BY <1>2, <3>1
    <3>6. QED
      BY <1>2, <2>1, <3>1, <3>2, <3>3, <3>4, <3>5 DEF Sse!TypeOK
<1>5. HeadInv /\ EndpointInv /\ MessageInv /\ RestInv
  BY <1>1, <1>2 DEF Sse!Init, HeadInv, EndpointInv, MessageInv, RestInv
<1>6. WayInv /\ OutInv
  BY <1>1 DEF Sse!Init, WayInv, OutInv, OnWay, Holds
<1>7. OwedInv
  <2>1. \A n \in 1..1 : frames[n] # "message"
    BY <1>2
  <2>2. QED
    BY <1>1, <1>2, <2>1 DEF Sse!Init, OwedInv
<1>8. QED
  BY <1>4, <1>5, <1>6, <1>7 DEF StreamInv

\* At the end of a frame nothing is left over.
LEMMA FrameEnds ==
  ASSUME Sse!FramingAssumption,
         StreamInv, pos = Len(Sse!Frame)
  PROVE  line = <<>> /\ data = <<>>
<1>1. Sse!TypeOK /\ HeadInv /\ EndpointInv /\ MessageInv
  BY DEF StreamInv
<1>2. /\ Kind \in {"head", "endpoint", "message"}
      /\ pos = IF Kind = "endpoint" THEN 7 ELSE 6
  BY <1>1, FrameFacts
<1>3. CASE Kind = "head"
  <2>1. pos >= 3 /\ pos \notin {1, 4}
    BY <1>2, <1>3
  <2>2. QED
    BY <1>1, <1>3, <2>1 DEF HeadInv
<1>4. CASE Kind = "endpoint"
  <2>1. pos \notin {1, 3, 4, 5} /\ pos \notin {5, 6}
    BY <1>2, <1>4
  <2>2. QED
    BY <1>1, <1>4, <2>1 DEF EndpointInv
<1>5. CASE Kind = "message"
  <2>1. pos >= 5 /\ pos = 6
    BY <1>2, <1>5
  <2>2. QED
    BY <1>1, <1>5, <2>1 DEF MessageInv
<1>6. QED
  BY <1>2, <1>3, <1>4, <1>5

\* Another frame of the server keeps the invariant.
LEMMA WriteInv ==
  ASSUME Sse!FramingAssumption,
         StreamInv, NEW what \in {"endpoint", "message"}, Sse!Write(what)
  PROVE  StreamInv'
<1>1. /\ Sse!TypeOK /\ pos = Len(Sse!Frame) /\ rest = <<>> /\ Sse!Current < MaxFrames
      /\ frames' = Append(frames, what) /\ pos' = 0
      /\ UNCHANGED <<mode, line, data, rest, out, torn, closed>>
  BY DEF Sse!Write, StreamInv
<1>2. /\ Sse!Current' = Sse!Current + 1 /\ Kind' = what
      /\ Sse!Current' \in 1..MaxFrames
      /\ frames' \in Seq({"head", "endpoint", "message"})
      /\ \A n \in 1..Sse!Current : frames'[n] = frames[n]
      /\ Sse!Frame' = Sse!Pieces(what, Sse!Current + 1) /\ Len(Sse!Frame') \in Nat
  BY <1>1, NewFrame
<1>3. line = <<>> /\ data = <<>>
  BY <1>1, FrameEnds
<1>4. Sse!Current \in Nat /\ Len(Sse!Frame) \in {6, 7}
  BY <1>1, FrameFacts
<1>5. Sse!TypeOK'
  <2>1. out \in Seq(1..(Sse!Current + 1)) /\ torn \in SUBSET (1..(Sse!Current + 1))
        /\ closed \in 0..(Sse!Current + 1)
    <3>1. 1..Sse!Current \subseteq 1..(Sse!Current + 1)
          /\ 0..Sse!Current \subseteq 0..(Sse!Current + 1)
      BY <1>4
    <3>2. QED
      BY <1>1, <3>1 DEF Sse!TypeOK
  <2>2. pos' \in 0..Len(Sse!Frame')
    BY <1>1, <1>2
  <2>3. QED
    BY <1>1, <1>2, <2>1, <2>2 DEF Sse!TypeOK
<1>6. HeadInv' /\ EndpointInv' /\ RestInv'
  BY <1>1, <1>2, <1>3 DEF StreamInv, HeadInv, EndpointInv, RestInv
<1>7. MessageInv'
  <2>1. Sse!Current + 1 \notin torn
    BY <1>1, <1>4 DEF Sse!TypeOK
  <2>2. Unbroken'
    BY <1>1, <1>3 DEF Unbroken
  <2>3. QED
    BY <1>1, <1>2, <1>3, <2>1, <2>2 DEF MessageInv
<1>8. WayInv'
  BY <1>1, <1>3 DEF WayInv, OnWay, Holds
<1>9. OutInv'
  <2>1. \A i \in 1..Len(out) : out[i] \in 1..Sse!Current
    BY <1>1 DEF Sse!TypeOK
  <2>2. \A i \in 1..Len(out) : frames'[out[i]] = frames[out[i]]
        /\ out[i] # Sse!Current'
    BY <1>2, <1>4, <2>1
  <2>3. QED
    BY <1>1, <2>2 DEF StreamInv, OutInv
<1>10. OwedInv'
  <2>1. SUFFICES ASSUME NEW n \in (closed' + 1)..Sse!Current', frames'[n] = "message",
                        n \notin torn'
                 PROVE  \/ \E i \in 1..Len(out') : out'[i] = n
                        \/ n = Sse!Current' /\ pos' <= 4 /\ Unbroken'
    BY DEF OwedInv
  <2>2. CASE n = Sse!Current + 1
    BY <1>1, <1>2, <1>3, <2>2 DEF Unbroken
  <2>3. CASE n # Sse!Current + 1
    <3>1. n \in (closed + 1)..Sse!Current /\ n \in 1..Sse!Current
      BY <1>1, <1>2, <1>4, <2>3 DEF Sse!TypeOK
    <3>2. frames[n] = "message"
      BY <1>2, <2>1, <3>1
    <3>3. ~OnWay(n) /\ ~(pos <= 4)
      <4>1. ~OnWay(n)
        BY <1>1, <1>3 DEF OnWay, Holds
      <4>2. pos = 6 \/ pos = 7
        BY <1>1, <1>4
      <4>3. QED
        BY <4>1, <4>2
    <3>4. \E i \in 1..Len(out) : out[i] = n
      BY <1>1, <2>1, <3>1, <3>2, <3>3 DEF StreamInv, OwedInv
    <3>5. QED
      BY <1>1, <3>4
  <2>4. QED
    BY <2>2, <2>3
<1>11. QED
  BY <1>5, <1>6, <1>7, <1>8, <1>9, <1>10 DEF StreamInv

\* What a new stream finds when the last one died or was closed between two reads.
LEMMA ReopenFacts ==
  ASSUME Sse!FramingAssumption,
         StreamInv, Sse!Reopen
  PROVE  /\ mode = "get" /\ rest = <<>> /\ line = <<>> /\ Sse!Current < MaxFrames
         /\ pos' = 0 /\ UNCHANGED <<mode, line, rest, out>>
         /\ Sse!Current' = Sse!Current + 1 /\ Kind' = "head"
         /\ Sse!Current' \in 1..MaxFrames
         /\ \A n \in 1..Sse!Current : frames'[n] = frames[n]
         /\ Sse!Current \in Nat /\ closed \in Nat /\ pos \in Nat
         /\ \A i \in 1..Len(out) : /\ out[i] \in 1..Sse!Current
                                   /\ frames'[out[i]] = frames[out[i]]
         /\ data' = data \/ data' = <<>> =>
              (torn' \in SUBSET (1..Sse!Current) /\ closed' \in 0..Sse!Current => Sse!TypeOK')
<1>1. /\ Sse!TypeOK /\ mode = "get" /\ rest = <<>> /\ line = <<>>
      /\ Sse!Current < MaxFrames
      /\ frames' = Append(frames, "head") /\ pos' = 0
      /\ UNCHANGED <<mode, line, rest, out>>
  BY DEF Sse!Reopen, StreamInv
<1>2. /\ Sse!Current' = Sse!Current + 1 /\ Kind' = "head"
      /\ Sse!Current' \in 1..MaxFrames
      /\ frames' \in Seq({"head", "endpoint", "message"})
      /\ \A n \in 1..Sse!Current : frames'[n] = frames[n]
      /\ Len(Sse!Frame') \in Nat
  BY <1>1, NewFrame
<1>3. Sse!Current \in Nat /\ pos \in Nat /\ closed \in Nat
  BY <1>1, FrameFacts DEF Sse!TypeOK
<1>4. \A i \in 1..Len(out) : out[i] \in 1..Sse!Current
      /\ frames'[out[i]] = frames[out[i]]
  <2>1. \A i \in 1..Len(out) : out[i] \in 1..Sse!Current
    BY <1>1 DEF Sse!TypeOK
  <2>2. QED
    BY <1>2, <2>1
<1>5. ASSUME data' = data \/ data' = <<>>,
             torn' \in SUBSET (1..Sse!Current), closed' \in 0..Sse!Current
      PROVE  Sse!TypeOK'
  <2>1. 1..Sse!Current \subseteq 1..Sse!Current'
        /\ 0..Sse!Current \subseteq 0..Sse!Current'
    BY <1>2, <1>3
  <2>2. out' \in Seq(1..Sse!Current') /\ torn' \in SUBSET (1..Sse!Current')
        /\ closed' \in 0..Sse!Current'
    <3>1. out' = out /\ out \in Seq(1..Sse!Current)
      BY <1>1 DEF Sse!TypeOK
    <3>2. out \in Seq(1..(Sse!Current + 1))
      BY <1>3, <3>1
    <3>3. QED
      BY <1>2, <1>5, <2>1, <3>1, <3>2
  <2>3. pos' \in 0..Len(Sse!Frame')
    BY <1>1, <1>2
  <2>4. data' \in Seq(Seq(Sse!Texts \cup Sse!Halves)) /\ Len(data') <= 1
    BY <1>1, <1>5 DEF Sse!TypeOK
  <2>5. QED
    BY <1>1, <1>2, <2>2, <2>3, <2>4 DEF Sse!TypeOK
<1>6. QED
  BY <1>1, <1>2, <1>3, <1>4, <1>5

\* A failed read of the GET stream keeps the invariant: what sse_data_ has stays.
LEMMA StreamDiesInv ==
  ASSUME Sse!FramingAssumption,
         StreamInv, Sse!StreamDies
  PROVE  StreamInv'
<1>1. /\ Sse!Reopen /\ UNCHANGED <<data, closed>>
      /\ torn' = torn \cup {n \in {Sse!Current} : frames[n] = "message" /\ pos < 4}
  BY DEF Sse!StreamDies
<1>2. /\ mode = "get" /\ rest = <<>> /\ line = <<>>
      /\ pos' = 0 /\ UNCHANGED <<mode, line, rest, out>>
      /\ Sse!Current' = Sse!Current + 1 /\ Kind' = "head"
      /\ Sse!Current' \in 1..MaxFrames
      /\ \A n \in 1..Sse!Current : frames'[n] = frames[n]
      /\ Sse!Current \in Nat /\ closed \in Nat /\ pos \in Nat
      /\ \A i \in 1..Len(out) : out[i] \in 1..Sse!Current
           /\ frames'[out[i]] = frames[out[i]]
  BY <1>1, ReopenFacts
<1>3. Sse!TypeOK'
  <2>1. torn \in SUBSET (1..Sse!Current) /\ closed \in 0..Sse!Current
        /\ Sse!Current \in 1..Sse!Current
    BY FrameFacts DEF StreamInv, Sse!TypeOK
  <2>2. QED
    BY <1>1, <2>1, ReopenFacts
<1>4. HeadInv' /\ EndpointInv' /\ MessageInv' /\ RestInv'
  BY <1>1, <1>2 DEF HeadInv, EndpointInv, MessageInv, RestInv
<1>5. WayInv'
  <2>1. SUFFICES ASSUME NEW n \in 1..MaxFrames, OnWay(n)
                 PROVE  /\ n <= Sse!Current' /\ frames'[n] = "message"
                        /\ n \notin torn'
                        /\ \A i \in 1..Len(out) : out[i] < n
                        /\ n # Sse!Current'
    BY <1>1, <1>2 DEF WayInv, OnWay, Holds
  <2>2. /\ n <= Sse!Current /\ frames[n] = "message" /\ n \notin torn
        /\ \A i \in 1..Len(out) : out[i] < n
        /\ n = Sse!Current => pos >= 4
    BY <2>1 DEF StreamInv, WayInv
  <2>3. n \in 1..Sse!Current
    BY <1>2, <2>2
  <2>4. QED
    BY <1>1, <1>2, <2>2, <2>3
<1>6. OutInv'
  <2>1. \A i \in 1..Len(out) : out[i] = Sse!Current => pos >= 5
    BY DEF StreamInv, OutInv
  <2>2. \A i \in 1..Len(out) : out[i] \notin torn' /\ out[i] # Sse!Current'
    BY <1>1, <1>2, <2>1 DEF StreamInv, OutInv
  <2>3. QED
    BY <1>2, <2>2 DEF StreamInv, OutInv
<1>7. OwedInv'
  <2>1. SUFFICES ASSUME NEW n \in (closed' + 1)..Sse!Current', frames'[n] = "message",
                        n \notin torn'
                 PROVE  \/ \E i \in 1..Len(out') : out'[i] = n
                        \/ OnWay(n)'
    BY DEF OwedInv
  <2>2. n \in (closed + 1)..Sse!Current /\ n \in 1..Sse!Current
    <3>1. n # Sse!Current'
      BY <1>2, <2>1 DEF Kind
    <3>2. QED
      BY <1>1, <1>2, <3>1
  <2>3. frames[n] = "message" /\ n \notin torn /\ ~(n = Sse!Current /\ pos < 4)
    BY <1>1, <1>2, <2>1, <2>2
  <2>4. ~(n = Sse!Current /\ pos <= 4 /\ Unbroken)
    <3>1. Unbroken => pos = 0
      BY <1>2 DEF Unbroken
    <3>2. QED
      BY <2>3, <3>1
  <2>5. (\E i \in 1..Len(out) : out[i] = n) \/ OnWay(n)
    BY <2>2, <2>3, <2>4 DEF StreamInv, OwedInv
  <2>6. QED
    BY <1>1, <1>2, <2>5 DEF OnWay, Holds
<1>8. QED
  BY <1>3, <1>4, <1>5, <1>6, <1>7 DEF StreamInv

\* disconnect() keeps the invariant: close_sse forgets what sse_data_ has.
LEMMA CloseSseInv ==
  ASSUME Sse!FramingAssumption,
         StreamInv, Sse!CloseSse
  PROVE  StreamInv'
<1>1. Sse!Reopen /\ data' = <<>> /\ closed' = Sse!Current /\ torn' = torn
  BY DEF Sse!CloseSse
<1>2. /\ mode = "get" /\ rest = <<>> /\ line = <<>>
      /\ pos' = 0 /\ UNCHANGED <<mode, line, rest, out>>
      /\ Sse!Current' = Sse!Current + 1 /\ Kind' = "head"
      /\ Sse!Current' \in 1..MaxFrames
      /\ Sse!Current \in Nat
      /\ \A i \in 1..Len(out) : out[i] \in 1..Sse!Current
           /\ frames'[out[i]] = frames[out[i]]
  BY <1>1, ReopenFacts
<1>3. Sse!TypeOK'
  <2>1. torn \in SUBSET (1..Sse!Current) /\ Sse!Current \in 0..Sse!Current
    BY <1>2 DEF StreamInv, Sse!TypeOK
  <2>2. QED
    BY <1>1, <2>1, ReopenFacts
<1>4. HeadInv' /\ EndpointInv' /\ MessageInv' /\ RestInv'
  BY <1>1, <1>2 DEF HeadInv, EndpointInv, MessageInv, RestInv
<1>5. WayInv'
  BY <1>1, <1>2 DEF WayInv, OnWay, Holds
<1>6. OutInv'
  <2>1. \A i \in 1..Len(out) : out[i] # Sse!Current'
    BY <1>2
  <2>2. QED
    BY <1>1, <1>2, <2>1 DEF StreamInv, OutInv
<1>7. OwedInv'
  <2>1. \A n \in (closed' + 1)..Sse!Current' : n = Sse!Current'
    BY <1>1, <1>2
  <2>2. frames'[Sse!Current'] # "message"
    BY <1>2 DEF Kind
  <2>3. QED
    BY <2>1, <2>2 DEF OwedInv
<1>8. QED
  BY <1>3, <1>4, <1>5, <1>6, <1>7 DEF StreamInv

\* A line of handle_sse_frame keeps the invariant: the message it hands over comes
\* after those that were.
LEMMA HandleLineInv ==
  ASSUME Sse!FramingAssumption,
         StreamInv, Sse!HandleLine
  PROVE  StreamInv'
<1>1. /\ Sse!TypeOK /\ rest # <<>> /\ rest' = Tail(rest)
      /\ UNCHANGED <<mode, frames, pos, line, data, torn, closed>>
      /\ Sse!Current' = Sse!Current /\ Kind' = Kind /\ Sse!Frame' = Sse!Frame
  BY DEF Sse!HandleLine, StreamInv, Sse!Current, Kind, Sse!Frame
<1>2. /\ rest \in Seq(Lines) /\ Len(rest) = 1 /\ Head(rest) = rest[1] /\ rest' = <<>>
      /\ data = <<>> /\ Sse!Current \in 1..MaxFrames /\ MaxFrames \in Nat
      /\ Sse!Current \in Nat
  <2>1. /\ rest \in Seq(Lines) /\ Len(rest) <= 1
        /\ Sse!Current \in 1..MaxFrames /\ MaxFrames \in Nat /\ Sse!Current \in Nat
    BY <1>1, FrameFacts DEF Sse!TypeOK
  <2>2. Len(rest) = 1
    <3> DEFINE k == Len(rest)
    <3>1. k \in Nat /\ (k = 0 => rest = <<>>) /\ k <= 1
      BY <2>1
    <3>2. k # 0
      BY <1>1, <3>1
    <3>3. k \in Nat /\ k <= 1
      BY <3>1
    <3> HIDE DEF k
    <3>4. k = 1
      BY <3>2, <3>3
    <3>5. QED
      BY <3>4 DEF k
  <2>3. rest' = <<>>
    BY <1>1, <2>1, <2>2
  <2>4. QED
    BY <1>1, <2>1, <2>2, <2>3 DEF StreamInv, RestInv
<1>3. HeadInv' /\ EndpointInv' /\ MessageInv' /\ RestInv'
  BY <1>1, <1>2 DEF StreamInv, HeadInv, EndpointInv, MessageInv, RestInv, Unbroken
<1>4. WayInv'
  BY <1>1, <1>2 DEF WayInv, OnWay, Holds
<1>5. \A n \in 1..MaxFrames : OnWay(n) <=> Sse!Payload(Head(rest)) = Sse!Json(n)
  BY <1>1, <1>2 DEF OnWay, Holds
<1>6. CASE \E n \in 1..Sse!Current : Sse!Payload(Head(rest)) = Sse!Json(n)
      /\ out' = Append(out, n)
  <2>1. PICK n \in 1..Sse!Current : Sse!Payload(Head(rest)) = Sse!Json(n)
        /\ out' = Append(out, n)
    BY <1>6
  <2>2. /\ n \in 1..MaxFrames /\ OnWay(n)
    BY <1>2, <1>5, <2>1
  <2>3. /\ frames[n] = "message" /\ n \notin torn
        /\ \A i \in 1..Len(out) : out[i] < n
        /\ n = Sse!Current => pos >= 5
    BY <1>1, <2>2 DEF StreamInv, WayInv
  <2>4. /\ out \in Seq(1..Sse!Current) /\ out' \in Seq(1..Sse!Current)
        /\ Len(out) \in Nat
        /\ Len(out') = Len(out) + 1 /\ out'[Len(out) + 1] = n
        /\ \A i \in 1..Len(out) : out'[i] = out[i]
    BY <1>1, <2>1 DEF Sse!TypeOK
  <2>5. Sse!TypeOK'
    BY <1>1, <1>2, <2>4 DEF Sse!TypeOK
  <2>6. OutInv'
    <3>1. ASSUME NEW i \in 1..Len(out'), NEW j \in 1..Len(out'), i < j
          PROVE  out'[i] < out'[j]
      <4>1. i \in 1..Len(out)
        BY <2>4, <3>1
      <4>2. CASE j \in 1..Len(out)
        BY <2>4, <3>1, <4>1, <4>2 DEF StreamInv, OutInv
      <4>3. CASE j \notin 1..Len(out)
        <5>1. j = Len(out) + 1
          BY <2>4, <4>3
        <5>2. QED
          BY <2>3, <2>4, <4>1, <5>1
      <4>4. QED
        BY <4>2, <4>3
    <3>2. ASSUME NEW i \in 1..Len(out')
          PROVE  /\ frames[out'[i]] = "message" /\ out'[i] \notin torn
                 /\ out'[i] = Sse!Current => pos >= 5
      <4>1. CASE i \in 1..Len(out)
        BY <2>4, <4>1 DEF StreamInv, OutInv
      <4>2. CASE i \notin 1..Len(out)
        <5>1. i = Len(out) + 1
          BY <2>4, <4>2
        <5>2. QED
          BY <2>3, <2>4, <5>1
      <4>3. QED
        BY <4>1, <4>2
    <3>3. QED
      BY <1>1, <3>1, <3>2 DEF OutInv
  <2>7. OwedInv'
    <3>1. SUFFICES ASSUME NEW m \in (closed + 1)..Sse!Current, frames[m] = "message",
                          m \notin torn, ~(m = Sse!Current /\ pos <= 4 /\ Unbroken)
                   PROVE  \E i \in 1..Len(out') : out'[i] = m
      BY <1>1 DEF OwedInv, Unbroken
    <3>2. m \in 1..MaxFrames
      BY <1>1, <1>2 DEF Sse!TypeOK
    <3>3. (\E i \in 1..Len(out) : out[i] = m) \/ OnWay(m)
      BY <3>1 DEF StreamInv, OwedInv
    <3>4. CASE \E i \in 1..Len(out) : out[i] = m
      BY <2>4, <3>4
    <3>5. CASE OnWay(m)
      <4>1. Sse!Json(m) = Sse!Json(n)
        BY <1>5, <2>1, <3>2, <3>5
      <4>2. m = n
        BY <2>2, <3>2, <4>1, JsonFacts
      <4>3. QED
        BY <2>4, <4>2
    <3>6. QED
      BY <3>3, <3>4, <3>5
  <2>8. QED
    BY <1>3, <1>4, <2>5, <2>6, <2>7 DEF StreamInv
<1>7. CASE (\A n \in 1..Sse!Current : Sse!Payload(Head(rest)) # Sse!Json(n))
      /\ out' = out
  <2>1. Sse!TypeOK'
    BY <1>1, <1>2, <1>7 DEF Sse!TypeOK
  <2>2. OutInv'
    BY <1>1, <1>7 DEF StreamInv, OutInv
  <2>3. \A n \in 1..MaxFrames : ~OnWay(n)
    <3>1. \A n \in 1..MaxFrames : OnWay(n) => n \in 1..Sse!Current
      BY <1>2 DEF StreamInv, WayInv
    <3>2. QED
      BY <1>5, <1>7, <3>1
  <2>4. OwedInv'
    <3>1. SUFFICES ASSUME NEW m \in (closed + 1)..Sse!Current, frames[m] = "message",
                          m \notin torn
                   PROVE  \/ \E i \in 1..Len(out) : out[i] = m
                          \/ m = Sse!Current /\ pos <= 4 /\ Unbroken
      BY <1>1, <1>7 DEF OwedInv, Unbroken
    <3>2. m \in 1..MaxFrames
      BY <1>1, <1>2 DEF Sse!TypeOK
    <3>3. QED
      BY <2>3, <3>1, <3>2 DEF StreamInv, OwedInv
  <2>5. QED
    BY <1>3, <1>4, <2>1, <2>2, <2>4 DEF StreamInv
<1>8. QED
  BY <1>6, <1>7 DEF Sse!HandleLine

\* The piece that is read next.
LEMMA NextPiece ==
  ASSUME Sse!FramingAssumption,
         Sse!TypeOK, pos < Len(Sse!Frame), NEW c, c = Sse!Frame[pos + 1]
  PROVE  /\ pos \in Nat /\ pos + 1 \in 1..Len(Sse!Frame) /\ Len(Sse!Frame) \in {6, 7}
         /\ Kind \in {"head", "endpoint", "message"}
         /\ Kind = "head" =>
              (c = Sse!NL <=> pos \in {1, 2, 4, 5})
                   /\ (c # Sse!NL => pos \in {0, 3} /\ c # Da)
         /\ Kind = "endpoint" =>
              (c = Sse!NL <=> pos \in {1, 5, 6})
                   /\ (c # Sse!NL => pos \in {0, 2, 3, 4} /\ c \in Sse!Texts)
         /\ Kind = "message" =>
              (c = Sse!NL <=> pos \in {4, 5})
                   /\ (c # Sse!NL => pos \in 0..3 /\ (c = Da => pos = 0))
         /\ c # Sse!NL => c \in Sse!Texts \cup Sse!Halves
<1> DEFINE p == pos + 1
<1>1. /\ pos \in Nat /\ Len(Sse!Frame) \in {6, 7}
      /\ Kind \in {"head", "endpoint", "message"}
      /\ Len(Sse!Frame) = (IF Kind = "endpoint" THEN 7 ELSE 6)
  BY FrameFacts
<1>2. p \in 1..Len(Sse!Frame) /\ p \in Nat /\ pos = p - 1
  BY <1>1
<1>3. c = Sse!Frame[p]
  OBVIOUS
<1> HIDE DEF p
<1>4. c # Sse!NL => c \in Sse!Texts \cup Sse!Halves
  BY <1>2, <1>3, FrameFacts
<1>5. ASSUME Kind = "head"
      PROVE  (c = Sse!NL <=> p \in {2, 3, 5, 6}) /\ (p \in {1, 4} => c # Da)
           /\ p \in 1..6
  <2>1. p \in 1..6
    BY <1>1, <1>2, <1>5
  <2>2. QED
    BY <1>3, <1>5, <2>1, FrameFacts
<1>6. ASSUME Kind = "endpoint"
      PROVE  (c = Sse!NL <=> p \in {2, 6, 7})
           /\ (p \in {1, 3, 4, 5} => c \in Sse!Texts) /\ p \in 1..7
  <2>1. p \in 1..7
    BY <1>1, <1>2, <1>6
  <2>2. QED
    BY <1>3, <1>6, <2>1, FrameFacts
<1>7. ASSUME Kind = "message"
      PROVE  (c = Sse!NL <=> p \in {5, 6}) /\ (p \in 2..4 => c # Da) /\ p \in 1..6
  <2>1. p \in 1..6
    BY <1>1, <1>2, <1>7
  <2>2. QED
    BY <1>3, <1>7, <2>1, FrameFacts
<1>8. Kind = "head" =>
        (c = Sse!NL <=> pos \in {1, 2, 4, 5})
             /\ (c # Sse!NL => pos \in {0, 3} /\ c # Da)
  BY <1>2, <1>5
<1>9. Kind = "endpoint" =>
        (c = Sse!NL <=> pos \in {1, 5, 6})
             /\ (c # Sse!NL => pos \in {0, 2, 3, 4} /\ c \in Sse!Texts)
  BY <1>2, <1>6
<1>10. Kind = "message" =>
        (c = Sse!NL <=> pos \in {4, 5})
             /\ (c # Sse!NL => pos \in 0..3 /\ (c = Da => pos = 0))
  BY <1>2, <1>7
<1>11. QED
  BY <1>1, <1>2, <1>4, <1>8, <1>9, <1>10 DEF p

\* A piece that ends no line keeps the invariant.
LEMMA ReadTextInv ==
  ASSUME Sse!FramingAssumption,
         StreamInv, Sse!Read, Sse!Frame[pos + 1] # Sse!NL
  PROVE  StreamInv'
<1> DEFINE c == Sse!Frame[pos + 1]
<1>1. /\ Sse!TypeOK /\ pos < Len(Sse!Frame) /\ rest = <<>> /\ pos' = pos + 1
      /\ line' = Append(line, c)
      /\ UNCHANGED <<data, rest, mode, frames, out, torn, closed>>
      /\ Sse!Current' = Sse!Current /\ Kind' = Kind /\ Sse!Frame' = Sse!Frame
  BY DEF Sse!Read, StreamInv, Sse!Current, Kind, Sse!Frame
<1>2. /\ pos \in Nat /\ pos + 1 \in 1..Len(Sse!Frame) /\ Len(Sse!Frame) \in {6, 7}
      /\ Kind \in {"head", "endpoint", "message"}
      /\ c \in Sse!Texts \cup Sse!Halves /\ line \in Lines
      /\ Kind = "head" => pos \in {0, 3} /\ c # Da
      /\ Kind = "endpoint" => pos \in {0, 2, 3, 4} /\ c \in Sse!Texts
      /\ Kind = "message" => pos \in 0..3 /\ (c = Da => pos = 0)
  <2>1. line \in Lines
    BY <1>1, FrameFacts
  <2>2. QED
    BY <1>1, <2>1, NextPiece
<1> HIDE DEF c
<1>3. /\ line' \in Lines /\ line' # <<>> /\ Len(line) \in Nat
      /\ Len(line') = Len(line) + 1 /\ line'[Len(line) + 1] = c
      /\ \A i \in 1..Len(line) : line'[i] = line[i]
      /\ line = <<>> => line'[1] = c
      /\ line # <<>> => line'[1] = line[1]
  BY <1>1, <1>2 DEF Lines
<1>4. Sse!TypeOK'
  <2>1. pos' \in 0..Len(Sse!Frame')
    BY <1>1, <1>2
  <2>2. QED
    BY <1>1, <1>3, <2>1 DEF Sse!TypeOK, Lines
<1>5. RestInv'
  BY <1>1 DEF StreamInv, RestInv
<1>6. HeadInv'
  <2>1. SUFFICES ASSUME Kind = "head"
                 PROVE  /\ line'[1] # Da /\ pos' \in {1, 4}
                        /\ pos' >= 3 => data = <<>>
                        /\ mode # "body"
    BY <1>1 DEF HeadInv
  <2>2. HeadInv /\ pos \in {0, 3} /\ c # Da
    BY <1>2, <2>1 DEF StreamInv
  <2>3. line = <<>>
    BY <2>1, <2>2 DEF HeadInv
  <2>4. QED
    BY <1>1, <1>3, <2>1, <2>2, <2>3 DEF HeadInv
<1>7. EndpointInv'
  <2>1. SUFFICES ASSUME Kind = "endpoint"
                 PROVE  /\ line' \in Seq(Sse!Texts) /\ pos' \in {1, 3, 4, 5}
                        /\ Len(line') <= IF pos' >= 3 THEN pos' - 2 ELSE pos'
                        /\ data = <<>>
    BY <1>1 DEF EndpointInv
  <2>2. /\ line \in Seq(Sse!Texts) /\ pos \in {0, 2, 3, 4} /\ c \in Sse!Texts
        /\ line # <<>> => pos \in {1, 3, 4, 5}
        /\ Len(line) <= IF pos >= 3 THEN pos - 2 ELSE pos
        /\ data # <<>> => pos \in {5, 6}
    BY <1>2, <2>1 DEF StreamInv, EndpointInv
  <2>3. line' \in Seq(Sse!Texts)
    BY <1>1, <2>2
  <2>4. pos = 2 => Len(line) = 0
    BY <2>2
  <2>5. QED
    BY <1>1, <1>3, <2>2, <2>3, <2>4
<1>8. ASSUME Unbroken, Kind = "message" PROVE Unbroken'
  BY <1>1, <1>2, <1>3, <1>8 DEF Unbroken, c
<1>9. MessageInv'
  <2>1. SUFFICES ASSUME Kind = "message"
                 PROVE  /\ pos' <= 4
                        /\ \/ Sse!Current \in torn /\ pos' >= 1 /\ line'[1] # Da
                           \/ Sse!Current \notin torn /\ Unbroken' /\ data = <<>>
    <3>1. pos' <= 4 => ~(pos' >= 5) /\ pos' # 6
      BY <1>1, <1>2
    <3>2. QED
      BY <1>1, <3>1 DEF MessageInv
  <2>2. pos \in 0..3 /\ (c = Da => pos = 0)
    BY <1>2, <2>1
  <2>3. \/ Sse!Current \in torn /\ pos >= 1 /\ (line # <<>> => line[1] # Da)
        \/ Sse!Current \notin torn /\ Unbroken /\ data = <<>>
    BY <2>1, <2>2 DEF StreamInv, MessageInv
  <2>4. CASE Sse!Current \in torn /\ pos >= 1 /\ (line # <<>> => line[1] # Da)
    BY <1>1, <1>3, <2>2, <2>4
  <2>5. CASE Sse!Current \notin torn /\ Unbroken /\ data = <<>>
    BY <1>1, <1>8, <2>1, <2>2, <2>5
  <2>6. QED
    BY <2>3, <2>4, <2>5
<1>10. ASSUME NEW n \in 1..MaxFrames, OnWay(n) PROVE n < Sse!Current
  <2>1. n <= Sse!Current /\ frames[n] = "message" /\ (n = Sse!Current => pos >= 4)
    BY <1>10 DEF StreamInv, WayInv
  <2>2. n # Sse!Current
    BY <1>2, <2>1 DEF Kind
  <2>3. QED
    BY <1>1, <2>1, <2>2, FrameFacts
<1>11. WayInv'
  <2>1. \A n \in 1..MaxFrames : OnWay(n)' = OnWay(n)
    BY <1>1 DEF OnWay, Holds
  <2>2. \A n \in 1..MaxFrames : OnWay(n) => n # Sse!Current
    BY <1>1, <1>10, FrameFacts
  <2>3. QED
    BY <1>1, <2>1, <2>2 DEF StreamInv, WayInv
<1>12. OutInv'
  <2>1. pos >= 5 => pos' >= 5
    BY <1>1, <1>2
  <2>2. QED
    BY <1>1, <2>1 DEF StreamInv, OutInv
<1>13. OwedInv'
  <2>1. SUFFICES ASSUME NEW n \in (closed + 1)..Sse!Current, frames[n] = "message",
                        n \notin torn
                 PROVE  \/ \E i \in 1..Len(out) : out[i] = n
                        \/ OnWay(n)
                        \/ n = Sse!Current /\ pos' <= 4 /\ Unbroken'
    BY <1>1 DEF OwedInv, OnWay, Holds
  <2>2. CASE n = Sse!Current /\ pos <= 4 /\ Unbroken
    <3>1. Kind = "message"
      BY <2>1, <2>2 DEF Kind
    <3>2. pos' <= 4
      BY <1>1, <1>2, <3>1
    <3>3. QED
      BY <1>8, <2>2, <3>1, <3>2
  <2>3. QED
    BY <2>1, <2>2 DEF StreamInv, OwedInv
<1>14. QED
  BY <1>4, <1>5, <1>6, <1>7, <1>9, <1>11, <1>12, <1>13 DEF StreamInv

\* A data line: it is of an endpoint, or of a message, and sse_data_ was empty.
LEMMA DataTaken ==
  ASSUME Sse!FramingAssumption,
         StreamInv, line # <<>>, Sse!IsData(line), NEW d, d = Sse!WithData(data, line)
  PROVE  /\ data = <<>> /\ d \in Seq(Lines) /\ Len(d) <= 1
         /\ Kind = "endpoint" => /\ pos \in {4, 5} /\ (pos = 4 => d = <<>>)
         /\ Kind = "message" => /\ pos \in 2..4 /\ Sse!Current \notin torn /\ Unbroken
         /\ Kind \in {"endpoint", "message"}
         /\ \A n \in 1..MaxFrames :
              Holds(d, n) <=> Kind = "message" /\ pos = 4 /\ n = Sse!Current
<1> DEFINE p == Sse!Payload(line)
<1>1. /\ Sse!TypeOK /\ line \in Lines /\ pos \in Nat /\ Sse!Current \in 1..MaxFrames
      /\ Kind \in {"head", "endpoint", "message"}
      /\ Sse!Frame = Sse!Pieces(Kind, Sse!Current)
      /\ data \in Seq(Lines)
  BY FrameFacts DEF StreamInv
<1>2. line[1] = Da /\ Len(line) >= 2
  BY DEF Sse!IsData, Da
<1>3. Kind # "head"
  BY <1>2 DEF StreamInv, HeadInv
<1>4. p \in Lines /\ Len(p) = Len(line) - 2
  BY <1>1, DataLine
<1>5. d = (IF data = <<>> /\ p = <<>> THEN data ELSE Append(data, p))
  BY DEF Sse!WithData
<1> HIDE DEF p
<1>6. ASSUME data = <<>>
      PROVE  /\ d \in Seq(Lines) /\ Len(d) <= 1 /\ (d # <<>> => d[1] = p)
             /\ p = <<>> => d = <<>>
             /\ p # <<>> => d # <<>>
  <2>1. CASE p = <<>>
    BY <1>5, <1>6, <2>1
  <2>2. CASE p # <<>>
    <3>1. d = <<p>>
      BY <1>5, <1>6, <2>2
    <3>2. QED
      BY <1>4, <2>2, <3>1
  <2>3. QED
    BY <2>1, <2>2
<1>7. CASE Kind = "endpoint"
  <2>1. /\ line \in Seq(Sse!Texts) /\ pos \in {1, 3, 4, 5}
        /\ Len(line) <= (IF pos >= 3 THEN pos - 2 ELSE pos)
        /\ data = <<>>
    BY <1>7 DEF StreamInv, EndpointInv
  <2>2. Len(line) \in Nat /\ pos \in {4, 5} /\ (pos = 4 => Len(line) = 2)
    <3> DEFINE k == Len(line)
    <3>1. k \in Nat
      BY <2>1
    <3>2. k >= 2 /\ pos \in {1, 3, 4, 5} /\ k <= (IF pos >= 3 THEN pos - 2 ELSE pos)
      BY <1>2, <2>1
    <3> HIDE DEF k
    <3>3. k \in Nat /\ pos \in {4, 5} /\ (pos = 4 => k = 2)
      BY <3>1, <3>2
    <3>4. QED
      BY <3>3 DEF k
  <2>3. pos = 4 => d = <<>>
    <3>1. pos = 4 => Len(p) = 0
      <4>1. pos = 4 => Len(p) = 2 - 2
        BY <1>4, <2>2
      <4>2. QED
        BY <4>1
    <3>2. pos = 4 => p = <<>>
      <4>1. p \in Seq(Sse!Texts \cup Sse!Halves)
        BY <1>4 DEF Lines
      <4>2. QED
        BY <3>1, <4>1
    <3>3. QED
      BY <1>6, <2>1, <3>2
  <2>4. p \in Seq(Sse!Texts)
    <3>1. /\ p = [i \in 1..(Len(line) - 2) |-> line[i + 2]] /\ Len(line) - 2 \in Nat
      BY <1>2, <2>2 DEF p, Sse!Payload
    <3>2. \A i \in 1..(Len(line) - 2) : line[i + 2] \in Sse!Texts
      BY <2>1, <2>2
    <3>3. QED
      BY <3>1, <3>2
  <2>5. \A n \in 1..MaxFrames : ~Holds(d, n)
    BY <1>4, <1>6, <2>1, <2>4, TextLine DEF Holds
  <2>6. QED
    BY <1>6, <1>7, <2>1, <2>2, <2>3, <2>5
<1>8. CASE Kind = "message"
  <2>1. pos <= 4 /\ Sse!Current \notin torn /\ Unbroken /\ data = <<>>
    <3>1. pos <= 4
      BY <1>1, <1>8 DEF StreamInv, MessageInv
    <3>2. QED
      BY <1>2, <1>8, <3>1 DEF StreamInv, MessageInv
  <2>2. /\ pos \in 0..4 /\ Len(line) = pos
        /\ \A i \in 1..pos : line[i] = Sse!Pieces("message", Sse!Current)[i]
    BY <1>1, <1>8, <2>1 DEF Unbroken
  <2>3. /\ pos \in 2..4 /\ (pos = 4 => p = Sse!Json(Sse!Current))
        /\ pos < 4 => \A m \in 1..MaxFrames : p # Sse!Json(m)
    <3>1. pos \in 2..4
      BY <1>2, <2>2
    <3>2. /\ pos = 4 => Sse!Payload(line) = Sse!Json(Sse!Current)
          /\ pos < 4 => \A m \in 1..MaxFrames : Sse!Payload(line) # Sse!Json(m)
      BY <1>1, <2>2, MessageLine
    <3>3. QED
      BY <3>1, <3>2 DEF p
  <2>4. Sse!Payload(p) = p
    <3>1. CASE pos = 4
      <4>1. p[1] # Da
        <5>1. Da \in Sse!Texts
          BY DEF Da, Sse!Texts
        <5>2. QED
          BY <1>1, <2>3, <3>1, <5>1, JsonFacts
      <4>2. QED
        BY <1>4, <4>1, OtherLine
    <3>2. CASE pos # 4
      <4>1. Len(p) < 2
        BY <1>4, <2>2, <2>3, <3>2
      <4>2. QED
        BY <1>4, <4>1, OtherLine
    <3>3. QED
      BY <3>1, <3>2
  <2>5. ASSUME NEW n \in 1..MaxFrames PROVE Holds(d, n) <=> pos = 4 /\ n = Sse!Current
    <3>1. Holds(d, n) => p = Sse!Json(n)
      BY <1>6, <2>1, <2>4 DEF Holds
    <3>2. p = Sse!Json(n) => pos = 4 /\ n = Sse!Current
      <4>1. p = Sse!Json(n) => pos = 4
        BY <2>3
      <4>2. p = Sse!Json(n) /\ pos = 4 => n = Sse!Current
        BY <1>1, <2>3, JsonFacts
      <4>3. QED
        BY <4>1, <4>2
    <3>3. pos = 4 /\ n = Sse!Current => Holds(d, n)
      <4>1. SUFFICES ASSUME pos = 4, n = Sse!Current PROVE Holds(d, n)
        OBVIOUS
      <4>2. p = Sse!Json(n) /\ p # <<>>
        BY <1>1, <2>3, <4>1, JsonFacts
      <4>3. QED
        BY <1>6, <2>1, <2>4, <4>2 DEF Holds
    <3>4. QED
      BY <3>1, <3>2, <3>3
  <2>6. QED
    BY <1>6, <1>8, <2>1, <2>3, <2>5
<1>9. QED
  BY <1>1, <1>3, <1>7, <1>8

\* The end of a line keeps the invariant when what is on the way stays there, and a
\* message whose line was read as a whole joins it.
LEMMA LineReadInv ==
  ASSUME Sse!FramingAssumption,
         StreamInv, pos < Len(Sse!Frame), Sse!Frame[pos + 1] = Sse!NL,
              pos' = pos + 1, line' = <<>>,
         rest = <<>>, UNCHANGED <<mode, frames, out, torn, closed>>,
         data' \in Seq(Lines), Len(data') <= 1, rest' \in Seq(Lines), Len(rest') <= 1,
         rest' # <<>> => data' = <<>>, mode = "body" => data' = <<>>,
         Kind = "head" /\ pos + 1 >= 3 => data' = <<>>,
         Kind = "endpoint" /\ data' # <<>> => pos = 5,
         Kind = "message" /\ pos = 5 => data' = <<>>,
         \A n \in 1..MaxFrames : OnWay(n) => OnWay(n)',
         \A n \in 1..MaxFrames : OnWay(n)' => \/ OnWay(n)
                                               \/ /\ n = Sse!Current
                                                  /\ Kind = "message"
                                                  /\ pos = 4
                                                  /\ Sse!Current \notin torn,
         \A n \in 1..MaxFrames :
           n = Sse!Current /\ Kind = "message" /\ pos = 4 /\ n \notin torn
                /\ Unbroken => OnWay(n)'
  PROVE  StreamInv'
<1>1. /\ Sse!TypeOK /\ Sse!Current' = Sse!Current /\ Kind' = Kind
      /\ Sse!Frame' = Sse!Frame
  BY DEF StreamInv, Sse!Current, Kind, Sse!Frame
<1>2. /\ pos \in Nat /\ pos + 1 \in 1..Len(Sse!Frame) /\ Len(Sse!Frame) \in {6, 7}
      /\ Kind = "head" => pos \in {1, 2, 4, 5}
      /\ Kind = "endpoint" => pos \in {1, 5, 6}
      /\ Kind = "message" => pos \in {4, 5}
  BY <1>1, NextPiece
<1>3. Sse!Current \in 1..MaxFrames /\ Sse!Current \in Nat /\ closed \in Nat
      /\ \A i \in 1..Len(out) : out[i] \in 1..Sse!Current
  <2>1. Sse!Current \in 1..MaxFrames /\ Sse!Current \in Nat
    BY <1>1, FrameFacts
  <2>2. closed \in 0..Sse!Current /\ out \in Seq(1..Sse!Current)
    BY <1>1 DEF Sse!TypeOK
  <2>3. QED
    BY <2>1, <2>2
<1>4. Sse!TypeOK'
  <2>1. pos' \in 0..Len(Sse!Frame')
    BY <1>1, <1>2
  <2>2. line' \in Seq(Sse!Texts \cup Sse!Halves)
    OBVIOUS
  <2>3. QED
    BY <1>1, <2>1, <2>2 DEF Sse!TypeOK, Lines
<1>5. HeadInv' /\ EndpointInv' /\ MessageInv'
  <2>1. HeadInv'
    <3>1. Kind = "head" => mode # "body"
      <4>1. Kind = "head" => pos # 6
        BY <1>2
      <4>2. QED
        BY <4>1 DEF StreamInv, HeadInv
    <3>2. QED
      BY <1>1, <3>1 DEF HeadInv
  <2>2. EndpointInv'
    <3>1. line' \in Seq(Sse!Texts) /\ Len(line') = 0
      OBVIOUS
    <3>2. 0 <= IF pos' >= 3 THEN pos' - 2 ELSE pos'
      BY <1>2
    <3>3. pos = 5 => pos' \in {5, 6}
      OBVIOUS
    <3>4. QED
      BY <1>1, <3>1, <3>2, <3>3 DEF EndpointInv
  <2>3. MessageInv'
    <3>1. Kind = "message" => ~(pos' <= 4) /\ (pos' = 6 => pos = 5)
      BY <1>2
    <3>2. QED
      BY <1>1, <3>1 DEF MessageInv
  <2>4. QED
    BY <2>1, <2>2, <2>3
<1>6. RestInv'
  BY DEF StreamInv, RestInv
<1>7. WayInv'
  <2>1. SUFFICES ASSUME NEW n \in 1..MaxFrames, OnWay(n)'
                 PROVE  /\ n <= Sse!Current /\ frames[n] = "message" /\ n \notin torn
                        /\ \A i \in 1..Len(out) : out[i] < n
                        /\ n = Sse!Current => pos' >= 5
                        /\ n < Sse!Current => Kind = "head"
    <3>1. pos' >= 5 => pos' >= 4
      BY <1>2
    <3>2. QED
      BY <1>1, <3>1 DEF WayInv
  <2>2. CASE OnWay(n)
    <3>1. /\ n <= Sse!Current /\ frames[n] = "message" /\ n \notin torn
          /\ \A i \in 1..Len(out) : out[i] < n
          /\ n = Sse!Current => pos >= 4
          /\ n < Sse!Current => Kind = "head"
      BY <2>2 DEF StreamInv, WayInv
    <3>2. QED
      BY <1>2, <3>1
  <2>3. CASE n = Sse!Current /\ Kind = "message" /\ pos = 4 /\ Sse!Current \notin torn
    <3>1. \A i \in 1..Len(out) : out[i] # Sse!Current
      BY <2>3 DEF StreamInv, OutInv
    <3>2. \A i \in 1..Len(out) : out[i] < n
      BY <1>3, <2>3, <3>1
    <3>3. QED
      BY <1>3, <2>3, <3>2 DEF Kind
  <2>4. QED
    BY <2>1, <2>2, <2>3
<1>8. OutInv'
  <2>1. pos >= 5 => pos' >= 5
    BY <1>2
  <2>2. QED
    BY <1>1, <2>1 DEF StreamInv, OutInv
<1>9. OwedInv'
  <2>1. SUFFICES ASSUME NEW n \in (closed + 1)..Sse!Current, frames[n] = "message",
                        n \notin torn
                 PROVE  (\E i \in 1..Len(out) : out[i] = n) \/ OnWay(n)'
    BY <1>1 DEF OwedInv
  <2>2. n \in 1..MaxFrames
    BY <1>3 DEF Sse!FramingAssumption
  <2>3. CASE n = Sse!Current /\ pos <= 4 /\ Unbroken
    <3>1. Kind = "message"
      BY <2>1, <2>3 DEF Kind
    <3>2. pos = 4
      BY <1>2, <2>3, <3>1
    <3>3. QED
      BY <2>1, <2>2, <2>3, <3>1, <3>2
  <2>4. QED
    BY <2>1, <2>2, <2>3 DEF StreamInv, OwedInv
<1>10. QED
  BY <1>4, <1>5, <1>6, <1>7, <1>8, <1>9 DEF StreamInv

\* A newline keeps the invariant.
LEMMA ReadLineInv ==
  ASSUME Sse!FramingAssumption,
         StreamInv, Sse!Read, Sse!Frame[pos + 1] = Sse!NL
  PROVE  StreamInv'
<1>1. /\ Sse!TypeOK /\ pos < Len(Sse!Frame) /\ rest = <<>> /\ pos' = pos + 1
      /\ line' = <<>>
      /\ Sse!LineEnds(line) /\ UNCHANGED <<mode, frames, out, torn, closed>>
  BY DEF Sse!Read, StreamInv
<1>2. /\ pos \in Nat /\ Kind \in {"head", "endpoint", "message"}
      /\ Kind = "head" => pos \in {1, 2, 4, 5}
      /\ Kind = "endpoint" => pos \in {1, 5, 6}
      /\ Kind = "message" => pos \in {4, 5}
  BY <1>1, NextPiece
<1>3. /\ line \in Lines /\ data \in Seq(Lines) /\ Len(data) <= 1
      /\ Sse!Current \in 1..MaxFrames /\ Sse!Frame = Sse!Pieces(Kind, Sse!Current)
  BY <1>1, FrameFacts DEF Sse!TypeOK
<1>4. \A n \in 1..MaxFrames : OnWay(n) <=> Holds(data, n)
  BY <1>1 DEF OnWay, Holds
<1>5. <<>> \in Seq(Lines) /\ Len(<<>>) <= 1
  OBVIOUS
<1>6. ASSUME Kind = "message", pos = 4, Unbroken
      PROVE  line # <<>> /\ Sse!IsData(line)
           /\ Sse!Payload(line) = Sse!Json(Sse!Current)
  <2>1. Len(line) = 4 /\ \A i \in 1..4 :
        line[i] = Sse!Pieces("message", Sse!Current)[i]
    BY <1>3, <1>6 DEF Unbroken
  <2>2. QED
    BY <1>3, <2>1, MessageLine
<1>7. CASE mode = "get" /\ line = <<>> /\ Sse!Dispatch
  <2>1. rest' = data /\ data' = <<>>
    BY <1>7 DEF Sse!Dispatch
  <2>2. \A n \in 1..MaxFrames : OnWay(n)' <=> OnWay(n)
    BY <1>4, <2>1 DEF OnWay, Holds
  <2>3. QED
    BY <1>1, <1>3, <1>5, <1>6, <1>7, <2>1, <2>2, LineReadInv
<1>8. CASE mode = "get" /\ line # <<>> /\ ~Sse!IsData(line)
      /\ UNCHANGED <<data, rest>>
  <2>1. \A n \in 1..MaxFrames : OnWay(n)' <=> OnWay(n)
    BY <1>8 DEF OnWay, Holds
  <2>2. Kind = "head" /\ pos + 1 >= 3 => data = <<>>
    <3>1. Kind = "head" => HeadInv /\ pos \in {1, 4}
      BY <1>8 DEF StreamInv, HeadInv
    <3>2. QED
      BY <3>1 DEF HeadInv
  <2>3. Kind = "endpoint" => data = <<>>
    BY <1>8 DEF StreamInv, EndpointInv
  <2>4. ~(Kind = "message" /\ pos = 5)
    BY <1>8 DEF StreamInv, MessageInv
  <2>5. QED
    BY <1>1, <1>3, <1>5, <1>6, <1>8, <2>1, <2>2, <2>3, <2>4, LineReadInv
<1>9. CASE /\ mode = "get" /\ line # <<>> /\ Sse!IsData(line)
           /\ data' = Sse!WithData(data, line) /\ UNCHANGED rest
  <2>1. /\ data = <<>> /\ data' \in Seq(Lines) /\ Len(data') <= 1
        /\ Kind = "endpoint" => pos \in {4, 5}
        /\ Kind = "message" => pos \in 2..4 /\ Sse!Current \notin torn
        /\ Kind \in {"endpoint", "message"}
        /\ \A n \in 1..MaxFrames :
             Holds(data', n) <=> Kind = "message" /\ pos = 4 /\ n = Sse!Current
    BY <1>9, DataTaken
  <2>2. \A n \in 1..MaxFrames : ~OnWay(n) /\ (OnWay(n)' <=> Holds(data', n))
    BY <1>1, <1>9, <2>1 DEF OnWay, Holds
  <2>3. Kind = "endpoint" => pos = 5
    BY <1>2, <2>1
  <2>4. ~(Kind = "message" /\ pos = 5)
    BY <2>1
  <2>5. QED
    BY <1>1, <1>5, <1>9, <2>1, <2>2, <2>3, <2>4, LineReadInv
<1>10. CASE mode = "body" /\ rest' = <<line>> /\ UNCHANGED data
  <2>1. data = <<>> /\ torn = {}
    BY <1>10 DEF StreamInv, RestInv
  <2>2. rest' \in Seq(Lines) /\ Len(rest') = 1 /\ rest' # <<>> /\ rest'[1] = line
    BY <1>3, <1>10
  <2>3. ASSUME NEW n \in 1..MaxFrames
        PROVE  ~OnWay(n) /\ (OnWay(n)' <=> Sse!Payload(line) = Sse!Json(n))
    BY <1>1, <1>10, <2>1, <2>2 DEF OnWay, Holds
  <2>4. ASSUME NEW n \in 1..MaxFrames, Sse!Payload(line) = Sse!Json(n)
        PROVE  n = Sse!Current /\ Kind = "message" /\ pos = 4
    <3>1. Kind # "head"
      BY <1>2, <1>10 DEF StreamInv, HeadInv
    <3>2. Kind # "endpoint"
      BY <1>3, <2>4, TextLine DEF StreamInv, EndpointInv
    <3>3. Kind = "message"
      BY <1>2, <3>1, <3>2
    <3>4. pos # 5
      <4>1. SUFFICES ASSUME pos = 5 PROVE FALSE
        OBVIOUS
      <4>2. line = <<>>
        BY <3>3, <4>1 DEF StreamInv, MessageInv
      <4>3. Sse!Payload(line) = <<>>
        BY <1>3, <4>2, OtherLine
      <4>4. QED
        BY <2>4, <4>3, JsonFacts
    <3>5. pos = 4
      BY <1>2, <3>3, <3>4
    <3>6. Unbroken
      BY <1>10, <2>1, <3>3, <3>5 DEF StreamInv, MessageInv
    <3>7. Sse!Json(n) = Sse!Json(Sse!Current)
      BY <1>6, <2>4, <3>3, <3>5, <3>6
    <3>8. QED
      BY <1>3, <3>3, <3>5, <3>7, JsonFacts
  <2>5. QED
    BY <1>1, <1>5, <1>6, <1>10, <2>1, <2>2, <2>3, <2>4, LineReadInv
<1>11. QED
  BY <1>1, <1>7, <1>8, <1>9, <1>10 DEF Sse!LineEnds, Sse!OnLine

\* The end of a read keeps the invariant: a message is torn, or was read as a whole.
LEMMA ReadEndsInv ==
  ASSUME Sse!FramingAssumption,
         StreamInv, Sse!ReadEnds
  PROVE  StreamInv'
<1>1. /\ Sse!TypeOK /\ mode = "get" /\ rest = <<>> /\ line # <<>> /\ line' = <<>>
      /\ Sse!OnLine(line) /\ UNCHANGED <<mode, frames, pos, out, closed>>
      /\ torn' = torn \cup {n \in {Sse!Current} : frames[n] = "message" /\ pos < 4}
      /\ Sse!Current' = Sse!Current /\ Kind' = Kind /\ Sse!Frame' = Sse!Frame
  BY DEF Sse!ReadEnds, StreamInv, Sse!Current, Kind, Sse!Frame
<1>2. /\ Kind \in {"head", "endpoint", "message"} /\ pos \in Nat
      /\ line \in Lines /\ data \in Seq(Lines) /\ Len(data) <= 1
      /\ Sse!Current \in 1..MaxFrames /\ Sse!Current \in Nat
      /\ Sse!Frame = Sse!Pieces(Kind, Sse!Current)
  BY <1>1, FrameFacts DEF Sse!TypeOK
<1>3. /\ torn' \in SUBSET (1..Sse!Current)
      /\ \A n : n \in torn' <=> n \in torn
           \/ (n = Sse!Current /\ Kind = "message" /\ pos < 4)
  <2>1. \A n : n \in torn' <=> n \in torn
        \/ (n = Sse!Current /\ Kind = "message" /\ pos < 4)
    BY <1>1 DEF Kind
  <2>2. torn \in SUBSET (1..Sse!Current) /\ Sse!Current \in 1..Sse!Current
    BY <1>1, <1>2 DEF Sse!TypeOK
  <2>3. QED
    BY <2>1, <2>2
<1>4. Kind = "message" => pos \in 1..4
  <2>1. Kind = "message" => pos <= 4
    BY <1>1, <1>2 DEF StreamInv, MessageInv
  <2>2. Unbroken => pos # 0
    BY <1>1, <1>2 DEF Unbroken, Lines
  <2>3. Kind = "message" => pos # 0
    BY <2>1, <2>2 DEF StreamInv, MessageInv
  <2>4. QED
    BY <1>2, <2>1, <2>3
<1>5. /\ rest' = <<>> /\ data' \in Seq(Lines) /\ Len(data') <= 1
      /\ Kind = "head" => data' = data
      /\ Kind = "endpoint" /\ data' # <<>> => pos = 5
      /\ \A n \in 1..MaxFrames : n # Sse!Current => (OnWay(n)' <=> OnWay(n))
      /\ \A n \in 1..MaxFrames : n = Sse!Current =>
           ~OnWay(n)
                /\ (OnWay(n)' <=> Kind = "message" /\ pos = 4 /\ n \notin torn /\ Unbroken)
  <2>1. ASSUME NEW n \in 1..MaxFrames, n = Sse!Current PROVE ~OnWay(n)
    BY <1>1, <2>1 DEF StreamInv, WayInv
  <2>2. CASE ~Sse!IsData(line) /\ UNCHANGED <<data, rest>>
    <3>1. \A n \in 1..MaxFrames : OnWay(n)' <=> OnWay(n)
      BY <2>2 DEF OnWay, Holds
    <3>2. Kind = "endpoint" => data = <<>>
      BY <1>1 DEF StreamInv, EndpointInv
    <3>3. ~(Kind = "message" /\ pos = 4 /\ Unbroken)
      <4>1. SUFFICES ASSUME Kind = "message", pos = 4, Unbroken PROVE FALSE
        OBVIOUS
      <4>2. Len(line) = 4 /\ \A i \in 1..4 :
            line[i] = Sse!Pieces("message", Sse!Current)[i]
        BY <1>2, <4>1 DEF Unbroken
      <4>3. QED
        BY <1>2, <2>2, <4>2, MessageLine
    <3>4. QED
      BY <1>1, <1>2, <2>1, <2>2, <3>1, <3>2, <3>3
  <2>3. CASE Sse!IsData(line) /\ data' = Sse!WithData(data, line) /\ UNCHANGED rest
    <3>1. /\ data = <<>> /\ data' \in Seq(Lines) /\ Len(data') <= 1
          /\ Kind = "endpoint" => pos \in {4, 5} /\ (pos = 4 => data' = <<>>)
          /\ Kind = "message" => pos \in 2..4 /\ Sse!Current \notin torn /\ Unbroken
          /\ Kind \in {"endpoint", "message"}
          /\ \A n \in 1..MaxFrames :
               Holds(data', n) <=> Kind = "message" /\ pos = 4 /\ n = Sse!Current
      BY <1>1, <2>3, DataTaken
    <3>2. \A n \in 1..MaxFrames : ~OnWay(n) /\ (OnWay(n)' <=> Holds(data', n))
      BY <1>1, <2>3, <3>1 DEF OnWay, Holds
    <3>3. QED
      BY <1>1, <1>2, <2>1, <2>3, <3>1, <3>2
  <2>4. QED
    BY <1>1, <2>2, <2>3 DEF Sse!OnLine
<1>6. Sse!TypeOK'
  BY <1>1, <1>3, <1>5 DEF Sse!TypeOK, Lines
<1>7. HeadInv' /\ EndpointInv' /\ MessageInv' /\ RestInv'
  <2>1. HeadInv'
    BY <1>1, <1>5 DEF StreamInv, HeadInv
  <2>2. EndpointInv'
    <3>1. line' \in Seq(Sse!Texts) /\ Len(line') = 0
      BY <1>1
    <3>2. 0 <= IF pos >= 3 THEN pos - 2 ELSE pos
      BY <1>2
    <3>3. QED
      BY <1>1, <1>5, <3>1, <3>2 DEF EndpointInv
  <2>3. MessageInv'
    <3>1. SUFFICES ASSUME Kind = "message" PROVE Sse!Current \in torn' \/ pos = 4
      <4>1. Kind = "message" => pos >= 1 /\ pos <= 4 /\ ~(pos >= 5) /\ pos # 6
        BY <1>4
      <4>2. QED
        BY <1>1, <3>1, <4>1 DEF MessageInv
    <3>2. QED
      BY <1>3, <1>4, <3>1
  <2>4. RestInv'
    BY <1>1, <1>5 DEF RestInv
  <2>5. QED
    BY <2>1, <2>2, <2>3, <2>4
<1>8. WayInv'
  <2>1. SUFFICES ASSUME NEW n \in 1..MaxFrames, OnWay(n)'
                 PROVE  /\ n <= Sse!Current /\ frames[n] = "message" /\ n \notin torn'
                        /\ \A i \in 1..Len(out) : out[i] < n
                        /\ n = Sse!Current => pos >= 4
                        /\ n < Sse!Current => Kind = "head"
    BY <1>1, <1>5 DEF WayInv
  <2>2. CASE n # Sse!Current
    BY <1>3, <1>5, <2>1, <2>2 DEF StreamInv, WayInv
  <2>3. CASE n = Sse!Current
    <3>1. Kind = "message" /\ pos = 4 /\ n \notin torn
      BY <1>5, <2>1, <2>3
    <3>2. \A i \in 1..Len(out) : out[i] # Sse!Current
      BY <3>1 DEF StreamInv, OutInv
    <3>3. \A i \in 1..Len(out) : out[i] \in 1..Sse!Current
      BY <1>1 DEF Sse!TypeOK
    <3>4. \A i \in 1..Len(out) : out[i] < n
      BY <1>2, <2>3, <3>2, <3>3
    <3>5. frames[n] = "message"
      BY <2>3, <3>1 DEF Kind
    <3>6. QED
      BY <1>2, <1>3, <2>3, <3>1, <3>4, <3>5
  <2>4. QED
    BY <2>2, <2>3
<1>9. OutInv'
  <2>1. \A i \in 1..Len(out) : out[i] = Sse!Current => pos >= 5
    BY DEF StreamInv, OutInv
  <2>2. \A i \in 1..Len(out) : out[i] \notin torn'
    <3>1. \A i \in 1..Len(out) : out[i] \notin torn
      BY DEF StreamInv, OutInv
    <3>2. QED
      BY <1>2, <1>3, <2>1, <3>1
  <2>3. QED
    BY <1>1, <2>2 DEF StreamInv, OutInv
<1>10. OwedInv'
  <2>1. SUFFICES ASSUME NEW n \in (closed + 1)..Sse!Current, frames[n] = "message",
                        n \notin torn'
                 PROVE  (\E i \in 1..Len(out) : out[i] = n) \/ OnWay(n)'
    BY <1>1 DEF OwedInv
  <2>2. n \in 1..MaxFrames /\ n \notin torn
    <3>1. closed \in Nat
      BY <1>1, <1>2 DEF Sse!TypeOK
    <3>2. n \in 1..MaxFrames
      BY <1>2, <3>1 DEF Sse!FramingAssumption
    <3>3. QED
      BY <1>3, <2>1, <3>2
  <2>3. CASE n = Sse!Current /\ pos <= 4 /\ Unbroken
    <3>1. Kind = "message"
      BY <2>1, <2>3 DEF Kind
    <3>2. pos = 4
      BY <1>2, <1>3, <2>1, <2>3, <3>1
    <3>3. QED
      BY <1>5, <2>2, <2>3, <3>1, <3>2
  <2>4. CASE ~(n = Sse!Current /\ pos <= 4 /\ Unbroken)
    <3>1. (\E i \in 1..Len(out) : out[i] = n) \/ OnWay(n)
      BY <2>1, <2>2, <2>4 DEF StreamInv, OwedInv
    <3>2. QED
      BY <1>5, <2>2, <3>1
  <2>5. QED
    BY <2>3, <2>4
<1>11. QED
  BY <1>6, <1>7, <1>8, <1>9, <1>10 DEF StreamInv

\* Every step keeps the invariant.
LEMMA SseNextInv ==
  ASSUME Sse!FramingAssumption
  PROVE  StreamInv /\ [Sse!Next]_(Sse!vars) => StreamInv'
<1>1. SUFFICES ASSUME StreamInv, [Sse!Next]_(Sse!vars) PROVE StreamInv'
  OBVIOUS
<1>2. CASE \E what \in {"endpoint", "message"} : Sse!Write(what)
  BY <1>1, <1>2, WriteInv
<1>3. CASE Sse!Read
  BY <1>1, <1>3, ReadTextInv, ReadLineInv
<1>4. CASE Sse!ReadEnds
  BY <1>1, <1>4, ReadEndsInv
<1>5. CASE Sse!HandleLine
  BY <1>1, <1>5, HandleLineInv
<1>6. CASE Sse!StreamDies
  BY <1>1, <1>6, StreamDiesInv
<1>7. CASE Sse!CloseSse
  BY <1>1, <1>7, CloseSseInv
<1>8. CASE UNCHANGED Sse!vars
  BY <1>1, <1>8 DEF Sse!vars, StreamInv, Sse!TypeOK, HeadInv, EndpointInv,
     MessageInv, RestInv, WayInv, OutInv, OwedInv, OnWay, Holds, Unbroken, Kind,
     Sse!Frame, Sse!Current
<1>9. QED
  BY <1>1, <1>2, <1>3, <1>4, <1>5, <1>6, <1>7, <1>8 DEF Sse!Next

\* What on_sse_read and handle_sse_frame keep: a message is torn, still being read
\* without an interruption, in sse_data_ or the frame being cut up, or handed over.
THEOREM SseInvariance ==
  ASSUME Sse!FramingAssumption
  PROVE  Sse!Spec => []StreamInv
<1>1. QED
  BY SseInitInv, SseNextInv, PTL DEF Sse!Spec

\* The invariant says that messages are handed over once, in order, and unless torn.
LEMMA StreamInvSuffices ==
  ASSUME Sse!FramingAssumption, StreamInv
  PROVE  Sse!StreamOK
<1>1. StreamInv
  OBVIOUS
<1>2. DOMAIN out = 1..Len(out)
  BY <1>1 DEF StreamInv, Sse!TypeOK
<1>3. ASSUME pos = Len(Sse!Frame), rest = <<>>, NEW n \in (closed + 1)..Sse!Current,
             frames[n] = "message", n \notin torn
      PROVE  \E i \in 1..Len(out) : out[i] = n
  <2>1. data = <<>> /\ line = <<>>
    BY <1>1, <1>3, FrameEnds
  <2>2. ~OnWay(n)
    BY <1>3, <2>1 DEF OnWay, Holds
  <2>3. ~(pos <= 4)
    BY <1>1, <1>3, FrameFacts DEF StreamInv
  <2>4. QED
    BY <1>1, <1>3, <2>2, <2>3 DEF StreamInv, OwedInv
<1>4. QED
  BY <1>1, <1>2, <1>3 DEF StreamInv, OutInv, RestInv, Sse!StreamOK

-----------------------------------------------------------------------------
(* JSON-RPC messages: JsonRpc, for every width of the integers and every     *)
(* integer id.                                                               *)

\* A number of int64_t or uint64_t, once read, is read back unchanged.
LEMMA FromJsonOnce ==
  ASSUME Rpc!JsonRpcAssumption,
         NEW n \in Ints
  PROVE  Rpc!FromJson(Rpc!FromJson(<<"int", n>>)) = Rpc!FromJson(<<"int", n>>)
<1>1. n \in Int /\ n < 2 * IdLimit /\ IdLimit \in Nat \ {0}
  BY DEF Rpc!JsonRpcAssumption
<1>2. CASE n >= IdLimit
  <2>1. Rpc!FromJson(<<"int", n>>) = <<"int", n - 2 * IdLimit>>
    BY <1>2 DEF Rpc!FromJson
  <2>2. ~(n - 2 * IdLimit >= IdLimit)
    BY <1>1
  <2>3. Rpc!FromJson(<<"int", n - 2 * IdLimit>>) = <<"int", n - 2 * IdLimit>>
    BY <2>2 DEF Rpc!FromJson
  <2>4. QED
    BY <2>1, <2>3
<1>3. CASE ~(n >= IdLimit)
  BY <1>3 DEF Rpc!FromJson
<1>4. QED
  BY <1>2, <1>3

\* What the parsers look at.
LEMMA RawMembers ==
  ASSUME NEW raw \in Rpc!Raws
  PROVE  /\ raw.version \in BOOLEAN /\ raw.result \in BOOLEAN
         /\ raw.id[1] \in {"absent", "null", "str", "other", "int"}
         /\ raw.id[1] = "null" <=> raw.id = Rpc!Null
         /\ raw.id[1] = "int" => raw.id[2] \in Ints
         /\ raw.method \in {"absent", "string", "other"}
         /\ raw.params \in {"absent", "null", "structured", "other"}
         /\ raw.error \in {"absent", "object", "partial", "odd", "other"}
BY DEF Rpc!Raws, Rpc!Null

\* Either parser takes a valid message for what it is, and little else for one.
LEMMA RawsParsed ==
  ASSUME NEW raw \in Rpc!Raws
  PROVE  Rpc!ParsedAsClass(raw)
<1>1. Rpc!ServerError(raw).kind = "error" /\ Rpc!ClientError(raw).kind = "error"
  BY RawMembers DEF Rpc!ServerError, Rpc!ClientError, Rpc!Error
<1>2. ASSUME NEW e, e.kind = "error", Rpc!Class(raw) # "invalid"
      PROVE  Rpc!Parse(raw, e).kind = Rpc!Class(raw)
  BY <1>2, RawMembers DEF Rpc!Parse, Rpc!Class, Rpc!Error, Rpc!RequestIdOk,
     Rpc!ParamsOk, Rpc!Structured, Rpc!OneOutcome
<1>3. ASSUME NEW e, e.kind = "error", Rpc!Parse(raw, e).kind # "error",
             ~Rpc!Lenient(raw)
      PROVE  Rpc!Parse(raw, e).kind = Rpc!Class(raw)
  BY <1>3, RawMembers DEF Rpc!Parse, Rpc!Class, Rpc!Error, Rpc!RequestIdOk,
     Rpc!ParamsOk, Rpc!Structured, Rpc!OneOutcome, Rpc!Lenient, Rpc!NullParams,
     Rpc!ResultAndError, Rpc!ResultForNobody
<1>4. QED
  BY <1>1, <1>2, <1>3 DEF Rpc!ParsedAsClass, Rpc!ParseMessage, Rpc!ParseMessageClient

\* from_json keeps what an int64_t holds and makes the rest negative.
LEMMA FromJsonOfId ==
  ASSUME Rpc!JsonRpcAssumption, NEW raw \in Rpc!Raws
  PROVE  /\ Rpc!InInt64(raw.id) => Rpc!FromJson(raw.id) = raw.id
         /\ ~Rpc!InInt64(raw.id) => Rpc!FromJson(raw.id)[2] < 0
<1>1. CASE raw.id[1] # "int"
  BY <1>1 DEF Rpc!InInt64, Rpc!FromJson
<1>2. CASE raw.id[1] = "int"
  <2>1. raw.id[2] \in Int /\ raw.id[2] >= -IdLimit /\ raw.id[2] < 2 * IdLimit
    <3>1. raw.id[2] \in Ints
      BY <1>2, RawMembers
    <3>2. raw.id[2] \in (-IdLimit)..(2 * IdLimit - 1) /\ IdLimit \in Nat
      BY <3>1 DEF Rpc!JsonRpcAssumption
    <3>3. QED
      BY <3>2
  <2>2. IdLimit \in Nat
    BY DEF Rpc!JsonRpcAssumption
  <2>3. Rpc!InInt64(raw.id) <=> ~(raw.id[2] >= IdLimit)
    BY <1>2, <2>1, <2>2 DEF Rpc!InInt64
  <2>4. raw.id[2] - 2 * IdLimit < 0
    BY <2>1, <2>2
  <2>5. QED
    BY <1>2, <2>3, <2>4 DEF Rpc!FromJson
<1>3. QED
  BY <1>1, <1>2

\* A request and a response keep an id that an int64_t holds.
LEMMA IdKept ==
  ASSUME Rpc!JsonRpcAssumption, NEW raw \in Rpc!Raws
  PROVE  Rpc!KeepsId(raw)
<1> DEFINE id == Rpc!FromJson(raw.id)
<1>1. ASSUME Rpc!Class(raw) = "request", NEW e
      PROVE  Rpc!Parse(raw, e).id = id
  <2>1. /\ raw.version /\ raw.method = "string" /\ raw.id[1] \in {"int", "str"}
        /\ raw.params # "other"
    BY <1>1, RawMembers DEF Rpc!Class, Rpc!Structured
  <2>2. QED
    BY <2>1 DEF Rpc!Parse, Rpc!RequestIdOk, Rpc!ParamsOk
<1>2. ASSUME raw.version, raw.method = "absent", raw.id[1] \in {"int", "str"}, NEW e
      PROVE  Rpc!Parse(raw, e).id = IF raw.result THEN id ELSE e.id
  BY <1>2, RawMembers DEF Rpc!Parse
<1>3. Rpc!ServerError(raw).id = id
  BY DEF Rpc!ServerError, Rpc!Error
<1>4. Rpc!ClientError(raw).id = IF raw.error = "odd" THEN Rpc!Null ELSE id
  BY RawMembers DEF Rpc!ClientError, Rpc!Error
<1>5. /\ Rpc!InInt64(raw.id) => id = raw.id
      /\ ~Rpc!InInt64(raw.id) => id[2] < 0
  BY FromJsonOfId
<1> HIDE DEF id
<1>6. Rpc!Class(raw) = "request" =>
        Rpc!ParseMessage(raw).id = id /\ Rpc!ParseMessageClient(raw).id = id
  BY <1>1 DEF Rpc!ParseMessage, Rpc!ParseMessageClient
<1>7. raw.version /\ raw.method = "absent" /\ raw.id[1] \in {"int", "str"} =>
        /\ Rpc!ParseMessage(raw).id = id
        /\ Rpc!ParseMessageClient(raw).id =
             IF ~raw.result /\ raw.error = "odd" THEN Rpc!Null ELSE id
  BY <1>2, <1>3, <1>4, RawMembers DEF Rpc!ParseMessage, Rpc!ParseMessageClient
<1>8. QED
  BY <1>5, <1>6, <1>7, RawMembers DEF Rpc!KeepsId

\* What the library makes.
MessageKinds == {"request", "notification", "success", "error"}

\* What the library makes is parsed for what it is.
LEMMA MadeParsed ==
  ASSUME Rpc!JsonRpcAssumption,
         NEW what \in MessageKinds, NEW id \in Rpc!RequestIds,
         NEW params \in {"absent", "structured"},
         id = Rpc!Null => what = "error"
  PROVE  Rpc!RoundTrip(what, id, params)
<1> DEFINE raw == Rpc!Make(what, id, params)
<1>1. /\ Rpc!FromJson(id) = id /\ id[1] \in {"null", "str", "int"}
      /\ id[1] = "null" <=> id = Rpc!Null
  <2>1. CASE id \in {Rpc!Null, <<"str">>}
    BY <2>1 DEF Rpc!Null, Rpc!FromJson
  <2>2. CASE id \in {Rpc!FromJson(<<"int", n>>) : n \in Ints}
    <3>1. PICK n \in Ints : id = Rpc!FromJson(<<"int", n>>)
      BY <2>2
    <3>2. id[1] = "int"
      BY <3>1 DEF Rpc!FromJson
    <3>3. QED
      BY <3>1, <3>2, FromJsonOnce DEF Rpc!Null
  <2>3. QED
    BY <2>1, <2>2 DEF Rpc!RequestIds
<1>2. SUFFICES /\ Rpc!Class(raw) = what
               /\ \A parsed \in {Rpc!ParseMessage(raw), Rpc!ParseMessageClient(raw)} :
                    /\ parsed.kind = what
                    /\ parsed.id = IF what = "notification" THEN Rpc!Null ELSE id
               /\ what = "error" => Rpc!ParseMessageClient(raw).code = "given"
  BY DEF Rpc!RoundTrip
<1>3. /\ raw.version = TRUE /\ raw.params \in {"absent", "structured"}
      /\ raw.id = IF what = "notification" THEN <<"absent">> ELSE id
      /\ raw.method = IF what \in {"request", "notification"} THEN "string" ELSE "absent"
      /\ raw.result = (what = "success")
      /\ raw.error = IF what = "error" THEN "object" ELSE "absent"
  BY DEF Rpc!Make
<1> HIDE DEF raw
<1>9. Rpc!Class(raw) = what
  <2>1. CASE what = "request"
    BY <1>1, <1>3, <2>1 DEF Rpc!Class, Rpc!Structured
  <2>2. CASE what = "notification"
    BY <1>3, <2>2 DEF Rpc!Class, Rpc!Structured
  <2>3. CASE what = "success"
    BY <1>1, <1>3, <2>3 DEF Rpc!Class, Rpc!OneOutcome
  <2>4. CASE what = "error"
    BY <1>1, <1>3, <2>4 DEF Rpc!Class, Rpc!OneOutcome
  <2>5. QED
    BY <2>1, <2>2, <2>3, <2>4 DEF MessageKinds
<1>4. CASE what = "request"
  BY <1>1, <1>3, <1>4, <1>9 DEF Rpc!ParseMessage, Rpc!ParseMessageClient,
     Rpc!Parse, Rpc!RequestIdOk, Rpc!ParamsOk
<1>5. CASE what = "notification"
  BY <1>1, <1>3, <1>5, <1>9 DEF Rpc!ParseMessage, Rpc!ParseMessageClient,
     Rpc!Parse, Rpc!ParamsOk
<1>6. CASE what = "success"
  <2>1. /\ Rpc!FromJson(raw.id) = id /\ raw.result = TRUE
        /\ raw.id[1] \notin {"absent", "other"}
    BY <1>1, <1>3, <1>6
  <2>2. ASSUME NEW e
        PROVE  Rpc!Parse(raw, e) = [kind |-> "success", id |-> id, code |-> "none"]
    BY <1>3, <1>6, <2>1 DEF Rpc!Parse
  <2>3. QED
    BY <1>6, <1>9, <2>2 DEF Rpc!ParseMessage, Rpc!ParseMessageClient
<1>7. CASE what = "error"
  <2>1. Rpc!FromJson(raw.id) = id /\ raw.error = "object"
    BY <1>1, <1>3, <1>7
  <2>2. /\ Rpc!ServerError(raw) = Rpc!Error(id, "INVALID_REQUEST")
        /\ Rpc!ClientError(raw) = Rpc!Error(id, "given")
    BY <2>1 DEF Rpc!ServerError, Rpc!ClientError
  <2>3. ASSUME NEW e PROVE Rpc!Parse(raw, e) = e
    BY <1>1, <1>3, <1>7 DEF Rpc!Parse
  <2>4. QED
    BY <1>7, <1>9, <2>2, <2>3 DEF Rpc!ParseMessage, Rpc!ParseMessageClient, Rpc!Error
<1>8. QED
  BY <1>2, <1>4, <1>5, <1>6, <1>7 DEF MessageKinds

\* What may be on the wire.
ObjectInv ==
  \/ message = Rpc!NoMessage
  \/ \E raw \in Rpc!Raws : message = [from |-> "peer", raw |-> raw]
  \/ \E what \in MessageKinds, id \in Rpc!RequestIds,
        params \in {"absent", "structured"} :
       /\ id = Rpc!Null => what = "error"
       /\ message = [from |-> "library", kind |-> what, id |-> id, params |-> params]

\* Every message, from a peer or made here, is what MessagesOK says.
LEMMA ObjectsOK ==
  ASSUME Rpc!JsonRpcAssumption, ObjectInv
  PROVE  Rpc!MessagesOK
<1>1. CASE message = Rpc!NoMessage
  BY <1>1 DEF Rpc!NoMessage, Rpc!MessagesOK
<1>2. ASSUME NEW raw \in Rpc!Raws, message = [from |-> "peer", raw |-> raw]
      PROVE  Rpc!MessagesOK
  BY <1>2, RawsParsed, IdKept DEF Rpc!MessagesOK
<1>3. ASSUME NEW what \in MessageKinds, NEW id \in Rpc!RequestIds,
             NEW params \in {"absent", "structured"},
             id = Rpc!Null => what = "error",
             message = [from |-> "library", kind |-> what, id |-> id, params |-> params]
      PROVE  Rpc!MessagesOK
  BY <1>3, MadeParsed DEF Rpc!MessagesOK
<1>4. QED
  BY <1>1, <1>2, <1>3 DEF ObjectInv

\* Only such a message is ever on the wire.
THEOREM ObjectInvariance == Rpc!Spec => []ObjectInv
<1>1. Rpc!Init => ObjectInv
  BY DEF Rpc!Init, ObjectInv
<1>2. ObjectInv /\ [Rpc!Next]_message => ObjectInv'
  BY DEF ObjectInv, Rpc!Next, Rpc!Arrives, Rpc!Made, MessageKinds
<1>3. QED
  BY <1>1, <1>2, PTL DEF Rpc!Spec

-----------------------------------------------------------------------------
(* Both formats *)

\* A behaviour of WireFormats is one of the messages and one of the event stream.
LEMMA FormatsImplemented == WireSpec => Rpc!Spec /\ Sse!Spec
<1>1. WireInit => Rpc!Init /\ Sse!Init
  BY DEF WireInit
<1>2. ASSUME [WireNext]_wirevars
      PROVE  [Rpc!Next]_message /\ [Sse!Next]_(Sse!vars)
  <2>1. UNCHANGED eventvars => UNCHANGED Sse!vars
    BY DEF eventvars, Sse!vars
  <2>2. CASE UNCHANGED wirevars
    BY <2>1, <2>2 DEF wirevars
  <2>3. CASE WireNext
    BY <2>1, <2>3 DEF WireNext
  <2>4. QED
    BY <1>2, <2>2, <2>3
<1>3. QED
  BY <1>1, <1>2, PTL DEF WireSpec, Rpc!Spec, Sse!Spec

\* parse_message and parse_message_client take every valid JSON-RPC 2.0 message for what
\* it is, with its id if an int64_t holds it, and nothing else for a request, a
\* notification or a result but what Rpc!Lenient names; what one side makes is valid and
\* the other takes it for that.
THEOREM MessagesAreClassified == WireSpec => []MessagesOK
<1>1. ObjectInv => MessagesOK
  BY WireAssumption, ObjectsOK DEF MessagesOK
<1>2. QED
  BY <1>1, ObjectInvariance, FormatsImplemented, PTL

\* For any number of frames: on_sse_read and handle_sse_frame hand over every
\* message once and in order, save those whose line a read or a stream ended in,
\* and a POST's body loses none.
THEOREM StreamsAreExact == WireSpec => []StreamOK
<1>1. Sse!Spec => []StreamInv
  BY WireAssumption, SseInvariance
<1>2. StreamInv => StreamOK
  BY WireAssumption, StreamInvSuffices DEF StreamOK
<1>3. QED
  BY <1>1, <1>2, FormatsImplemented, PTL

=============================================================================
