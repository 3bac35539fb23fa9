----------------------- MODULE AsyncWriteQueueProofs -----------------------
(***************************************************************************)
(* Proofs about AsyncWriteQueue for every set of buffer sizes, every limit *)
(* and both overflow policies.                                             *)
(***************************************************************************)
EXTENDS AsyncWriteQueue, SequenceTheorems, TLAPS

\* The gate writing_ tells exactly whether somebody writes or is about to, as
\* long as the queue is active.
GateExact == active => (writing <=> arming + outstanding = 1)

\* Each queued buffer ends within the accepted stream.
WithinStream ==
  \A i \in DOMAIN queue : queue[i].off + queue[i].size <= accepted_bytes

\* The backlog respects the limit.
WithinLimit ==
  active /\ max_queued_bytes > 0 => queued_bytes <= max_queued_bytes

IInv ==
  /\ QueueTypeOK
  /\ AtMostOneWrite
  /\ GateExact
  /\ NoLostWakeup
  /\ StreamContiguous
  /\ WithinStream
  /\ WithinLimit
  /\ ErrorReportedOnce

\* The elements of a sequence of buffers have natural offsets and sizes.
LEMMA BuffersTyped ==
  ASSUME queue \in Seq(Buffers)
  PROVE  \A i \in 1..Len(queue) : queue[i].off \in Nat /\ queue[i].size \in Nat
<1>1. \A i \in 1..Len(queue) : queue[i] \in Buffers
  BY ElementOfSeq
<1>2. \A b \in Buffers : b.off \in Nat /\ b.size \in Nat
  BY DEF Buffers
<1>3. QED
  BY <1>1, <1>2

\* The empty queue, idle and active, satisfies the invariant.
LEMMA InitIInv == QueueInit => IInv
<1> SUFFICES ASSUME QueueInit PROVE IInv
  OBVIOUS
<1>1. queue = <<>> /\ queue \in Seq(Buffers) /\ Len(queue) = 0
  BY DEF QueueInit
<1>2. QueueTypeOK
  BY <1>1, SizesAssumption DEF QueueInit, QueueTypeOK
<1>3. DOMAIN queue = {}
  BY <1>1
<1>4. QED
  BY <1>1, <1>2, <1>3, SizesAssumption
     DEF QueueInit, IInv, AtMostOneWrite, GateExact, NoLostWakeup, StreamContiguous,
         WithinStream, WithinLimit, ErrorReportedOnce

-----------------------------------------------------------------------------
(* One lemma per action: each preserves the invariant. *)

\* A buffer appended at the end of the stream keeps the stream contiguous and
\* the gate exact: only the caller that finds the gate open arms.
LEMMA EnqueueAcceptIInv ==
  ASSUME NEW n \in Sizes, IInv, EnqueueAccept(n) PROVE IInv'
<1> USE DEF IInv
<1>1. n \in Nat
  BY SizesAssumption
<1> DEFINE b == [off |-> accepted_bytes, size |-> n]
<1>2. b \in Buffers /\ queue \in Seq(Buffers)
  BY <1>1 DEF QueueTypeOK, Buffers
<1>3. queue' = Append(queue, b)
  BY DEF EnqueueAccept
<1>4. /\ queue' \in Seq(Buffers)
      /\ Len(queue') = Len(queue) + 1
      /\ DOMAIN queue = 1..Len(queue)
      /\ DOMAIN queue' = 1..Len(queue) + 1
      /\ Len(queue) \in Nat
      /\ \A i \in 1..Len(queue) : queue'[i] = queue[i]
      /\ queue'[Len(queue) + 1] = b
  BY <1>2, <1>3
<1>5. b.off = accepted_bytes /\ b.size = n
  OBVIOUS
<1> HIDE DEF b
<1>6. QueueTypeOK'
  <2>1. writing' \in BOOLEAN /\ active' \in BOOLEAN
    BY DEF EnqueueAccept, QueueTypeOK, GateOpen
  <2>2. arming' \in Nat
    BY DEF EnqueueAccept, QueueTypeOK, GateOpen
  <2>3. /\ UNCHANGED <<max_queued_bytes, policy, outstanding, on_error_calls>>
        /\ queued_bytes' \in Nat /\ accepted_bytes' \in Nat
        /\ started_bytes' \in Nat
    BY <1>1 DEF EnqueueAccept, QueueTypeOK, params
  <2>4. QED
    BY <1>4, <2>1, <2>2, <2>3 DEF QueueTypeOK
<1>7. AtMostOneWrite' /\ GateExact' /\ NoLostWakeup'
  BY DEF EnqueueAccept, QueueTypeOK, AtMostOneWrite, GateExact, NoLostWakeup, GateOpen
<1>8. WithinStream'
  <2>1. accepted_bytes' = accepted_bytes + n
    BY DEF EnqueueAccept
  <2>2. \A i \in 1..Len(queue) : queue[i].off \in Nat /\ queue[i].size \in Nat
    BY BuffersTyped DEF QueueTypeOK
  <2>3. QED
    BY <1>1, <1>4, <1>5, <2>1, <2>2 DEF WithinStream, QueueTypeOK
<1>9. StreamContiguous'
  <2>1. /\ active /\ active' = active
        /\ accepted_bytes' = accepted_bytes + n
        /\ started_bytes' = started_bytes
        /\ queued_bytes' = queued_bytes + n
    BY DEF EnqueueAccept
  <2>2. accepted_bytes' = started_bytes' + queued_bytes'
    BY <1>1, <2>1 DEF StreamContiguous, QueueTypeOK
  <2>3. ASSUME NEW i \in DOMAIN queue'
        PROVE  queue'[i].off + queue'[i].size =
                 IF i = Len(queue') THEN accepted_bytes' ELSE queue'[i + 1].off
    <3>1. CASE i = Len(queue) + 1
      BY <1>4, <1>5, <2>1, <3>1
    <3>2. CASE i = Len(queue) /\ i \in 1..Len(queue)
      BY <1>4, <1>5, <2>1, <3>2 DEF StreamContiguous
    <3>3. CASE i \in 1..(Len(queue) - 1)
      BY <1>4, <2>1, <3>3 DEF StreamContiguous
    <3>4. QED
      BY <1>4, <3>1, <3>2, <3>3
  <2>4. queue'[1].off = started_bytes'
    <3>1. CASE queue = <<>>
      <4>1. Len(queue) = 0
        BY <3>1
      <4>2. started_bytes = accepted_bytes
        BY <2>1, <3>1 DEF StreamContiguous
      <4>3. QED
        BY <1>4, <1>5, <2>1, <4>1, <4>2
    <3>2. CASE queue # <<>>
      <4>1. Len(queue) > 0
        BY <1>2, <3>2, EmptySeq
      <4>2. QED
        BY <1>4, <2>1, <3>2, <4>1 DEF StreamContiguous
    <3>3. QED
      BY <3>1, <3>2
  <2>5. queue' # <<>>
    BY <1>4
  <2>6. QED
    BY <2>1, <2>2, <2>3, <2>4, <2>5 DEF StreamContiguous
<1>10. WithinLimit' /\ ErrorReportedOnce'
  BY <1>1, SizesAssumption
     DEF EnqueueAccept, QueueTypeOK, WithinLimit, ErrorReportedOnce, Overflows, params
<1>11. QED
  BY <1>6, <1>7, <1>8, <1>9, <1>10

\* Closing on overflow only turns the queue off: what is queued stays.
LEMMA EnqueueOverflowCloseIInv ==
  ASSUME NEW n \in Sizes, IInv, EnqueueOverflowClose(n) PROVE IInv'
<1> USE DEF IInv
<1>1. QueueTypeOK'
  <2>1. on_error_calls' \in Nat
    BY DEF EnqueueOverflowClose, QueueTypeOK
  <2>2. QED
    BY <2>1 DEF EnqueueOverflowClose, QueueTypeOK, params
<1>2. /\ AtMostOneWrite' /\ GateExact' /\ NoLostWakeup' /\ StreamContiguous'
      /\ WithinStream' /\ WithinLimit' /\ ErrorReportedOnce'
  BY DEF EnqueueOverflowClose, QueueTypeOK, AtMostOneWrite, GateExact, NoLostWakeup,
         StreamContiguous, WithinStream, WithinLimit, ErrorReportedOnce
<1>3. QED
  BY <1>1, <1>2

\* shutdown() empties and deactivates the queue; a write in flight goes on.
LEMMA ShutdownIInv == ASSUME IInv, Shutdown PROVE IInv'
<1> USE DEF IInv
<1>1. queue' = <<>> /\ queue' \in Seq(Buffers) /\ DOMAIN queue' = {}
  BY DEF Shutdown
<1>2. QueueTypeOK'
  BY <1>1 DEF Shutdown, QueueTypeOK, params
<1>3. /\ AtMostOneWrite' /\ GateExact' /\ NoLostWakeup' /\ StreamContiguous'
      /\ WithinStream' /\ WithinLimit' /\ ErrorReportedOnce'
  BY <1>1 DEF Shutdown, QueueTypeOK, AtMostOneWrite, GateExact, NoLostWakeup,
         StreamContiguous, WithinStream, WithinLimit, ErrorReportedOnce
<1>4. QED
  BY <1>2, <1>3

\* Taking the first buffer: the thread stops arming and a write is outstanding,
\* the stream loses its first buffer and the counter that buffer's size.
LEMMA ArmWriteTakesIInv == ASSUME IInv, ArmWrite, MayWrite PROVE IInv'
<1> USE DEF IInv
<1>1. /\ active /\ queue # <<>> /\ queue \in Seq(Buffers)
      /\ queue' = Tail(queue)
  BY DEF ArmWrite, MayWrite, QueueTypeOK
<1>2. Len(queue) \in Nat /\ Len(queue) > 0
  BY <1>1, EmptySeq
<1>3. /\ queue' \in Seq(Buffers)
      /\ Len(queue') = Len(queue) - 1
      /\ DOMAIN queue = 1..Len(queue)
      /\ DOMAIN queue' = 1..Len(queue')
      /\ \A i \in 1..(Len(queue) - 1) : queue'[i] = queue[i + 1]
      /\ Head(queue) = queue[1]
  BY <1>1, <1>2
<1>4. \A i \in 1..Len(queue) : queue[i].off \in Nat /\ queue[i].size \in Nat
  BY <1>1, BuffersTyped
<1>5. /\ active' = active
      /\ accepted_bytes' = accepted_bytes
      /\ started_bytes' = started_bytes + queue[1].size
      /\ queued_bytes' = queued_bytes - queue[1].size
      /\ writing' = writing
      /\ arming' = arming - 1
      /\ outstanding' = outstanding + 1
      /\ arming > 0
      /\ UNCHANGED <<max_queued_bytes, policy, on_error_calls>>
  BY <1>3 DEF ArmWrite, MayWrite, params
<1>6. started_bytes = queue[1].off
  BY <1>1 DEF StreamContiguous
<1>7. queue[1].off + queue[1].size <= accepted_bytes
  BY <1>2, <1>3 DEF WithinStream
<1>8. queue[1].size \in Nat /\ queue[1].off \in Nat
  BY <1>2, <1>4
<1>9. queued_bytes' \in Nat /\ queued_bytes' <= queued_bytes
  <2>1. accepted_bytes = started_bytes + queued_bytes
    BY <1>1 DEF StreamContiguous
  <2>2. queued_bytes \in Nat /\ accepted_bytes \in Nat /\ started_bytes \in Nat
    BY DEF QueueTypeOK
  <2>3. queue[1].size <= queued_bytes
    BY <1>6, <1>7, <1>8, <2>1, <2>2
  <2>4. QED
    BY <1>5, <1>8, <2>2, <2>3
<1>10. QueueTypeOK'
  BY <1>3, <1>5, <1>8, <1>9 DEF QueueTypeOK
<1>11. AtMostOneWrite' /\ GateExact' /\ NoLostWakeup'
  BY <1>5 DEF QueueTypeOK, AtMostOneWrite, GateExact, NoLostWakeup
<1>12. WithinStream'
  <2>1. SUFFICES ASSUME NEW i \in DOMAIN queue'
                 PROVE  queue'[i].off + queue'[i].size <= accepted_bytes'
    BY DEF WithinStream
  <2>2. i + 1 \in DOMAIN queue /\ queue'[i] = queue[i + 1]
    BY <1>2, <1>3
  <2>3. QED
    BY <1>5, <2>2 DEF WithinStream
<1>13. WithinLimit' /\ ErrorReportedOnce'
  BY <1>5, <1>9, SizesAssumption DEF WithinLimit, ErrorReportedOnce, QueueTypeOK
<1>14. StreamContiguous'
  <2>1. accepted_bytes' = started_bytes' + queued_bytes'
    BY <1>1, <1>5, <1>8 DEF StreamContiguous, QueueTypeOK
  <2>2. ASSUME NEW i \in DOMAIN queue'
        PROVE  queue'[i].off + queue'[i].size =
                 IF i = Len(queue') THEN accepted_bytes' ELSE queue'[i + 1].off
    <3>1. i \in 1..(Len(queue) - 1) /\ i + 1 \in 1..Len(queue)
      BY <1>2, <1>3
    <3>2. queue[i + 1].off + queue[i + 1].size =
            IF i + 1 = Len(queue) THEN accepted_bytes ELSE queue[i + 2].off
      BY <1>1, <1>3, <3>1 DEF StreamContiguous
    <3>3. CASE i = Len(queue')
      BY <1>2, <1>3, <1>5, <3>1, <3>2, <3>3
    <3>4. CASE i # Len(queue')
      <4>1. i + 1 \in 1..(Len(queue) - 1) /\ i + 1 # Len(queue)
        BY <1>2, <1>3, <3>1, <3>4
      <4>2. queue'[i + 1] = queue[i + 2] /\ queue'[i] = queue[i + 1]
        BY <1>2, <1>3, <3>1, <4>1
      <4>3. QED
        BY <3>2, <3>4, <4>1, <4>2
    <3>5. QED
      BY <3>3, <3>4
  <2>3. started_bytes' = IF queue' = <<>> THEN accepted_bytes' ELSE queue'[1].off
    <3>1. queue[1].off + queue[1].size =
            IF 1 = Len(queue) THEN accepted_bytes ELSE queue[2].off
      BY <1>1, <1>2, <1>3 DEF StreamContiguous
    <3>2. CASE Len(queue) = 1
      BY <1>3, <1>5, <1>6, <3>1, <3>2, EmptySeq
    <3>3. CASE Len(queue) # 1
      BY <1>2, <1>3, <1>5, <1>6, <3>1, <3>3, EmptySeq
    <3>4. QED
      BY <3>2, <3>3
  <2>4. QED
    BY <2>1, <2>2, <2>3 DEF StreamContiguous
<1>15. QED
  BY <1>10, <1>11, <1>12, <1>13, <1>14

\* Finding nothing to write: the thread gives the gate back.
LEMMA ArmWriteIdleIInv == ASSUME IInv, ArmWrite, ~MayWrite PROVE IInv'
<1> USE DEF IInv
<1>1. /\ UNCHANGED <<max_queued_bytes, policy, queue, queued_bytes, active,
                    outstanding, on_error_calls, accepted_bytes, started_bytes>>
      /\ writing' = FALSE /\ arming' = arming - 1 /\ arming > 0
  BY DEF ArmWrite, params
<1>2. QueueTypeOK'
  <2>1. arming' \in Nat
    BY <1>1 DEF QueueTypeOK
  <2>2. QED
    BY <1>1, <2>1 DEF QueueTypeOK
<1>3. AtMostOneWrite' /\ GateExact' /\ NoLostWakeup'
  BY <1>1 DEF QueueTypeOK, AtMostOneWrite, GateExact, NoLostWakeup, MayWrite
<1>4. StreamContiguous' /\ WithinStream' /\ WithinLimit' /\ ErrorReportedOnce'
  BY <1>1 DEF StreamContiguous, WithinStream, WithinLimit, ErrorReportedOnce
<1>5. QED
  BY <1>2, <1>3, <1>4

\* A failed write turns the queue off and is reported only if it was on.
LEMMA WriteFailedIInv == ASSUME IInv, WriteFailed PROVE IInv'
<1> USE DEF IInv
<1>1. /\ UNCHANGED <<max_queued_bytes, policy, queue, queued_bytes, arming,
                    accepted_bytes, started_bytes>>
      /\ writing' = FALSE /\ active' = FALSE
      /\ outstanding > 0 /\ outstanding' = outstanding - 1
      /\ on_error_calls' = on_error_calls + (IF active THEN 1 ELSE 0)
  BY DEF WriteFailed, ReportOnce, params
<1>2. on_error_calls' \in Nat /\ on_error_calls' <= 1
  BY <1>1 DEF ErrorReportedOnce, QueueTypeOK
<1>3. QueueTypeOK'
  <2>1. outstanding' \in Nat
    BY <1>1 DEF QueueTypeOK
  <2>2. QED
    BY <1>1, <1>2, <2>1 DEF QueueTypeOK
<1>4. /\ AtMostOneWrite' /\ GateExact' /\ NoLostWakeup' /\ StreamContiguous'
      /\ WithinStream' /\ WithinLimit' /\ ErrorReportedOnce'
  BY <1>1, <1>2 DEF QueueTypeOK, AtMostOneWrite, GateExact, NoLostWakeup,
     StreamContiguous, WithinStream, WithinLimit, ErrorReportedOnce
<1>5. QED
  BY <1>3, <1>4

\* A completed write passes its turn to the next arm, or closes the gate.
LEMMA WriteDoneIInv == ASSUME IInv, WriteDone PROVE IInv'
<1> USE DEF IInv
<1>1. /\ UNCHANGED <<max_queued_bytes, policy, queue, queued_bytes, active,
                    on_error_calls, accepted_bytes, started_bytes>>
      /\ outstanding > 0 /\ outstanding' = outstanding - 1
      /\ IF active /\ queue # <<>>
           THEN arming' = arming + 1 /\ writing' = writing
           ELSE writing' = FALSE /\ arming' = arming
  BY DEF WriteDone, params
<1>2. QueueTypeOK'
  <2>1. outstanding' \in Nat /\ arming' \in Nat
    BY <1>1 DEF QueueTypeOK
  <2>2. writing' \in BOOLEAN
    BY <1>1 DEF QueueTypeOK
  <2>3. QED
    BY <1>1, <2>1, <2>2 DEF QueueTypeOK
<1>3. AtMostOneWrite' /\ GateExact' /\ NoLostWakeup'
  BY <1>1 DEF QueueTypeOK, AtMostOneWrite, GateExact, NoLostWakeup
<1>4. StreamContiguous' /\ WithinStream' /\ WithinLimit' /\ ErrorReportedOnce'
  BY <1>1 DEF StreamContiguous, WithinStream, WithinLimit, ErrorReportedOnce
<1>5. QED
  BY <1>2, <1>3, <1>4

-----------------------------------------------------------------------------
(* The invariant holds in every reachable state *)

\* Every step, stuttering included, preserves the invariant.
LEMMA NextIInv == IInv /\ [QueueNext]_queuevars => IInv'
<1> SUFFICES ASSUME IInv, [QueueNext]_queuevars PROVE IInv'
  OBVIOUS
<1>1. ASSUME NEW n \in Sizes, EnqueueAccept(n) PROVE IInv'
  BY <1>1, EnqueueAcceptIInv
<1>2. ASSUME NEW n \in Sizes, EnqueueOverflowClose(n) PROVE IInv'
  BY <1>2, EnqueueOverflowCloseIInv
<1>3. CASE Shutdown
  BY <1>3, ShutdownIInv
<1>4. CASE ArmWrite
  BY <1>4, ArmWriteTakesIInv, ArmWriteIdleIInv
<1>5. CASE WriteFailed
  BY <1>5, WriteFailedIInv
<1>6. CASE WriteDone
  BY <1>6, WriteDoneIInv
<1>7. CASE UNCHANGED queuevars
  BY <1>7 DEF queuevars, IInv, QueueTypeOK, AtMostOneWrite, GateExact, NoLostWakeup,
     StreamContiguous, WithinStream, WithinLimit, ErrorReportedOnce
<1>8. QED
  BY <1>1, <1>2, <1>3, <1>4, <1>5, <1>6, <1>7 DEF QueueNext

\* The inductive invariant is an invariant of the specification.
THEOREM Invariance == QueueSpec => []IInv
<1>1. QED
  BY InitIInv, NextIInv, PTL DEF QueueSpec

\* Type correctness; with it, queued_bytes_ never wraps.
THEOREM TypeCorrect == QueueSpec => []QueueTypeOK
<1>1. IInv => QueueTypeOK
  BY DEF IInv
<1>2. QED
  BY <1>1, Invariance, PTL

\* There is never more than one outstanding write per descriptor.
THEOREM SingleWriter == QueueSpec => []AtMostOneWrite
<1>1. IInv => AtMostOneWrite
  BY DEF IInv
<1>2. QED
  BY <1>1, Invariance, PTL

\* A waiting buffer of an active queue always has somebody who will write it.
THEOREM WakeupNeverLost == QueueSpec => []NoLostWakeup
<1>1. IInv => NoLostWakeup
  BY DEF IInv
<1>2. QED
  BY <1>1, Invariance, PTL

\* A live queue with something to write has exactly one writer.
THEOREM AlwaysOneWriter == QueueSpec => []OneWriter
<1>1. AtMostOneWrite /\ NoLostWakeup => OneWriter
  BY DEF OneWriter
<1>2. QED
  BY <1>1, SingleWriter, WakeupNeverLost, PTL

\* The queued buffers are exactly the accepted bytes not yet started, in order,
\* and queued_bytes_ is their total.
THEOREM StreamIsContiguous == QueueSpec => []StreamContiguous
<1>1. IInv => StreamContiguous
  BY DEF IInv
<1>2. QED
  BY <1>1, Invariance, PTL

\* on_error_ runs at most once.
THEOREM SingleErrorReport == QueueSpec => []ErrorReportedOnce
<1>1. IInv => ErrorReportedOnce
  BY DEF IInv
<1>2. QED
  BY <1>1, Invariance, PTL

-----------------------------------------------------------------------------
(* The queue implements ByteSink *)

\* An accepted buffer fits the capacity of the sink.
LEMMA EnqueueAcceptSink ==
  ASSUME NEW n \in Sizes, IInv, EnqueueAccept(n) PROVE Sink!Next
<1>1. n \in Nat /\ max_queued_bytes \in Nat
  BY SizesAssumption DEF IInv, QueueTypeOK
<1>2. queued_bytes \in Nat /\ accepted_bytes \in Nat /\ started_bytes \in Nat
  BY DEF IInv, QueueTypeOK
<1>3. /\ active /\ ~Overflows(n)
      /\ accepted_bytes' = accepted_bytes + n
      /\ UNCHANGED <<max_queued_bytes, started_bytes, active>>
  BY DEF EnqueueAccept, params
<1>4. accepted_bytes = started_bytes + queued_bytes
  BY <1>3 DEF IInv, StreamContiguous
<1>5. max_queued_bytes = 0 \/ accepted_bytes' - started_bytes <= max_queued_bytes
  BY <1>1, <1>2, <1>3, <1>4 DEF Overflows
<1>6. accepted_bytes' \in Nat /\ accepted_bytes' >= accepted_bytes
  BY <1>1, <1>2, <1>3
<1>7. Sink!Accept
  BY <1>3, <1>5, <1>6 DEF Sink!Accept
<1>8. QED
  BY <1>7 DEF Sink!Next

\* Taking a buffer advances the started prefix inside the accepted stream.
LEMMA ArmWriteSink == ASSUME IInv, ArmWrite PROVE [Sink!Next]_(Sink!vars)
<1>1. CASE MayWrite
  <2>1. active /\ queue # <<>> /\ queue \in Seq(Buffers)
    BY <1>1 DEF MayWrite, IInv, QueueTypeOK
  <2>2. 1 \in DOMAIN queue /\ Len(queue) > 0 /\ Head(queue) = queue[1]
    BY <2>1, EmptySeq
  <2>3. queue[1].size \in Nat
    BY <2>1, <2>2, BuffersTyped
  <2>4. /\ started_bytes = queue[1].off
        /\ queue[1].off + queue[1].size <= accepted_bytes
    BY <2>1, <2>2 DEF IInv, StreamContiguous, WithinStream
  <2>5. /\ started_bytes' = started_bytes + queue[1].size
        /\ UNCHANGED <<max_queued_bytes, accepted_bytes, active>>
    BY <1>1, <2>2 DEF ArmWrite, params
  <2>6. started_bytes \in Nat
    BY DEF IInv, QueueTypeOK
  <2>7. /\ started_bytes' \in Nat
        /\ started_bytes <= started_bytes' /\ started_bytes' <= accepted_bytes
    BY <2>3, <2>4, <2>5, <2>6
  <2>8. Sink!Start
    BY <2>1, <2>5, <2>7 DEF Sink!Start
  <2>9. QED
    BY <2>8 DEF Sink!Next
<1>2. CASE ~MayWrite
  BY <1>2 DEF ArmWrite, params, Sink!vars
<1>3. QED
  BY <1>1, <1>2

\* Turning the queue off closes the sink, or stutters if it was off already.
LEMMA DeactivateSink ==
  ASSUME IInv, active' = FALSE,
         UNCHANGED <<max_queued_bytes, accepted_bytes, started_bytes>>
  PROVE  [Sink!Next]_(Sink!vars)
<1>1. CASE active
  BY <1>1 DEF Sink!Close, Sink!Next
<1>2. CASE ~active
  <2>1. active = FALSE
    BY <1>2 DEF IInv, QueueTypeOK
  <2>2. QED
    BY <2>1 DEF Sink!vars
<1>3. QED
  BY <1>1, <1>2

\* Every step of the queue is a step of ByteSink or leaves the sink unchanged.
LEMMA StepSink == IInv /\ [QueueNext]_queuevars => [Sink!Next]_(Sink!vars)
<1> SUFFICES ASSUME IInv, [QueueNext]_queuevars PROVE [Sink!Next]_(Sink!vars)
  OBVIOUS
<1>1. ASSUME NEW n \in Sizes, EnqueueAccept(n) PROVE [Sink!Next]_(Sink!vars)
  BY <1>1, EnqueueAcceptSink
<1>2. ASSUME NEW n \in Sizes, EnqueueOverflowClose(n)
      PROVE  [Sink!Next]_(Sink!vars)
  BY <1>2, DeactivateSink DEF EnqueueOverflowClose, params
<1>3. CASE Shutdown
  BY <1>3, DeactivateSink DEF Shutdown, params
<1>4. CASE ArmWrite
  BY <1>4, ArmWriteSink
<1>5. CASE WriteFailed
  BY <1>5, DeactivateSink DEF WriteFailed, params
<1>6. CASE WriteDone
  BY <1>6 DEF WriteDone, params, Sink!vars
<1>7. CASE UNCHANGED queuevars
  BY <1>7 DEF queuevars, Sink!vars
<1>8. QED
  BY <1>1, <1>2, <1>3, <1>4, <1>5, <1>6, <1>7 DEF QueueNext

\* AsyncWriteQueue implements ByteSink: stream order, the byte limit, and
\* silence after the queue is closed.
THEOREM Refinement == QueueSpec => ImplementsByteSink
<1>1. QueueInit => Sink!Init
  BY SizesAssumption DEF QueueInit, Sink!Init
<1>2. QED
  BY <1>1, StepSink, Invariance, PTL DEF QueueSpec, ImplementsByteSink, Sink!Spec

=============================================================================
