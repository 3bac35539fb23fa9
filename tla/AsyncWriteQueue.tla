-------------------------- MODULE AsyncWriteQueue --------------------------
(***************************************************************************)
(* cppmcp::AsyncWriteQueue, the write path every socket and pipe transport *)
(* shares.  Any thread may call enqueue() or shutdown(); completions run   *)
(* on io threads.  Each critical section of `mutex_` is one step.  What a  *)
(* thread does after it unlocks is a later step: a thread that has decided *)
(* to call arm_write() is counted in `arming` until arm_write() takes the  *)
(* lock, and a buffer that left the queue is counted in `outstanding`      *)
(* until its completion takes the lock.  So every interleaving of the      *)
(* unlocked windows is a behaviour.                                        *)
(*                                                                         *)
(* A buffer is abstracted to its size and its place in the byte stream.    *)
(* The two stream lengths are history variables.  An enqueue() that        *)
(* returns false without touching the queue is a stuttering step.          *)
(***************************************************************************)
EXTENDS Integers, Sequences

CONSTANTS
  Sizes,        \* sizes of the buffers callers enqueue
  MaxChoices,   \* values of the constructor's max_queued_bytes (0 = unbounded)
  MaxStream     \* bound: total bytes accepted over a behaviour

ASSUME SizesAssumption ==
  /\ Sizes \subseteq Nat
  /\ MaxChoices \subseteq Nat
  /\ MaxStream \in Nat

VARIABLES
  max_queued_bytes, \* constructor argument
  policy,           \* constructor argument: a QueueOverflowPolicy
  queue,            \* queue_: sequence of [off, size]
  queued_bytes,     \* queued_bytes_
  writing,          \* writing_
  active,           \* active_
  arming,           \* threads between their decision to arm and arm_write's lock
  outstanding,      \* buffers given to do_write_ whose completion has not run
  on_error_calls,   \* calls of on_error_
  accepted_bytes,   \* history: bytes enqueue() returned true for
  started_bytes     \* history: bytes given to do_write_

params == <<max_queued_bytes, policy>>
queuevars == <<max_queued_bytes, policy, queue, queued_bytes, writing, active, arming,
          outstanding, on_error_calls, accepted_bytes, started_bytes>>

Policies == {"DropNewest", "CloseOnError"}
Buffers == [off : Nat, size : Nat]

QueueInit ==
  /\ max_queued_bytes \in MaxChoices
  /\ policy \in Policies
  /\ queue = <<>>
  /\ queued_bytes = 0
  /\ writing = FALSE
  /\ active = TRUE
  /\ arming = 0
  /\ outstanding = 0
  /\ on_error_calls = 0
  /\ accepted_bytes = 0
  /\ started_bytes = 0

-----------------------------------------------------------------------------
(* Faulty variants of definitions below, one per plausible mistake; used     *)
(* only to show that the properties notice them.                             *)

GateAlwaysOpen == TRUE             \* arm without looking at writing_
GateNeverOpen == FALSE             \* never arm from enqueue()
MayWriteInactive == queue # <<>>   \* arm_write without its active_ test
ReportAlways == 1                  \* on_error_ without the was_active test

-----------------------------------------------------------------------------
(* enqueue() *)

\* The new buffer would push the queued bytes past the limit.
Overflows(n) == max_queued_bytes > 0 /\ queued_bytes + n > max_queued_bytes

\* Nobody writes or is about to: this caller must arm.
GateOpen == ~writing

EnqueueAccept(n) ==
  /\ active
  /\ ~Overflows(n)
  /\ accepted_bytes + n <= MaxStream
  /\ queue' = Append(queue, [off |-> accepted_bytes, size |-> n])
  /\ queued_bytes' = queued_bytes + n
  /\ accepted_bytes' = accepted_bytes + n
  /\ IF GateOpen
       THEN writing' = TRUE /\ arming' = arming + 1
       ELSE UNCHANGED <<writing, arming>>
  /\ UNCHANGED <<params, active, outstanding, on_error_calls, started_bytes>>

\* Overflow under CloseOnError: the queue dies and on_error_ runs.
EnqueueOverflowClose(n) ==
  /\ active
  /\ Overflows(n)
  /\ policy = "CloseOnError"
  /\ active' = FALSE
  /\ writing' = FALSE
  /\ on_error_calls' = on_error_calls + 1
  /\ UNCHANGED <<params, queue, queued_bytes, arming, outstanding,
                 accepted_bytes, started_bytes>>

-----------------------------------------------------------------------------
(* shutdown() *)

Shutdown ==
  /\ active' = FALSE
  /\ queued_bytes' = 0
  /\ queue' = <<>>
  /\ UNCHANGED <<params, writing, arming, outstanding, on_error_calls,
                 accepted_bytes, started_bytes>>

-----------------------------------------------------------------------------
(* arm_write() *)

\* arm_write's test under the lock: there is something it may write.
MayWrite == active /\ queue # <<>>

ArmWrite ==
  /\ arming > 0
  /\ arming' = arming - 1
  /\ IF MayWrite
       THEN /\ queue' = Tail(queue)
            /\ queued_bytes' = queued_bytes - Head(queue).size
            /\ started_bytes' = started_bytes + Head(queue).size
            /\ outstanding' = outstanding + 1
            /\ UNCHANGED writing
       ELSE /\ writing' = FALSE
            /\ UNCHANGED <<queue, queued_bytes, outstanding, started_bytes>>
  /\ UNCHANGED <<params, active, on_error_calls, accepted_bytes>>

-----------------------------------------------------------------------------
(* on_write_complete(ec) *)

\* on_error_ runs only for the caller that turned the queue inactive.
ReportOnce == IF active THEN 1 ELSE 0

WriteFailed ==
  /\ outstanding > 0
  /\ outstanding' = outstanding - 1
  /\ active' = FALSE
  /\ writing' = FALSE
  /\ on_error_calls' = on_error_calls + ReportOnce
  /\ UNCHANGED <<params, queue, queued_bytes, arming, accepted_bytes, started_bytes>>

WriteDone ==
  /\ outstanding > 0
  /\ outstanding' = outstanding - 1
  /\ IF active /\ queue # <<>>
       THEN arming' = arming + 1 /\ UNCHANGED writing
       ELSE writing' = FALSE /\ UNCHANGED arming
  /\ UNCHANGED <<params, queue, queued_bytes, active, on_error_calls,
                 accepted_bytes, started_bytes>>

-----------------------------------------------------------------------------

QueueNext ==
  \/ \E n \in Sizes : EnqueueAccept(n) \/ EnqueueOverflowClose(n)
  \/ Shutdown
  \/ ArmWrite
  \/ WriteFailed
  \/ WriteDone

QueueSpec == QueueInit /\ [][QueueNext]_queuevars

\* A thread that has decided to arm does so, and asio runs the completion of
\* every write it was given (the peer reads, or the descriptor fails).
QueueFairness ==
  /\ WF_queuevars(ArmWrite)
  /\ WF_queuevars(WriteDone \/ WriteFailed)

QueueFairSpec == QueueSpec /\ QueueFairness

-----------------------------------------------------------------------------
(* Properties *)

\* Every variable stays in its range; in particular the unsigned counter
\* queued_bytes_ never wraps below zero.
QueueTypeOK ==
  /\ max_queued_bytes \in MaxChoices
  /\ policy \in Policies
  /\ queue \in Seq(Buffers)
  /\ queued_bytes \in Nat
  /\ writing \in BOOLEAN
  /\ active \in BOOLEAN
  /\ arming \in Nat
  /\ outstanding \in Nat
  /\ on_error_calls \in Nat
  /\ accepted_bytes \in Nat
  /\ started_bytes \in Nat

\* "Guarantees at most ONE outstanding write per descriptor": the writes in
\* flight and the threads on their way to start one never exceed one, whatever
\* the interleaving of enqueue, completion, overflow and shutdown.
AtMostOneWrite == arming + outstanding <= 1

\* No lost wakeup: while the queue is alive, a waiting buffer has somebody who
\* will write it (a thread about to arm, or a completion still to run).
NoLostWakeup == active /\ queue # <<>> => arming + outstanding > 0

\* A live queue with something to write has exactly one writer, in flight or on
\* its way, whatever enqueue and on_write_complete decide at the same time.
OneWriter == AtMostOneWrite /\ NoLostWakeup

\* The queued buffers are exactly the accepted bytes not yet handed to the
\* descriptor, in order and without a gap, and queued_bytes_ is their total.
StreamContiguous ==
  active =>
    /\ accepted_bytes = started_bytes + queued_bytes
    /\ \A i \in DOMAIN queue :
         queue[i].off + queue[i].size =
           IF i = Len(queue) THEN accepted_bytes ELSE queue[i + 1].off
    /\ started_bytes = IF queue = <<>> THEN accepted_bytes ELSE queue[1].off

\* on_error_ (which tears the connection down) runs at most once per queue,
\* even when an overflow closes it while a write that will fail is in flight.
ErrorReportedOnce == on_error_calls <= 1 /\ (active => on_error_calls = 0)

\* The queue implements its contract (see ByteSink): the stream handed to the
\* descriptor is a prefix of the stream accepted, the backlog respects
\* max_queued_bytes, and a queue that was shut down, overflowed or failed
\* starts no further write and accepts no further buffer.
Sink == INSTANCE ByteSink WITH
          capacity <- max_queued_bytes, accepted <- accepted_bytes,
          started <- started_bytes, open <- active
ImplementsByteSink == Sink!Spec

\* Every accepted byte is eventually handed to the descriptor unless the queue
\* is closed first.
AcceptedIsWritten ==
  \A k \in 1..MaxStream :
    (accepted_bytes >= k) ~> (started_bytes >= k \/ ~active)

=============================================================================
