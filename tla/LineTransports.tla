--------------------------- MODULE LineTransports ---------------------------
(***************************************************************************)
(* The server transports that carry one JSON message per line:             *)
(* StdioTransport, with its reader on the io loop and its writer thread,   *)
(* and LocalPipeTransport, with a connection per client.  Producers, io    *)
(* threads, the writer and the thread in stop() interleave; a critical     *)
(* section of `write_mutex_` or `connections_mutex_` is one step.          *)
(*                                                                         *)
(* The peers and the operating system are external.  A line is not looked  *)
(* into; a message written is a number with a size.  The write queue of a  *)
(* pipe is AsyncWriteQueue.                                                *)
(***************************************************************************)
EXTENDS Integers, Sequences, FiniteSets, SequencesExt

CONSTANTS
  Kinds,         \* transports considered: "stdio", "pipe"
  Modes,         \* PipeMode: "single", "multi"
  CloseOnError,  \* a pipe's queue has a limit and CloseOnError
  Size,          \* sizes of the messages written to stdout, in order
  MaxBytes,      \* max_queued_write_bytes_
  MaxConns       \* bound: connections of the pipe

Msgs == 1..Len(Size)
Conns == 1..MaxConns
Stdin == 1  \* stdin is the one connection of StdioTransport

ASSUME LineAssumption ==
  /\ Kinds \subseteq {"stdio", "pipe"} /\ Modes \subseteq {"single", "multi"}
  /\ CloseOnError \in BOOLEAN
  /\ Size \in Seq(Nat) /\ MaxBytes \in Nat /\ MaxConns \in Nat \ {0}

VARIABLES
  kind, mode,
  running,     \* running_
  stop_pc,     \* stop(): idle, begun, closed, done
  (* stdio *)
  next_msg,    \* the next message a producer sends
  write_queue, \* write_queue_
  bytes,       \* write_queue_bytes_
  stopping,    \* write_stopping_
  writer,      \* the writer thread: off, on, done
  in_fwrite,   \* the message in fwrite, as a sequence
  written,     \* history: what stdout got
  dropped,     \* history: messages dropped from the queue
  (* connections *)
  accepting,   \* do_accept is pending
  pc,          \* a connection: new, accepted, read, line, done
  conn_active, \* PipeConnection::active
  listed,      \* active_connections_
  open,        \* connections whose descriptor is open
  wedged,      \* a thread waits for connections_mutex_, which it holds
  late         \* history: accepts in progress when stop() emptied the list

output == <<next_msg, write_queue, bytes, stopping, writer, in_fwrite, written, dropped>>
input == <<accepting, pc, conn_active, listed, open, wedged, late>>
vars == <<kind, mode, running, stop_pc, output, input>>

Init ==
  /\ kind \in Kinds /\ mode \in Modes
  /\ running = FALSE /\ stop_pc = "idle"
  /\ next_msg = 1 /\ write_queue = <<>> /\ bytes = 0 /\ stopping = FALSE
  /\ writer = "off" /\ in_fwrite = <<>>
  /\ written = <<>> /\ dropped = {}
  /\ accepting = FALSE
  /\ pc = [c \in Conns |-> "new"] /\ conn_active = [c \in Conns |-> TRUE]
  /\ listed = {} /\ open = {} /\ wedged = FALSE /\ late = {}

\* The number of bytes of the messages in S, each message with its own bytes.
Bytes(S) == Cardinality(UNION {{m} \X (1..Size[m]) : m \in S})
QueuedBytes == Bytes(ToSet(write_queue))

-----------------------------------------------------------------------------
(* Faulty variants of definitions below; used only to show that the         *)
(* properties notice them.                                                   *)

\* The writer leaves as soon as it is asked to.
MayLeaveEarly == stopping

\* The count is reduced by a newline more than it was raised by.
ReleasedNewline(m) == bytes - (Size[m] + 1)

\* stop() forgets to wake the writer, which waits on an empty queue.
WokenNever == write_queue # <<>>

\* stop() empties the list and leaves the connections as they are.
ClosedNone == {}

-----------------------------------------------------------------------------
(* StdioTransport *)

\* start(): the writer thread and the first read.
StartStdio ==
  /\ kind = "stdio" /\ ~running /\ stop_pc = "idle" /\ writer = "off"
  /\ running' = TRUE
  /\ writer' = "on"
  /\ pc' = [pc EXCEPT ![Stdin] = "read"]
  /\ open' = {Stdin}
  /\ UNCHANGED <<kind, mode, stop_pc, next_msg, write_queue, bytes, stopping,
                 in_fwrite, written, dropped, accepting, conn_active,
                 listed, wedged, late>>

\* The queue without the oldest message; its bytes stay in the count.
Kept(q) == Tail(q)

\* send_message, from any thread; what is sent before start() waits for the writer.
Send ==
  /\ kind = "stdio" /\ next_msg \in Msgs /\ ~stopping
  /\ LET m == next_msg
         drops == bytes + Size[m] > MaxBytes /\ write_queue # <<>>
         kept == IF drops THEN Kept(write_queue) ELSE write_queue
     IN  /\ write_queue' = Append(kept, m)
         /\ dropped' = dropped \cup (ToSet(write_queue) \ ToSet(kept))
         /\ bytes' = bytes + Size[m]
  /\ next_msg' = next_msg + 1
  /\ UNCHANGED <<kind, mode, running, stop_pc, stopping, writer,
                 in_fwrite, written, input>>

\* The count without a message that the writer takes.
Released(m) == bytes - Size[m]

\* What the writer waits for.
Woken == stopping \/ write_queue # <<>>

\* What makes the writer leave.
MayLeave == stopping /\ write_queue = <<>>

\* write_loop takes the next message and unlocks.
WriterTakes ==
  /\ writer = "on" /\ in_fwrite = <<>> /\ Woken /\ ~MayLeave
  /\ in_fwrite' = <<Head(write_queue)>>
  /\ write_queue' = Tail(write_queue)
  /\ bytes' = Released(Head(write_queue))
  /\ UNCHANGED <<kind, mode, running, stop_pc, next_msg, stopping,
                 writer, written, dropped, input>>

\* fwrite returns: the parent has read enough, or is gone.
WriterWrites ==
  /\ in_fwrite # <<>>
  /\ written' = written \o in_fwrite
  /\ in_fwrite' = <<>>
  /\ UNCHANGED <<kind, mode, running, stop_pc, next_msg, write_queue, bytes,
                 stopping, writer, dropped, input>>

WriterLeaves ==
  /\ writer = "on" /\ in_fwrite = <<>> /\ Woken /\ MayLeave
  /\ writer' = "done"
  /\ UNCHANGED <<kind, mode, running, stop_pc, next_msg, write_queue, bytes,
                 stopping, in_fwrite, written, dropped, input>>

-----------------------------------------------------------------------------
(* LocalPipeTransport *)

\* start(); when binding fails, running_ is false again.
StartPipe ==
  /\ kind = "pipe" /\ ~running /\ stop_pc = "idle" /\ ~accepting
  /\ running' = TRUE /\ accepting' = TRUE
  /\ UNCHANGED <<kind, mode, stop_pc, output, pc, conn_active, listed,
                 open, wedged, late>>

\* do_accept up to the registration.
Accept(c) ==
  /\ accepting /\ running /\ pc[c] = "new"
  /\ pc' = [pc EXCEPT ![c] = "accepted"]
  /\ open' = open \cup {c}
  /\ accepting' = FALSE
  /\ UNCHANGED <<kind, mode, running, stop_pc, output, conn_active, listed,
                 wedged, late>>

\* do_accept: an error while stopping, or a connection that came too late.
AcceptNothing ==
  /\ accepting /\ ~running
  /\ accepting' = FALSE
  /\ UNCHANGED <<kind, mode, running, stop_pc, output, pc, conn_active,
                 listed, open, wedged, late>>

\* The connection is registered and read; the next accept, if there is one.
Register(c) ==
  /\ pc[c] = "accepted" /\ ~wedged
  /\ listed' = listed \cup {c}
  /\ pc' = [pc EXCEPT ![c] = "read"]
  /\ accepting' = (mode = "multi" /\ running)
  /\ UNCHANGED <<kind, mode, running, stop_pc, output, conn_active, open,
                 wedged, late>>

\* PipeConnection::on_error and unregister_connection; neither closes the socket,
\* and on_disconnect keeps the connection, hence the socket, alive.
OnError(c) ==
  /\ conn_active' = [conn_active EXCEPT ![c] = FALSE]
  /\ listed' = IF conn_active[c] /\ ~wedged THEN listed \ {c} ELSE listed

\* A write fails on some io thread.
WriteFails(c) ==
  /\ kind = "pipe" /\ pc[c] \in {"read", "line"} /\ conn_active[c]
  /\ OnError(c)
  /\ UNCHANGED <<kind, mode, running, stop_pc, output, accepting, pc,
                 open, wedged, late>>

\* send_message to all: a queue overflows and closes under the shared lock.
BroadcastOverflows(c) ==
  /\ CloseOnError /\ ~wedged /\ c \in listed /\ conn_active[c]
  /\ conn_active' = [conn_active EXCEPT ![c] = FALSE]
  /\ wedged' = TRUE
  /\ UNCHANGED <<kind, mode, running, stop_pc, output, accepting, pc,
                 listed, open, late>>

-----------------------------------------------------------------------------
(* Reading, in both *)

\* A line is complete; its handler waits for an io thread.
LineArrives(c) ==
  /\ pc[c] = "read" /\ c \in open
  /\ pc' = [pc EXCEPT ![c] = "line"]
  /\ UNCHANGED <<kind, mode, running, stop_pc, output, accepting,
                 conn_active, listed, open, wedged, late>>

Continues(c) == IF kind = "stdio" THEN running ELSE conn_active[c]

\* handle_line and the next read.
HandleLine(c) ==
  /\ pc[c] = "line"
  /\ pc' = [pc EXCEPT ![c] = IF Continues(c) THEN "read" ELSE "done"]
  /\ UNCHANGED <<kind, mode, running, stop_pc, output, accepting,
                 conn_active, listed, open, wedged, late>>

\* The stream ends or fails, or a line is too long.
ReadFails(c) ==
  /\ pc[c] \in {"read", "line"}
  /\ pc' = [pc EXCEPT ![c] = "done"]
  /\ IF kind = "pipe" THEN OnError(c) /\ UNCHANGED running
     ELSE running' = FALSE /\ UNCHANGED <<conn_active, listed>>
  /\ UNCHANGED <<kind, mode, stop_pc, output, accepting, open, wedged,
                 late>>

-----------------------------------------------------------------------------
(* stop(), which McpServer::stop calls; a closed stdin does so too *)

StopBegins ==
  /\ stop_pc = "idle"
  /\ running' = FALSE
  /\ stop_pc' = IF kind = "pipe" /\ ~running THEN "done" ELSE "begun"
  /\ UNCHANGED <<kind, mode, output, input>>

\* The connections that stop() closes.
Closed == listed

\* LocalPipeTransport::stop under the lock.
StopCloses ==
  /\ kind = "pipe" /\ stop_pc = "begun" /\ ~wedged
  /\ conn_active' = [c \in Conns |-> conn_active[c] /\ c \notin Closed]
  /\ listed' = {}
  /\ open' = open \ Closed
  /\ late' = {c \in Conns : pc[c] = "accepted"}
  /\ stop_pc' = "done"
  /\ UNCHANGED <<kind, mode, running, output, accepting, pc, wedged>>

\* StdioTransport::stop closes stdin and asks the writer to drain the queue and
\* leave.
StopAsksWriter ==
  /\ kind = "stdio" /\ stop_pc = "begun"
  /\ stopping' = (writer # "off")
  /\ open' = {}
  /\ stop_pc' = "closed"
  /\ UNCHANGED <<kind, mode, running, next_msg, write_queue, bytes, writer,
                 in_fwrite, written, dropped, accepting, pc,
                 conn_active, listed, wedged, late>>

\* The join returns.
StopJoins ==
  /\ stop_pc = "closed" /\ writer \in {"off", "done"}
  /\ stop_pc' = "done"
  /\ UNCHANGED <<kind, mode, running, output, input>>

-----------------------------------------------------------------------------
Next ==
  \/ StartStdio \/ Send \/ WriterTakes \/ WriterWrites \/ WriterLeaves
  \/ StartPipe \/ AcceptNothing
  \/ \E c \in Conns :
       \/ Accept(c) \/ Register(c) \/ WriteFails(c) \/ BroadcastOverflows(c)
       \/ LineArrives(c) \/ HandleLine(c) \/ ReadFails(c)
  \/ StopBegins \/ StopCloses \/ StopAsksWriter \/ StopJoins

Spec == Init /\ [][Next]_vars

\* The writer and stop() go on; fwrite returns, which is up to the parent.
Fairness ==
  /\ WF_vars(WriterTakes) /\ WF_vars(WriterWrites) /\ WF_vars(WriterLeaves)
  /\ WF_vars(StopCloses) /\ WF_vars(StopAsksWriter) /\ WF_vars(StopJoins)

FairSpec == Spec /\ Fairness

-----------------------------------------------------------------------------
(* Properties *)

\* Every variable stays in its range: the count of queued bytes never wraps.
TypeOK ==
  /\ kind \in {"stdio", "pipe"} /\ mode \in {"single", "multi"}
  /\ running \in BOOLEAN
  /\ stop_pc \in {"idle", "begun", "closed", "done"}
  /\ next_msg \in 1..(Len(Size) + 1)
  /\ write_queue \in Seq(Msgs) /\ bytes \in Nat /\ stopping \in BOOLEAN
  /\ writer \in {"off", "on", "done"} /\ in_fwrite \in Seq(Msgs)
  /\ written \in Seq(Msgs) /\ dropped \in SUBSET Msgs
  /\ accepting \in BOOLEAN /\ wedged \in BOOLEAN
  /\ pc \in [Conns -> {"new", "accepted", "read", "line", "done"}]
  /\ conn_active \in [Conns -> BOOLEAN]
  /\ listed \in SUBSET Conns /\ open \in SUBSET Conns /\ late \in SUBSET Conns

\* write_queue_bytes_ never wraps and never falls short of what is queued, whoever
\* queues, takes or drops: the limit is not overrun unnoticed.
BytesCoverQueue == bytes \in Nat /\ QueuedBytes <= bytes

\* The queue "drops the OLDEST message when full": a message is dropped only for
\* one that would take what is queued past the limit.  The code breaks it: the
\* bytes of a dropped message are never taken off the count.
DropsOnlyWhenFull ==
  [][dropped' # dropped => QueuedBytes + Size[next_msg] > MaxBytes]_vars

\* What was queued (the messages before next_msg) and not dropped reaches stdout
\* in the order it was queued, whoever queued it, and all of it before the stop()
\* of a started transport returns; what was dropped is older than anything queued.
StdoutInOrder ==
  LET out == written \o in_fwrite \o write_queue
  IN  /\ ToSet(out) = (1..(next_msg - 1)) \ dropped
      /\ \A i, j \in 1..Len(out) : i < j => out[i] < out[j]
      /\ \A d \in dropped, m \in ToSet(write_queue) : d < m
      /\ stop_pc = "done" /\ writer # "off" => written = out

\* After stop(), a pipe connection is live only if it was being accepted when
\* stop() emptied the list; a socket that is open otherwise belongs to a
\* connection that had failed before, and is leaked.
NoGhostConnection ==
  kind = "pipe" /\ stop_pc = "done" =>
    \A c \in open \ late : ~conn_active[c]

\* stop() returns once the parent reads what is queued, unless a broadcast has
\* wedged the list of connections.
StopReturns == stop_pc = "begun" ~> (stop_pc = "done" \/ wedged)

=============================================================================
