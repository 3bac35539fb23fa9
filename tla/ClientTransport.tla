-------------------------- MODULE ClientTransport --------------------------
(***************************************************************************)
(* The client transports: StdioClientTransport, LocalPipeClientTransport   *)
(* and HttpClientTransport.  The three share the structure of connect(),   *)
(* disconnect(), the read loop and the handlers; `kind` tells them apart.  *)
(* HttpClientTransport adds the session id and the GET stream.             *)
(*                                                                         *)
(* One application thread is in connect() (conn_pc), one in disconnect()   *)
(* (disc_pc), and one thread runs the io loop, whose queue of completions  *)
(* and posted tasks is `tasks`.  The operating system and the server are   *)
(* external.  Messages are not told apart: what matters is who hears them. *)
(***************************************************************************)
EXTENDS Integers, Sequences

CONSTANTS
  Kinds,     \* transports considered: "stdio", "pipe", "http"
  OneCaller, \* one thread in McpClient::connect(), again and again, whose handshake
             \* may fail and be rolled back; otherwise anyone calls anything
  MaxLinks,  \* bound: streams established
  MaxTasks,  \* bound: tasks queued when the application calls
  MaxGets    \* bound: GET streams begun

Links == 1..MaxLinks
Gets == 1..MaxGets

ASSUME ClientTransportAssumption ==
  /\ Kinds \subseteq {"stdio", "pipe", "http"}
  /\ OneCaller \in BOOLEAN /\ MaxLinks \in Nat /\ MaxTasks \in Nat /\ MaxGets \in Nat

VARIABLES
  kind,
  connected, stopping,  \* connected_, stopping_
  handlers,   \* the message, error and disconnect handlers are set
  link,       \* number of streams established; the last is the socket's
  open,       \* the socket (or pipe pair) is open
  peer,       \* the server is at the other end
  queue,      \* write_queue_: none, active, dead
  reads,      \* reads pending on the socket
  full,       \* read_buf_ holds more than max_line_size_; it is never emptied
  tasks,      \* io loop: <<"line" | "failed" | "notify" | "clear", link>>
  conn_pc,    \* idle, attached, claimed, dialing, dialed
  disc_pc,    \* idle, marked, closed
  told,       \* calls of the disconnect handler for a link
  session,    \* session_id_ is set
  sse_open,   \* sse_open_
  sse_socket, \* the GET whose socket sse_socket_ is; 0 is none
  gets,       \* the operation a GET waits for: none, resolve, connect, write, read
  crashed,    \* sse_socket_ was used when it was null
  overlap     \* history: connect() began before disconnect(), the loop or a write
              \* was done with the link before, or disconnect() during connect()

flags == <<connected, stopping>>
wire == <<link, open, peer, queue, reads>>
calls == <<conn_pc, disc_pc, overlap>>
sse == <<session, sse_open, sse_socket, gets, crashed>>
vars == <<kind, full, flags, handlers, wire, tasks, calls, told, sse>>

Init ==
  /\ kind \in Kinds
  /\ connected = FALSE /\ stopping = FALSE /\ handlers = FALSE
  /\ link = 0 /\ open = FALSE /\ peer = FALSE /\ queue = "none" /\ reads = 0
  /\ full = FALSE /\ tasks = <<>>
  /\ conn_pc = "idle" /\ disc_pc = "idle" /\ overlap = FALSE
  /\ told = [l \in Links |-> 0]
  /\ session = FALSE /\ sse_open = FALSE /\ sse_socket = 0
  /\ gets = [g \in Gets |-> "none"] /\ crashed = FALSE

\* The loop has nothing left to do for an earlier call.
Quiet == tasks = <<>> /\ \A g \in Gets : gets[g] = "none"

\* Completions of n reads that fail, as tasks.
Failed(n) == [i \in 1..n |-> <<"failed", link>>]

-----------------------------------------------------------------------------
(* Faulty variants of definitions below; used only to show that the         *)
(* properties notice them.                                                   *)

\* A completion is handed to the handlers, but no read is armed.
RearmedNever(again) == reads

\* The failed read tells the handler at once, and again through the loop.
LossTellsTwice(l) ==
  /\ told' = IF handlers THEN [told EXCEPT ![l] = @ + 1] ELSE told
  /\ tasks' = IF handlers THEN Append(Tail(tasks), <<"notify", l>>)
                          ELSE Tail(tasks)

\* A failed read only marks the transport.
LossSilent(l) == tasks' = Tail(tasks) /\ UNCHANGED told

\* start_sse_get without its guard.
MayGetAlways == ~stopping

-----------------------------------------------------------------------------
(* connect(), after McpClient::attach_transport_handlers *)

Attach ==
  /\ conn_pc = "idle" /\ Len(tasks) < MaxTasks /\ (OneCaller => disc_pc = "idle")
  /\ handlers' = TRUE
  /\ conn_pc' = "attached"
  /\ overlap' = (overlap \/ disc_pc # "idle" \/ ~Quiet)
  /\ UNCHANGED <<kind, full, flags, wire, tasks, disc_pc, told, sse>>

\* connected_.exchange(true): a second connect() returns at once.
Claim ==
  /\ conn_pc = "attached"
  /\ connected' = TRUE
  /\ conn_pc' = IF connected THEN "idle" ELSE "claimed"
  /\ UNCHANGED <<kind, full, stopping, handlers, wire, tasks, disc_pc, overlap, told,
                 sse>>

Begin ==
  /\ conn_pc = "claimed"
  /\ stopping' = FALSE
  /\ conn_pc' = "dialing"
  /\ UNCHANGED <<kind, full, connected, handlers, wire, tasks, disc_pc, overlap, told,
                 sse>>

\* The child cannot be spawned, the server not be reached; or, between two
\* attempts on a pipe, disconnect() is noticed.
DialFails ==
  /\ conn_pc = "dialing"
  /\ connected' = FALSE
  /\ conn_pc' = "idle"
  /\ UNCHANGED <<kind, full, stopping, handlers, wire, tasks, disc_pc, overlap, told,
                 sse>>

\* A new socket replaces the old one (the attempts before it change nothing).
Dial ==
  /\ conn_pc = "dialing" /\ link < MaxLinks
  /\ link' = link + 1 /\ open' = TRUE /\ peer' = TRUE
  /\ reads' = 0 /\ tasks' = tasks \o Failed(reads)
  /\ conn_pc' = "dialed"
  /\ overlap' = (overlap \/ ~Quiet \/ reads > 0)
  /\ UNCHANGED <<kind, full, flags, handlers, queue, disc_pc, told, sse>>

\* A new write queue, and do_read (a closed socket fails the read at once).
Arm ==
  /\ conn_pc = "dialed" /\ ~full
  /\ queue' = "active"
  /\ connected' = IF kind = "http" THEN TRUE ELSE connected
  /\ reads' = IF ~stopping /\ open THEN reads + 1 ELSE reads
  /\ tasks' = IF ~stopping /\ ~open THEN tasks \o Failed(1) ELSE tasks
  /\ conn_pc' = "idle"
  /\ UNCHANGED <<kind, full, stopping, handlers, link, open, peer, disc_pc, overlap,
                 told, sse>>

\* do_read finds more than max_line_size_ in the buffer and drops the connection;
\* before is what the loop has to do first.
Drop(before) ==
  /\ connected' = FALSE /\ stopping' = TRUE
  /\ queue' = "dead"
  /\ open' = FALSE /\ reads' = 0
  /\ tasks' = before \o Failed(reads)
                \o (IF handlers THEN <<<<"notify", link>>>> ELSE <<>>)

\* do_read in connect() looks at the buffer first, which a new link takes over
\* from the one before.
ArmOversized ==
  /\ conn_pc = "dialed" /\ full
  /\ Drop(tasks)
  /\ conn_pc' = "idle"
  /\ UNCHANGED <<kind, full, handlers, link, peer, disc_pc, overlap, told, sse>>

-----------------------------------------------------------------------------
(* disconnect(), called by the application, or by a connect() whose handshake *)
(* has failed and that is rolled back                                        *)

Mark ==
  /\ disc_pc = "idle" /\ Len(tasks) < MaxTasks
  /\ OneCaller => conn_pc = "idle" /\ open
  /\ stopping' = TRUE /\ connected' = FALSE
  /\ queue' = IF queue = "none" THEN "none" ELSE "dead"
  /\ disc_pc' = "marked"
  /\ overlap' = (overlap \/ conn_pc # "idle")
  /\ UNCHANGED <<kind, full, handlers, link, open, peer, reads, tasks, conn_pc, told,
                 sse>>

CloseSse == sse_open' = FALSE /\ sse_socket' = 0

\* The GET stream and the socket are closed, which fails the reads.
Close ==
  /\ disc_pc = "marked"
  /\ open' = FALSE /\ reads' = 0
  /\ tasks' = tasks \o Failed(reads)
  /\ CloseSse
  /\ disc_pc' = "closed"
  /\ UNCHANGED <<kind, full, flags, handlers, link, peer, queue, conn_pc, overlap,
                 told, session, gets, crashed>>

\* The session is forgotten (the child waited for), and the loop is asked to
\* clear the handlers, if there are any.
Forget ==
  /\ disc_pc = "closed"
  /\ session' = FALSE
  /\ tasks' = IF handlers THEN Append(tasks, <<"clear", link>>) ELSE tasks
  /\ disc_pc' = "idle"
  /\ UNCHANGED <<kind, full, flags, handlers, wire, conn_pc, overlap, told, sse_open,
                 sse_socket, gets, crashed>>

-----------------------------------------------------------------------------
(* The server *)

\* A message or an HTTP response arrives.
PeerSends ==
  /\ open /\ peer /\ reads > 0
  /\ Len(tasks) < MaxTasks
  /\ reads' = reads - 1
  /\ tasks' = Append(tasks, <<"line", link>>)
  /\ UNCHANGED <<kind, full, flags, handlers, link, open, peer, queue, calls, told, sse>>

\* The stream ends: EOF or reset.
PeerLeaves ==
  /\ open /\ peer /\ reads > 0
  /\ peer' = FALSE /\ reads' = 0
  /\ tasks' = tasks \o Failed(reads)
  /\ UNCHANGED <<kind, full, flags, handlers, link, open, queue, calls, told, sse>>

\* A write fails, also while the server still sends; StdioClientTransport takes
\* that as the end of the child, be it that of the link before.
WriteFails ==
  /\ queue = "active"
  /\ queue' = "dead"
  /\ connected' = IF kind = "stdio" THEN FALSE ELSE connected
  /\ tasks' = IF kind = "stdio" /\ handlers
              THEN Append(tasks, <<"notify", link>>) ELSE tasks
  /\ overlap' = (overlap \/ conn_pc = "dialed")
  /\ UNCHANGED <<kind, full, stopping, handlers, link, open, peer, reads, conn_pc,
                 disc_pc, told, sse>>

-----------------------------------------------------------------------------
(* The io loop *)

Running(what) == tasks # <<>> /\ Head(tasks)[1] = what

\* on_read with an error: the loop is asked to tell the disconnect handler.
LossTells(l) ==
  /\ tasks' = IF handlers THEN Append(Tail(tasks), <<"notify", l>>)
                          ELSE Tail(tasks)
  /\ UNCHANGED told

RunFailed ==
  /\ Running("failed")
  /\ connected' = FALSE
  /\ LossTells(Head(tasks)[2])
  /\ UNCHANGED <<kind, full, stopping, handlers, wire, calls, sse>>

RunNotify ==
  /\ Running("notify")
  /\ tasks' = Tail(tasks)
  /\ told' = IF handlers THEN [told EXCEPT ![Head(tasks)[2]] = @ + 1] ELSE told
  /\ UNCHANGED <<kind, full, flags, handlers, wire, calls, sse>>

RunClear ==
  /\ Running("clear")
  /\ tasks' = Tail(tasks)
  /\ handlers' = FALSE
  /\ UNCHANGED <<kind, full, flags, wire, calls, told, sse>>

\* The next read is for whatever socket there is now.
Rearmed(again) == IF again /\ open THEN reads + 1 ELSE reads

\* start_sse_get opens no second stream.
MayGet == ~sse_open /\ ~stopping

StartSseGet ==
  \E g \in Gets :
    /\ gets[g] = "none"
    /\ gets' = [gets EXCEPT ![g] = "resolve"]
    /\ sse_open' = TRUE /\ sse_socket' = g

\* on_read with a message: it is handed over, then do_read reads on.
RunLine ==
  /\ Running("line") /\ (full => stopping)
  /\ tasks' = IF ~stopping /\ ~open
              THEN Append(Tail(tasks), <<"failed", link>>) ELSE Tail(tasks)
  /\ reads' = Rearmed(~stopping)
  /\ UNCHANGED <<kind, full, flags, handlers, link, open, peer, queue, calls, told, sse>>

\* The same for an HTTP response with a session id, which also opens the GET
\* stream; one that is no success changes nothing more than a message does.
RunResponse ==
  /\ kind = "http" /\ Running("line")
  /\ tasks' = IF ~stopping /\ ~open
              THEN Append(Tail(tasks), <<"failed", link>>) ELSE Tail(tasks)
  /\ reads' = Rearmed(~stopping)
  /\ session' = TRUE
  /\ \/ ~MayGet /\ UNCHANGED <<sse_open, sse_socket, gets>>
     \/ MayGet /\ StartSseGet
  /\ UNCHANGED <<kind, full, flags, handlers, link, open, peer, queue, calls, told,
                 crashed>>

\* The same when more than max_line_size_ is left in the buffer.
RunOversized ==
  /\ kind # "http" /\ Running("line") /\ ~stopping
  /\ Drop(Tail(tasks))
  /\ full' = TRUE
  /\ UNCHANGED <<kind, handlers, link, peer, calls, told, sse>>

-----------------------------------------------------------------------------
(* The GET stream of HttpClientTransport: callbacks on the loop.  They use   *)
(* whatever socket there is when they run.                                   *)

GetEnds(g) == gets' = [gets EXCEPT ![g] = "none"]

\* The callbacks of async_resolve and async_connect.
GetProceeds(g, from, to) ==
  /\ gets[g] = from
  /\ \/ /\ sse_socket # 0
        /\ gets' = [gets EXCEPT ![g] = to]
        /\ UNCHANGED <<sse_open, sse_socket>>
     \/ /\ GetEnds(g)
        /\ sse_open' = FALSE /\ sse_socket' = 0
  /\ UNCHANGED <<kind, full, flags, handlers, wire, tasks, calls, told, session,
                 crashed>>

\* The callback of async_write does not look whether there is a socket.
GetWritten(g) ==
  /\ gets[g] = "write"
  /\ \/ /\ gets' = [gets EXCEPT ![g] = "read"]
        /\ crashed' = (sse_socket = 0)
        /\ UNCHANGED sse_open
     \/ /\ GetEnds(g)
        /\ sse_open' = FALSE
        /\ UNCHANGED crashed
  /\ UNCHANGED <<kind, full, flags, handlers, wire, tasks, calls, told, session,
                 sse_socket>>

\* on_sse_read that is the last: it finds the transport stopped or the stream
\* dead.  Handing frames over and reading on changes nothing here.
OnSseRead(g) ==
  /\ gets[g] = "read"
  /\ \/ /\ stopping \/ sse_socket = 0
        /\ GetEnds(g) /\ UNCHANGED sse_open
     \/ /\ GetEnds(g) /\ sse_open' = FALSE
  /\ UNCHANGED <<kind, full, flags, handlers, wire, tasks, calls, told, session,
                 sse_socket, crashed>>

-----------------------------------------------------------------------------
Loop ==
  \/ RunFailed \/ RunNotify \/ RunClear \/ RunLine \/ RunResponse \/ RunOversized

Next ==
  /\ ~crashed
  /\ \/ Attach \/ Claim \/ Begin \/ DialFails \/ Dial \/ Arm \/ ArmOversized
     \/ Mark \/ Close \/ Forget
     \/ PeerSends \/ PeerLeaves \/ WriteFails
     \/ Loop
     \/ \E g \in Gets :
          \/ GetProceeds(g, "resolve", "connect") \/ GetProceeds(g, "connect", "write")
          \/ GetWritten(g) \/ OnSseRead(g)

Spec == Init /\ [][Next]_vars

\* The loop runs what is queued, and a disconnect() that was called goes on.
Fairness == WF_vars(~crashed /\ Loop) /\ WF_vars(~crashed /\ (Close \/ Forget))

FairSpec == Spec /\ Fairness

-----------------------------------------------------------------------------
(* Properties *)

FlagsOK ==
  /\ connected \in BOOLEAN /\ stopping \in BOOLEAN /\ handlers \in BOOLEAN
  /\ open \in BOOLEAN /\ peer \in BOOLEAN /\ overlap \in BOOLEAN
  /\ full \in BOOLEAN /\ session \in BOOLEAN /\ sse_open \in BOOLEAN /\ crashed \in BOOLEAN
LinkOK ==
  /\ kind \in {"stdio", "pipe", "http"} /\ link \in 0..MaxLinks
  /\ queue \in {"none", "active", "dead"} /\ reads \in Nat
  /\ tasks \in Seq({"line", "failed", "notify", "clear"} \X (0..MaxLinks))
CallsOK ==
  /\ conn_pc \in {"idle", "attached", "claimed", "dialing", "dialed"}
  /\ disc_pc \in {"idle", "marked", "closed"}
  /\ told \in [Links -> Nat]
SseOK ==
  /\ sse_socket \in 0..MaxGets
  /\ gets \in [Gets -> {"none", "resolve", "connect", "write", "read"}]

\* Every variable stays in its range.
TypeOK == FlagsOK /\ LinkOK /\ CallsOK /\ SseOK

\* Completions of the reads that have not run yet.
Completions ==
  {i \in 1..Len(tasks) : tasks[i][1] \in {"line", "failed"}}

\* When a reconnect waits until the loop is done with the link before, a
\* transport that says it is connected is read, by one reader, and heard; and
\* the state is well-formed whatever the application does.
CleanLink ==
  /\ TypeOK
  /\ ~overlap =>
       /\ connected /\ conn_pc = "idle" =>
            open /\ handlers /\ (reads = 1 \/ Completions # {})
       /\ reads = 0 \/ (reads = 1 /\ Completions = {})
       /\ \A i, j \in Completions : i = j

\* What the comment on attach_transport_handlers is for: also after a reconnect,
\* messages of a connected transport reach the client.  With OneCaller, no call
\* overlaps another: the code breaks it when connect() is tried again after one
\* that was rolled back, before the loop has run what the rollback posted.
NeverDeaf == connected /\ conn_pc = "idle" => handlers

\* The client hears of the end of a link once (StdioClientTransport reports a
\* failed write and a failed read each).
ToldOnce ==
  ~overlap => \A l \in Links : told[l] <= IF kind = "stdio" THEN 2 ELSE 1

\* There is one GET stream, which a server's message can reach once: sse_open_
\* says so, and its socket is not used after it is gone unless disconnect()
\* interferes.
OneStream ==
  ~overlap =>
    /\ \A g, h \in Gets : gets[g] # "none" /\ gets[h] # "none" => g = h
    /\ sse_open /\ disc_pc = "idle" => \E g \in Gets : gets[g] # "none"
    /\ crashed => stopping

\* A server that goes away is noticed: the disconnect handler runs, unless the
\* application disconnects first.
LossReported ==
  \A l \in Links :
    (link = l /\ connected /\ ~peer /\ conn_pc = "idle" /\ reads = 0)
      ~> (told[l] > 0 \/ stopping \/ overlap \/ crashed)

=============================================================================
