----------------------------- MODULE SseFraming -----------------------------
(***************************************************************************)
(* Server-sent events: what HttpTransport writes, as HttpClientTransport   *)
(* decodes it, piece of text by piece of text.  In a GET stream a read may *)
(* end after any piece; a stream that dies is opened again, and            *)
(* disconnect() closes it for good.  The body of a POST's answer is        *)
(* decoded by the same handle_sse_frame, as a whole.                       *)
(*                                                                         *)
(* Frames are numbered, and the n-th carries the n-th message.  A piece is *)
(* a text and a number: <<"j1", n>> and <<"j2", n>> are the halves of the  *)
(* JSON of message n, other texts have the number 0.  on_sse_read reads    *)
(* the headers of the answer too, as lines.  Completions that race         *)
(* disconnect() are ClientTransport's.                                     *)
(***************************************************************************)
EXTENDS Integers, Sequences

CONSTANT MaxFrames  \* bound: frames of all streams

FramingAssumption == MaxFrames \in Nat \ {0}

VARIABLES
  mode,    \* "get", the stream, or "body", the answer to a POST
  frames,  \* what was written: "head", "endpoint" or "message", each
  pos,     \* pieces of the last frame that were read
  line,    \* what on_sse_read, in this read, has of a line
  data,    \* sse_data_, as its lines
  rest,    \* the lines that handle_sse_frame has still to look at
  out,     \* the messages handed over
  torn,    \* history: messages whose line a read did not get as a whole
  closed   \* history: frames up to the last disconnect()

vars == <<mode, frames, pos, line, data, rest, out, torn, closed>>

-----------------------------------------------------------------------------
(* What the server writes *)

Text(t) == <<t, 0>>
NL == Text("nl")
Json(n) == <<<<"j1", n>>, <<"j2", n>>>>

\* handle_get_sse: the headers and a comment.
Opening == <<Text("header"), NL, NL, Text("comment"), NL, NL>>

\* The event of handle_sse_connect.
Endpoint == <<Text("event:"), NL, Text("da"), Text("ta:"), Text("path"), NL, NL>>

\* A message of push_to_session_sse or push_to_all_sessions.
Message(n) == <<Text("da"), Text("ta:"), <<"j1", n>>, <<"j2", n>>, NL, NL>>

Pieces(kind, n) ==
  CASE kind = "head" -> Opening
    [] kind = "endpoint" -> Endpoint
    [] kind = "message" -> Message(n)

Current == Len(frames)
Frame == Pieces(frames[Current], Current)

Init ==
  /\ mode \in {"get", "body"}
  /\ frames = <<"head">> /\ pos = IF mode = "get" THEN 0 ELSE 6
  /\ line = <<>> /\ data = <<>> /\ rest = <<>> /\ out = <<>>
  /\ torn = {} /\ closed = 0

-----------------------------------------------------------------------------
(* Lines *)

IsData(l) == Len(l) >= 2 /\ l[1] = Text("da") /\ l[2] = Text("ta:")

Payload(l) == IF IsData(l) THEN [i \in 1..(Len(l) - 2) |-> l[i + 2]] ELSE l

\* A data line, put to sse_data_; an empty one alone leaves it empty.
WithData(d, l) == IF d = <<>> /\ Payload(l) = <<>> THEN d ELSE Append(d, Payload(l))

-----------------------------------------------------------------------------
(* Faulty variants, used only to show that the properties notice them.       *)

\* The data that was dispatched is not forgotten.
DispatchKeeps == rest' = data /\ UNCHANGED data

-----------------------------------------------------------------------------
(* What the client makes of it *)

Dispatch == rest' = data /\ data' = <<>>

\* A line of on_sse_read: blank, data, or one that is ignored.
OnLine(l) ==
  \/ l = <<>> /\ Dispatch
  \/ l # <<>> /\ IsData(l) /\ data' = WithData(data, l) /\ UNCHANGED rest
  \/ l # <<>> /\ ~IsData(l) /\ UNCHANGED <<data, rest>>

\* The end of a line; handle_sse_frame cuts a body into lines itself.
LineEnds(l) ==
  \/ mode = "get" /\ OnLine(l)
  \/ mode = "body" /\ rest' = <<l>> /\ UNCHANGED data

\* The server writes another frame.
Write(kind) ==
  /\ pos = Len(Frame) /\ rest = <<>> /\ Current < MaxFrames
  /\ frames' = Append(frames, kind) /\ pos' = 0
  /\ UNCHANGED <<mode, line, data, rest, out, torn, closed>>

\* The next piece.
Read ==
  /\ pos < Len(Frame) /\ rest = <<>>
  /\ pos' = pos + 1
  /\ \/ /\ Frame[pos + 1] = NL
        /\ line' = <<>> /\ LineEnds(line)
     \/ /\ Frame[pos + 1] # NL
        /\ line' = Append(line, Frame[pos + 1])
        /\ UNCHANGED <<data, rest>>
  /\ UNCHANGED <<mode, frames, out, torn, closed>>

\* on_sse_read has nothing more; what follows the last newline is taken for a
\* line.  A message is torn when its line was not there yet.
ReadEnds ==
  /\ mode = "get" /\ rest = <<>> /\ line # <<>>
  /\ line' = <<>> /\ OnLine(line)
  /\ torn' = torn \cup {n \in {Current} : frames[n] = "message" /\ pos < 4}
  /\ UNCHANGED <<mode, frames, pos, out, closed>>

\* handle_sse_frame, a line: what is JSON is handed over.
HandleLine ==
  /\ rest # <<>>
  /\ rest' = Tail(rest)
  /\ \/ \E n \in 1..Current : Payload(Head(rest)) = Json(n) /\ out' = Append(out, n)
     \/ /\ \A n \in 1..Current : Payload(Head(rest)) # Json(n)
        /\ UNCHANGED out
  /\ UNCHANGED <<mode, frames, pos, line, data, torn, closed>>

\* The GET stream is opened again after a read has failed, which leaves
\* sse_data_ alone, or after disconnect(), whose close_sse clears it.
Reopen ==
  /\ mode = "get" /\ rest = <<>> /\ line = <<>> /\ Current < MaxFrames
  /\ frames' = Append(frames, "head") /\ pos' = 0
  /\ UNCHANGED <<mode, line, rest, out>>

StreamDies ==
  /\ Reopen
  /\ torn' = torn \cup {n \in {Current} : frames[n] = "message" /\ pos < 4}
  /\ UNCHANGED <<data, closed>>

CloseSse ==
  /\ Reopen
  /\ data' = <<>> /\ closed' = Current /\ UNCHANGED torn

-----------------------------------------------------------------------------
Next ==
  \/ \E kind \in {"endpoint", "message"} : Write(kind)
  \/ Read \/ ReadEnds \/ HandleLine \/ StreamDies \/ CloseSse

Spec == Init /\ [][Next]_vars

-----------------------------------------------------------------------------
(* Properties *)

Texts == {Text(t) : t \in {"header", "comment", "event:", "da", "ta:", "path"}}
Halves == {<<h, n>> : h \in {"j1", "j2"}, n \in 1..MaxFrames}

\* Every variable stays in its range; sse_data_ never has more than one line.
TypeOK ==
  /\ mode \in {"get", "body"}
  /\ frames \in Seq({"head", "endpoint", "message"}) /\ Current \in 1..MaxFrames
  /\ pos \in 0..Len(Frame)
  /\ line \in Seq(Texts \cup Halves)
  /\ data \in Seq(Seq(Texts \cup Halves)) /\ Len(data) <= 1
  /\ rest \in Seq(Seq(Texts \cup Halves)) /\ Len(rest) <= 1
  /\ out \in Seq(1..Current) /\ torn \in SUBSET (1..Current) /\ closed \in 0..Current

\* A pushed message is lost only if a read, or the stream, ended inside its line,
\* and then it is: what was read is taken for the line.  Messages are handed over
\* once, in order, never mixed from two, and one whose stream ended before the
\* blank line is handed over when the next stream begins.  disconnect() may drop
\* what was not handed over yet.  The body of a POST's answer loses nothing.
StreamOK ==
  /\ TypeOK
  /\ \A i, j \in DOMAIN out : i < j => out[i] < out[j]
  /\ \A i \in DOMAIN out : frames[out[i]] = "message" /\ out[i] \notin torn
  /\ mode = "body" => torn = {} /\ closed = 0
  /\ pos = Len(Frame) /\ rest = <<>> =>
       \A n \in (closed + 1)..Current :
         frames[n] = "message" /\ n \notin torn => \E i \in DOMAIN out : out[i] = n

=============================================================================
