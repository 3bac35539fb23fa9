---------------------------- MODULE WireFormats ----------------------------
(***************************************************************************)
(* What travels between client and server: JSON-RPC messages (JsonRpc),    *)
(* and the event streams that carry them over HTTP (SseFraming), whose     *)
(* messages are numbers.  The parser of one does not look at the state of  *)
(* the other, and a behaviour is one of them.                              *)
(***************************************************************************)
EXTENDS Integers, Sequences

CONSTANTS
  IdLimit, Ints,  \* of JsonRpc
  MaxFrames       \* of SseFraming

VARIABLES
  format,   \* what is looked at: messages or events
  message,  \* JsonRpc's wire
  mode, frames, pos, line, data, rest, out, torn, closed

Rpc == INSTANCE JsonRpc WITH wire <- message
Sse == INSTANCE SseFraming

ASSUME WireAssumption == Rpc!JsonRpcAssumption /\ Sse!FramingAssumption

eventvars == <<mode, frames, pos, line, data, rest, out, torn, closed>>
wirevars  == <<format, message, eventvars>>

WireInit == format \in {"messages", "events"} /\ Rpc!Init /\ Sse!Init

WireNext ==
  \/ format = "messages" /\ Rpc!Next /\ UNCHANGED <<format, eventvars>>
  \/ format = "events" /\ Sse!Next /\ UNCHANGED <<format, message>>

WireSpec == WireInit /\ [][WireNext]_wirevars

-----------------------------------------------------------------------------
(* Properties *)

\* parse_message and parse_message_client take every valid JSON-RPC 2.0 message for
\* what it is, with its id if an int64_t holds it, and nothing else for a request,
\* a notification or a result but what Rpc!Lenient names; what
\* make_success_response, make_error_response, serialize_request and
\* serialize_notification make is valid and is what the peer takes it for.
MessagesOK == Rpc!MessagesOK

\* on_sse_read and handle_sse_frame lose a pushed message only if a read, or the
\* stream, ended inside its line, or disconnect() came first; they hand messages
\* over once, in order, never mixed from two, and a POST's body loses none.
StreamOK == Sse!StreamOK

=============================================================================
