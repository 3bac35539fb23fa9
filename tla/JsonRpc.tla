------------------------------ MODULE JsonRpc ------------------------------
(***************************************************************************)
(* What a JSON object is taken for: parse_message on the server,           *)
(* parse_message_client on the client, and the messages that both sides    *)
(* make.  A raw object is a record of what the parsers look at:            *)
(*   version : "jsonrpc" is "2.0"                                          *)
(*   id      : <<"absent">>, <<"null">>, <<"int", n>>, <<"str">>, <<"other">> *)
(*   method  : absent, string, other                                       *)
(*   params  : absent, null, structured, other                             *)
(*   result  : is there one                                                *)
(*   error   : absent, object (with a number code and a string message),   *)
(*             partial (one of the two is missing), odd (one of the two    *)
(*             has another type), other                                    *)
(***************************************************************************)
EXTENDS Integers

CONSTANTS
  IdLimit,  \* 2^63, the first integer beyond int64_t
  Ints      \* ids on the wire that are integers, as int64_t or uint64_t has them

JsonRpcAssumption ==
  IdLimit \in Nat \ {0} /\ Ints \subseteq (-IdLimit)..(2 * IdLimit - 1)

VARIABLE wire  \* the message that is looked at, and where it comes from

Null == <<"null">>

Raws ==
  [version : BOOLEAN,
   id : {<<"absent">>, Null, <<"str">>, <<"other">>} \cup {<<"int", n>> : n \in Ints},
   method : {"absent", "string", "other"},
   params : {"absent", "null", "structured", "other"},
   result : BOOLEAN,
   error : {"absent", "object", "partial", "odd", "other"}]

-----------------------------------------------------------------------------
(* Faulty variants, used only to show that the properties notice them.       *)

\* A null id is taken like any other.
RequestIdOkNull(id) == id[1] # "other"

-----------------------------------------------------------------------------
Error(id, code) == [kind |-> "error", id |-> id, code |-> code]

\* from_json of a RequestId; an unsigned number is narrowed to int64_t.
FromJson(id) ==
  IF id[1] = "int" /\ id[2] >= IdLimit THEN <<"int", id[2] - 2 * IdLimit>> ELSE id

\* request_id_from_json.
RequestIdOk(id) == id[1] \notin {"other", "null"}

ParamsOk(raw) == raw.params # "other"

\* A response, to the server: an error is left to the layer above.
ServerError(raw) == Error(FromJson(raw.id), "INVALID_REQUEST")

\* A response, to the client: code and message are read, have defaults, and may
\* throw.
ClientError(raw) ==
  CASE raw.error \in {"object", "partial"} -> Error(FromJson(raw.id), "given")
    [] raw.error = "odd" -> Error(Null, "PARSE_ERROR")
    [] OTHER -> Error(FromJson(raw.id), "INVALID_REQUEST")

\* The common shape of the two parsers; errorResponse is what a response without
\* a result is taken for.
Parse(raw, errorResponse) ==
  LET id == FromJson(raw.id) IN
  CASE ~raw.version -> Error(Null, "INVALID_REQUEST")
    [] raw.version /\ raw.id[1] # "absent" /\ raw.method # "absent" ->
         IF ~RequestIdOk(raw.id) THEN Error(Null, "INVALID_REQUEST")
         ELSE IF raw.method # "string" \/ ~ParamsOk(raw) THEN Error(id, "INVALID_REQUEST")
         ELSE [kind |-> "request", id |-> id, code |-> "none"]
    [] raw.version /\ raw.id[1] # "absent" /\ raw.method = "absent" ->
         IF raw.id[1] = "other" THEN Error(Null, "PARSE_ERROR")
         ELSE IF raw.result THEN [kind |-> "success", id |-> id, code |-> "none"]
         ELSE errorResponse
    [] raw.version /\ raw.id[1] = "absent" ->
         IF raw.method # "string" \/ ~ParamsOk(raw) THEN Error(Null, "INVALID_REQUEST")
         ELSE [kind |-> "notification", id |-> Null, code |-> "none"]

ParseMessage(raw) == Parse(raw, ServerError(raw))
ParseMessageClient(raw) == Parse(raw, ClientError(raw))

\* make_success_response, make_error_response, serialize_request and
\* serialize_notification; a RequestId, once read, is written with the type and
\* the value it has.
Make(kind, id, params) ==
  [version |-> TRUE,
   id      |-> IF kind = "notification" THEN <<"absent">> ELSE id,
   method  |-> IF kind \in {"request", "notification"} THEN "string" ELSE "absent",
   params  |-> IF kind \in {"request", "notification"} THEN params ELSE "absent",
   result  |-> kind = "success",
   error   |-> IF kind = "error" THEN "object" ELSE "absent"]

\* The values of RequestId: null, a string or what from_json makes of a number.
RequestIds ==
  {Null, <<"str">>} \cup {FromJson(<<"int", n>>) : n \in Ints}

-----------------------------------------------------------------------------
(* A behaviour puts one message on the wire, for either side to parse. *)

NoMessage == [from |-> "nobody"]

Init == wire = NoMessage

\* Whatever object a peer sends.
Arrives(raw) == wire = NoMessage /\ wire' = [from |-> "peer", raw |-> raw]

\* A message that this library makes; only an error may have no id to answer.
Made(kind, id, params) ==
  /\ wire = NoMessage
  /\ id = Null => kind = "error"
  /\ wire' = [from |-> "library", kind |-> kind, id |-> id, params |-> params]

Next ==
  \/ \E raw \in Raws : Arrives(raw)
  \/ \E kind \in {"request", "notification", "success", "error"}, id \in RequestIds,
        params \in {"absent", "structured"} : Made(kind, id, params)

Spec == Init /\ [][Next]_wire

-----------------------------------------------------------------------------
(* Properties of a raw object and of a message that is made *)

\* What an object is under JSON-RPC 2.0 with the ids of MCP, from the two
\* specifications and not from the parsers.  A request's id is a string or an
\* integer, never null.  "params" is absent or structured.  A response has no
\* method and exactly one of "result" and "error"; an error has a code and a
\* message, and its id is null if that of the request could not be read.
Structured(raw) == raw.params \in {"absent", "structured"}
OneOutcome(raw) == raw.result # (raw.error # "absent")

Class(raw) ==
  CASE raw.version /\ raw.method = "string" /\ Structured(raw)
         /\ raw.id[1] \in {"int", "str"} -> "request"
    [] raw.version /\ raw.method = "string" /\ Structured(raw)
         /\ raw.id[1] = "absent" -> "notification"
    [] raw.version /\ raw.method = "absent" /\ OneOutcome(raw) /\ raw.result
         /\ raw.id[1] \in {"int", "str"} -> "success"
    [] raw.version /\ raw.method = "absent" /\ OneOutcome(raw) /\ raw.error = "object"
         /\ raw.id[1] \in {"int", "str", "null"} -> "error"
    [] OTHER -> "invalid"

\* Where the parsers take more than that: params that are null count as none, a
\* result hides an error beside it, and a result may come without an id to answer.
NullParams(raw) == raw.method = "string" /\ raw.params = "null"
ResultAndError(raw) == raw.method = "absent" /\ raw.result /\ raw.error # "absent"
ResultForNobody(raw) == raw.method = "absent" /\ raw.result /\ raw.id = Null
Lenient(raw) == NullParams(raw) \/ ResultAndError(raw) \/ ResultForNobody(raw)

\* Either parser takes a valid message for what it is, and takes nothing else for a
\* request, a notification or a result, the three leniencies excepted.
ParsedAsClass(raw) ==
  \A parsed \in {ParseMessage(raw), ParseMessageClient(raw)} :
    /\ Class(raw) # "invalid" => parsed.kind = Class(raw)
    /\ parsed.kind # "error" /\ ~Lenient(raw) => parsed.kind = Class(raw)

InInt64(id) == id[1] = "int" => id[2] \in (-IdLimit)..(IdLimit - 1)

\* A request, and anything that may answer one, keeps its id on either side if an
\* int64_t holds it, save an error that the client cannot read.  A response with a
\* larger id is never taken for the answer to a request made here: its id becomes
\* negative, and those made here count up from 1.
KeepsId(raw) ==
  /\ Class(raw) = "request" /\ InInt64(raw.id) =>
       ParseMessage(raw).id = raw.id /\ ParseMessageClient(raw).id = raw.id
  /\ raw.version /\ raw.method = "absent" /\ raw.id[1] \in {"int", "str"} =>
       /\ InInt64(raw.id) => ParseMessage(raw).id = raw.id
       /\ InInt64(raw.id) /\ (raw.result \/ raw.error # "odd") =>
            ParseMessageClient(raw).id = raw.id
       /\ ~InInt64(raw.id) =>
            \A parsed \in {ParseMessage(raw), ParseMessageClient(raw)} :
              parsed.id = Null \/ parsed.id[2] < 0

\* What one side makes is a valid message of its kind, and the other side takes it
\* for that.
RoundTrip(kind, id, params) ==
  LET raw == Make(kind, id, params)
  IN  /\ Class(raw) = kind
      /\ \A parsed \in {ParseMessage(raw), ParseMessageClient(raw)} :
           parsed.kind = kind /\ parsed.id = IF kind = "notification" THEN Null ELSE id
      /\ kind = "error" => ParseMessageClient(raw).code = "given"

\* parse_message and parse_message_client take every valid JSON-RPC 2.0 message for
\* what it is, with its id if an int64_t holds it, and nothing else for a request,
\* a notification or a result but what Lenient names; what make_success_response,
\* make_error_response, serialize_request and serialize_notification make is valid
\* and is what the peer takes it for.
MessagesOK ==
  /\ wire.from = "peer" => ParsedAsClass(wire.raw) /\ KeepsId(wire.raw)
  /\ wire.from = "library" => RoundTrip(wire.kind, wire.id, wire.params)

=============================================================================
