-------------------------- MODULE ServerSessions --------------------------
(***************************************************************************)
(* What McpServer keeps per client session, and the requests it sends to   *)
(* clients: capabilities recorded at initialize, resource subscriptions    *)
(* and their notifications, and the table of outbound requests             *)
(* (request_sampling, request_elicitation and request_roots run the same   *)
(* code).  Application threads, io threads and the thread in stop() run    *)
(* concurrently; each critical section of `outbound_mutex_` or of          *)
(* `handlers_mutex_`, and each hand-over to the transport, is one step.    *)
(*                                                                         *)
(* Clients and transport are external: a client initializes, answers a     *)
(* request it received with a result or an error, also twice (a repeated   *)
(* POST), or goes away.  Messages are abstracted to the id they carry, and *)
(* the server advertises subscriptions.                                    *)
(***************************************************************************)
EXTENDS Integers

CONSTANTS
  Clients,     \* session ids of the clients; {NoSession} on stdio and pipes
  NoSession,   \* the empty session id
  Uris,        \* resources
  MaxId        \* bound: requests the server sends

Ids == 1..MaxId
Sessions == Clients \cup {NoSession}

ASSUME SessionAssumption == MaxId \in Nat

VARIABLES
  runs,             \* running_; stopping_ is its opposite once run() has begun
  hooked,           \* the transport's message handler is set
  initialized,      \* initialized_
  client_hellos,    \* client_hellos_: none, plain, or capable (declared it)
  subscribed,       \* subscribed_resources_
  outgoing,         \* updates on their way to the transport: <<uri, session>>
  next_id,          \* next_outbound_id_
  stage,            \* a request: free, admitted, registered, sent, failed
  addressee,        \* the session a request is for
  outbound_pending, \* outbound_pending_: ids
  calls,            \* on_result and on_error calls of a request
  alive,            \* sessions the transport knows
  wire,             \* requests that their client has received
  inbox,            \* responses in the hands of io threads: <<id, step>>
  stop_at,          \* stop(): idle, begun, detached, done
  answered,         \* history: requests that their client has answered
  unmatched,        \* history: ids of responses that found no entry
  unaware           \* history: <<session, uri>> still to learn of an update

table == <<next_id, stage, addressee, outbound_pending, calls>>
hellos == <<initialized, client_hellos>>
updates == <<subscribed, outgoing, unaware>>
link == <<alive, wire, inbox>>
history == <<answered, unmatched>>
sessionvars == <<runs, hooked, hellos, updates, table, link, stop_at, history>>

SessionsInit ==
  /\ runs = TRUE
  /\ hooked = TRUE
  /\ initialized = FALSE
  /\ client_hellos = [s \in Sessions |-> "none"]
  /\ subscribed = [s \in Sessions |-> {}]
  /\ outgoing = {}
  /\ next_id = 1
  /\ stage = [i \in Ids |-> "free"]
  /\ addressee = [i \in Ids |-> NoSession]
  /\ outbound_pending = {}
  /\ calls = [i \in Ids |-> 0]
  /\ alive = Clients \cap {NoSession}
  /\ wire = {}
  /\ inbox = {}
  /\ stop_at = "idle"
  /\ answered = {}
  /\ unmatched = {}
  /\ unaware = {}

-----------------------------------------------------------------------------
(* Faulty variants of definitions below; used only to show that the         *)
(* properties notice them.                                                   *)

\* complete_server_request that leaves its entry in the table.
CompleteKeepsEntry(i) ==
  IF i \in outbound_pending
    THEN /\ calls' = [calls EXCEPT ![i] = @ + 1]
         /\ UNCHANGED <<outbound_pending, unmatched>>
    ELSE /\ unmatched' = unmatched \cup {i}
         /\ UNCHANGED <<outbound_pending, calls>>

\* The entry is made after the request was sent.
RegisteredAtSend(i) == outbound_pending

\* Only one of the sessions that subscribed is told.
UpdateTargetsOne(u) ==
  LET targets == {s \in Sessions : u \in subscribed[s]}
  IN  IF targets = {} THEN {NoSession} ELSE {CHOOSE s \in targets : TRUE}

-----------------------------------------------------------------------------
(* initialize *)

\* handle_initialize: what the client declares is recorded.  Over HTTP every
\* initialize makes a session, which the transport drops again when the
\* application's handler rejects the client; stdio clients may repeat it.
HandleInitialize(s, hello, accepted) ==
  /\ hooked
  /\ IF s = NoSession THEN s \in alive ELSE client_hellos[s] = "none"
  /\ client_hellos' = [client_hellos EXCEPT ![s] = hello]
  /\ alive' = IF accepted THEN alive \cup {s} ELSE alive
  /\ UNCHANGED <<runs, hooked, initialized, updates, table, wire, inbox,
                 stop_at, history>>

\* notifications/initialized: the gate opens for every session.
NotifInitialized(s) ==
  /\ hooked /\ s \in alive
  /\ initialized' = TRUE
  /\ UNCHANGED <<runs, hooked, client_hellos, updates, table, link, stop_at,
                 history>>

-----------------------------------------------------------------------------
(* Subscriptions *)

ResourcesSubscribe(s, u) ==
  /\ hooked /\ s \in alive /\ initialized
  /\ subscribed' = [subscribed EXCEPT ![s] = @ \cup {u}]
  /\ UNCHANGED <<runs, hooked, hellos, outgoing, unaware, table, link, stop_at,
                 history>>

ResourcesUnsubscribe(s, u) ==
  /\ hooked /\ s \in alive /\ initialized
  /\ subscribed' = [subscribed EXCEPT ![s] = @ \ {u}]
  /\ unaware' = unaware \ {<<s, u>>}
  /\ UNCHANGED <<runs, hooked, hellos, outgoing, table, link, stop_at, history>>

\* Whom notify_resources_updated sends to: the subscribers of the resource or,
\* if it has none, the empty session, which stands for a broadcast.
UpdateTargets(u) ==
  LET targets == {s \in Sessions : u \in subscribed[s]}
  IN  IF targets = {} THEN {NoSession} ELSE targets

\* notify_resources_updated collects its targets under the lock.
NotifyResourcesUpdated(u) ==
  /\ outgoing' = outgoing \cup {<<u, s>> : s \in UpdateTargets(u)}
  /\ unaware' = unaware \cup {<<s, u>> : s \in {c \in alive : u \in subscribed[c]}}
  /\ UNCHANGED <<runs, hooked, hellos, subscribed, table, link, stop_at, history>>

\* send_notification: nothing once stop() has begun; to everyone for the empty
\* session, to the session otherwise.
SendNotification(u, s) ==
  LET receivers == IF ~runs THEN {}
                   ELSE IF s = NoSession THEN alive ELSE {s} \cap alive
  IN  /\ <<u, s>> \in outgoing
      /\ outgoing' = outgoing \ {<<u, s>>}
      /\ unaware' = unaware \ {<<r, u>> : r \in receivers}
      /\ UNCHANGED <<runs, hooked, hellos, subscribed, table, link, stop_at,
                     history>>

-----------------------------------------------------------------------------
(* Requests to a client *)

\* request_sampling and its likes: may session s be asked?
CapabilityGate(s) ==
  IF s = NoSession THEN client_hellos[s] # "plain" ELSE client_hellos[s] = "capable"

NextId == next_id + 1

\* The capability and running_ tests are passed and an id is drawn.
RequestAdmitted(s) ==
  /\ next_id \in Ids
  /\ CapabilityGate(s)
  /\ runs
  /\ next_id' = NextId
  /\ stage' = [stage EXCEPT ![next_id] = "admitted"]
  /\ addressee' = [addressee EXCEPT ![next_id] = s]
  /\ UNCHANGED <<runs, hooked, hellos, updates, outbound_pending, calls, link,
                 stop_at, history>>

\* The table once request i is registered, before it is sent.
Registered(i) == outbound_pending \cup {i}

SendServerRequest(i) ==
  /\ stage[i] = "admitted"
  /\ stage' = [stage EXCEPT ![i] = "registered"]
  /\ outbound_pending' = Registered(i)
  /\ UNCHANGED <<runs, hooked, hellos, updates, next_id, addressee, calls, link,
                 stop_at, history>>

\* The transport takes the request; a session that is gone does not get it.
TransportSends(i) ==
  /\ stage[i] = "registered"
  /\ stage' = [stage EXCEPT ![i] = "sent"]
  /\ wire' = IF addressee[i] \in alive THEN wire \cup {i} ELSE wire
  /\ UNCHANGED <<runs, hooked, hellos, updates, next_id, addressee,
                 outbound_pending, calls, alive, inbox, stop_at, history>>

\* The table after a request that could not be sent was withdrawn.
Withdrawn(i) == outbound_pending \ {i}

\* The transport throws: the entry is removed and the caller gets false.
TransportThrows(i) ==
  /\ stage[i] = "registered"
  /\ stage' = [stage EXCEPT ![i] = "failed"]
  /\ outbound_pending' = Withdrawn(i)
  /\ UNCHANGED <<runs, hooked, hellos, updates, next_id, addressee, calls, link,
                 stop_at, history>>

-----------------------------------------------------------------------------
(* Clients (external), and what the HTTP transport does with their answers *)

\* An answer reaches an io thread and the server's message handler: any result,
\* and an error on stdio or a pipe, or in an HTTP batch.
ClientAnswers(i, step) ==
  /\ i \in wire /\ addressee[i] \in alive
  /\ hooked
  /\ inbox' = inbox \cup {<<i, step>>}
  /\ answered' = answered \cup {i}
  /\ UNCHANGED <<runs, hooked, hellos, updates, table, alive, wire, stop_at,
                 unmatched>>

\* HttpTransport::handle_post answers an error response itself.
HandlePostError(i) ==
  /\ i \in wire /\ addressee[i] \in alive
  /\ addressee[i] # NoSession
  /\ answered' = answered \cup {i}
  /\ UNCHANGED <<runs, hooked, hellos, updates, table, link, stop_at, unmatched>>

ClientLeaves(s) ==
  /\ s \in alive
  /\ alive' = alive \ {s}
  /\ UNCHANGED <<runs, hooked, hellos, updates, table, wire, inbox, stop_at,
                 history>>

-----------------------------------------------------------------------------
(* Responses *)

\* complete_server_request: the entry leaves the table and its callback runs.
CompleteServerRequest(i) ==
  IF i \in outbound_pending
    THEN /\ outbound_pending' = outbound_pending \ {i}
         /\ calls' = [calls EXCEPT ![i] = @ + 1]
         /\ UNCHANGED unmatched
    ELSE /\ unmatched' = unmatched \cup {i}
         /\ UNCHANGED <<outbound_pending, calls>>

OnClientResponse(i) ==
  /\ <<i, "result">> \in inbox
  /\ inbox' = inbox \ {<<i, "result">>}
  /\ CompleteServerRequest(i)
  /\ UNCHANGED <<runs, hooked, hellos, updates, next_id, stage, addressee, alive,
                 wire, stop_at, answered>>

\* on_message of an error response: is it an answer to a request of ours?  One
\* that is not is echoed to the client.
ErrorResponseLookup(i) ==
  /\ <<i, "error">> \in inbox
  /\ IF i \in outbound_pending
       THEN /\ inbox' = (inbox \ {<<i, "error">>}) \cup {<<i, "matched">>}
            /\ UNCHANGED unmatched
       ELSE /\ inbox' = inbox \ {<<i, "error">>}
            /\ unmatched' = unmatched \cup {i}
  /\ UNCHANGED <<runs, hooked, hellos, updates, table, alive, wire, stop_at,
                 answered>>

OnClientErrorResponse(i) ==
  /\ <<i, "matched">> \in inbox
  /\ inbox' = inbox \ {<<i, "matched">>}
  /\ CompleteServerRequest(i)
  /\ UNCHANGED <<runs, hooked, hellos, updates, next_id, stage, addressee, alive,
                 wire, stop_at, answered>>

-----------------------------------------------------------------------------
(* stop(), as far as sessions see it *)

StopSetsFlags ==
  /\ stop_at = "idle"
  /\ runs' = FALSE
  /\ stop_at' = "begun"
  /\ UNCHANGED <<hooked, hellos, updates, table, link, history>>

\* The handlers are taken off the transport, and it closes every session.
StopDetach ==
  /\ stop_at = "begun"
  /\ hooked' = FALSE
  /\ alive' = {}
  /\ stop_at' = "detached"
  /\ UNCHANGED <<runs, hellos, updates, table, wire, inbox, history>>

StopClears ==
  /\ stop_at = "detached"
  /\ outbound_pending' = {}
  /\ stop_at' = "done"
  /\ UNCHANGED <<runs, hooked, hellos, updates, next_id, stage, addressee, calls,
                 link, history>>

-----------------------------------------------------------------------------

Session(s) ==
  \/ \E hello \in {"plain", "capable"}, accepted \in BOOLEAN :
       HandleInitialize(s, hello, accepted)
  \/ NotifInitialized(s)
  \/ \E u \in Uris : ResourcesSubscribe(s, u) \/ ResourcesUnsubscribe(s, u)
  \/ ClientLeaves(s)

Outbound(i) ==
  \/ SendServerRequest(i) \/ TransportSends(i) \/ TransportThrows(i)
  \/ \E step \in {"result", "error"} : ClientAnswers(i, step)
  \/ HandlePostError(i)
  \/ OnClientResponse(i) \/ ErrorResponseLookup(i) \/ OnClientErrorResponse(i)

SessionsNext ==
  \/ \E s \in Clients : Session(s)
  \/ \E u \in Uris : \/ NotifyResourcesUpdated(u)
                     \/ \E s \in Sessions : SendNotification(u, s)
  \/ \E s \in Sessions : RequestAdmitted(s)
  \/ \E i \in Ids : Outbound(i)
  \/ StopSetsFlags \/ StopDetach \/ StopClears

SessionsSpec == SessionsInit /\ [][SessionsNext]_sessionvars

\* Threads inside a call go on and io threads handle the responses they have.
\* Nothing is assumed of clients, and nobody is made to start a call.
SessionsFairness ==
  /\ \A i \in Ids :
       /\ WF_sessionvars(SendServerRequest(i))
       /\ WF_sessionvars(TransportSends(i) \/ TransportThrows(i))
       /\ WF_sessionvars(OnClientResponse(i))
       /\ WF_sessionvars(ErrorResponseLookup(i))
       /\ WF_sessionvars(OnClientErrorResponse(i))
  /\ WF_sessionvars(StopDetach) /\ WF_sessionvars(StopClears)

SessionsFairSpec == SessionsSpec /\ SessionsFairness

-----------------------------------------------------------------------------
(* Properties *)

\* Every variable stays in its range.
SessionsTypeOK ==
  /\ runs \in BOOLEAN /\ hooked \in BOOLEAN /\ initialized \in BOOLEAN
  /\ client_hellos \in [Sessions -> {"none", "plain", "capable"}]
  /\ subscribed \in [Sessions -> SUBSET Uris]
  /\ outgoing \in SUBSET (Uris \X Sessions)
  /\ next_id \in 1..(MaxId + 1)
  /\ stage \in [Ids -> {"free", "admitted", "registered", "sent", "failed"}]
  /\ addressee \in [Ids -> Sessions]
  /\ outbound_pending \in SUBSET Ids
  /\ calls \in [Ids -> Nat]
  /\ alive \in SUBSET Clients
  /\ wire \in SUBSET Ids
  /\ inbox \in SUBSET (Ids \X {"result", "error", "matched"})
  /\ stop_at \in {"idle", "begun", "detached", "done"}
  /\ answered \in SUBSET Ids
  /\ unmatched \in SUBSET Ids
  /\ unaware \in SUBSET (Sessions \X Uris)

\* The callback of a server request runs at most once, and never while the
\* request can still be completed, whatever results, errors and repetitions of
\* them arrive on however many io threads.
CallbackOnce ==
  \A i \in Ids : calls[i] <= 1 /\ (calls[i] = 1 => i \notin outbound_pending)

\* An answer is ignored or echoed as a stray only when the request was already
\* answered or stop() has given all requests up: no client is so quick that its
\* first answer finds no entry.
NoAnswerLost ==
  \A i \in unmatched : calls[i] = 1 \/ stop_at = "done"

\* send_server_request returned false: the request is not waited for, and no
\* callback has run or will.
FailedIsSilent ==
  \A i \in Ids : stage[i] = "failed" =>
    calls[i] = 0 /\ i \notin outbound_pending /\ i \notin wire

\* The callback of a server request runs for the first answer, for no other, and
\* never for a request that could not be sent.
CallbackExact == CallbackOnce /\ NoAnswerLost /\ FailedIsSilent

\* A session that was subscribed when notify_resources_updated looked, and has
\* neither unsubscribed nor left since, has been told or is about to be, unless
\* stop() has begun: notifications of several threads, subscriptions and
\* departures in between make nobody miss an update.
NoUpdateForgotten ==
  \A s \in Sessions, u \in Uris :
    <<s, u>> \in unaware /\ s \in alive /\ runs => <<u, s>> \in outgoing

\* An answer that the transport hands to the server leads to the callback of its
\* request, unless stop() is called: an error response that is looked up before
\* it is completed included.
DeliveredIsCalled ==
  \A i \in Ids :
    (\E step \in {"result", "error", "matched"} : <<i, step>> \in inbox)
      ~> (calls[i] = 1 \/ stop_at # "idle")

=============================================================================
