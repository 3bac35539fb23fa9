----------------------- MODULE ServerSessionsProofs -----------------------
(***************************************************************************)
(* Proofs about ServerSessions for every set of sessions and resources and *)
(* any number of requests.                                                 *)
(***************************************************************************)
EXTENDS ServerSessions, TLAPS

\* The ids that were drawn are the ones whose request has begun.
IdInv == \A i \in Ids : i >= next_id => stage[i] = "free"

\* Where a request can be, by its stage: the callback runs only for one that was
\* sent, and one that was sent waits in the table until its callback has run or
\* stop() has cleared the table.
StageInv ==
  \A i \in Ids :
    /\ stage[i] # "sent" => calls[i] = 0 /\ i \notin wire
    /\ stage[i] \in {"free", "admitted", "failed"} => i \notin outbound_pending
    /\ stage[i] \in {"registered", "sent"} =>
         i \in outbound_pending \/ calls[i] = 1 \/ stop_at = "done"

\* Only a request that was received is answered.
AnswerInv ==
  /\ \A i \in Ids, step \in {"result", "error", "matched"} :
       <<i, step>> \in inbox => i \in wire

\* A session was initialized before it is told anything.
SessionInv ==
  /\ \A s \in alive : s # NoSession => client_hellos[s] # "none"
  /\ \A s \in Sessions, u \in Uris :
       <<s, u>> \in unaware => s = NoSession \/ client_hellos[s] # "none"

TableInv == IdInv /\ StageInv /\ AnswerInv /\ CallbackOnce /\ NoAnswerLost

UpdateInv == SessionInv /\ NoUpdateForgotten

IInv == SessionsTypeOK /\ TableInv /\ UpdateInv

\* A server without sessions and requests satisfies the invariant.
LEMMA InitInv == SessionsInit => IInv
<1> SUFFICES ASSUME SessionsInit PROVE IInv
  OBVIOUS
<1>1. SessionsTypeOK
  <2>1. next_id \in 1..(MaxId + 1)
    BY SessionAssumption DEF SessionsInit
  <2>2. alive \in SUBSET Clients
    BY DEF SessionsInit
  <2>3. QED
    BY <2>1, <2>2 DEF SessionsInit, SessionsTypeOK, Sessions
<1>2. TableInv
  BY DEF SessionsInit, TableInv, IdInv, StageInv, AnswerInv, CallbackOnce, NoAnswerLost
<1>3. UpdateInv
  BY DEF SessionsInit, UpdateInv, SessionInv, NoUpdateForgotten
<1>4. QED
  BY <1>1, <1>2, <1>3 DEF IInv

\* initialize keeps the invariant: a session that is new is owed nothing.
LEMMA HandleInitializeInv ==
  ASSUME IInv, NEW s \in Clients, NEW hello \in {"plain", "capable"},
         NEW accepted \in BOOLEAN, HandleInitialize(s, hello, accepted)
  PROVE  IInv'
<1> USE DEF IInv
<1>1. SessionsTypeOK'
  BY SessionAssumption DEF SessionsTypeOK, HandleInitialize, hellos, updates, table, link,
     history, Ids, Sessions
<1>2. TableInv'
  BY SessionAssumption DEF TableInv, IdInv, StageInv, AnswerInv, CallbackOnce,
     NoAnswerLost, SessionsTypeOK, HandleInitialize, hellos, updates, table, link, history,
     Ids
<1>3. UpdateInv'
  BY DEF UpdateInv, SessionInv, NoUpdateForgotten, SessionsTypeOK, HandleInitialize, hellos,
     updates, table, link, history, Sessions
<1>4. QED
  BY <1>1, <1>2, <1>3

\* Opening the gate keeps the invariant.
LEMMA NotifInitializedInv ==
  ASSUME IInv, NEW s \in Clients, NotifInitialized(s)
  PROVE  IInv'
<1> USE DEF IInv
<1>1. SessionsTypeOK'
  BY SessionAssumption DEF SessionsTypeOK, NotifInitialized, hellos, updates, table, link,
     history, Ids, Sessions
<1>2. TableInv'
  BY SessionAssumption DEF TableInv, IdInv, StageInv, AnswerInv, CallbackOnce,
     NoAnswerLost, SessionsTypeOK, NotifInitialized, hellos, updates, table, link, history,
     Ids
<1>3. UpdateInv'
  BY DEF UpdateInv, SessionInv, NoUpdateForgotten, SessionsTypeOK, NotifInitialized, hellos,
     updates, table, link, history, Sessions
<1>4. QED
  BY <1>1, <1>2, <1>3

\* A subscription keeps the invariant.
LEMMA SubscribeInv ==
  ASSUME IInv, NEW s \in Clients, NEW u \in Uris, ResourcesSubscribe(s, u)
  PROVE  IInv'
<1> USE DEF IInv
<1>1. SessionsTypeOK'
  BY SessionAssumption DEF SessionsTypeOK, ResourcesSubscribe, hellos, updates, table, link,
     history, Ids, Sessions
<1>2. TableInv'
  BY SessionAssumption DEF TableInv, IdInv, StageInv, AnswerInv, CallbackOnce,
     NoAnswerLost, SessionsTypeOK, ResourcesSubscribe, hellos, updates, table, link, history,
     Ids
<1>3. UpdateInv'
  BY DEF UpdateInv, SessionInv, NoUpdateForgotten, SessionsTypeOK, ResourcesSubscribe,
     hellos, updates, table, link, history, Sessions
<1>4. QED
  BY <1>1, <1>2, <1>3

\* The end of a subscription keeps the invariant.
LEMMA UnsubscribeInv ==
  ASSUME IInv, NEW s \in Clients, NEW u \in Uris, ResourcesUnsubscribe(s, u)
  PROVE  IInv'
<1> USE DEF IInv
<1>1. SessionsTypeOK'
  BY SessionAssumption DEF SessionsTypeOK, ResourcesUnsubscribe, hellos, updates, table,
     link, history, Ids, Sessions
<1>2. TableInv'
  BY SessionAssumption DEF TableInv, IdInv, StageInv, AnswerInv, CallbackOnce,
     NoAnswerLost, SessionsTypeOK, ResourcesUnsubscribe, hellos, updates, table, link,
     history, Ids
<1>3. UpdateInv'
  BY DEF UpdateInv, SessionInv, NoUpdateForgotten, SessionsTypeOK, ResourcesUnsubscribe,
     hellos, updates, table, link, history, Sessions
<1>4. QED
  BY <1>1, <1>2, <1>3

\* Choosing whom to notify keeps the invariant.
LEMMA NotifyInv ==
  ASSUME IInv, NEW u \in Uris, NotifyResourcesUpdated(u)
  PROVE  IInv'
<1> USE DEF IInv
<1>1. SessionsTypeOK'
  BY SessionAssumption DEF SessionsTypeOK, NotifyResourcesUpdated, UpdateTargets, hellos,
     updates, table, link, history, Ids, Sessions
<1>2. TableInv'
  BY SessionAssumption DEF TableInv, IdInv, StageInv, AnswerInv, CallbackOnce,
     NoAnswerLost, SessionsTypeOK, NotifyResourcesUpdated, UpdateTargets, hellos, updates,
     table, link, history, Ids
<1>3. UpdateInv'
  BY DEF UpdateInv, SessionInv, NoUpdateForgotten, SessionsTypeOK, NotifyResourcesUpdated,
     UpdateTargets, hellos, updates, table, link, history, Sessions
<1>4. QED
  BY <1>1, <1>2, <1>3

\* Sending an update keeps the invariant.
LEMMA SendNotificationInv ==
  ASSUME IInv, NEW u \in Uris, NEW s \in Sessions, SendNotification(u, s)
  PROVE  IInv'
<1> USE DEF IInv
<1>1. SessionsTypeOK'
  BY SessionAssumption DEF SessionsTypeOK, SendNotification, hellos, updates, table, link,
     history, Ids, Sessions
<1>2. TableInv'
  BY SessionAssumption DEF TableInv, IdInv, StageInv, AnswerInv, CallbackOnce,
     NoAnswerLost, SessionsTypeOK, SendNotification, hellos, updates, table, link, history,
     Ids
<1>3. UpdateInv'
  BY DEF UpdateInv, SessionInv, NoUpdateForgotten, SessionsTypeOK, SendNotification, hellos,
     updates, table, link, history, Sessions
<1>4. QED
  BY <1>1, <1>2, <1>3

\* Drawing an id keeps the invariant.
LEMMA RequestAdmittedInv ==
  ASSUME IInv, NEW s \in Sessions, RequestAdmitted(s)
  PROVE  IInv'
<1> USE DEF IInv
<1>1. SessionsTypeOK'
  BY SessionAssumption DEF SessionsTypeOK, RequestAdmitted, NextId, hellos, updates, table,
     link, history, Ids, Sessions
<1>2. TableInv'
  BY SessionAssumption DEF TableInv, IdInv, StageInv, AnswerInv, CallbackOnce,
     NoAnswerLost, SessionsTypeOK, RequestAdmitted, NextId, hellos, updates, table, link,
     history, Ids
<1>3. UpdateInv'
  BY DEF UpdateInv, SessionInv, NoUpdateForgotten, SessionsTypeOK, RequestAdmitted, NextId,
     hellos, updates, table, link, history, Sessions
<1>4. QED
  BY <1>1, <1>2, <1>3

\* Registering a request keeps the invariant.
LEMMA SendServerRequestInv ==
  ASSUME IInv, NEW i \in Ids, SendServerRequest(i)
  PROVE  IInv'
<1> USE DEF IInv
<1>1. SessionsTypeOK'
  BY SessionAssumption DEF SessionsTypeOK, SendServerRequest, Registered, hellos, updates,
     table, link, history, Ids, Sessions
<1>2. TableInv'
  BY SessionAssumption DEF TableInv, IdInv, StageInv, AnswerInv, CallbackOnce,
     NoAnswerLost, SessionsTypeOK, SendServerRequest, Registered, hellos, updates, table,
     link, history, Ids
<1>3. UpdateInv'
  BY DEF UpdateInv, SessionInv, NoUpdateForgotten, SessionsTypeOK, SendServerRequest,
     Registered, hellos, updates, table, link, history, Sessions
<1>4. QED
  BY <1>1, <1>2, <1>3

\* Sending a request keeps the invariant.
LEMMA TransportSendsInv ==
  ASSUME IInv, NEW i \in Ids, TransportSends(i)
  PROVE  IInv'
<1> USE DEF IInv
<1>1. SessionsTypeOK'
  BY SessionAssumption DEF SessionsTypeOK, TransportSends, hellos, updates, table, link,
     history, Ids, Sessions
<1>2. TableInv'
  BY SessionAssumption DEF TableInv, IdInv, StageInv, AnswerInv, CallbackOnce,
     NoAnswerLost, SessionsTypeOK, TransportSends, hellos, updates, table, link, history, Ids
<1>3. UpdateInv'
  BY DEF UpdateInv, SessionInv, NoUpdateForgotten, SessionsTypeOK, TransportSends, hellos,
     updates, table, link, history, Sessions
<1>4. QED
  BY <1>1, <1>2, <1>3

\* A request that cannot be sent keeps the invariant.
LEMMA TransportThrowsInv ==
  ASSUME IInv, NEW i \in Ids, TransportThrows(i)
  PROVE  IInv'
<1> USE DEF IInv
<1>1. SessionsTypeOK'
  BY SessionAssumption DEF SessionsTypeOK, TransportThrows, Withdrawn, hellos, updates,
     table, link, history, Ids, Sessions
<1>2. TableInv'
  BY SessionAssumption DEF TableInv, IdInv, StageInv, AnswerInv, CallbackOnce,
     NoAnswerLost, SessionsTypeOK, TransportThrows, Withdrawn, hellos, updates, table, link,
     history, Ids
<1>3. UpdateInv'
  BY DEF UpdateInv, SessionInv, NoUpdateForgotten, SessionsTypeOK, TransportThrows,
     Withdrawn, hellos, updates, table, link, history, Sessions
<1>4. QED
  BY <1>1, <1>2, <1>3

\* An answer keeps the invariant.
LEMMA ClientAnswersInv ==
  ASSUME IInv, NEW i \in Ids, NEW step \in {"result", "error"}, ClientAnswers(i, step)
  PROVE  IInv'
<1> USE DEF IInv
<1>1. SessionsTypeOK'
  BY SessionAssumption DEF SessionsTypeOK, ClientAnswers, hellos, updates, table, link,
     history, Ids, Sessions
<1>2. TableInv'
  BY SessionAssumption DEF TableInv, IdInv, StageInv, AnswerInv, CallbackOnce,
     NoAnswerLost, SessionsTypeOK, ClientAnswers, hellos, updates, table, link, history, Ids
<1>3. UpdateInv'
  BY DEF UpdateInv, SessionInv, NoUpdateForgotten, SessionsTypeOK, ClientAnswers, hellos,
     updates, table, link, history, Sessions
<1>4. QED
  BY <1>1, <1>2, <1>3

\* An error that the HTTP transport answers keeps the invariant.
LEMMA HandlePostErrorInv ==
  ASSUME IInv, NEW i \in Ids, HandlePostError(i)
  PROVE  IInv'
<1> USE DEF IInv
<1>1. SessionsTypeOK'
  BY SessionAssumption DEF SessionsTypeOK, HandlePostError, hellos, updates, table, link,
     history, Ids, Sessions
<1>2. TableInv'
  BY SessionAssumption DEF TableInv, IdInv, StageInv, AnswerInv, CallbackOnce,
     NoAnswerLost, SessionsTypeOK, HandlePostError, hellos, updates, table, link, history, Ids
<1>3. UpdateInv'
  BY DEF UpdateInv, SessionInv, NoUpdateForgotten, SessionsTypeOK, HandlePostError, hellos,
     updates, table, link, history, Sessions
<1>4. QED
  BY <1>1, <1>2, <1>3

\* The end of a session keeps the invariant.
LEMMA ClientLeavesInv ==
  ASSUME IInv, NEW s \in Clients, ClientLeaves(s)
  PROVE  IInv'
<1> USE DEF IInv
<1>1. SessionsTypeOK'
  BY SessionAssumption DEF SessionsTypeOK, ClientLeaves, hellos, updates, table, link,
     history, Ids, Sessions
<1>2. TableInv'
  BY SessionAssumption DEF TableInv, IdInv, StageInv, AnswerInv, CallbackOnce,
     NoAnswerLost, SessionsTypeOK, ClientLeaves, hellos, updates, table, link, history, Ids
<1>3. UpdateInv'
  BY DEF UpdateInv, SessionInv, NoUpdateForgotten, SessionsTypeOK, ClientLeaves, hellos,
     updates, table, link, history, Sessions
<1>4. QED
  BY <1>1, <1>2, <1>3

\* A result keeps the invariant.
LEMMA OnClientResponseInv ==
  ASSUME IInv, NEW i \in Ids, OnClientResponse(i)
  PROVE  IInv'
<1> USE DEF IInv
<1>1. i \in wire /\ stage[i] = "sent"
  BY DEF TableInv, StageInv, AnswerInv, OnClientResponse
<1>2. inbox' \subseteq inbox
  BY DEF OnClientResponse
<1>3. SessionsTypeOK'
  <2>1. inbox' \in SUBSET (Ids \X {"result", "error", "matched"})
    BY <1>2 DEF SessionsTypeOK
  <2>2. QED
    BY <2>1 DEF SessionsTypeOK, OnClientResponse, CompleteServerRequest, hellos, updates,
     table, link, history
<1>4. AnswerInv'
  BY <1>2 DEF TableInv, AnswerInv, OnClientResponse
<1>5. (IdInv /\ StageInv /\ CallbackOnce /\ NoAnswerLost)'
  <2>1. CASE i \in outbound_pending
    BY <1>1, <2>1 DEF TableInv, IdInv, StageInv, CallbackOnce, NoAnswerLost, SessionsTypeOK,
     OnClientResponse, CompleteServerRequest
  <2>2. CASE i \notin outbound_pending
    BY <1>1, <2>2 DEF TableInv, IdInv, StageInv, CallbackOnce, NoAnswerLost, SessionsTypeOK,
     OnClientResponse, CompleteServerRequest
  <2>3. QED
    BY <2>1, <2>2
<1>6. UpdateInv'
  BY DEF UpdateInv, SessionInv, NoUpdateForgotten, OnClientResponse, hellos, updates,
     table, link, history
<1>7. QED
  BY <1>3, <1>4, <1>5, <1>6 DEF TableInv

\* Looking an error response up keeps the invariant.
LEMMA ErrorResponseLookupInv ==
  ASSUME IInv, NEW i \in Ids, ErrorResponseLookup(i)
  PROVE  IInv'
<1> USE DEF IInv
<1>1. i \in wire /\ stage[i] = "sent"
  BY DEF TableInv, StageInv, AnswerInv, ErrorResponseLookup
<1>2. inbox' \subseteq inbox \cup {<<i, "matched">>}
  BY DEF ErrorResponseLookup
<1>3. SessionsTypeOK'
  <2>1. inbox' \in SUBSET (Ids \X {"result", "error", "matched"})
    BY <1>2 DEF SessionsTypeOK
  <2>2. QED
    BY <2>1 DEF SessionsTypeOK, ErrorResponseLookup, hellos, updates, table, link, history
<1>4. AnswerInv'
  BY <1>1, <1>2 DEF TableInv, AnswerInv, ErrorResponseLookup
<1>5. (IdInv /\ StageInv /\ CallbackOnce /\ NoAnswerLost)'
  BY <1>1 DEF TableInv, IdInv, StageInv, CallbackOnce, NoAnswerLost, SessionsTypeOK,
     ErrorResponseLookup, hellos, updates, table, link, history
<1>6. UpdateInv'
  BY DEF UpdateInv, SessionInv, NoUpdateForgotten, ErrorResponseLookup, hellos,
     updates, table, link, history
<1>7. QED
  BY <1>3, <1>4, <1>5, <1>6 DEF TableInv

\* An error keeps the invariant.
LEMMA OnClientErrorResponseInv ==
  ASSUME IInv, NEW i \in Ids, OnClientErrorResponse(i)
  PROVE  IInv'
<1> USE DEF IInv
<1>1. i \in wire /\ stage[i] = "sent"
  BY DEF TableInv, StageInv, AnswerInv, OnClientErrorResponse
<1>2. inbox' \subseteq inbox
  BY DEF OnClientErrorResponse
<1>3. SessionsTypeOK'
  <2>1. inbox' \in SUBSET (Ids \X {"result", "error", "matched"})
    BY <1>2 DEF SessionsTypeOK
  <2>2. QED
    BY <2>1 DEF SessionsTypeOK, OnClientErrorResponse, CompleteServerRequest, hellos,
     updates, table, link, history
<1>4. AnswerInv'
  BY <1>2 DEF TableInv, AnswerInv, OnClientErrorResponse
<1>5. (IdInv /\ StageInv /\ CallbackOnce /\ NoAnswerLost)'
  <2>1. CASE i \in outbound_pending
    BY <1>1, <2>1 DEF TableInv, IdInv, StageInv, CallbackOnce, NoAnswerLost, SessionsTypeOK,
     OnClientErrorResponse, CompleteServerRequest
  <2>2. CASE i \notin outbound_pending
    BY <1>1, <2>2 DEF TableInv, IdInv, StageInv, CallbackOnce, NoAnswerLost, SessionsTypeOK,
     OnClientErrorResponse, CompleteServerRequest
  <2>3. QED
    BY <2>1, <2>2
<1>6. UpdateInv'
  BY DEF UpdateInv, SessionInv, NoUpdateForgotten, OnClientErrorResponse, hellos,
     updates, table, link, history
<1>7. QED
  BY <1>3, <1>4, <1>5, <1>6 DEF TableInv

\* stop() keeps the invariant.
LEMMA StopInv ==
  ASSUME IInv, StopSetsFlags \/ StopDetach \/ StopClears
  PROVE  IInv'
<1> USE DEF IInv
<1>1. SessionsTypeOK'
  BY SessionAssumption DEF SessionsTypeOK, StopSetsFlags, StopDetach, StopClears, hellos,
     updates, table, link, history, Ids, Sessions
<1>2. TableInv'
  BY SessionAssumption DEF TableInv, IdInv, StageInv, AnswerInv, CallbackOnce,
     NoAnswerLost, SessionsTypeOK, StopSetsFlags, StopDetach, StopClears, hellos, updates, table,
     link, history, Ids
<1>3. UpdateInv'
  BY DEF UpdateInv, SessionInv, NoUpdateForgotten, SessionsTypeOK, StopSetsFlags, StopDetach,
     StopClears, hellos, updates, table, link, history, Sessions
<1>4. QED
  BY <1>1, <1>2, <1>3

\* Every step keeps the invariant.
LEMMA NextInv ==
  ASSUME IInv, [SessionsNext]_sessionvars
  PROVE  IInv'
<1>1. CASE UNCHANGED sessionvars
  BY <1>1 DEF sessionvars, hellos, updates, table, link, history, IInv, SessionsTypeOK, TableInv,
     IdInv,
     StageInv, AnswerInv, CallbackOnce, NoAnswerLost, UpdateInv, SessionInv,
     NoUpdateForgotten
<1>2. ASSUME NEW s \in Clients, Session(s)
      PROVE  IInv'
  BY <1>2, HandleInitializeInv, NotifInitializedInv, SubscribeInv, UnsubscribeInv,
     ClientLeavesInv DEF Session
<1>3. ASSUME NEW i \in Ids, Outbound(i)
      PROVE  IInv'
  BY <1>3, SendServerRequestInv, TransportSendsInv, TransportThrowsInv,
     ClientAnswersInv, HandlePostErrorInv, OnClientResponseInv,
     ErrorResponseLookupInv, OnClientErrorResponseInv DEF Outbound
<1>4. QED
  BY <1>1, <1>2, <1>3, NotifyInv, SendNotificationInv, RequestAdmittedInv, StopInv
     DEF SessionsNext

\* The invariant of sessions and outbound requests holds in every behaviour.
THEOREM Invariance == SessionsSpec => []IInv
BY InitInv, NextInv, PTL DEF SessionsSpec

\* The state of sessions and outbound requests stays in its range.
THEOREM TypeCorrect == SessionsSpec => []SessionsTypeOK
<1>1. IInv => SessionsTypeOK
  BY DEF IInv, SessionsTypeOK, TableInv, StageInv, UpdateInv, SessionsTypeOK
<1>2. QED
  BY <1>1, Invariance, PTL

\* No result, error or repetition makes the callback of a request run twice.
THEOREM CallbackAtMostOnce == SessionsSpec => []CallbackOnce
<1>1. IInv => CallbackOnce
  BY DEF IInv, SessionsTypeOK, TableInv, StageInv, UpdateInv, CallbackOnce
<1>2. QED
  BY <1>1, Invariance, PTL

\* The first answer to a request finds its entry, unless stop() has cleared it.
THEOREM AnswerNeverLost == SessionsSpec => []NoAnswerLost
<1>1. IInv => NoAnswerLost
  BY DEF IInv, SessionsTypeOK, TableInv, StageInv, UpdateInv, NoAnswerLost
<1>2. QED
  BY <1>1, Invariance, PTL

\* A request that could not be sent is forgotten and its callback never runs.
THEOREM FailureIsSilent == SessionsSpec => []FailedIsSilent
<1>1. IInv => FailedIsSilent
  BY DEF IInv, SessionsTypeOK, TableInv, StageInv, UpdateInv, FailedIsSilent
<1>2. QED
  BY <1>1, Invariance, PTL

\* No session that is subscribed misses an update before stop().
THEOREM UpdateNeverForgotten == SessionsSpec => []NoUpdateForgotten
<1>1. IInv => NoUpdateForgotten
  BY DEF IInv, SessionsTypeOK, TableInv, StageInv, UpdateInv, NoUpdateForgotten
<1>2. QED
  BY <1>1, Invariance, PTL

\* The callback of a server request runs for its first answer, for no other, and
\* never for a request that could not be sent.
THEOREM CallbackIsExact == SessionsSpec => []CallbackExact
<1>1. CallbackOnce /\ NoAnswerLost /\ FailedIsSilent => CallbackExact
  BY DEF CallbackExact
<1>2. QED
  BY <1>1, CallbackAtMostOnce, AnswerNeverLost, FailureIsSilent, PTL

=============================================================================
