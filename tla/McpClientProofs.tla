-------------------------- MODULE McpClientProofs --------------------------
(***************************************************************************)
(* Proofs about McpClient for every number of requests, every set of       *)
(* tokens, every set of threads and every configuration: first its types,  *)
(* then, for applications whose custom progress tokens are strings, that   *)
(* the pending table never drops a request, that every request settles     *)
(* exactly once, that the io loop outlives every timeout, and, while       *)
(* handshakes do not overlap, that connected_ is cleared on a dead link.   *)
(***************************************************************************)
EXTENDS McpClient, SequenceTheorems, FiniteSetTheorems, TLAPS

-----------------------------------------------------------------------------
(* Facts about the operators the actions are built from *)

\* Posting a task keeps the strand a sequence of tasks.
LEMMA PostType ==
  ASSUME strand \in Seq(Tasks), NEW t \in Tasks, Post(t)
  PROVE  strand' \in Seq(Tasks)
BY DEF Post

\* Running a task keeps the strand a sequence of tasks.
LEMMA PopType ==
  ASSUME strand \in Seq(Tasks), strand # <<>>, strand' = Tail(strand)
  PROVE  strand' \in Seq(Tasks)
OBVIOUS

\* finish() keeps the types of what it writes.
LEMMA FinishType ==
  ASSUME OutcomeOK, NEW S, NEW o \in Outcomes, Finish(S, o)
  PROVE  OutcomeOK'
<1>1. state' \in [Ids -> Outcomes \cup {"Waiting"}]
  BY DEF OutcomeOK, Finish
<1>2. promise' \in [Ids -> Outcomes \cup {"Unset"}]
  BY DEF OutcomeOK, Finish
<1>3. notified' \in [Ids -> Nat]
  BY DEF OutcomeOK, Finish
<1>4. timer' \in [Ids -> {"off", "armed"}]
  BY DEF OutcomeOK, Finish
<1>5. QED
  BY <1>1, <1>2, <1>3, <1>4 DEF OutcomeOK

\* complete_pending keeps the types of the table and of the outcomes.
LEMMA CompletePendingType ==
  ASSUME OutcomeOK, pending_map \in [Keys -> Ids \cup {NoReq}],
         NEW k, NEW o \in Outcomes, CompletePending(k, o)
  PROVE  OutcomeOK' /\ pending_map' \in [Keys -> Ids \cup {NoReq}]
<1>1. CASE pending_map[k] = NoReq
  BY <1>1 DEF CompletePending, outcome, OutcomeOK
<1>2. CASE pending_map[k] # NoReq
  <2>1. Finish({pending_map[k]}, o)
    BY <1>2 DEF CompletePending
  <2>2. pending_map' \in [Keys -> Ids \cup {NoReq}]
    BY <1>2 DEF CompletePending
  <2>3. QED
    BY <2>1, <2>2, FinishType
<1>3. QED
  BY <1>1, <1>2

\* fail_all_pending keeps the types of the table and of the outcomes.
LEMMA FailAllPendingType ==
  ASSUME OutcomeOK, FailAllPending
  PROVE  OutcomeOK' /\ pending_map' \in [Keys -> Ids \cup {NoReq}]
<1>1. "Failed" \in Outcomes
  BY DEF Outcomes
<1>2. QED
  BY <1>1, FinishType DEF FailAllPending

\* The key a request's progress is filed under is a key or null.
LEMMA EffectiveTokenType ==
  ASSUME NEW id \in Ids, NEW custom \in {NullId} \cup StringTokens \cup NumericTokens,
         NEW p \in BOOLEAN
  PROVE  EffectiveToken(id, custom, p) \in Keys \cup {NullId}
BY DEF EffectiveToken, Keys

\* Creating a request keeps the types of the submission state.
LEMMA CreateType ==
  ASSUME SubmissionOK, NEW m \in {"initialize", "call"}, NEW tk \in Keys \cup {NullId},
         NEW t \in BOOLEAN, Create(m, tk, t)
  PROVE  SubmissionOK'
<1>1. next_id' \in 1..(MaxId + 1)
  BY ClientAssumption DEF Create, SubmissionOK, Ids
<1>2. stage' \in [Ids -> {"free", "checked", "posted", "registered"}]
  BY DEF Create, SubmissionOK
<1>3. method' \in [Ids -> {"initialize", "call"}]
  BY DEF Create, SubmissionOK
<1>4. token' \in [Ids -> Keys \cup {NullId}]
  BY DEF Create, SubmissionOK
<1>5. timed' \in [Ids -> BOOLEAN]
  BY DEF Create, SubmissionOK
<1>6. QED
  BY <1>1, <1>2, <1>3, <1>4, <1>5 DEF SubmissionOK

\* The tasks the actions post are tasks.
LEMMA TaskTypes ==
  /\ \A r \in Ids : /\ <<"register", r>> \in Tasks
                    /\ <<"timeout", r>> \in Tasks
                    /\ <<"cancel", r>> \in Tasks
                    /\ \A op \in Responses : <<op, r>> \in Tasks
  /\ <<"closed", NoReq>> \in Tasks
  /\ <<"throw", NoReq>> \in Tasks
  /\ \A c \in Drainers : <<"drain", c>> \in Tasks
BY DEF Tasks, Responses

-----------------------------------------------------------------------------
(* Type correctness *)

\* Initially every variable is in its range.
LEMMA InitType == Init => TypeOK
<1> SUFFICES ASSUME Init PROVE TypeOK
  OBVIOUS
<1>1. FlagsOK /\ LoopOK
  BY ClientAssumption DEF Init, FlagsOK, LoopOK
<1>2. PeerOK /\ ThreadsOK
  BY DEF Init, PeerOK, ThreadsOK
<1>3. SubmissionOK
  BY ClientAssumption DEF Init, SubmissionOK, Ids
<1>4. OutcomeOK
  BY DEF Init, OutcomeOK
<1>5. strand \in Seq(Tasks) /\ pending_map \in [Keys -> Ids \cup {NoReq}]
  BY DEF Init
<1>6. QED
  BY <1>1, <1>2, <1>3, <1>4, <1>5 DEF TypeOK

\* A passed admission test keeps the types.
LEMMA SubmitCheckType ==
  ASSUME TypeOK, NEW custom \in {NullId} \cup StringTokens \cup NumericTokens,
         NEW p \in BOOLEAN, NEW t \in TimedChoices, SubmitCheck(custom, p, t)
  PROVE  TypeOK'
<1>1. SubmissionOK'
  BY CreateType, EffectiveTokenType, ClientAssumption DEF TypeOK, SubmitCheck,
     Create
<1>2. FlagsOK' /\ LoopOK' /\ PeerOK' /\ OutcomeOK' /\ ThreadsOK'
  BY DEF TypeOK, SubmitCheck, FlagsOK, LoopOK, PeerOK, OutcomeOK, ThreadsOK,
     flags, loop, peer, outcome, threads
<1>3. strand' \in Seq(Tasks) /\ pending_map' \in [Keys -> Ids \cup {NoReq}]
  BY DEF TypeOK, SubmitCheck
<1>4. QED
  BY <1>1, <1>2, <1>3 DEF TypeOK

\* Posting the registration keeps the types.
LEMMA SubmitPostType ==
  ASSUME TypeOK, NEW r \in Ids, SubmitPost(r)
  PROVE  TypeOK'
<1>1. SubmissionOK'
  BY DEF TypeOK, SubmitPost, SubmissionOK
<1>2. FlagsOK' /\ LoopOK' /\ PeerOK' /\ OutcomeOK' /\ ThreadsOK'
  BY DEF TypeOK, SubmitPost, FlagsOK, LoopOK, PeerOK, OutcomeOK, ThreadsOK,
     flags, loop, peer, outcome, threads
<1>3. strand' \in Seq(Tasks)
  BY PostType, TaskTypes DEF TypeOK, SubmitPost
<1>4. pending_map' \in [Keys -> Ids \cup {NoReq}]
  BY DEF TypeOK, SubmitPost
<1>5. QED
  BY <1>1, <1>2, <1>3, <1>4 DEF TypeOK

\* Registration keeps the types.
LEMMA RunRegisterType ==
  ASSUME TypeOK, NEW r \in Ids, RunRegister(r)
  PROVE  TypeOK'
<1>1. SubmissionOK'
  BY DEF TypeOK, RunRegister, SubmissionOK
<1>2. PeerOK'
  BY DEF TypeOK, RunRegister, PeerOK
<1>3. OutcomeOK'
  BY DEF TypeOK, RunRegister, OutcomeOK
<1>4. FlagsOK' /\ LoopOK' /\ ThreadsOK'
  BY DEF TypeOK, RunRegister, FlagsOK, LoopOK, ThreadsOK, flags, loop, threads
<1>5. strand' \in Seq(Tasks)
  BY PopType DEF TypeOK, RunRegister, Running
<1>6. pending_map' \in [Keys -> Ids \cup {NoReq}]
  BY DEF TypeOK, RunRegister
<1>7. QED
  BY <1>1, <1>2, <1>3, <1>4, <1>5, <1>6 DEF TypeOK

\* Handling a response keeps the types.
LEMMA RunResponseType ==
  ASSUME TypeOK, NEW op \in Responses, NEW r \in Ids, RunResponse(op, r)
  PROVE  TypeOK'
<1>1. \A q : ResponseOutcome(op, q) \in Outcomes
  BY DEF ResponseOutcome, Outcomes
<1>2. OutcomeOK' /\ pending_map' \in [Keys -> Ids \cup {NoReq}]
  BY <1>1, CompletePendingType DEF TypeOK, RunResponse, outcome, OutcomeOK
<1>3. FlagsOK'
  BY DEF TypeOK, RunResponse, FlagsOK
<1>4. LoopOK' /\ PeerOK' /\ SubmissionOK' /\ ThreadsOK'
  BY DEF TypeOK, RunResponse, LoopOK, PeerOK, SubmissionOK, ThreadsOK, loop,
     peer, submission, threads
<1>5. strand' \in Seq(Tasks)
  BY PopType DEF TypeOK, RunResponse, Running
<1>6. QED
  BY <1>1, <1>2, <1>3, <1>4, <1>5 DEF TypeOK

\* An expiring timer keeps the types.
LEMMA TimerExpiresType ==
  ASSUME TypeOK, NEW r \in Ids, TimerExpires(r)
  PROVE  TypeOK'
<1>1. OutcomeOK'
  BY DEF TypeOK, TimerExpires, OutcomeOK
<1>2. FlagsOK' /\ LoopOK' /\ PeerOK' /\ SubmissionOK' /\ ThreadsOK'
  BY DEF TypeOK, TimerExpires, FlagsOK, LoopOK, PeerOK, SubmissionOK, ThreadsOK,
     flags, loop, peer, submission, threads
<1>3. strand' \in Seq(Tasks)
  BY PostType, TaskTypes DEF TypeOK, TimerExpires
<1>4. pending_map' \in [Keys -> Ids \cup {NoReq}]
  BY DEF TypeOK, TimerExpires
<1>5. QED
  BY <1>1, <1>2, <1>3, <1>4 DEF TypeOK

\* on_timer keeps the types.
LEMMA RunTimeoutType ==
  ASSUME TypeOK, NEW r \in Ids, RunTimeout(r)
  PROVE  TypeOK'
<1>1. "TimedOut" \in Outcomes
  BY DEF Outcomes
<1>2. OutcomeOK' /\ pending_map' \in [Keys -> Ids \cup {NoReq}]
  BY <1>1, CompletePendingType DEF TypeOK, RunTimeout, outcome, OutcomeOK
<1>3. FlagsOK' /\ LoopOK' /\ PeerOK' /\ SubmissionOK' /\ ThreadsOK'
  BY DEF TypeOK, RunTimeout, FlagsOK, LoopOK, PeerOK, SubmissionOK, ThreadsOK,
     flags, loop, peer, submission, threads
<1>4. strand' \in Seq(Tasks)
  BY PopType DEF TypeOK, RunTimeout, Running
<1>5. QED
  BY <1>1, <1>2, <1>3, <1>4 DEF TypeOK

\* A cancel task keeps the types.
LEMMA RunCancelType ==
  ASSUME TypeOK, NEW r \in Ids, RunCancel(r)
  PROVE  TypeOK'
<1>1. "Cancelled" \in Outcomes
  BY DEF Outcomes
<1>2. OutcomeOK' /\ pending_map' \in [Keys -> Ids \cup {NoReq}]
  BY <1>1, CompletePendingType DEF TypeOK, RunCancel, outcome, OutcomeOK
<1>3. FlagsOK' /\ LoopOK' /\ PeerOK' /\ SubmissionOK' /\ ThreadsOK'
  BY DEF TypeOK, RunCancel, FlagsOK, LoopOK, PeerOK, SubmissionOK, ThreadsOK,
     flags, loop, peer, submission, threads
<1>4. strand' \in Seq(Tasks)
  BY PopType DEF TypeOK, RunCancel, Running
<1>5. QED
  BY <1>1, <1>2, <1>3, <1>4 DEF TypeOK

\* Posting a cancel keeps the types.
LEMMA CancelType ==
  ASSUME TypeOK, NEW r \in Ids, Cancel(r)
  PROVE  TypeOK'
<1>1. FlagsOK' /\ LoopOK' /\ PeerOK' /\ SubmissionOK' /\ OutcomeOK' /\ ThreadsOK'
  BY DEF TypeOK, Cancel, FlagsOK, LoopOK, PeerOK, SubmissionOK, OutcomeOK,
     ThreadsOK, flags, loop, peer, submission, outcome, threads
<1>2. strand' \in Seq(Tasks)
  BY PostType, TaskTypes DEF TypeOK, Cancel
<1>3. pending_map' \in [Keys -> Ids \cup {NoReq}]
  BY DEF TypeOK, Cancel
<1>4. QED
  BY <1>1, <1>2, <1>3 DEF TypeOK

\* A response from the peer keeps the types.
LEMMA PeerRespondType ==
  ASSUME TypeOK, NEW op \in Responses, NEW r \in Ids, PeerRespond(op, r)
  PROVE  TypeOK'
<1>1. FlagsOK' /\ LoopOK' /\ PeerOK' /\ SubmissionOK' /\ OutcomeOK' /\ ThreadsOK'
  BY DEF TypeOK, PeerRespond, FlagsOK, LoopOK, PeerOK, SubmissionOK, OutcomeOK,
     ThreadsOK, flags, loop, peer, submission, outcome, threads
<1>2. strand' \in Seq(Tasks)
  BY PostType, TaskTypes DEF TypeOK, PeerRespond, FromPeer
<1>3. pending_map' \in [Keys -> Ids \cup {NoReq}]
  BY DEF TypeOK, PeerRespond
<1>4. QED
  BY <1>1, <1>2, <1>3 DEF TypeOK

\* A message whose handler will throw keeps the types.
LEMMA PeerSendsThrowingType ==
  ASSUME TypeOK, PeerSendsThrowing
  PROVE  TypeOK'
<1>1. FlagsOK' /\ LoopOK' /\ PeerOK' /\ SubmissionOK' /\ OutcomeOK' /\ ThreadsOK'
  BY DEF TypeOK, PeerSendsThrowing, FlagsOK, LoopOK, PeerOK, SubmissionOK,
     OutcomeOK, ThreadsOK, flags, loop, peer, submission, outcome, threads
<1>2. strand' \in Seq(Tasks)
  BY PostType, TaskTypes DEF TypeOK, PeerSendsThrowing, FromPeer
<1>3. pending_map' \in [Keys -> Ids \cup {NoReq}]
  BY DEF TypeOK, PeerSendsThrowing
<1>4. QED
  BY <1>1, <1>2, <1>3 DEF TypeOK

\* The peer closing the link keeps the types.
LEMMA PeerClosesType ==
  ASSUME TypeOK, PeerCloses
  PROVE  TypeOK'
<1>1. PeerOK'
  BY DEF TypeOK, PeerCloses, PeerOK
<1>2. FlagsOK' /\ LoopOK' /\ SubmissionOK' /\ OutcomeOK' /\ ThreadsOK'
  BY DEF TypeOK, PeerCloses, FlagsOK, LoopOK, SubmissionOK, OutcomeOK,
     ThreadsOK, flags, loop, submission, outcome, threads
<1>3. strand' \in Seq(Tasks)
  BY PostType, TaskTypes DEF TypeOK, PeerCloses, FromPeer
<1>4. pending_map' \in [Keys -> Ids \cup {NoReq}]
  BY DEF TypeOK, PeerCloses
<1>5. QED
  BY <1>1, <1>2, <1>3, <1>4 DEF TypeOK

\* Connecting the transport keeps the types.
LEMMA ConnectBeginType ==
  ASSUME TypeOK, ConnectBegin
  PROVE  TypeOK'
<1>1. FlagsOK' /\ LoopOK'
  BY DEF TypeOK, ConnectBegin, EnsureStarted, FlagsOK, LoopOK
<1>2. PeerOK' /\ ThreadsOK'
  BY DEF TypeOK, ConnectBegin, PeerOK, ThreadsOK
<1>3. SubmissionOK' /\ OutcomeOK'
  BY DEF TypeOK, ConnectBegin, SubmissionOK, OutcomeOK, submission, outcome
<1>4. strand' \in Seq(Tasks) /\ pending_map' \in [Keys -> Ids \cup {NoReq}]
  BY DEF TypeOK, ConnectBegin
<1>5. QED
  BY <1>1, <1>2, <1>3, <1>4 DEF TypeOK

\* A refused connection keeps the types.
LEMMA ConnectRefusedType ==
  ASSUME TypeOK, ConnectRefused
  PROVE  TypeOK'
<1>1. FlagsOK' /\ LoopOK'
  BY DEF TypeOK, ConnectRefused, EnsureStarted, FlagsOK, LoopOK
<1>2. PeerOK' /\ SubmissionOK' /\ OutcomeOK' /\ ThreadsOK'
  BY DEF TypeOK, ConnectRefused, PeerOK, SubmissionOK, OutcomeOK, ThreadsOK,
     peer, submission, outcome, threads
<1>3. strand' \in Seq(Tasks) /\ pending_map' \in [Keys -> Ids \cup {NoReq}]
  BY DEF TypeOK, ConnectRefused
<1>4. QED
  BY <1>1, <1>2, <1>3 DEF TypeOK

\* Submitting the initialize request keeps the types.
LEMMA ConnectSubmitType ==
  ASSUME TypeOK, NEW t \in TimedChoices, ConnectSubmit(t)
  PROVE  TypeOK'
<1>1. SubmissionOK'
  BY CreateType, ClientAssumption DEF TypeOK, ConnectSubmit, SubmissionOK,
     submission
<1>2. ThreadsOK'
  BY DEF TypeOK, ConnectSubmit, Create, ThreadsOK
<1>3. FlagsOK' /\ LoopOK' /\ PeerOK' /\ OutcomeOK'
  BY DEF TypeOK, ConnectSubmit, FlagsOK, LoopOK, PeerOK, OutcomeOK, flags, loop,
     peer, outcome
<1>4. strand' \in Seq(Tasks) /\ pending_map' \in [Keys -> Ids \cup {NoReq}]
  BY DEF TypeOK, ConnectSubmit
<1>5. QED
  BY <1>1, <1>2, <1>3, <1>4 DEF TypeOK

\* connect() returning, or rolling back, keeps the types.
LEMMA ConnectReturnType ==
  ASSUME TypeOK, ConnectReturn
  PROVE  TypeOK'
<1>1. FlagsOK' /\ PeerOK'
  BY DEF TypeOK, ConnectReturn, TransportDisconnect, FlagsOK, PeerOK, peer
<1>2. ThreadsOK'
  BY DEF TypeOK, ConnectReturn, ThreadsOK
<1>3. LoopOK' /\ SubmissionOK' /\ OutcomeOK'
  BY DEF TypeOK, ConnectReturn, LoopOK, SubmissionOK, OutcomeOK, loop,
     submission, outcome
<1>4. strand' \in Seq(Tasks) /\ pending_map' \in [Keys -> Ids \cup {NoReq}]
  BY DEF TypeOK, ConnectReturn
<1>5. QED
  BY <1>1, <1>2, <1>3, <1>4 DEF TypeOK

\* on_transport_disconnect keeps the types.
LEMMA RunClosedType ==
  ASSUME TypeOK, RunClosed
  PROVE  TypeOK'
<1>1. OutcomeOK' /\ pending_map' \in [Keys -> Ids \cup {NoReq}]
  BY FailAllPendingType DEF TypeOK, RunClosed
<1>2. FlagsOK'
  BY DEF TypeOK, RunClosed, ClearConnected, FlagsOK
<1>3. LoopOK' /\ PeerOK' /\ SubmissionOK' /\ ThreadsOK'
  BY DEF TypeOK, RunClosed, LoopOK, PeerOK, SubmissionOK, ThreadsOK, loop, peer,
     submission, threads
<1>4. strand' \in Seq(Tasks)
  BY PopType DEF TypeOK, RunClosed, Running
<1>5. QED
  BY <1>1, <1>2, <1>3, <1>4 DEF TypeOK

\* The io loop dying keeps the types.
LEMMA RunThrowType ==
  ASSUME TypeOK, RunThrow
  PROVE  TypeOK'
<1>1. OutcomeOK' /\ pending_map' \in [Keys -> Ids \cup {NoReq}]
  BY FailAllPendingType DEF TypeOK, RunThrow, OutcomeOK, outcome
<1>2. FlagsOK' /\ LoopOK'
  BY DEF TypeOK, RunThrow, FlagsOK, LoopOK
<1>3. PeerOK' /\ SubmissionOK' /\ ThreadsOK'
  BY DEF TypeOK, RunThrow, PeerOK, SubmissionOK, ThreadsOK, peer, submission,
     threads
<1>4. strand' \in Seq(Tasks)
  BY PopType DEF TypeOK, RunThrow, Running
<1>5. QED
  BY <1>1, <1>2, <1>3, <1>4 DEF TypeOK

\* Starting a drain keeps the types.
LEMMA DrainPendingType ==
  ASSUME TypeOK, NEW c \in Drainers, DrainPending(c)
  PROVE  TypeOK'
<1>1. OutcomeOK' /\ pending_map' \in [Keys -> Ids \cup {NoReq}]
  BY FailAllPendingType DEF TypeOK, DrainPending, OutcomeOK, outcome
<1>2. FlagsOK'
  BY DEF TypeOK, DrainPending, FlagsOK
<1>3. ThreadsOK'
  BY DEF TypeOK, DrainPending, ThreadsOK
<1>4. LoopOK' /\ PeerOK' /\ SubmissionOK'
  BY DEF TypeOK, DrainPending, LoopOK, PeerOK, SubmissionOK, loop, peer, submission
<1>5. strand' \in Seq(Tasks)
  BY PostType, TaskTypes DEF TypeOK, DrainPending
<1>6. QED
  BY <1>1, <1>2, <1>3, <1>4, <1>5 DEF TypeOK

\* A drain task keeps the types.
LEMMA RunDrainType ==
  ASSUME TypeOK, NEW c \in Drainers, RunDrain(c)
  PROVE  TypeOK'
<1>1. OutcomeOK' /\ pending_map' \in [Keys -> Ids \cup {NoReq}]
  BY FailAllPendingType DEF TypeOK, RunDrain
<1>2. FlagsOK'
  BY DEF TypeOK, RunDrain, FlagsOK
<1>3. ThreadsOK'
  BY DEF TypeOK, RunDrain, DrainSignal, ThreadsOK
<1>4. LoopOK' /\ PeerOK' /\ SubmissionOK'
  BY DEF TypeOK, RunDrain, LoopOK, PeerOK, SubmissionOK, loop, peer, submission
<1>5. strand' \in Seq(Tasks)
  BY PopType DEF TypeOK, RunDrain, Running
<1>6. QED
  BY <1>1, <1>2, <1>3, <1>4, <1>5 DEF TypeOK

\* A drain returning keeps the types.
LEMMA DrainReturnType ==
  ASSUME TypeOK, NEW c \in Drainers, DrainReturn(c)
  PROVE  TypeOK'
<1>1. ThreadsOK'
  BY DEF TypeOK, DrainReturn, ThreadsOK
<1>2. FlagsOK' /\ LoopOK' /\ PeerOK' /\ SubmissionOK' /\ OutcomeOK'
  BY DEF TypeOK, DrainReturn, FlagsOK, LoopOK, PeerOK, SubmissionOK, OutcomeOK,
     flags, loop, peer, submission, outcome
<1>3. strand' \in Seq(Tasks) /\ pending_map' \in [Keys -> Ids \cup {NoReq}]
  BY DEF TypeOK, DrainReturn
<1>4. QED
  BY <1>1, <1>2, <1>3 DEF TypeOK

\* disconnect() closing the transport keeps the types.
LEMMA DisconnectType ==
  ASSUME TypeOK, NEW c \in Callers, Disconnect(c)
  PROVE  TypeOK'
<1>1. ThreadsOK' /\ PeerOK'
  BY DEF TypeOK, Disconnect, TransportDisconnect, ThreadsOK, PeerOK, Drainers
<1>2. FlagsOK' /\ LoopOK' /\ SubmissionOK' /\ OutcomeOK'
  BY DEF TypeOK, Disconnect, FlagsOK, LoopOK, SubmissionOK, OutcomeOK, flags,
     loop, submission, outcome
<1>3. strand' \in Seq(Tasks) /\ pending_map' \in [Keys -> Ids \cup {NoReq}]
  BY DEF TypeOK, Disconnect
<1>4. QED
  BY <1>1, <1>2, <1>3 DEF TypeOK

\* stop() raising its flag keeps the types.
LEMMA StopBeginType ==
  ASSUME TypeOK, StopBegin
  PROVE  TypeOK'
<1>1. FlagsOK' /\ ThreadsOK'
  BY DEF TypeOK, StopBegin, FlagsOK, ThreadsOK
<1>2. LoopOK' /\ PeerOK' /\ SubmissionOK' /\ OutcomeOK'
  BY DEF TypeOK, StopBegin, LoopOK, PeerOK, SubmissionOK, OutcomeOK, loop, peer,
     submission, outcome
<1>3. strand' \in Seq(Tasks) /\ pending_map' \in [Keys -> Ids \cup {NoReq}]
  BY DEF TypeOK, StopBegin
<1>4. QED
  BY <1>1, <1>2, <1>3 DEF TypeOK

\* stop() closing the transport keeps the types.
LEMMA StopDisconnectType ==
  ASSUME TypeOK, StopDisconnect
  PROVE  TypeOK'
<1>1. ThreadsOK' /\ PeerOK'
  BY DEF TypeOK, StopDisconnect, TransportDisconnect, ThreadsOK, PeerOK, Drainers
<1>2. FlagsOK' /\ LoopOK' /\ SubmissionOK' /\ OutcomeOK'
  BY DEF TypeOK, StopDisconnect, FlagsOK, LoopOK, SubmissionOK, OutcomeOK,
     flags, loop, submission, outcome
<1>3. strand' \in Seq(Tasks) /\ pending_map' \in [Keys -> Ids \cup {NoReq}]
  BY DEF TypeOK, StopDisconnect
<1>4. QED
  BY <1>1, <1>2, <1>3 DEF TypeOK

\* stop() releasing the loop keeps the types.
LEMMA StopReleaseLoopType ==
  ASSUME TypeOK, StopReleaseLoop
  PROVE  TypeOK'
<1>1. LoopOK' /\ ThreadsOK'
  BY DEF TypeOK, StopReleaseLoop, LoopOK, ThreadsOK
<1>2. FlagsOK' /\ PeerOK' /\ SubmissionOK' /\ OutcomeOK'
  BY DEF TypeOK, StopReleaseLoop, FlagsOK, PeerOK, SubmissionOK, OutcomeOK,
     flags, peer, submission, outcome
<1>3. strand' \in Seq(Tasks) /\ pending_map' \in [Keys -> Ids \cup {NoReq}]
  BY DEF TypeOK, StopReleaseLoop
<1>4. QED
  BY <1>1, <1>2, <1>3 DEF TypeOK

\* The io loop ending keeps the types.
LEMMA IoLoopEndsType ==
  ASSUME TypeOK, IoLoopEnds
  PROVE  TypeOK'
<1>1. LoopOK'
  BY DEF TypeOK, IoLoopEnds, LoopOK
<1>2. FlagsOK' /\ PeerOK' /\ SubmissionOK' /\ OutcomeOK' /\ ThreadsOK'
  BY DEF TypeOK, IoLoopEnds, FlagsOK, PeerOK, SubmissionOK, OutcomeOK,
     ThreadsOK, flags, peer, submission, outcome, threads
<1>3. strand' \in Seq(Tasks) /\ pending_map' \in [Keys -> Ids \cup {NoReq}]
  BY DEF TypeOK, IoLoopEnds
<1>4. QED
  BY <1>1, <1>2, <1>3 DEF TypeOK

\* stop() returning keeps the types.
LEMMA StopReturnType ==
  ASSUME TypeOK, StopReturn
  PROVE  TypeOK'
<1>1. FlagsOK' /\ LoopOK' /\ ThreadsOK'
  BY DEF TypeOK, StopReturn, FlagsOK, LoopOK, ThreadsOK
<1>2. PeerOK' /\ SubmissionOK' /\ OutcomeOK'
  BY DEF TypeOK, StopReturn, PeerOK, SubmissionOK, OutcomeOK, peer, submission,
     outcome
<1>3. strand' \in Seq(Tasks) /\ pending_map' \in [Keys -> Ids \cup {NoReq}]
  BY DEF TypeOK, StopReturn
<1>4. QED
  BY <1>1, <1>2, <1>3 DEF TypeOK

\* Every step of the client keeps the types.
LEMMA NextType ==
  ASSUME TypeOK, [Next]_vars
  PROVE  TypeOK'
<1>1. CASE RunTask
  BY <1>1, RunRegisterType, RunTimeoutType, RunCancelType, RunResponseType,
     RunClosedType, RunThrowType, RunDrainType DEF RunTask
<1>2. CASE \E r \in Ids : TimerExpires(r)
  BY <1>2, TimerExpiresType
<1>3. CASE IoLoopEnds
  BY <1>3, IoLoopEndsType
<1>4. CASE Peer
  BY <1>4, PeerRespondType, PeerSendsThrowingType, PeerClosesType DEF Peer
<1>5. CASE Submitter
  BY <1>5, ClientAssumption, SubmitCheckType, SubmitPostType, CancelType DEF
     Submitter
<1>6. CASE Connector
  BY <1>6, ConnectBeginType, ConnectRefusedType, ConnectSubmitType,
     ConnectReturnType DEF Connector
<1>7. CASE Drainer
  BY <1>7, DrainPendingType, DrainReturnType, DisconnectType DEF Drainer, Drainers
<1>8. CASE StopThread
  BY <1>8, StopBeginType, StopDisconnectType, StopReleaseLoopType,
     StopReturnType DEF StopThread
<1>9. CASE UNCHANGED vars
  BY <1>9 DEF vars, flags, loop, peer, submission, outcome, threads, TypeOK,
     FlagsOK, LoopOK, PeerOK, SubmissionOK, OutcomeOK, ThreadsOK
<1>10. QED
  BY <1>1, <1>2, <1>3, <1>4, <1>5, <1>6, <1>7, <1>8, <1>9 DEF Next

\* The client keeps every variable in its range: ids stay below next_id's bound,
\* the table maps keys to requests, and the strand holds tasks it can run.
THEOREM TypeCorrect == Spec => []TypeOK
<1>1. Init => TypeOK
  BY InitType
<1>2. TypeOK /\ [Next]_vars => TypeOK'
  BY NextType
<1>3. QED
  BY <1>1, <1>2, PTL DEF Spec

-----------------------------------------------------------------------------
(* The pending table.  NoRequestDropped is not inductive: that a response   *)
(* removes its own request and nobody else's needs to know under which keys *)
(* a request is filed, and that a registration is run once.                 *)

\* Ids not handed out yet are unused.
Fresh == \A r \in Ids : r >= next_id => stage[r] = "free"

\* A progress token is a string, absent, or the request's own id.
TokenOwn == \A r \in Ids : token[r] \in StringTokens \cup {NullId, r}

\* A queued registration is of a posted request, and is queued once.
QueueInv ==
  /\ \A i \in DOMAIN strand, r \in Ids :
       strand[i] = <<"register", r>> => stage[r] = "posted"
  /\ \A i, j \in DOMAIN strand, r \in Ids :
       strand[i] = <<"register", r>> /\ strand[j] = <<"register", r>> => i = j

\* A key in the table belongs to a registered request that waits, and is its
\* id or its token.
EntryInv ==
  \A k \in Keys : pending_map[k] # NoReq =>
    /\ stage[pending_map[k]] = "registered"
    /\ state[pending_map[k]] = "Waiting"
    /\ k = pending_map[k] \/ k = token[pending_map[k]]

\* A request has no outcome before it is registered.
UnregisteredWaits == \A r \in Ids : stage[r] # "registered" => state[r] = "Waiting"

\* The part of the invariant that does not read the strand.
TableInv ==
  /\ Fresh /\ TokenOwn /\ EntryInv /\ NoRequestDropped /\ UnregisteredWaits

IInv == TypeOK /\ QueueInv /\ TableInv

\* Initially nothing is submitted.
LEMMA InitTable == Init => QueueInv /\ TableInv
BY DEF Init, QueueInv, TableInv, Fresh, TokenOwn, EntryInv, NoRequestDropped,
   UnregisteredWaits

\* Posting anything but a registration keeps the queue's invariant.
LEMMA PostQueue ==
  ASSUME TypeOK, QueueInv, NEW t \in Tasks, t[1] # "register", Post(t),
         UNCHANGED stage
  PROVE  QueueInv'
<1>1. /\ Len(strand') = Len(strand) + 1
      /\ \A i \in 1..Len(strand) : strand'[i] = strand[i]
      /\ strand'[Len(strand) + 1] = t
  BY DEF TypeOK, Post
<1>2. strand \in Seq(Tasks) /\ strand' \in Seq(Tasks)
  BY PostType DEF TypeOK
<1>3. \A r \in Ids : t # <<"register", r>>
  OBVIOUS
<1>4. QED
  BY <1>1, <1>2, <1>3 DEF QueueInv

\* Running a task keeps the queue's invariant.
LEMMA PopQueue ==
  ASSUME TypeOK, QueueInv, strand # <<>>, strand' = Tail(strand), UNCHANGED stage
  PROVE  QueueInv'
<1>1. /\ Len(strand') = Len(strand) - 1
      /\ \A i \in 1..(Len(strand) - 1) : strand'[i] = strand[i + 1]
  BY DEF TypeOK
<1>2. strand \in Seq(Tasks) /\ strand' \in Seq(Tasks)
  BY PopType DEF TypeOK
<1>3. /\ DOMAIN strand = 1..Len(strand) /\ DOMAIN strand' = 1..Len(strand')
      /\ Len(strand) \in Nat
  BY <1>2
<1>4. \A i \in DOMAIN strand' : i + 1 \in DOMAIN strand /\ strand'[i] = strand[i + 1]
  BY <1>1, <1>3
<1>5. ASSUME NEW i \in DOMAIN strand', NEW r \in Ids, strand'[i] = <<"register", r>>
      PROVE  stage'[r] = "posted"
  BY <1>4, <1>5 DEF QueueInv
<1>6. ASSUME NEW i \in DOMAIN strand', NEW j \in DOMAIN strand', NEW r \in Ids,
             strand'[i] = <<"register", r>>, strand'[j] = <<"register", r>>
      PROVE  i = j
  <2>1. /\ i + 1 \in DOMAIN strand /\ strand[i + 1] = <<"register", r>>
        /\ j + 1 \in DOMAIN strand /\ strand[j + 1] = <<"register", r>>
    BY <1>4, <1>6
  <2>2. i + 1 = j + 1
    BY <2>1 DEF QueueInv
  <2>3. QED
    BY <2>2, <1>3
<1>7. QED
  BY <1>5, <1>6 DEF QueueInv

\* The table's invariant reads the submission, the table and the states only.
LEMMA KeepTable ==
  ASSUME TableInv, UNCHANGED <<submission, pending_map, state>>
  PROVE  TableInv'
BY DEF TableInv, Fresh, TokenOwn, EntryInv, NoRequestDropped, UnregisteredWaits,
   submission

\* Requests S, which waited, get an outcome and leave the table; the others
\* keep theirs and stay in it.
Resolves(S) ==
  /\ \A r \in S : stage[r] = "registered" /\ state[r] = "Waiting"
  /\ \A r \in Ids \ S : /\ state'[r] = state[r]
                        /\ promise'[r] = promise[r]
                        /\ notified'[r] = notified[r]
  /\ \A r \in S : /\ state'[r] \in Outcomes
                  /\ promise'[r] = state'[r]
                  /\ notified'[r] = notified[r] + 1
  /\ \A x \in Keys : pending_map'[x] = NoReq
                     \/ (pending_map'[x] = pending_map[x] /\ pending_map[x] \notin S)
  /\ \A r \in Ids \ S : pending_map'[r] = pending_map[r]

\* Resolving requests that leave the table keeps the table's invariant.
LEMMA ResolveTable ==
  ASSUME TypeOK, TableInv, NEW S \in SUBSET Ids, Resolves(S), UNCHANGED submission
  PROVE  TableInv'
<1>1. Fresh' /\ TokenOwn'
  BY DEF TableInv, Fresh, TokenOwn, submission
<1>2. EntryInv'
  BY DEF TableInv, EntryInv, Resolves, submission, TypeOK
<1>3. NoRequestDropped'
  BY DEF TableInv, NoRequestDropped, Resolves, submission, Outcomes
<1>4. UnregisteredWaits'
  BY DEF TableInv, UnregisteredWaits, Resolves, submission
<1>5. QED
  BY <1>1, <1>2, <1>3, <1>4 DEF TableInv

\* complete_pending of an id the table knows resolves exactly that request.
LEMMA CompletePendingResolves ==
  ASSUME TypeOK, TableInv, NEW k \in Ids, NEW o \in Outcomes, CompletePending(k, o),
         pending_map[k] # NoReq
  PROVE  pending_map[k] = k /\ Resolves({k})
<1>1. /\ \A r \in Ids, q \in Ids : q = token[r] => q = r
      /\ k \in Keys
  BY ClientAssumption DEF TableInv, TokenOwn, Keys
<1>2. pending_map[k] = k
  BY <1>1 DEF TableInv, EntryInv, TypeOK
<1>3. stage[k] = "registered" /\ state[k] = "Waiting"
  BY <1>1, <1>2 DEF TableInv, EntryInv
<1>4. /\ pending_map' = [x \in Keys |->
           IF x = k \/ (HasTokenKey(k) /\ x = token[k]) THEN NoReq ELSE pending_map[x]]
      /\ Finish({k}, o)
  BY <1>2 DEF CompletePending
<1>5. \A r \in Ids : /\ state'[r] = IF r = k THEN o ELSE state[r]
                     /\ promise'[r] = IF r = k THEN o ELSE promise[r]
                     /\ notified'[r] = IF r = k THEN notified[r] + 1 ELSE notified[r]
  BY <1>3, <1>4 DEF Finish
<1>6. \A x \in Keys : pending_map'[x] = NoReq
                      \/ (pending_map'[x] = pending_map[x] /\ pending_map[x] # k)
  <2>1. SUFFICES ASSUME NEW x \in Keys, pending_map[x] = k
                 PROVE  pending_map'[x] = NoReq
    BY <1>4
  <2>2. x = k \/ x = token[k]
    BY <2>1, <1>2 DEF TableInv, EntryInv
  <2>3. x # NullId
    BY ClientAssumption
  <2>4. QED
    BY <2>2, <2>3, <1>4 DEF HasTokenKey
<1>7. \A r \in Ids : r # k => pending_map'[r] = pending_map[r]
  BY <1>1, <1>4 DEF Keys
<1>8. QED
  BY <1>2, <1>3, <1>5, <1>6, <1>7 DEF Resolves

\* fail_all_pending resolves the requests of the table.
LEMMA FailAllPendingResolves ==
  ASSUME TypeOK, TableInv, FailAllPending
  PROVE  \E S \in SUBSET Ids : Resolves(S)
<1> DEFINE S == {r \in Ids : state[r] = "Waiting" /\ \E k \in Keys : pending_map[k] = r}
<1>1. Finish(S, "Failed") /\ pending_map' = [k \in Keys |-> NoReq]
  BY DEF FailAllPending
<1>2. \A r \in S : stage[r] = "registered" /\ state[r] = "Waiting"
  BY ClientAssumption DEF TableInv, EntryInv, NoReq, Ids
<1>3. \A r \in Ids :
        /\ state'[r] = IF r \in S THEN "Failed" ELSE state[r]
        /\ promise'[r] = IF r \in S THEN "Failed" ELSE promise[r]
        /\ notified'[r] = IF r \in S THEN notified[r] + 1 ELSE notified[r]
  BY <1>1 DEF Finish
<1>4. \A r \in Ids \ S : pending_map'[r] = pending_map[r]
  <2>1. SUFFICES ASSUME NEW r \in Ids, pending_map[r] # NoReq PROVE r \in S
    BY <1>1 DEF Keys
  <2>2. r \in Keys /\ \A q \in Ids : r = token[q] => r = q
    BY ClientAssumption DEF TableInv, TokenOwn, Keys
  <2>3. pending_map[r] = r /\ state[r] = "Waiting"
    BY <2>1, <2>2 DEF TableInv, EntryInv, TypeOK
  <2>4. QED
    BY <2>2, <2>3
<1>5. \A x \in Keys : pending_map'[x] = NoReq
  BY <1>1
<1>6. Resolves(S)
  BY <1>2, <1>3, <1>4, <1>5 DEF Resolves, Outcomes
<1>7. QED
  BY <1>6

\* complete_pending of any id resolves requests, or changes nothing.
LEMMA CompletePendingShape ==
  ASSUME TypeOK, TableInv, NEW k \in Ids, NEW o \in Outcomes, CompletePending(k, o)
  PROVE  UNCHANGED <<pending_map, outcome>> \/ \E S \in SUBSET Ids : Resolves(S)
<1>1. CASE pending_map[k] = NoReq
  BY <1>1 DEF CompletePending
<1>2. CASE pending_map[k] # NoReq
  BY <1>2, CompletePendingResolves
<1>3. QED
  BY <1>1, <1>2

\* The four things a step may do to the requests.
Idle == UNCHANGED <<submission, pending_map, state, promise, notified>>
Creates ==
  /\ \E m \in {"initialize", "call"}, t \in BOOLEAN,
        tk \in StringTokens \cup {NullId, next_id} : Create(m, tk, t)
  /\ UNCHANGED <<pending_map, state, promise, notified>>
Submits == \E r \in Ids : SubmitPost(r) \/ RunRegister(r)
Settles == UNCHANGED submission /\ \E S \in SUBSET Ids : Resolves(S)

\* The tasks of the strand other than registrations settle requests or leave
\* them alone.
LEMMA RunTaskShape ==
  ASSUME IInv, RunTask
  PROVE  Idle \/ Submits \/ Settles
<1> USE DEF IInv, Idle, Settles
<1>1. ASSUME NEW r \in Ids, RunRegister(r) PROVE Submits
  BY <1>1 DEF Submits
<1>2. ASSUME NEW r \in Ids, RunTimeout(r) PROVE Idle \/ Settles
  <2>1. "TimedOut" \in Outcomes
    BY DEF Outcomes
  <2>2. QED
    BY <1>2, <2>1, CompletePendingShape DEF RunTimeout, outcome
<1>3. ASSUME NEW r \in Ids, RunCancel(r) PROVE Idle \/ Settles
  <2>1. "Cancelled" \in Outcomes
    BY DEF Outcomes
  <2>2. QED
    BY <1>3, <2>1, CompletePendingShape DEF RunCancel, outcome
<1>4. ASSUME NEW r \in Ids, NEW op \in Responses, RunResponse(op, r)
      PROVE  Idle \/ Settles
  <2>1. \A q : ResponseOutcome(op, q) \in Outcomes
    BY DEF ResponseOutcome, Outcomes
  <2>2. UNCHANGED submission
    BY <1>4 DEF RunResponse
  <2>3. UNCHANGED <<pending_map, outcome>> \/ \E S \in SUBSET Ids : Resolves(S)
    BY <1>4, <2>1, CompletePendingShape DEF RunResponse
  <2>4. QED
    BY <2>2, <2>3 DEF outcome
<1>5. CASE RunClosed
  BY <1>5, FailAllPendingResolves DEF RunClosed
<1>6. CASE RunThrow
  BY <1>6, FailAllPendingResolves DEF RunThrow, outcome
<1>7. ASSUME NEW c \in Drainers, RunDrain(c) PROVE Settles
  BY <1>7, FailAllPendingResolves DEF RunDrain
<1>8. QED
  BY <1>1, <1>2, <1>3, <1>4, <1>5, <1>6, <1>7 DEF RunTask

\* Every step is of one of the four shapes.
LEMMA StepShape ==
  ASSUME NumericTokens = {}, IInv, [Next]_vars
  PROVE  Idle \/ Creates \/ Submits \/ Settles
<1> USE DEF IInv
<1>1. CASE RunTask
  BY <1>1, RunTaskShape
<1>2. CASE \E r \in Ids : TimerExpires(r)
  BY <1>2 DEF TimerExpires, Idle
<1>3. CASE IoLoopEnds
  BY <1>3 DEF IoLoopEnds, Idle, outcome
<1>4. CASE Peer
  BY <1>4 DEF Peer, PeerRespond, PeerSendsThrowing, PeerCloses, Idle, outcome
<1>5. CASE Submitter
  <2>1. ASSUME NEW custom \in {NullId} \cup StringTokens \cup NumericTokens,
               NEW p \in BOOLEAN, NEW t \in TimedChoices, SubmitCheck(custom, p, t)
        PROVE  Creates
    <3>1. EffectiveToken(next_id, custom, p) \in StringTokens \cup {NullId, next_id}
      BY DEF EffectiveToken
    <3>2. t \in BOOLEAN
      BY ClientAssumption
    <3>3. QED
      BY <2>1, <3>1, <3>2 DEF SubmitCheck, Creates, outcome
  <2>2. ASSUME NEW r \in Ids, Cancel(r) PROVE Idle
    BY <2>2 DEF Cancel, Idle, outcome
  <2>3. QED
    BY <1>5, <2>1, <2>2, ClientAssumption DEF Submitter, Submits
<1>6. CASE Connector
  <2>1. ASSUME NEW t \in TimedChoices, ConnectSubmit(t) PROVE Idle \/ Creates
    <3>1. t \in BOOLEAN
      BY ClientAssumption
    <3>2. QED
      BY <2>1, <3>1 DEF ConnectSubmit, Idle, Creates, outcome
  <2>2. QED
    BY <1>6, <2>1 DEF Connector, ConnectBegin, ConnectRefused, ConnectReturn,
       Idle, outcome
<1>7. CASE Drainer
  <2>1. ASSUME NEW c \in Drainers, DrainPending(c) PROVE Idle \/ Settles
    BY <2>1, FailAllPendingResolves DEF DrainPending, Idle, Settles, outcome
  <2>2. QED
    BY <1>7, <2>1 DEF Drainer, DrainReturn, Disconnect, Idle, outcome
<1>8. CASE StopThread
  BY <1>8 DEF StopThread, StopBegin, StopDisconnect, StopReleaseLoop, StopReturn,
     Idle, outcome
<1>9. CASE UNCHANGED vars
  BY <1>9 DEF vars, Idle, outcome
<1>10. QED
  BY <1>1, <1>2, <1>3, <1>4, <1>5, <1>6, <1>7, <1>8, <1>9 DEF Next

\* A step of one of the four shapes keeps the table's invariant.
LEMMA TableStep ==
  ASSUME NumericTokens = {}, IInv, [Next]_vars
  PROVE  TableInv'
<1> USE DEF IInv
<1>1. CASE Idle
  BY <1>1, KeepTable DEF Idle
<1>2. CASE Creates
  <2>1. PICK m \in {"initialize", "call"}, t \in BOOLEAN,
             tk \in StringTokens \cup {NullId, next_id} : Create(m, tk, t)
    BY <1>2 DEF Creates
  <2>2. next_id \in Ids /\ stage[next_id] = "free"
    BY <2>1 DEF Create, TableInv, Fresh, Ids
  <2>3. /\ next_id' = next_id + 1
        /\ \A r \in Ids : stage'[r] = IF r = next_id THEN "checked" ELSE stage[r]
        /\ \A r \in Ids : token'[r] = IF r = next_id THEN tk ELSE token[r]
    BY <2>1 DEF Create, TypeOK, SubmissionOK
  <2>4. UNCHANGED <<pending_map, state>>
    BY <1>2 DEF Creates
  <2>5. Fresh'
    BY <2>2, <2>3 DEF TableInv, Fresh, Ids
  <2>6. TokenOwn'
    BY <2>2, <2>3 DEF TableInv, TokenOwn
  <2>7. EntryInv'
    BY <2>2, <2>3, <2>4 DEF TableInv, EntryInv, TypeOK
  <2>8. NoRequestDropped' /\ UnregisteredWaits'
    BY <2>2, <2>3, <2>4 DEF TableInv, NoRequestDropped, UnregisteredWaits
  <2>9. QED
    BY <2>5, <2>6, <2>7, <2>8 DEF TableInv
<1>3. ASSUME NEW r \in Ids, SubmitPost(r) PROVE TableInv'
  <2>1. stage[r] = "checked"
    BY <1>3 DEF SubmitPost
  <2>2. /\ \A q \in Ids : stage'[q] = IF q = r THEN "posted" ELSE stage[q]
        /\ UNCHANGED <<next_id, token, pending_map, state>>
    BY <1>3 DEF SubmitPost, TypeOK, SubmissionOK, outcome
  <2>3. Fresh' /\ TokenOwn'
    BY <2>1, <2>2 DEF TableInv, Fresh, TokenOwn
  <2>4. EntryInv'
    BY <2>1, <2>2 DEF TableInv, EntryInv, TypeOK
  <2>5. NoRequestDropped' /\ UnregisteredWaits'
    BY <2>1, <2>2 DEF TableInv, NoRequestDropped, UnregisteredWaits
  <2>6. QED
    BY <2>3, <2>4, <2>5 DEF TableInv
<1>4. ASSUME NEW r \in Ids, RunRegister(r) PROVE TableInv'
  <2>1. stage[r] = "posted"
    <3>1. 1 \in DOMAIN strand /\ strand[1] = <<"register", r>>
      BY <1>4 DEF RunRegister, Running, TypeOK
    <3>2. QED
      BY <3>1 DEF QueueInv
  <2>2. state[r] = "Waiting"
    BY <2>1 DEF TableInv, UnregisteredWaits
  <2>3. /\ \A q \in Ids : stage'[q] = IF q = r THEN "registered" ELSE stage[q]
        /\ UNCHANGED <<next_id, token, state>>
    BY <1>4 DEF RunRegister, TypeOK, SubmissionOK
  <2>4. \A k \in Keys : pending_map'[k] =
          IF k = r \/ (HasTokenKey(r) /\ k = token[r]) THEN r ELSE pending_map[k]
    BY <1>4 DEF RunRegister
  <2>5. Fresh' /\ TokenOwn'
    BY <2>1, <2>3 DEF TableInv, Fresh, TokenOwn
  <2>6. EntryInv'
    BY <2>2, <2>3, <2>4 DEF TableInv, EntryInv, TypeOK
  <2>7. NoRequestDropped'
    <3>1. SUFFICES ASSUME NEW q \in Ids, stage'[q] = "registered", state'[q] = "Waiting"
                   PROVE  pending_map'[q] = q
      BY DEF NoRequestDropped
    <3>2. q \in Keys
      BY DEF Keys
    <3>3. CASE q = r
      BY <3>2, <3>3, <2>4
    <3>4. CASE q # r
      <4>1. pending_map[q] = q
        BY <3>1, <3>4, <2>3 DEF TableInv, NoRequestDropped
      <4>2. q # token[r] \/ ~HasTokenKey(r)
        BY <3>4, ClientAssumption DEF TableInv, TokenOwn, HasTokenKey
      <4>3. QED
        BY <3>2, <3>4, <4>1, <4>2, <2>4
    <3>5. QED
      BY <3>3, <3>4
  <2>8. UnregisteredWaits'
    BY <2>3 DEF TableInv, UnregisteredWaits
  <2>9. QED
    BY <2>5, <2>6, <2>7, <2>8 DEF TableInv
<1>5. CASE Settles
  BY <1>5, ResolveTable DEF Settles
<1>6. QED
  BY <1>1, <1>2, <1>3, <1>4, <1>5, StepShape DEF Submits

\* Creating a request does not touch queued registrations.
LEMMA CreateQueue ==
  ASSUME IInv, NEW m, NEW tk, NEW t, Create(m, tk, t), UNCHANGED strand
  PROVE  QueueInv'
<1>1. next_id \in Ids /\ stage[next_id] = "free"
  BY DEF IInv, Create, TableInv, Fresh, Ids
<1>2. \A r \in Ids : stage'[r] = IF r = next_id THEN "checked" ELSE stage[r]
  BY DEF IInv, Create, TypeOK, SubmissionOK
<1>3. QED
  BY <1>1, <1>2 DEF IInv, QueueInv

\* Posting a registration queues it once.
LEMMA SubmitPostQueue ==
  ASSUME IInv, NEW r \in Ids, SubmitPost(r)
  PROVE  QueueInv'
<1>1. /\ stage[r] = "checked"
      /\ \A q \in Ids : stage'[q] = IF q = r THEN "posted" ELSE stage[q]
  BY DEF IInv, SubmitPost, TypeOK, SubmissionOK
<1>2. /\ strand \in Seq(Tasks) /\ strand' \in Seq(Tasks)
      /\ Len(strand') = Len(strand) + 1
      /\ \A i \in 1..Len(strand) : strand'[i] = strand[i]
      /\ strand'[Len(strand) + 1] = <<"register", r>>
  <2>1. strand \in Seq(Tasks) /\ <<"register", r>> \in Tasks
    BY TaskTypes DEF IInv, TypeOK
  <2>2. strand' = Append(strand, <<"register", r>>)
    BY DEF SubmitPost, Post
  <2>3. QED
    BY <2>1, <2>2
<1>3. \A i \in DOMAIN strand : strand[i] # <<"register", r>>
  BY <1>1 DEF IInv, QueueInv
<1>4. \A i \in DOMAIN strand' :
        \/ i \in DOMAIN strand /\ strand'[i] = strand[i]
        \/ i = Len(strand) + 1 /\ strand'[i] = <<"register", r>>
  <2>1. /\ DOMAIN strand = 1..Len(strand) /\ DOMAIN strand' = 1..(Len(strand) + 1)
        /\ Len(strand) \in Nat
    BY <1>2
  <2>2. QED
    BY <2>1, <1>2
<1>5. ASSUME NEW i \in DOMAIN strand', NEW q \in Ids, strand'[i] = <<"register", q>>
      PROVE  stage'[q] = "posted"
  BY <1>1, <1>4, <1>5 DEF IInv, QueueInv
<1>6. ASSUME NEW i \in DOMAIN strand', NEW j \in DOMAIN strand', NEW q \in Ids,
             strand'[i] = <<"register", q>>, strand'[j] = <<"register", q>>
      PROVE  i = j
  BY <1>3, <1>4, <1>6 DEF IInv, QueueInv
<1>7. QED
  BY <1>5, <1>6 DEF QueueInv

\* Running a registration takes the only one of its request off the strand.
LEMMA RunRegisterQueue ==
  ASSUME IInv, NEW r \in Ids, RunRegister(r)
  PROVE  QueueInv'
<1>1. /\ strand # <<>> /\ strand' = Tail(strand) /\ strand \in Seq(Tasks)
      /\ strand[1] = <<"register", r>>
      /\ \A q \in Ids : stage'[q] = IF q = r THEN "registered" ELSE stage[q]
  BY DEF IInv, RunRegister, Running, TypeOK, SubmissionOK
<1>2. /\ DOMAIN strand = 1..Len(strand) /\ DOMAIN strand' = 1..(Len(strand) - 1)
      /\ Len(strand) \in Nat
      /\ \A i \in 1..(Len(strand) - 1) : strand'[i] = strand[i + 1]
  BY <1>1
<1>3. /\ 1 \in DOMAIN strand
      /\ \A i \in DOMAIN strand' : /\ i + 1 \in DOMAIN strand /\ i + 1 # 1
                                   /\ strand'[i] = strand[i + 1]
  BY <1>1, <1>2
<1>4. \A i \in DOMAIN strand' : strand'[i] # <<"register", r>>
  BY <1>1, <1>3 DEF IInv, QueueInv
<1>5. ASSUME NEW i \in DOMAIN strand', NEW q \in Ids, strand'[i] = <<"register", q>>
      PROVE  stage'[q] = "posted"
  BY <1>1, <1>3, <1>4, <1>5 DEF IInv, QueueInv
<1>6. ASSUME NEW i \in DOMAIN strand', NEW j \in DOMAIN strand', NEW q \in Ids,
             strand'[i] = <<"register", q>>, strand'[j] = <<"register", q>>
      PROVE  i = j
  <2>1. /\ i + 1 \in DOMAIN strand /\ strand[i + 1] = <<"register", q>>
        /\ j + 1 \in DOMAIN strand /\ strand[j + 1] = <<"register", q>>
    BY <1>3, <1>6
  <2>2. i + 1 = j + 1
    BY <2>1 DEF IInv, QueueInv
  <2>3. QED
    BY <2>2, <1>2
<1>7. QED
  BY <1>5, <1>6 DEF QueueInv

\* The queue's invariant reads the strand and the stages only.
LEMMA KeepQueue ==
  ASSUME QueueInv, UNCHANGED <<strand, stage>>
  PROVE  QueueInv'
BY DEF QueueInv

\* Every step keeps the queue's invariant.
LEMMA QueueStep ==
  ASSUME IInv, [Next]_vars
  PROVE  QueueInv'
<1> USE DEF IInv
<1>1. CASE RunTask
  <2>1. ASSUME strand # <<>>, strand' = Tail(strand), UNCHANGED stage
        PROVE  QueueInv'
    BY <2>1, PopQueue
  <2>2. QED
    BY <1>1, <2>1, RunRegisterQueue DEF RunTask, RunTimeout, RunCancel, RunResponse,
       RunClosed, RunThrow, RunDrain, Running, submission
<1>2. ASSUME NEW r \in Ids, TimerExpires(r) PROVE QueueInv'
  BY <1>2, PostQueue, TaskTypes DEF TimerExpires, submission
<1>3. CASE IoLoopEnds
  BY <1>3, KeepQueue DEF IoLoopEnds, submission
<1>4. CASE Peer
  <2>1. ASSUME NEW r \in Ids, NEW op \in Responses, PeerRespond(op, r) PROVE QueueInv'
    BY <2>1, PostQueue, TaskTypes DEF PeerRespond, FromPeer, submission, Responses
  <2>2. CASE PeerSendsThrowing
    BY <2>2, PostQueue, TaskTypes DEF PeerSendsThrowing, FromPeer, submission
  <2>3. CASE PeerCloses
    BY <2>3, PostQueue, TaskTypes DEF PeerCloses, FromPeer, submission
  <2>4. QED
    BY <1>4, <2>1, <2>2, <2>3 DEF Peer
<1>5. CASE Submitter
  <2>1. ASSUME NEW custom, NEW p, NEW t, SubmitCheck(custom, p, t) PROVE QueueInv'
    BY <2>1, CreateQueue DEF SubmitCheck
  <2>2. ASSUME NEW r \in Ids, Cancel(r) PROVE QueueInv'
    BY <2>2, PostQueue, TaskTypes DEF Cancel, submission
  <2>3. QED
    BY <1>5, <2>1, <2>2, SubmitPostQueue, ClientAssumption DEF Submitter
<1>6. CASE Connector
  <2>1. ASSUME NEW t, ConnectSubmit(t) PROVE QueueInv'
    BY <2>1, CreateQueue, KeepQueue DEF ConnectSubmit, submission
  <2>2. QED
    BY <1>6, <2>1, KeepQueue DEF Connector, ConnectBegin, ConnectRefused,
       ConnectReturn, submission
<1>7. CASE Drainer
  <2>1. ASSUME NEW c \in Drainers, DrainPending(c) PROVE QueueInv'
    BY <2>1, PostQueue, KeepQueue, TaskTypes DEF DrainPending, submission
  <2>2. QED
    BY <1>7, <2>1, KeepQueue DEF Drainer, DrainReturn, Disconnect, submission
<1>8. CASE StopThread
  BY <1>8, KeepQueue DEF StopThread, StopBegin, StopDisconnect, StopReleaseLoop,
     StopReturn, submission
<1>9. CASE UNCHANGED vars
  BY <1>9, KeepQueue DEF vars, submission
<1>10. QED
  BY <1>1, <1>2, <1>3, <1>4, <1>5, <1>6, <1>7, <1>8, <1>9 DEF Next

\* When no custom progress token is a number, the invariant always holds.
THEOREM TableInvariance ==
  ASSUME NumericTokens = {}
  PROVE  Spec => []IInv
<1>1. Init => IInv
  BY InitType, InitTable DEF IInv
<1>2. IInv /\ [Next]_vars => IInv'
  BY NextType, QueueStep, TableStep DEF IInv
<1>3. QED
  BY <1>1, <1>2, PTL DEF Spec

\* With string (or no) custom progress tokens, the client never takes a request
\* out of its table without giving it an outcome, however many requests,
\* threads, disconnects and shutdowns interleave.
THEOREM RequestNeverDropped ==
  ASSUME NumericTokens = {}
  PROVE  Spec => []NoRequestDropped
<1>1. IInv => NoRequestDropped
  BY DEF IInv, TableInv
<1>2. QED
  BY <1>1, TableInvariance, PTL

\* With string custom progress tokens, a finished request is out of the table,
\* so nothing that comes late can overwrite its outcome.
THEOREM EntryNeverStale ==
  ASSUME NumericTokens = {}
  PROVE  Spec => []NoStaleEntry
<1>1. IInv => NoStaleEntry
  BY DEF IInv, TableInv, EntryInv, NoStaleEntry
<1>2. QED
  BY <1>1, TableInvariance, PTL

\* With string custom progress tokens, pending_map_ holds exactly the registered
\* requests that have no outcome.
THEOREM TableIsExact ==
  ASSUME NumericTokens = {}
  PROVE  Spec => []TableExact
<1>1. NoRequestDropped /\ NoStaleEntry => TableExact
  BY DEF TableExact
<1>2. QED
  BY <1>1, RequestNeverDropped, EntryNeverStale, PTL

-----------------------------------------------------------------------------
(* The client implements the request contract *)

\* A step of one of the four shapes is a step of the contract.
LEMMA ContractStep ==
  ASSUME NumericTokens = {}, IInv, [Next]_vars
  PROVE  [Contract!Next]_(Contract!vars)
<1> USE DEF IInv
<1> DEFINE status == [r \in Ids |-> IF stage[r] = "free" THEN "Free" ELSE state[r]]
<1>1. SUFFICES \A r \in Ids : Contract!Stays(r) \/ Contract!Created(r) \/ Contract!Resolved(r)
  BY DEF Contract!Next
<1>2. \A r \in Ids : /\ status[r] = (IF stage[r] = "free" THEN "Free" ELSE state[r])
                     /\ status'[r] = (IF stage'[r] = "free" THEN "Free" ELSE state'[r])
  OBVIOUS
<1>3. CASE Idle
  BY <1>2, <1>3 DEF Idle, submission, Contract!Stays
<1>4. CASE Creates
  <2>1. PICK m \in {"initialize", "call"}, t \in BOOLEAN,
             tk \in StringTokens \cup {NullId, next_id} : Create(m, tk, t)
    BY <1>4 DEF Creates
  <2>2. next_id \in Ids /\ stage[next_id] = "free" /\ state[next_id] = "Waiting"
    BY <2>1 DEF Create, TableInv, Fresh, UnregisteredWaits, Ids
  <2>3. /\ \A r \in Ids : stage'[r] = IF r = next_id THEN "checked" ELSE stage[r]
        /\ UNCHANGED <<state, promise, notified>>
    BY <1>4, <2>1 DEF Create, Creates, TypeOK, SubmissionOK
  <2>4. QED
    BY <1>2, <2>2, <2>3 DEF Contract!Stays, Contract!Created
<1>5. CASE Submits
  <2>1. PICK r \in Ids : SubmitPost(r) \/ RunRegister(r)
    BY <1>5 DEF Submits
  <2>2. stage[r] # "free"
    <3>1. CASE SubmitPost(r)
      BY <3>1 DEF SubmitPost
    <3>2. CASE RunRegister(r)
      <4>1. 1 \in DOMAIN strand /\ strand[1] = <<"register", r>>
        BY <3>2 DEF RunRegister, Running, TypeOK
      <4>2. QED
        BY <4>1 DEF QueueInv
    <3>3. QED
      BY <2>1, <3>1, <3>2
  <2>3. /\ stage'[r] # "free"
        /\ \A q \in Ids : q # r => stage'[q] = stage[q]
        /\ UNCHANGED <<state, promise, notified>>
    BY <2>1 DEF SubmitPost, RunRegister, TypeOK, SubmissionOK, outcome
  <2>4. QED
    BY <1>2, <2>2, <2>3 DEF Contract!Stays
<1>6. CASE Settles
  <2>1. PICK S \in SUBSET Ids : Resolves(S)
    BY <1>6 DEF Settles
  <2>2. UNCHANGED stage
    BY <1>6 DEF Settles, submission
  <2>3. \A r \in S : Contract!Resolved(r)
    BY <1>2, <2>1, <2>2 DEF Resolves, Contract!Resolved, Outcomes, Contract!Outcomes
  <2>4. \A r \in Ids \ S : Contract!Stays(r)
    BY <1>2, <2>1, <2>2 DEF Resolves, Contract!Stays
  <2>5. QED
    BY <2>3, <2>4
<1>7. QED
  BY <1>3, <1>4, <1>5, <1>6, StepShape

\* With string custom progress tokens, every request of the client settles as
\* RequestContract says: state(), the future and the callbacks get one and the
\* same outcome, once, and it is never replaced.
THEOREM ContractRefinement ==
  ASSUME NumericTokens = {}
  PROVE  Spec => ImplementsRequestContract
<1>1. Init => Contract!Init
  BY DEF Init, Contract!Init
<1>2. IInv /\ [Next]_vars => [Contract!Next]_(Contract!vars)
  BY ContractStep
<1>3. QED
  BY <1>1, <1>2, TableInvariance, PTL DEF Spec, ImplementsRequestContract,
     Contract!Spec

-----------------------------------------------------------------------------
(* What the strand holds *)

\* A task that runs leaves the strand, and only it (unless it is queued twice).
LEMMA PopQueued ==
  ASSUME TypeOK, NEW op, NEW a, Running(op, a), strand' = Tail(strand)
  PROVE  \A p, b : /\ Queued(p, b)' => Queued(p, b)
                   /\ Queued(p, b) /\ p # op => Queued(p, b)'
                   /\ Queued(p, b) /\ b # a => Queued(p, b)'
<1>1. /\ strand \in Seq(Tasks) /\ strand # <<>> /\ strand[1] = <<op, a>>
      /\ strand' = Tail(strand)
  BY DEF TypeOK, Running
<1>2. /\ Len(strand) \in Nat \ {0} /\ DOMAIN strand = 1..Len(strand)
      /\ DOMAIN strand' = 1..(Len(strand) - 1)
      /\ \A i \in 1..(Len(strand) - 1) : strand'[i] = strand[i + 1]
  BY <1>1
<1>3. SUFFICES ASSUME NEW p, NEW b
               PROVE  /\ Queued(p, b)' => Queued(p, b)
                      /\ Queued(p, b) /\ p # op => Queued(p, b)'
                      /\ Queued(p, b) /\ b # a => Queued(p, b)'
  OBVIOUS
<1>4. Queued(p, b)' => Queued(p, b)
  BY <1>2 DEF Queued
<1>5. ASSUME Queued(p, b), p # op \/ b # a PROVE Queued(p, b)'
  <2>1. PICK i \in DOMAIN strand : strand[i] = <<p, b>>
    BY <1>5 DEF Queued
  <2>2. i # 1
    BY <1>1, <1>5, <2>1
  <2>3. i - 1 \in DOMAIN strand' /\ strand'[i - 1] = <<p, b>>
    BY <1>2, <2>1, <2>2
  <2>4. QED
    BY <2>3 DEF Queued
<1>6. QED
  BY <1>4, <1>5

\* A posted task is on the strand, with what was there.
LEMMA PostQueued ==
  ASSUME TypeOK, NEW op, NEW a, <<op, a>> \in Tasks, Post(<<op, a>>)
  PROVE  /\ Queued(op, a)'
         /\ \A p, b : /\ Queued(p, b) => Queued(p, b)'
                      /\ Queued(p, b)' => Queued(p, b) \/ (p = op /\ b = a)
<1>1. strand \in Seq(Tasks) /\ strand' = Append(strand, <<op, a>>)
  BY DEF TypeOK, Post
<1>2. /\ Len(strand) \in Nat /\ DOMAIN strand = 1..Len(strand)
      /\ DOMAIN strand' = 1..(Len(strand) + 1)
      /\ \A i \in 1..Len(strand) : strand'[i] = strand[i]
      /\ strand'[Len(strand) + 1] = <<op, a>>
  BY <1>1
<1>3. Queued(op, a)'
  BY <1>2 DEF Queued
<1>4. ASSUME NEW p, NEW b
      PROVE  /\ Queued(p, b) => Queued(p, b)'
             /\ Queued(p, b)' => Queued(p, b) \/ (p = op /\ b = a)
  BY <1>2 DEF Queued
<1>5. QED
  BY <1>3, <1>4

-----------------------------------------------------------------------------
(* Outcomes and timers.  The loop may only end under requests with a timeout *)
(* that have their outcome: while one waits, its timer is armed or its       *)
(* handler is queued, and either keeps run() from returning.                 *)

\* The future has an outcome exactly when the state has one.
Settled == \A r \in Ids : state[r] = "Waiting" <=> promise[r] = "Unset"

\* A request with a timeout that waits has a timer, or the timer's handler is
\* queued.
TimerInv ==
  \A r \in Ids : stage[r] = "registered" /\ timed[r] /\ state[r] = "Waiting" =>
    timer[r] = "armed" \/ Queued("timeout", r)

LoopInv == IInv /\ Settled /\ TimerInv /\ LoopOutlivesTimeouts

\* Every step keeps state and future in agreement.
LEMMA SettledStep ==
  ASSUME NumericTokens = {}, IInv, Settled, [Next]_vars
  PROVE  Settled'
<1>1. CASE Idle
  BY <1>1 DEF Idle, Settled
<1>2. CASE Creates
  BY <1>2 DEF Creates, Settled
<1>3. CASE Submits
  BY <1>3 DEF Submits, SubmitPost, RunRegister, outcome, Settled
<1>4. CASE Settles
  <2>1. PICK S \in SUBSET Ids : Resolves(S)
    BY <1>4 DEF Settles
  <2>2. QED
    BY <2>1 DEF Resolves, Settled, Outcomes
<1>5. QED
  BY <1>1, <1>2, <1>3, <1>4, StepShape

\* A request that still waits after finish() keeps its timer.
LEMMA FinishTimer ==
  ASSUME NEW S, NEW o \in Outcomes, Finish(S, o), NEW r \in Ids, state'[r] = "Waiting"
  PROVE  timer'[r] = timer[r] /\ state[r] = "Waiting"
BY DEF Finish, Outcomes

\* The same for complete_pending and fail_all_pending.
LEMMA CompleteTimer ==
  ASSUME NEW r \in Ids, state'[r] = "Waiting",
         \/ \E k \in Ids, o \in Outcomes : CompletePending(k, o)
         \/ FailAllPending
         \/ UNCHANGED outcome
  PROVE  timer'[r] = timer[r] /\ state[r] = "Waiting"
<1>1. CASE UNCHANGED outcome
  BY <1>1 DEF outcome
<1>2. CASE FailAllPending
  <2>1. "Failed" \in Outcomes
    BY DEF Outcomes
  <2>2. QED
    BY <1>2, <2>1, FinishTimer DEF FailAllPending
<1>3. ASSUME NEW k \in Ids, NEW o \in Outcomes, CompletePending(k, o)
      PROVE  timer'[r] = timer[r] /\ state[r] = "Waiting"
  <2>1. CASE pending_map[k] = NoReq
    BY <1>3, <2>1 DEF CompletePending, outcome
  <2>2. CASE pending_map[k] # NoReq
    BY <1>3, <2>2, FinishTimer DEF CompletePending
  <2>3. QED
    BY <2>1, <2>2
<1>4. QED
  BY <1>1, <1>2, <1>3

\* The outcomes a task gives, as complete_pending or fail_all_pending.
Concludes ==
  \/ \E k \in Ids, o \in Outcomes : CompletePending(k, o)
  \/ FailAllPending
  \/ UNCHANGED outcome

\* Every task that is no registration concludes requests or leaves them alone.
LEMMA TaskConcludes ==
  ASSUME RunTask, \A r \in Ids : ~RunRegister(r)
  PROVE  Concludes /\ UNCHANGED submission
<1> USE DEF Concludes
<1>1. ASSUME NEW r \in Ids, RunTimeout(r) PROVE Concludes /\ UNCHANGED submission
  <2>1. "TimedOut" \in Outcomes
    BY DEF Outcomes
  <2>2. QED
    BY <1>1, <2>1 DEF RunTimeout
<1>2. ASSUME NEW r \in Ids, RunCancel(r) PROVE Concludes /\ UNCHANGED submission
  <2>1. "Cancelled" \in Outcomes
    BY DEF Outcomes
  <2>2. QED
    BY <1>2, <2>1 DEF RunCancel
<1>3. ASSUME NEW r \in Ids, NEW op \in Responses, RunResponse(op, r)
      PROVE  Concludes /\ UNCHANGED submission
  <2>1. \A q : ResponseOutcome(op, q) \in Outcomes
    BY DEF ResponseOutcome, Outcomes
  <2>2. QED
    BY <1>3, <2>1 DEF RunResponse
<1>4. CASE RunClosed
  BY <1>4 DEF RunClosed
<1>5. CASE RunThrow
  BY <1>5 DEF RunThrow
<1>6. ASSUME NEW c \in Drainers, RunDrain(c) PROVE Concludes /\ UNCHANGED submission
  BY <1>6 DEF RunDrain
<1>7. QED
  BY <1>1, <1>2, <1>3, <1>4, <1>5, <1>6 DEF RunTask

\* A task that is no timer's handler leaves those on the strand.
LEMMA TaskKeepsTimeouts ==
  ASSUME TypeOK, RunTask, NEW r \in Ids, ~RunTimeout(r), Queued("timeout", r)
  PROVE  Queued("timeout", r)'
<1>1. PICK op, a : /\ Running(op, a) /\ strand' = Tail(strand)
                   /\ op # "timeout" \/ a # r
  BY DEF RunTask, RunRegister, RunTimeout, RunCancel, RunResponse, RunClosed, RunThrow,
     RunDrain, Responses
<1>2. QED
  BY <1>1, PopQueued

\* The steps that are neither tasks nor expiring timers keep the requests'
\* outcomes and timers, or conclude them, and take no task off the strand.
LEMMA ThreadStep ==
  ASSUME TypeOK, [Next]_vars, ~RunTask, \A r \in Ids : ~TimerExpires(r)
  PROVE  /\ Concludes
         /\ \A p, b : Queued(p, b) => Queued(p, b)'
         /\ \A r \in Ids :
              \/ stage'[r] # "registered"
              \/ stage'[r] = stage[r] /\ timed'[r] = timed[r] /\ method'[r] = method[r]
<1> DEFINE K == \A p, b : Queued(p, b) => Queued(p, b)'
           L == \A r \in Ids :
                  \/ stage'[r] # "registered"
                  \/ stage'[r] = stage[r] /\ timed'[r] = timed[r] /\ method'[r] = method[r]
<1> USE DEF Concludes
<1>1. ASSUME UNCHANGED strand PROVE K
  BY <1>1 DEF Queued
<1>2. ASSUME UNCHANGED submission PROVE L
  BY <1>2 DEF submission
<1>3. CASE Peer
  <2>1. Concludes /\ UNCHANGED submission
    BY <1>3 DEF Peer, PeerRespond, PeerSendsThrowing, PeerCloses
  <2>2. PICK op, a : <<op, a>> \in Tasks /\ Post(<<op, a>>)
    BY <1>3, TaskTypes DEF Peer, PeerRespond, PeerSendsThrowing, PeerCloses, FromPeer
  <2>3. K
    BY <2>2, PostQueued
  <2>4. QED
    BY <1>2, <2>1, <2>3
<1>4. ASSUME NEW m, NEW tk, NEW t, Create(m, tk, t) PROVE L
  BY <1>4 DEF Create, TypeOK, SubmissionOK
<1>5. CASE Submitter
  <2>1. ASSUME NEW custom, NEW p, NEW t, SubmitCheck(custom, p, t)
        PROVE  Concludes /\ K /\ L
    BY <1>1, <1>4, <2>1 DEF SubmitCheck
  <2>2. ASSUME NEW r \in Ids, SubmitPost(r) PROVE Concludes /\ K /\ L
    <3>1. Concludes /\ L
      BY <2>2 DEF SubmitPost, TypeOK, SubmissionOK
    <3>2. K
      BY <2>2, TaskTypes, PostQueued DEF SubmitPost
    <3>3. QED
      BY <3>1, <3>2
  <2>3. ASSUME NEW r \in Ids, Cancel(r) PROVE Concludes /\ K /\ L
    <3>1. K
      BY <2>3, TaskTypes, PostQueued DEF Cancel
    <3>2. QED
      BY <1>2, <2>3, <3>1 DEF Cancel
  <2>4. QED
    BY <1>5, <2>1, <2>2, <2>3, ClientAssumption DEF Submitter
<1>6. CASE Connector
  <2>1. ASSUME NEW t, ConnectSubmit(t) PROVE Concludes /\ K /\ L
    BY <1>1, <1>2, <1>4, <2>1 DEF ConnectSubmit
  <2>2. QED
    BY <1>1, <1>2, <1>6, <2>1 DEF Connector, ConnectBegin, ConnectRefused, ConnectReturn
<1>7. CASE Drainer
  <2>1. ASSUME NEW c \in Drainers, DrainPending(c) PROVE Concludes /\ K /\ L
    <3>1. Concludes /\ UNCHANGED submission
      BY <2>1 DEF DrainPending
    <3>2. CASE IoLoopGone
      BY <1>1, <1>2, <2>1, <3>1, <3>2 DEF DrainPending
    <3>3. CASE ~IoLoopGone
      <4>1. Post(<<"drain", c>>)
        BY <2>1, <3>3 DEF DrainPending
      <4>2. K
        BY <4>1, TaskTypes, PostQueued
      <4>3. QED
        BY <1>2, <3>1, <4>2
    <3>4. QED
      BY <3>2, <3>3
  <2>2. QED
    BY <1>1, <1>2, <1>7, <2>1 DEF Drainer, DrainReturn, Disconnect
<1>8. CASE StopThread \/ IoLoopEnds
  BY <1>1, <1>2, <1>8 DEF StopThread, StopBegin, StopDisconnect, StopReleaseLoop,
     StopReturn, IoLoopEnds
<1>9. CASE UNCHANGED vars
  BY <1>1, <1>2, <1>9 DEF vars
<1>10. QED
  BY <1>3, <1>5, <1>6, <1>7, <1>8, <1>9 DEF Next

\* Every step keeps the timers of waiting requests.
LEMMA TimerStep ==
  ASSUME NumericTokens = {}, LoopInv, [Next]_vars
  PROVE  TimerInv'
<1>0. IInv /\ TimerInv /\ TypeOK
  BY DEF LoopInv, IInv
<1>1. SUFFICES ASSUME NEW r \in Ids, stage'[r] = "registered", timed'[r],
                      state'[r] = "Waiting"
               PROVE  timer'[r] = "armed" \/ Queued("timeout", r)'
  BY DEF TimerInv
<1>2. ASSUME stage[r] = "registered", timed[r], state[r] = "Waiting", timer'[r] = timer[r],
             Queued("timeout", r) => Queued("timeout", r)'
      PROVE  timer'[r] = "armed" \/ Queued("timeout", r)'
  BY <1>0, <1>2 DEF TimerInv
<1>3. CASE RunTask
  <2>1. ASSUME NEW q \in Ids, RunRegister(q)
        PROVE  timer'[r] = "armed" \/ Queued("timeout", r)'
    <3>1. CASE q = r
      BY <1>0, <1>1, <2>1, <3>1 DEF RunRegister, TypeOK, OutcomeOK
    <3>2. CASE q # r
      <4>1. stage[r] = "registered" /\ timed[r] /\ state[r] = "Waiting"
            /\ timer'[r] = timer[r]
        BY <1>0, <1>1, <2>1, <3>2 DEF RunRegister, TypeOK, OutcomeOK, SubmissionOK
      <4>2. Queued("timeout", r) => Queued("timeout", r)'
        BY <1>0, <2>1, PopQueued DEF RunRegister
      <4>3. QED
        BY <1>2, <4>1, <4>2
    <3>3. QED
      BY <3>1, <3>2
  <2>2. CASE RunTimeout(r)
    <3>1. stage[r] = "registered"
      BY <1>1, <2>2 DEF RunTimeout, submission
    <3>2. state[r] = "Waiting" => pending_map[r] = r
      BY <1>0, <3>1 DEF IInv, TableInv, NoRequestDropped
    <3>3. r # NoReq
      BY ClientAssumption DEF Ids, NoReq
    <3>4. state[r] # "Waiting"
      BY <1>1, <2>2, <3>2, <3>3 DEF RunTimeout, CompletePending, Finish
    <3>5. QED
      BY <1>1, <2>2, <3>4 DEF RunTimeout, outcome
  <2>3. CASE ~RunTimeout(r) /\ \A q \in Ids : ~RunRegister(q)
    <3>1. Concludes /\ UNCHANGED submission
      BY <1>3, <2>3, TaskConcludes
    <3>2. timer'[r] = timer[r] /\ state[r] = "Waiting"
      BY <1>1, <3>1, CompleteTimer DEF Concludes
    <3>3. Queued("timeout", r) => Queued("timeout", r)'
      BY <1>0, <1>3, <2>3, TaskKeepsTimeouts
    <3>4. QED
      BY <1>1, <1>2, <3>1, <3>2, <3>3 DEF submission
  <2>4. QED
    BY <2>1, <2>2, <2>3
<1>4. ASSUME NEW q \in Ids, TimerExpires(q)
      PROVE  timer'[r] = "armed" \/ Queued("timeout", r)'
  <2>1. /\ Queued("timeout", q)'
        /\ \A p, b : Queued(p, b) => Queued(p, b)'
    BY <1>0, <1>4, TaskTypes, PostQueued DEF TimerExpires
  <2>2. CASE q = r
    BY <2>1, <2>2
  <2>3. CASE q # r
    <3>1. timer'[r] = timer[r] /\ UNCHANGED <<stage, timed, state>>
      BY <1>0, <1>4, <2>3 DEF TimerExpires, TypeOK, OutcomeOK, submission
    <3>2. QED
      BY <1>1, <1>2, <2>1, <3>1
  <2>4. QED
    BY <2>2, <2>3
<1>5. CASE ~RunTask /\ \A q \in Ids : ~TimerExpires(q)
  <2>1. /\ Concludes /\ stage[r] = "registered" /\ timed[r]
        /\ Queued("timeout", r) => Queued("timeout", r)'
    BY <1>0, <1>1, <1>5, ThreadStep
  <2>2. timer'[r] = timer[r] /\ state[r] = "Waiting"
    BY <1>1, <2>1, CompleteTimer DEF Concludes
  <2>3. QED
    BY <1>2, <2>1, <2>2
<1>6. QED
  BY <1>3, <1>4, <1>5

\* The loop ends in one way only.
LEMMA LoopEnds ==
  ASSUME [Next]_vars, io' = "ended"
  PROVE  io = "ended" \/ IoLoopEnds
<1>1. CASE RunTask
  BY <1>1 DEF RunTask, RunRegister, RunTimeout, RunCancel, RunResponse, RunClosed,
     RunThrow, RunDrain, loop
<1>2. CASE Peer \/ Submitter \/ \E r \in Ids : TimerExpires(r)
  BY <1>2, ClientAssumption DEF Peer, Submitter, PeerRespond, PeerSendsThrowing, PeerCloses,
     SubmitCheck, SubmitPost, Cancel, TimerExpires, loop
<1>3. CASE Connector
  BY <1>3 DEF Connector, ConnectBegin, ConnectRefused, ConnectReturn, ConnectSubmit,
     EnsureStarted, loop
<1>4. CASE Drainer \/ StopThread
  BY <1>4 DEF Drainer, DrainPending, DrainReturn, Disconnect, StopThread, StopBegin,
     StopDisconnect, StopReleaseLoop, StopReturn, loop
<1>5. CASE UNCHANGED vars
  BY <1>5 DEF vars, loop
<1>6. QED
  BY <1>1, <1>2, <1>3, <1>4, <1>5 DEF Next

\* The loop that ended stays without a request that waits for its timer.
LEMMA LoopStep ==
  ASSUME NumericTokens = {}, LoopInv, [Next]_vars
  PROVE  LoopOutlivesTimeouts'
<1>0. IInv /\ Settled /\ TimerInv /\ LoopOutlivesTimeouts /\ TypeOK
  BY DEF LoopInv, IInv
<1>1. SUFFICES ASSUME io' = "ended", NEW r \in Ids, stage'[r] = "registered", timed'[r],
                      promise'[r] = "Unset"
               PROVE  FALSE
  BY DEF LoopOutlivesTimeouts
<1>2. CASE IoLoopEnds
  <2>1. /\ stage[r] = "registered" /\ timed[r] /\ promise[r] = "Unset"
        /\ timer[r] = "off" /\ strand = <<>>
    BY <1>1, <1>2 DEF IoLoopEnds, submission, outcome
  <2>2. ~Queued("timeout", r)
    BY <2>1 DEF Queued
  <2>3. state[r] = "Waiting"
    BY <1>0, <2>1 DEF Settled
  <2>4. QED
    BY <1>0, <2>1, <2>2, <2>3 DEF TimerInv
<1>3. CASE io = "ended"
  <2>1. ~RunTask /\ \A q \in Ids : ~TimerExpires(q)
    BY <1>3 DEF RunTask, RunRegister, RunTimeout, RunCancel, RunResponse, RunClosed,
       RunThrow, RunDrain, Running, TimerExpires
  <2>2. Concludes /\ stage[r] = "registered" /\ timed[r]
    BY <1>0, <1>1, <2>1, ThreadStep
  <2>3. state'[r] = "Waiting"
    BY <1>0, <1>1, SettledStep DEF Settled
  <2>4. state[r] = "Waiting"
    BY <2>2, <2>3, CompleteTimer DEF Concludes
  <2>5. QED
    BY <1>0, <1>3, <2>2, <2>4 DEF LoopOutlivesTimeouts, Settled
<1>4. QED
  BY <1>1, <1>2, <1>3, LoopEnds

\* With string custom progress tokens, run() never returns under a request whose
\* timeout has still to come, whatever stop(), disconnect() and the peer do.
THEOREM TimeoutsKeepTheLoop ==
  ASSUME NumericTokens = {}
  PROVE  Spec => []LoopOutlivesTimeouts
<1>1. Init => LoopInv
  <2>1. Init => Settled /\ TimerInv /\ LoopOutlivesTimeouts
    BY DEF Init, Settled, TimerInv, LoopOutlivesTimeouts
  <2>2. QED
    BY <2>1, InitType, InitTable DEF LoopInv, IInv
<1>2. LoopInv /\ [Next]_vars => LoopInv'
  BY NextType, QueueStep, TableStep, SettledStep, TimerStep, LoopStep DEF LoopInv, IInv
<1>3. LoopInv => LoopOutlivesTimeouts
  BY DEF LoopInv
<1>4. QED
  BY <1>1, <1>2, <1>3, PTL DEF Spec

-----------------------------------------------------------------------------
(* connected_.  A handshake's result that is still queued can set connected_ *)
(* after the link went down: that something clears it again must hold before *)
(* the result is handled.  fail_all_pending makes late results harmless, so  *)
(* it does not matter where on the strand the clearing task is.              *)

\* A task that clears connected_ is queued, or a thread is about to post one.
Clearing ==
  \/ Queued("closed", NoReq)
  \/ \E c \in Drainers : Queued("drain", c) \/ drain_pc[c] = "closed"

\* Only registered requests are answered.
AnswerInv ==
  /\ \A r \in wire : stage[r] = "registered"
  /\ \A r \in Ids, op \in Responses : Queued(op, r) => stage[r] = "registered"

\* The only unsettled handshake is the one connect() makes.
OneHandshake ==
  /\ conn_pc = "submit" => Handshakes = {}
  /\ conn_pc = "wait" => Handshakes \subseteq {conn_id}

\* A result that will set connected_ when it is handled is queued.
Late ==
  \E r \in Ids : Queued("result", r) /\ method[r] = "initialize" /\ state[r] = "Waiting"

ClearInv == link = "down" /\ (connected \/ Late) => Clearing

LinkInv == IInv /\ Settled /\ AnswerInv /\ OneHandshake /\ ClearInv

\* A step changes no method of a registered request, and takes no outcome back.
LEMMA RequestStays ==
  ASSUME NumericTokens = {}, IInv, [Next]_vars, NEW r \in Ids
  PROVE  /\ state'[r] = "Waiting" => state[r] = "Waiting"
         /\ stage[r] = "registered" => stage'[r] = "registered" /\ method'[r] = method[r]
<1> USE DEF IInv
<1>1. CASE Idle
  BY <1>1 DEF Idle, submission
<1>2. CASE Creates
  <2>1. PICK m, t, tk : Create(m, tk, t)
    BY <1>2 DEF Creates
  <2>2. next_id \in Ids /\ stage[next_id] = "free"
    BY <2>1 DEF Create, TableInv, Fresh, Ids
  <2>3. QED
    BY <1>2, <2>1, <2>2 DEF Create, Creates, TypeOK, SubmissionOK
<1>3. CASE Submits
  BY <1>3 DEF Submits, SubmitPost, RunRegister, outcome, TypeOK, SubmissionOK
<1>4. CASE Settles
  <2>1. PICK S \in SUBSET Ids : Resolves(S)
    BY <1>4 DEF Settles
  <2>2. QED
    BY <1>4, <2>1 DEF Settles, Resolves, Outcomes, submission
<1>5. QED
  BY <1>1, <1>2, <1>3, <1>4, StepShape

\* A response comes to the strand only from the peer.
LEMMA NewResponse ==
  ASSUME TypeOK, [Next]_vars, NEW op \in Responses, NEW r \in Ids, Queued(op, r)'
  PROVE  Queued(op, r) \/ (r \in wire /\ link = "up" /\ UNCHANGED link)
<1>1. CASE RunTask
  <2>1. PICK p, a : Running(p, a) /\ strand' = Tail(strand)
    BY <1>1 DEF RunTask, RunRegister, RunTimeout, RunCancel, RunResponse, RunClosed,
       RunThrow, RunDrain
  <2>2. QED
    BY <2>1, PopQueued
<1>2. ASSUME NEW p, NEW a, <<p, a>> \in Tasks, Post(<<p, a>>), p # op \/ a # r
      PROVE  Queued(op, r)
  BY <1>2, PostQueued
<1>3. ASSUME UNCHANGED strand PROVE Queued(op, r)
  BY <1>3 DEF Queued
<1>4. ASSUME NEW q \in Ids, TimerExpires(q) \/ SubmitPost(q) \/ Cancel(q)
      PROVE  Queued(op, r)
  BY <1>2, <1>4, TaskTypes DEF TimerExpires, SubmitPost, Cancel, Responses
<1>5. ASSUME NEW q \in Ids, NEW p \in Responses, PeerRespond(p, q)
      PROVE  Queued(op, r) \/ (r \in wire /\ link = "up" /\ UNCHANGED link)
  BY <1>2, <1>5, TaskTypes DEF PeerRespond, FromPeer, peer
<1>6. CASE PeerSendsThrowing \/ PeerCloses
  BY <1>2, <1>6, TaskTypes DEF PeerSendsThrowing, PeerCloses, FromPeer, Responses
<1>7. ASSUME NEW c \in Drainers, DrainPending(c) PROVE Queued(op, r)
  BY <1>2, <1>3, <1>7, TaskTypes DEF DrainPending, Responses
<1>8. CASE Submitter
  BY <1>3, <1>4, <1>8, ClientAssumption DEF Submitter, SubmitCheck
<1>9. CASE Connector \/ StopThread \/ IoLoopEnds \/ UNCHANGED vars
  BY <1>3, <1>9 DEF Connector, ConnectBegin, ConnectRefused, ConnectReturn, ConnectSubmit,
     StopThread, StopBegin, StopDisconnect, StopReleaseLoop, StopReturn, IoLoopEnds, vars
<1>10. CASE Drainer
  BY <1>3, <1>7, <1>10 DEF Drainer, DrainReturn, Disconnect
<1>11. QED
  BY <1>1, <1>4, <1>5, <1>6, <1>8, <1>9, <1>10 DEF Next, Peer

\* The peer knows only requests that were sent to it.
LEMMA NewOnWire ==
  ASSUME [Next]_vars, NEW r \in wire'
  PROVE  r \in wire \/ RunRegister(r)
<1>1. CASE RunTask
  BY <1>1 DEF RunTask, RunRegister, RunTimeout, RunCancel, RunResponse, RunClosed,
     RunThrow, RunDrain, peer
<1>2. CASE Peer \/ Submitter \/ \E q \in Ids : TimerExpires(q)
  BY <1>2, ClientAssumption DEF Peer, Submitter, PeerRespond, PeerSendsThrowing, PeerCloses,
     SubmitCheck, SubmitPost, Cancel, TimerExpires, peer
<1>3. CASE Connector \/ IoLoopEnds \/ UNCHANGED vars
  BY <1>3 DEF Connector, ConnectBegin, ConnectRefused, ConnectReturn, ConnectSubmit,
     TransportDisconnect, IoLoopEnds, peer, vars
<1>4. CASE Drainer \/ StopThread
  BY <1>4 DEF Drainer, DrainPending, DrainReturn, Disconnect, StopThread, StopBegin,
     StopDisconnect, StopReleaseLoop, StopReturn, TransportDisconnect, peer
<1>5. QED
  BY <1>1, <1>2, <1>3, <1>4 DEF Next

\* Every step has only registered requests answered.
LEMMA AnswerStep ==
  ASSUME NumericTokens = {}, IInv, AnswerInv, [Next]_vars
  PROVE  AnswerInv'
<1>0. TypeOK /\ TypeOK'
  BY NextType DEF IInv
<1>1. \A r \in Ids : stage[r] = "registered" => stage'[r] = "registered"
  BY RequestStays
<1>2. ASSUME NEW r \in wire' PROVE stage'[r] = "registered"
  <2>1. r \in Ids
    BY <1>0, <1>2 DEF TypeOK, PeerOK
  <2>2. CASE r \in wire
    BY <1>1, <2>1, <2>2 DEF AnswerInv
  <2>3. CASE RunRegister(r)
    BY <1>0, <2>1, <2>3 DEF RunRegister, TypeOK, SubmissionOK
  <2>4. QED
    BY <1>2, <2>2, <2>3, NewOnWire
<1>3. ASSUME NEW r \in Ids, NEW op \in Responses, Queued(op, r)'
      PROVE  stage'[r] = "registered"
  BY <1>0, <1>1, <1>3, NewResponse DEF AnswerInv
<1>4. QED
  BY <1>2, <1>3 DEF AnswerInv

\* With one handshake at a time, connect() is the only one to make it.
LEMMA HandshakeStep ==
  ASSUME NumericTokens = {}, MaxHandshakes <= 1, IInv, Settled, OneHandshake, [Next]_vars
  PROVE  OneHandshake'
<1>0. TypeOK /\ Settled'
  BY SettledStep DEF IInv
<1>1. \A r \in Ids : promise'[r] = "Unset" => promise[r] = "Unset"
  BY <1>0, RequestStays DEF Settled
<1>2. ASSUME NEW t, ConnectSubmit(t) PROVE OneHandshake'
  <2>1. Handshakes = {}
    BY <1>2 DEF ConnectSubmit, OneHandshake
  <2>2. CASE Create("initialize", NullId, t)
    <3>1. \A r \in Ids : r # next_id => method'[r] = method[r]
      BY <1>0, <2>2 DEF Create, TypeOK, SubmissionOK
    <3>2. Handshakes' \subseteq {next_id}
      BY <1>1, <2>1, <3>1 DEF Handshakes
    <3>3. QED
      BY <1>2, <2>2, <3>2 DEF ConnectSubmit, OneHandshake, Create
  <2>3. CASE conn_pc' = "idle"
    BY <2>3 DEF OneHandshake
  <2>4. QED
    BY <1>2, <2>2, <2>3 DEF ConnectSubmit
<1>3. CASE ConnectBegin
  <2>1. IsFiniteSet(Handshakes)
    <3>1. IsFiniteSet(Ids)
      BY ClientAssumption, FS_Interval DEF Ids
    <3>2. QED
      BY <3>1, FS_Subset DEF Handshakes
  <2>2. Handshakes = {}
    <3>1. Cardinality(Handshakes) \in Nat /\ MaxHandshakes \in Nat
      BY <2>1, FS_CardinalityType, ClientAssumption
    <3>2. Cardinality(Handshakes) < MaxHandshakes
      BY <1>3 DEF ConnectBegin, MayConnect
    <3>3. Cardinality(Handshakes) = 0
      BY <3>1, <3>2
    <3>4. QED
      BY <2>1, <3>3, FS_EmptySet
  <2>3. Handshakes' = Handshakes
    BY <1>3 DEF ConnectBegin, Handshakes, submission, outcome
  <2>4. QED
    BY <1>3, <2>2, <2>3 DEF ConnectBegin, OneHandshake
<1>4. ASSUME conn_pc' = "idle" \/ UNCHANGED <<conn_pc, conn_id>>,
             \A r \in Ids : method'[r] = "initialize" => method[r] = "initialize"
      PROVE  OneHandshake'
  <2>1. Handshakes' \subseteq Handshakes
    BY <1>1, <1>4 DEF Handshakes
  <2>2. QED
    BY <1>4, <2>1 DEF OneHandshake
<1>5. ASSUME NEW custom, NEW p, NEW t, SubmitCheck(custom, p, t) PROVE OneHandshake'
  <2>1. \A r \in Ids : method'[r] = "initialize" => method[r] = "initialize"
    BY <1>0, <1>5 DEF SubmitCheck, Create, TypeOK, SubmissionOK
  <2>2. QED
    BY <1>4, <1>5, <2>1 DEF SubmitCheck, threads
<1>6. ASSUME UNCHANGED method, conn_pc' = "idle" \/ UNCHANGED <<conn_pc, conn_id>>
      PROVE  OneHandshake'
  BY <1>4, <1>6
<1>7. CASE RunTask
  BY <1>6, <1>7 DEF RunTask, RunRegister, RunTimeout, RunCancel, RunResponse, RunClosed,
     RunThrow, RunDrain, submission, threads
<1>8. CASE Peer \/ IoLoopEnds \/ UNCHANGED vars \/ \E q \in Ids : TimerExpires(q)
  BY <1>6, <1>8 DEF Peer, PeerRespond, PeerSendsThrowing, PeerCloses, TimerExpires,
     IoLoopEnds, vars, submission, threads
<1>9. CASE Submitter
  BY <1>5, <1>6, <1>9, ClientAssumption DEF Submitter, SubmitPost, Cancel, submission,
     threads
<1>10. CASE Drainer \/ StopThread
  BY <1>6, <1>10 DEF Drainer, DrainPending, DrainReturn, Disconnect, StopThread, StopBegin,
     StopDisconnect, StopReleaseLoop, StopReturn, submission
<1>11. CASE ConnectRefused \/ ConnectReturn
  BY <1>6, <1>11 DEF ConnectRefused, ConnectReturn, submission, threads
<1>12. QED
  BY <1>2, <1>3, <1>7, <1>8, <1>9, <1>10, <1>11 DEF Next, Connector

\* The steps that clear connected_ and fail everything.
Clears == connected' = FALSE /\ FailAllPending /\ UNCHANGED submission

\* After fail_all_pending no registered request waits.
LEMMA ClearsAll ==
  ASSUME IInv, Clears, NEW r \in Ids, stage[r] = "registered"
  PROVE  state'[r] # "Waiting"
<1>1. CASE state[r] # "Waiting"
  BY <1>1 DEF Clears, FailAllPending, Finish
<1>2. CASE state[r] = "Waiting"
  <2>1. r \in Keys /\ pending_map[r] = r
    BY <1>2 DEF IInv, TableInv, NoRequestDropped, Keys
  <2>2. QED
    BY <1>2, <2>1 DEF Clears, FailAllPending, Finish
<1>3. QED
  BY <1>1, <1>2

\* What is to clear connected_ stays until it has done so.
LEMMA ClearingStays ==
  ASSUME TypeOK, [Next]_vars, Clearing
  PROVE  Clearing' \/ Clears
<1>1. ASSUME \A p, b : Queued(p, b) /\ p \in {"closed", "drain"} => Queued(p, b)',
             UNCHANGED drain_pc
      PROVE  Clearing'
  BY <1>1 DEF Clearing
<1>2. CASE RunClosed \/ \E c \in Drainers : RunDrain(c)
  BY <1>2 DEF RunClosed, RunDrain, Clears, ClearConnected
<1>3. CASE RunTask /\ ~RunClosed /\ \A c \in Drainers : ~RunDrain(c)
  <2>1. PICK op, a : /\ Running(op, a) /\ strand' = Tail(strand)
                     /\ op \notin {"closed", "drain"} /\ UNCHANGED drain_pc
    BY <1>3 DEF RunTask, RunRegister, RunTimeout, RunCancel, RunResponse, RunThrow,
       Responses, threads
  <2>2. QED
    BY <1>1, <2>1, PopQueued
<1>4. ASSUME NEW r \in Ids, TimerExpires(r) PROVE Clearing'
  BY <1>1, <1>4, TaskTypes, PostQueued DEF TimerExpires, threads
<1>5. CASE ~RunTask /\ \A r \in Ids : ~TimerExpires(r)
  <2>1. \A p, b : Queued(p, b) => Queued(p, b)'
    BY <1>5, ThreadStep
  <2>2. ASSUME NEW c \in Drainers, DrainPending(c) PROVE Clearing' \/ Clears
    <3>1. CASE IoLoopGone
      BY <2>2, <3>1 DEF DrainPending, Clears
    <3>2. CASE ~IoLoopGone
      <4>1. Queued("drain", c)'
        BY <2>2, <3>2, TaskTypes, PostQueued DEF DrainPending
      <4>2. QED
        BY <4>1 DEF Clearing
    <3>3. QED
      BY <3>1, <3>2
  <2>3. ASSUME \A c \in Drainers : drain_pc[c] = "closed" => drain_pc'[c] = "closed"
        PROVE  Clearing'
    BY <2>1, <2>3 DEF Clearing
  <2>4. ASSUME NEW c \in Drainers, DrainReturn(c) PROVE Clearing'
    BY <2>3, <2>4 DEF DrainReturn, TypeOK, ThreadsOK
  <2>5. ASSUME NEW c \in Callers, Disconnect(c) PROVE Clearing'
    BY <2>3, <2>5 DEF Disconnect, TypeOK, ThreadsOK
  <2>6. CASE StopThread
    BY <2>3, <2>6 DEF StopThread, StopBegin, StopDisconnect, StopReleaseLoop, StopReturn,
       TypeOK, ThreadsOK
  <2>7. CASE Peer \/ Submitter \/ Connector \/ IoLoopEnds \/ UNCHANGED vars
    BY <2>3, <2>7, ClientAssumption DEF Peer, PeerRespond, PeerSendsThrowing, PeerCloses,
       Submitter, SubmitCheck, SubmitPost, Cancel, Connector, ConnectBegin, ConnectRefused,
       ConnectReturn, ConnectSubmit, IoLoopEnds, vars, threads
  <2>8. QED
    BY <1>5, <2>2, <2>4, <2>5, <2>6, <2>7 DEF Next, Drainer
<1>6. QED
  BY <1>2, <1>3, <1>4, <1>5

\* A handshake's result that can set connected_ was queued before, or comes from
\* a link that is up.
LEMMA LateStep ==
  ASSUME NumericTokens = {}, IInv, AnswerInv, [Next]_vars, Late', link' = "down"
  PROVE  Late
<1>0. TypeOK
  BY DEF IInv
<1>1. PICK r \in Ids : Queued("result", r)' /\ method'[r] = "initialize"
                       /\ state'[r] = "Waiting"
  BY DEF Late
<1>2. Queued("result", r)
  BY <1>0, <1>1, NewResponse DEF Responses
<1>3. stage[r] = "registered"
  BY <1>2 DEF AnswerInv, Responses
<1>4. method[r] = "initialize" /\ state[r] = "Waiting"
  BY <1>1, <1>3, RequestStays
<1>5. QED
  BY <1>2, <1>4 DEF Late

\* connected_ is set by the result of a handshake only.
LEMMA ConnectedStep ==
  ASSUME IInv, [Next]_vars, connected', ~connected
  PROVE  Late
<1>1. PICK r \in Ids, op \in Responses : RunResponse(op, r)
  <2>1. CASE RunTask
    BY <2>1 DEF RunTask, RunRegister, RunTimeout, RunCancel, RunClosed, RunThrow, RunDrain,
       flags, ClearConnected
  <2>2. CASE Peer \/ Submitter \/ \E q \in Ids : TimerExpires(q)
    BY <2>2, ClientAssumption DEF Peer, Submitter, PeerRespond, PeerSendsThrowing,
       PeerCloses, SubmitCheck, SubmitPost, Cancel, TimerExpires, flags
  <2>3. CASE Connector \/ IoLoopEnds \/ UNCHANGED vars
    BY <2>3 DEF Connector, ConnectBegin, ConnectRefused, ConnectReturn, ConnectSubmit,
       IoLoopEnds, flags, vars
  <2>4. CASE Drainer \/ StopThread
    BY <2>4 DEF Drainer, DrainPending, DrainReturn, Disconnect, StopThread, StopBegin,
       StopDisconnect, StopReleaseLoop, StopReturn, flags
  <2>5. QED
    BY <2>1, <2>2, <2>3, <2>4 DEF Next
<1>2. pending_map[r] # NoReq /\ HandshakeDone(op, pending_map[r])
  BY <1>1 DEF RunResponse
<1>3. CompletePending(r, ResponseOutcome(op, pending_map[r]))
  BY <1>1, <1>2 DEF RunResponse
<1>4. pending_map[r] = r /\ state[r] = "Waiting"
  <2>1. ResponseOutcome(op, pending_map[r]) \in Outcomes
    BY DEF ResponseOutcome, Outcomes
  <2>2. QED
    BY <1>2, <1>3, <2>1, CompletePendingResolves DEF IInv, Resolves
<1>5. op = "result" /\ method[r] = "initialize"
  BY <1>2, <1>4 DEF HandshakeDone
<1>6. Queued("result", r)
  <2>1. strand \in Seq(Tasks) /\ strand # <<>> /\ Head(strand) = <<"result", r>>
    BY <1>1, <1>5 DEF IInv, TypeOK, RunResponse, Running
  <2>2. 1 \in DOMAIN strand /\ strand[1] = <<"result", r>>
    BY <2>1
  <2>3. QED
    BY <2>2 DEF Queued
<1>7. QED
  BY <1>4, <1>5, <1>6 DEF Late

\* The link goes down when the peer, disconnect() or stop() closes it, which each
\* leads to a drain, or when connect() rolls a failed handshake back.
LEMMA LinkGoesDown ==
  ASSUME TypeOK, [Next]_vars, link = "up", link' = "down"
  PROVE  Clearing' \/ (ConnectReturn /\ ~connected')
<1>1. CASE PeerCloses
  BY <1>1, TaskTypes, PostQueued DEF PeerCloses, FromPeer, Clearing
<1>2. ASSUME NEW c \in Callers, Disconnect(c) PROVE Clearing'
  BY <1>2 DEF Disconnect, Clearing, TypeOK, ThreadsOK, Drainers
<1>3. CASE StopDisconnect
  BY <1>3 DEF StopDisconnect, Clearing, TypeOK, ThreadsOK, Drainers
<1>4. CASE ConnectReturn
  BY <1>4 DEF ConnectReturn, peer
<1>5. CASE RunTask
  BY <1>5 DEF RunTask, RunRegister, RunTimeout, RunCancel, RunResponse, RunClosed,
     RunThrow, RunDrain, peer
<1>6. CASE Submitter \/ \E q \in Ids : TimerExpires(q)
  BY <1>6, ClientAssumption DEF Submitter, SubmitCheck, SubmitPost, Cancel, TimerExpires,
     peer
<1>7. CASE Peer \/ Connector \/ IoLoopEnds \/ UNCHANGED vars
  BY <1>1, <1>4, <1>7 DEF Peer, PeerRespond, PeerSendsThrowing, Connector, ConnectBegin,
     ConnectRefused, ConnectSubmit, IoLoopEnds, peer, vars
<1>8. CASE Drainer \/ StopThread
  BY <1>2, <1>3, <1>8 DEF Drainer, DrainPending, DrainReturn, StopThread, StopBegin,
     StopReleaseLoop, StopReturn, peer
<1>9. QED
  BY <1>5, <1>6, <1>7, <1>8 DEF Next

\* With one handshake at a time, every step keeps something to clear connected_.
LEMMA ClearStep ==
  ASSUME NumericTokens = {}, MaxHandshakes <= 1, LinkInv, [Next]_vars
  PROVE  ClearInv'
<1>0. IInv /\ TypeOK /\ Settled /\ AnswerInv /\ OneHandshake /\ ClearInv
  BY DEF LinkInv, IInv
<1>1. SUFFICES ASSUME link' = "down", connected' \/ Late', ~Clearing' PROVE FALSE
  BY DEF ClearInv
<1>2. connected \/ Late
  BY <1>0, <1>1, LateStep, ConnectedStep
<1>3. CASE link = "down"
  <2>1. Clears
    BY <1>0, <1>1, <1>2, <1>3, ClearingStays DEF ClearInv
  <2>2. PICK r \in Ids : Queued("result", r)' /\ state'[r] = "Waiting"
    BY <1>1, <2>1 DEF Late, Clears
  <2>3. stage'[r] = "registered"
    BY <1>0, <2>2, AnswerStep DEF AnswerInv, Responses
  <2>4. QED
    BY <1>0, <2>1, <2>2, <2>3, ClearsAll DEF Clears, submission
<1>4. CASE link = "up"
  <2>1. ConnectReturn /\ ~connected'
    BY <1>0, <1>1, <1>4, LinkGoesDown
  <2>2. PICK r \in Ids : method[r] = "initialize" /\ state[r] = "Waiting"
    BY <1>0, <1>1, <2>1, LateStep DEF Late
  <2>3. r \in Handshakes
    BY <1>0, <2>2 DEF Handshakes, Settled
  <2>4. r = conn_id /\ promise[conn_id] # "Unset"
    BY <1>0, <2>1, <2>3 DEF OneHandshake, ConnectReturn
  <2>5. QED
    BY <2>3, <2>4 DEF Handshakes
<1>5. QED
  BY <1>0, <1>3, <1>4 DEF TypeOK, PeerOK

\* With string custom progress tokens, and an application that begins no handshake
\* while another is unanswered, connected_ never stays set on a link that is down:
\* whatever order results, closes, drains and stop() come in, what clears it is
\* still to come.
THEOREM ConnectedIsCleared ==
  ASSUME NumericTokens = {}, MaxHandshakes <= 1
  PROVE  Spec => []ConnectedWillClear
<1>1. Init => LinkInv
  <2>1. Init => Settled /\ AnswerInv /\ OneHandshake /\ ClearInv
    BY DEF Init, Settled, AnswerInv, OneHandshake, ClearInv, Late, Queued
  <2>2. QED
    BY <2>1, InitType, InitTable DEF LinkInv, IInv
<1>2. LinkInv /\ [Next]_vars => LinkInv'
  BY NextType, QueueStep, TableStep, SettledStep, AnswerStep, HandshakeStep, ClearStep
     DEF LinkInv, IInv
<1>3. LinkInv => ConnectedWillClear
  <2>1. Clearing => \/ \E i \in DOMAIN strand : strand[i][1] \in {"closed", "drain"}
                    \/ \E c \in Drainers : drain_pc[c] = "closed"
    BY DEF Clearing, Queued
  <2>2. QED
    BY <2>1 DEF LinkInv, ClearInv, ConnectedWillClear
<1>4. QED
  BY <1>1, <1>2, <1>3, PTL DEF Spec

=============================================================================
