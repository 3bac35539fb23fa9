------------------------------ MODULE MCServer ------------------------------
(* Small instances of both sides of McpServer: its life cycle (McpServer)    *)
(* with two io threads, two workers, and requests that may and that may not  *)
(* be deferred; its sessions (ServerSessions) on an HTTP server with two of  *)
(* them.  A behaviour is about one side (`subject`) and leaves the other.    *)
EXTENDS McpServer, ServerSessions

CONSTANTS call1, call2, ping, io1, io2, w1, w2, s1, s2, res

VARIABLE subject

TwoCalls == {call1, call2}
AllRequests == {call1, call2, ping}
TwoIo == {io1, io2}
TwoWorkers == {w1, w2}
HttpClients == {s1, s2}
OneUri == {res}

ServerInit == Init /\ SessionsInit /\ subject \in {"life", "sessions"}

ServerNext ==
  \/ subject = "life" /\ Next /\ UNCHANGED <<subject, sessionvars>>
  \/ subject = "sessions" /\ SessionsNext /\ UNCHANGED <<subject, vars>>

\* What stands still at its start owes no step.
ServerFairSpec ==
  ServerInit /\ [][ServerNext]_<<subject, vars, sessionvars>>
    /\ Fairness /\ SessionsFairness

=============================================================================
