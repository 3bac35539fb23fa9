-------------------------- MODULE RequestContract --------------------------
(***************************************************************************)
(* What a PendingRequest promises the code that holds it: it waits until   *)
(* it gets one outcome; at that moment, and only then, the polled state,   *)
(* the future and the callback get that same outcome, the callback exactly *)
(* once; and no outcome is ever replaced.  Several requests may be         *)
(* resolved by one event (a disconnect fails all of them).                 *)
(***************************************************************************)
EXTENDS Naturals

CONSTANT Requests

VARIABLES
  status,    \* what state() shows: Free (not created), Waiting or an outcome
  future,    \* the outcome in the future, or Unset
  notified   \* how often the outcome callback was dispatched

vars == <<status, future, notified>>

Outcomes == {"Succeeded", "Errored", "TimedOut", "Cancelled", "Failed"}

Init ==
  /\ status = [r \in Requests |-> "Free"]
  /\ future = [r \in Requests |-> "Unset"]
  /\ notified = [r \in Requests |-> 0]

Stays(r) ==
  /\ status'[r] = status[r]
  /\ future'[r] = future[r]
  /\ notified'[r] = notified[r]

Created(r) ==
  /\ status[r] = "Free"
  /\ status'[r] = "Waiting"
  /\ future'[r] = future[r]
  /\ notified'[r] = notified[r]

Resolved(r) ==
  /\ status[r] = "Waiting"
  /\ status'[r] \in Outcomes
  /\ future'[r] = status'[r]
  /\ notified'[r] = notified[r] + 1

Next == \A r \in Requests : Stays(r) \/ Created(r) \/ Resolved(r)

Spec == Init /\ [][Next]_vars

=============================================================================
