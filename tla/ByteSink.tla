------------------------------ MODULE ByteSink ------------------------------
(***************************************************************************)
(* What a serialized write queue promises its callers, without threads,    *)
(* locks or flags: bytes are accepted at the end of a stream, they are     *)
(* handed to the descriptor in stream order, never before they are         *)
(* accepted, at most `capacity` accepted bytes wait at a time (0 means no  *)
(* limit), and once the sink is closed nothing more is accepted or handed  *)
(* over.                                                                   *)
(***************************************************************************)
EXTENDS Naturals

VARIABLES
  capacity,  \* the most bytes that may wait, 0 = unbounded; fixed at creation
  accepted,  \* length of the stream accepted so far
  started,   \* length of the prefix handed to the descriptor
  open       \* FALSE once closed, for ever

vars == <<capacity, accepted, started, open>>

Init ==
  /\ capacity \in Nat
  /\ accepted = 0
  /\ started = 0
  /\ open = TRUE

Accept ==
  /\ open
  /\ accepted' \in Nat
  /\ accepted' >= accepted
  /\ capacity = 0 \/ accepted' - started <= capacity
  /\ UNCHANGED <<capacity, started, open>>

Start ==
  /\ open
  /\ started' \in Nat
  /\ started <= started' /\ started' <= accepted
  /\ UNCHANGED <<capacity, accepted, open>>

Close ==
  /\ open
  /\ open' = FALSE
  /\ UNCHANGED <<capacity, accepted, started>>

Next == Accept \/ Start \/ Close

Spec == Init /\ [][Next]_vars

=============================================================================
