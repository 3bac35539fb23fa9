----------------------------- MODULE MCWriters -----------------------------
(* Small instances of what writes to a peer: AsyncWriteQueue with one- and   *)
(* two-byte buffers, an unbounded queue and one that two buffers overflow;   *)
(* LineTransports with six messages of different sizes to stdout, whose      *)
(* queue holds two or three of them, and three pipe connections.  A          *)
(* behaviour is about one of them (`subject`) and leaves the other alone.    *)
EXTENDS AsyncWriteQueue, LineTransports

VARIABLE subject

OneTwo == {1, 2}
MaxNoneTwoThree == {0, 2, 3}

BothKinds == {"stdio", "pipe"}
StdioOnly == {"stdio"}
BothModes == {"single", "multi"}
SixSizes == <<2, 1, 2, 3, 1, 2>>

WritersInit ==
  /\ QueueInit /\ Init
  /\ \/ subject = "queue" /\ kind = "stdio" /\ mode = "single"
     \/ subject = "lines" /\ max_queued_bytes = 0 /\ policy = "DropNewest"

WritersNext ==
  \/ subject = "queue" /\ QueueNext /\ UNCHANGED <<subject, vars>>
  \/ subject = "lines" /\ Next /\ UNCHANGED <<subject, queuevars>>

WritersSpec == WritersInit /\ [][WritersNext]_<<subject, queuevars, vars>>

\* What stands still at its start owes no step.
WritersFairSpec == WritersSpec /\ QueueFairness /\ Fairness

=============================================================================
