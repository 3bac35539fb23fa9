------------------------- MODULE MCClientTransport -------------------------
(* Small instances of ClientTransport.                                       *)
EXTENDS ClientTransport

AllKinds == {"stdio", "pipe", "http"}

=============================================================================
