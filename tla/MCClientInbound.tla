-------------------------- MODULE MCClientInbound --------------------------
(* A small instance of ClientInbound: two requests of the server, with one   *)
(* worker, with two and without a pool, on an owned and an external loop.    *)
EXTENDS ClientInbound

UpToTwo == 0..2
Both == BOOLEAN

=============================================================================
