-------------------------- MODULE MCHttpTransport --------------------------
(* A small instance of HttpTransport.                                        *)
EXTENDS HttpTransport

BothModes == {"streamable", "sse"}

=============================================================================
