------------------------- MODULE MCClientReconnect -------------------------
(* Model checking instance of ClientReconnect.                               *)
EXTENDS ClientReconnect
=============================================================================
