------------------------- MODULE MCBackedConnection -------------------------
(* Model checking instances of BackedConnection.  The client writes less     *)
(* than the server: the code of the two writers is the same, and the server  *)
(* is the side whose threads can be stale.                                   *)
EXTENDS BackedConnection

MCPackets == [s \in Sides |-> IF s = "client" THEN 1 ELSE 3]
MCServerPackets == [s \in Sides |-> IF s = "client" THEN 0 ELSE 5]
=============================================================================
