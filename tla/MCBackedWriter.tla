--------------------------- MODULE MCBackedWriter ---------------------------
(* Model checking instance of BackedWriter: packets of two sizes, a backup   *)
(* that holds two small ones, an outage budget of the same size, as in the     *)
(* code, where both are 64 MB.                                               *)
EXTENDS BackedWriter
MCLengths == {1, 3}
=============================================================================
