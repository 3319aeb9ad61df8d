--------------------------- MODULE ReliableChannel ---------------------------
(***************************************************************************)
(* What a session promises the programs at its two ends, whatever happens  *)
(* to the TCP connections under it: packets are handed over in the order   *)
(* they were written, none twice, none left out.  Packets are identified   *)
(* by their position, so the state is how many were accepted from each     *)
(* writer and which were handed to each reader.                            *)
(***************************************************************************)
EXTENDS Naturals

CONSTANT Sides

VARIABLES
    accepted,   \* accepted[s]: packets taken from the writer at side s
    delivered   \* delivered[s]: packets handed to the reader at side s

channelVars == <<accepted, delivered>>

Init ==
    /\ accepted = [s \in Sides |-> 0]
    /\ delivered = [s \in Sides |-> 0]

Accept(s) ==
    /\ accepted' = [accepted EXCEPT ![s] = @ + 1]
    /\ UNCHANGED delivered

\* The reader gets the next packet of the peer, which must have been written.
Deliver(s) ==
    /\ \E p \in Sides \ {s} : delivered[s] < accepted[p]
    /\ delivered' = [delivered EXCEPT ![s] = @ + 1]
    /\ UNCHANGED accepted

Next == \E s \in Sides : Accept(s) \/ Deliver(s)

Spec == Init /\ [][Next]_channelVars

=============================================================================
