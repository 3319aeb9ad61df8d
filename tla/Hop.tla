-------------------------------- MODULE Hop --------------------------------
(***************************************************************************)
(* One reconnectable session as the loops that use it see it.  A packet    *)
(* written without a socket stays in the backup; a packet on a socket that *)
(* fails is resent; recover() puts what it catches up into the reader's    *)
(* localBuffer, which is read before the socket.  BackedConnection is the  *)
(* detailed model of this behaviour, ReliableChannel what it promises.     *)
(***************************************************************************)
EXTENDS Sequences

Dirs == {"in", "out"}   \* from the client, to the client

None == [d \in Dirs |-> <<>>]
NewHop == [up |-> TRUE, back |-> None, sock |-> None, local |-> None]

Put(h, d, p) ==
    IF h.up THEN [h EXCEPT !.sock[d] = Append(@, p)]
    ELSE [h EXCEPT !.back[d] = Append(@, p)]

Fail(h) ==
    [h EXCEPT !.up = FALSE, !.sock = None,
              !.back = [d \in Dirs |-> h.sock[d] \o h.back[d]]]

Recover(h) ==
    [h EXCEPT !.up = TRUE, !.back = None,
              !.local = [d \in Dirs |-> h.local[d] \o h.back[d]]]

\* select() reports the socket; packets in localBuffer do not make it so.
Readable(h, d) == h.up /\ h.sock[d] # <<>>

Waiting(h, d) == h.local[d] \o h.sock[d]

\* One call of read(): localBuffer first.
Taken(h, d) ==
    IF h.local[d] # <<>> THEN [h EXCEPT !.local[d] = Tail(@)]
    ELSE [h EXCEPT !.sock[d] = Tail(@)]

\* Read until hasData() is false.
Drained(h, d) == [h EXCEPT !.local[d] = <<>>, !.sock[d] = <<>>]

\* Every packet of a direction that is on its way, oldest first.
UnderWay(h, d) == h.local[d] \o h.sock[d] \o h.back[d]
=============================================================================
