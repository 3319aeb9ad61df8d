------------------------------ MODULE MCRelays ------------------------------
(***************************************************************************)
(* What is carried over a session besides a shell, for TLC: forwarded      *)
(* ports (PortForward) and a second session behind a jump host (JumpHost). *)
(* The jump host hands every packet on unseen, forwarded ones too, so the  *)
(* two are checked side by side: in a behaviour the component that part    *)
(* names runs, and the other one stays in its initial state.               *)
(***************************************************************************)
EXTENDS PortForward, TLC

CONSTANTS MaxMany, MaxFew, MaxFaults, PipeCap, OutCap   \* JumpHost

VARIABLES part,
    hop1, hop2, pipe, hand, phase, sawFd, isRec, thread, server, over, sent,
    got, fatal, faults

Jump == INSTANCE JumpHost

ASSUME RelaysAssumption == ForwardAssumption /\ Jump!JumpAssumption

\* Listening handlers are interchangeable.
HandlerSymmetry == Permutations(Handlers)

jumpVars == <<hop1, hop2, pipe, hand, phase, sawFd, isRec, thread, server, over,
              sent, got, fatal, faults>>
relaysVars == <<part, vars, jumpVars>>

RelaysInit == part \in {"forward", "jump"} /\ Init /\ Jump!Init

ForwardNext == part = "forward" /\ Next /\ UNCHANGED <<part, jumpVars>>
JumpNext    == part = "jump" /\ Jump!Next /\ UNCHANGED <<part, vars>>

RelaysNext == ForwardNext \/ JumpNext

RelaysSpec == RelaysInit /\ [][RelaysNext]_relaysVars

-----------------------------------------------------------------------------
(* The components' properties; their modules state them.                   *)

\* PortForward: while no socket id is drawn a second time, an application gets
\* what the other end of its own connection wrote, in order and once, although
\* descriptors are used again; a socket that only one side still has is about to
\* be opened or closed by a packet on its way; and the STERROR branches for
\* unknown sockets are never reached.
ForwardInv ==
    \/ redraws > 0
    \/ TypeOK /\ OwnDataInOrder /\ SocketsPaired /\ NothingUnexpected

\* PortForward: when an application closes its end, the other one is told,
\* unless a socket id was drawn a second time.
EndReachesPeer == part = "forward" => (Fairness => EndIsCarried)

\* PortForward: what one end writes the other one gets, unless a socket id was
\* drawn a second time.
DataReachesPeer == part = "forward" => (Fairness => DataIsCarried)

\* JumpHost: while the relay and the destination's session last, every packet is
\* somewhere exactly once and in order, through two sessions, a pipe and two
\* relays, and the second session never has a socket together with a thread
\* that is about to make one.
RelayInv == Jump!TypeOK /\ Jump!RelayInOrder /\ Jump!OneReconnection

\* JumpHost: data gets through, also when the second session was closed as
\* idle, unless a session ended or never began or the relays block each other.
DataArrives == part = "jump" => (Jump!Fairness => Jump!DataArrives)

\* JumpHost: the end of the destination's session or of the relay is told to
\* the client, unless the relays block each other.
EndIsTold == part = "jump" => (Jump!Fairness => Jump!EndIsTold)
=============================================================================
