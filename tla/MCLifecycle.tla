----------------------------- MODULE MCLifecycle -----------------------------
(***************************************************************************)
(* How a session begins and recovers, for TLC: the two threads of the      *)
(* client (ClientReconnect), a session over failing links                  *)
(* (BackedConnection), the exchange of the catchup buffers on a small link *)
(* (CatchupExchange) and setting a session up over ssh (SessionSetup).     *)
(* They share no state and are checked side by side: each has its          *)
(* variables, and in a behaviour the component that part names runs from   *)
(* its initial state while the others stay in theirs.                      *)
(***************************************************************************)
EXTENDS ClientReconnect

CONSTANTS
    \* CatchupExchange
    Backlogs, Capacity, UnitsIn5s, MaxTries, MaxLinkFaults,
    \* SessionSetup
    Collide, RouterTimely

VARIABLES part,
    \* BackedConnection
    wseq, low, outage, sunk, rseq, localBuffer, partial, nonce, linkFd, phase,
    rlink, handler, up, net, links, failures, process,
    \* CatchupExchange
    side, todo, sent, tries, stream, header, got, revived, linkFaults,
    \* SessionSetup
    cpc, key, term, fifo, clientKeys, jumpLink, daemons, port, option, useJump

\* The client writes less than the server: the code of the two writers is the
\* same, and the server is the side whose threads can be stale.
Session == INSTANCE BackedConnection
    WITH MaxBackup <- 3, MaxOutage <- 2, ProtoLimit <- 100, HalfRange <- 100,
         SocketBuffer <- 2, MaxPackets <- [client |-> 1, server |-> 2],
         MaxLinks <- 4, MaxFaults <- 2, fd <- linkFd, faults <- failures

E == INSTANCE CatchupExchange
    WITH pc <- side, net <- stream, faults <- linkFaults, MaxFaults <- MaxLinkFaults

\* One direction fits the link and both get through in 5 s, or neither fits and
\* one takes longer.
MCBacklogs == {[client |-> 2, server |-> 4], [client |-> 4, server |-> 6]}

Setup == INSTANCE SessionSetup WITH link <- jumpLink

ASSUME LifecycleAssumption ==
    /\ ReconnectAssumption /\ Session!ConnectionAssumption
    /\ E!ExchangeAssumption
    /\ Setup!SessionSetupAssumption

threadVars   == vars
sessionVars  == <<wseq, low, outage, sunk, rseq, localBuffer, partial, nonce, linkFd,
                  phase, rlink, handler, up, net, links, failures, process>>
exchangeVars == <<side, todo, sent, tries, stream, header, got, revived, linkFaults>>
setupVars    == <<cpc, key, term, fifo, clientKeys, jumpLink, daemons, port, option,
                  useJump>>
lifecycleVars == <<part, threadVars, sessionVars, exchangeVars, setupVars>>

\* One of the hosts SessionSetup starts with, for the parts that do not use it,
\* and one of the backlogs.
NoDaemons ==
    /\ \A h \in DOMAIN daemons : daemons[h] = {}
    /\ \A h \in DOMAIN option : option[h] = {} /\ ~useJump
OneBacklog == todo = CHOOSE b \in Backlogs : TRUE

LifecycleInit ==
    /\ part \in {"session", "threads", "exchange", "setup"}
    /\ Init /\ Session!Init /\ E!Init /\ Setup!Init
    /\ part = "exchange" \/ OneBacklog
    /\ part = "setup" \/ NoDaemons

ThreadsNext   == /\ part = "threads" /\ Next
                 /\ UNCHANGED <<part, sessionVars, exchangeVars, setupVars>>
SessionNext   == /\ part = "session" /\ Session!Next
                 /\ UNCHANGED <<part, threadVars, exchangeVars, setupVars>>
ExchangeNext  == /\ part = "exchange" /\ E!Next
                 /\ UNCHANGED <<part, threadVars, sessionVars, setupVars>>
SetupNext     == /\ part = "setup" /\ Setup!Next
                 /\ UNCHANGED <<part, threadVars, sessionVars, exchangeVars>>

LifecycleNext == ThreadsNext \/ SessionNext \/ ExchangeNext \/ SetupNext

LifecycleSpec == LifecycleInit /\ [][LifecycleNext]_lifecycleVars

-----------------------------------------------------------------------------
(* The components' properties; their modules state them.  ReconnectInv is  *)
(* checked as ClientReconnect has it.                                      *)

\* ClientReconnect: a client that is to end does, but for the join deadlock.
EndsWhenTold == part = "threads" => (Fairness => ShutdownCompletes)

\* ClientReconnect: a client that lost its link has one in the end, but for
\* the join deadlock.
LinkComesBack == part = "threads" => (Fairness => ReconnectCompletes)

\* BackedConnection: every packet accepted is delivered in the end, although
\* links fail and stale handlers close good ones.
EventuallyDelivered ==
    part = "session" => (Session!Fairness => Session!EventuallyDelivered)

\* CatchupExchange: where a side is says how much it has sent, and of buffers
\* that fit, what is read is what was written, in order and once, and nothing
\* is left for the first packets.
StreamIntact == E!ExchangeInv

\* CatchupExchange: an attempt ends even when both sides block each other, and
\* with buffers that fit the recovery completes once links stop failing.
RecoveryCompletes ==
    part = "exchange" =>
        (E!Fairness => E!AttemptEnds /\ (E!Fits(todo) => E!RecoveryCompletes))

\* SessionSetup: a client that was told a key is not refused by the etserver
\* that etterminal has found, one etserver is enough wherever its fifo is, and
\* jumphost and destination know one key.
SetupInv == Setup!SetupInv

\* SessionSetup: the setup ends, with or without a session.
SetupEnds == part = "setup" => (Setup!Fairness => Setup!SetupEnds)
=============================================================================
