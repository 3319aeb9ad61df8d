------------------------------ MODULE JumpHost ------------------------------
(***************************************************************************)
(* A session through a jump host.  Packets go from the client over a first *)
(* session (hop1) to TerminalServer::runJumpHost, through the router's     *)
(* pipe to UserJumphostHandler, and over a second session (hop2) to the    *)
(* destination, and back.  The relay opens and closes the second session   *)
(* as the client comes and goes: it closes it when idle, and connects      *)
(* again when something arrives from the router.                           *)
(*                                                                         *)
(* One action is one pass of a loop through the part that handles one      *)
(* descriptor.  A pass of the relay uses the descriptor it looked up at    *)
(* its start (sawFd).                                                      *)
(***************************************************************************)
EXTENDS Integers, Functions, Hop

CONSTANTS
    MaxMany,    \* bound: packets of data in one direction
    MaxFew,     \* bound: packets of data in the other direction
    MaxFaults,  \* bound: links and connects that fail and idle periods
    PipeCap,    \* packets the router's pipe holds in each direction
    OutCap      \* packets canBufferWrite lets a lost connection hold back

JumpAssumption ==
    /\ MaxMany \in Nat /\ MaxFew \in 0..MaxMany /\ MaxFaults \in Nat
    /\ PipeCap \in Nat \ {0} /\ OutCap \in Nat \ {0}

VARIABLES
    hop1, hop2,
    pipe,        \* the router's socket, per direction
    hand,        \* a packet whose write to the pipe blocks, per direction
    phase,       \* the relay: "init", "connect", "relay" or "over", and after a
                 \* connect() that failed "bare" or "stuck"
    sawFd,       \* its pass began with a descriptor
    isRec,       \* is_reconnecting
    thread,      \* a reconnect thread of the second session runs
    server,      \* the destination: "first" packet, "loop", "ended", "failed"
    over,        \* the jump host has removed the client; the client knows
    sent, got,   \* data, per direction
    fatal,       \* the client met a packet it does not know
    faults

vars == <<hop1, hop2, pipe, hand, phase, sawFd, isRec, thread, server, over,
          sent, got, fatal, faults>>

\* Packets: data is numbered from 1.
Keepalive == 0
Response == -1
JumpInit == -2
ErrorResponse == -3   \* an INITIAL_RESPONSE with an error
IsData(p) == p > 0

TypeOK ==
    /\ hop1.up \in BOOLEAN /\ hop2.up \in BOOLEAN
    /\ \A d \in Dirs : Len(pipe[d]) <= PipeCap /\ Len(hand[d]) <= 1
    /\ phase \in {"init", "connect", "relay", "bare", "stuck", "over"}
    /\ sawFd \in BOOLEAN /\ isRec \in BOOLEAN /\ thread \in BOOLEAN
    /\ server \in {"first", "loop", "ended", "failed"}
    /\ over \in {"no", "jumphost", "client"}
    /\ sent \in [Dirs -> 0..MaxMany] /\ \E d \in Dirs : sent[d] <= MaxFew
    /\ fatal \in BOOLEAN /\ faults \in 0..MaxFaults

\* runJumpHost has answered the client and written JUMPHOST_INIT.
Init ==
    /\ hop1 = NewHop /\ hop2 = [NewHop EXCEPT !.up = FALSE]
    /\ pipe = [None EXCEPT !["in"] = <<JumpInit>>] /\ hand = None
    /\ phase = "init" /\ sawFd = FALSE /\ isRec = FALSE /\ thread = FALSE
    /\ server = "first" /\ over = "no"
    /\ sent = [d \in Dirs |-> 0] /\ got = None
    /\ fatal = FALSE /\ faults = 0

Relay == <<phase, sawFd, isRec, thread>>
Ends == <<server, over, fatal, faults>>

\* A bound: MaxMany packets one way and MaxFew the other.
MaySend(d) ==
    /\ sent[d] < MaxMany
    /\ sent[d] < MaxFew \/ \A e \in Dirs \ {d} : sent[e] <= MaxFew

-----------------------------------------------------------------------------
(* The client.                                                             *)

ClientSends ==
    /\ over = "no" /\ ~fatal /\ MaySend("in")
    /\ hop1' = Put(hop1, "in", sent["in"] + 1)
    /\ sent' = [sent EXCEPT !["in"] = @ + 1]
    /\ UNCHANGED <<hop2, pipe, hand, Relay, Ends, got>>

Received(d, p) == IF IsData(p) THEN [got EXCEPT ![d] = Append(@, p)] ELSE got

\* What is on the way; the rest waits in a localBuffer or behind a closed
\* second session.
Moving ==
    UNION {Range(hop1.sock[d] \o hop1.back[d] \o hop2.sock[d] \o pipe[d] \o hand[d]) :
           d \in Dirs}

\* One more when the last one is answered, or given up because nothing comes
\* (KeepaliveLoop).
ClientKeepalive ==
    /\ over = "no" /\ ~fatal /\ hop1.up /\ Keepalive \notin Moving
    /\ hop1' = Put(hop1, "in", Keepalive)
    /\ UNCHANGED <<hop2, pipe, hand, Relay, Ends, sent, got>>

\* One packet of while (hasData()): localBuffer is read first, so that the
\* socket keeps the loop going until both are empty.
ClientReads ==
    /\ ~fatal /\ Readable(hop1, "out")
    /\ LET p == Head(Waiting(hop1, "out"))
       IN  /\ got' = Received("out", p)
           /\ fatal' = (p \in {Response, ErrorResponse})
    /\ hop1' = Taken(hop1, "out")
    /\ UNCHANGED <<hop2, pipe, hand, Relay, server, over, faults, sent>>

-----------------------------------------------------------------------------
(* Mutated forms of the definitions below.                                 *)

\* The idle session is not opened again by the router.
RelayWakesNever ==
    /\ phase \in {"relay", "bare"} /\ ~sawFd /\ ~isRec /\ pipe["in"] # <<>> /\ ~thread
    /\ isRec' = TRUE
    /\ sawFd' = hop2.up
    /\ UNCHANGED <<hop1, hop2, pipe, hand, phase, thread, Ends, sent, got>>

\* A packet is taken from the router before the descriptor is looked at.
RelayWakesReads ==
    /\ phase \in {"relay", "bare"} /\ ~sawFd /\ ~isRec /\ pipe["in"] # <<>> /\ ~thread
    /\ isRec' = TRUE /\ thread' = TRUE
    /\ hop2' = IF hop2.up THEN Fail(hop2) ELSE hop2
    /\ pipe' = [pipe EXCEPT !["in"] = Tail(@)]
    /\ sawFd' = FALSE
    /\ UNCHANGED <<hop1, hand, phase, Ends, sent, got>>

JumpEndsKeepsClient ==
    /\ over = "no" /\ phase = "over" /\ hand["in"] = <<>> /\ pipe["out"] = <<>>
    /\ hop1' = hop1 /\ over' = "no" /\ pipe' = None /\ hand' = None
    /\ UNCHANGED <<hop2, Relay, server, fatal, faults, sent, got>>

-----------------------------------------------------------------------------
(* TerminalServer::runJumpHost: at most one packet each way in a pass.     *)

CanBuffer == hop1.up \/ Len(hop1.back["out"]) < OutCap

\* writePacket on the pipe blocks while it is full.
Write(d, p) ==
    IF Len(pipe[d]) < PipeCap
    THEN pipe' = [pipe EXCEPT ![d] = Append(@, p)] /\ UNCHANGED hand
    ELSE hand' = [hand EXCEPT ![d] = <<p>>] /\ UNCHANGED pipe

WriteContinues(d) ==
    /\ hand[d] # <<>> /\ Len(pipe[d]) < PipeCap
    /\ pipe' = [pipe EXCEPT ![d] = @ \o hand[d]]
    /\ hand' = [hand EXCEPT ![d] = <<>>]
    /\ UNCHANGED <<hop1, hop2, Relay, Ends, sent, got>>

JumpToClient ==
    /\ over = "no" /\ hand["in"] = <<>> /\ CanBuffer /\ pipe["out"] # <<>>
    /\ hop1' = Put(hop1, "out", Head(pipe["out"]))
    /\ pipe' = [pipe EXCEPT !["out"] = Tail(@)]
    /\ UNCHANGED <<hop2, hand, Relay, Ends, sent, got>>

JumpFromClient ==
    /\ over = "no" /\ phase # "over" /\ hand["in"] = <<>> /\ Readable(hop1, "in")
    /\ hop1' = Taken(hop1, "in")
    /\ Write("in", Head(Waiting(hop1, "in")))
    /\ UNCHANGED <<hop2, Relay, Ends, sent, got>>

\* The relay has closed the pipe: its end is read after what it holds, but a
\* write fails at once.  The client is removed and its socket shut down.
JumpEnds ==
    /\ over = "no" /\ phase = "over"
    /\ \/ hand["in"] = <<>> /\ pipe["out"] = <<>> /\ CanBuffer
       \/ hand["in"] # <<>> \/ Readable(hop1, "in")
    /\ over' = "jumphost" /\ pipe' = None /\ hand' = None
    /\ UNCHANGED <<hop1, hop2, Relay, server, fatal, faults, sent, got>>

-----------------------------------------------------------------------------
(* UserJumphostHandler::run.                                               *)

\* Anything but JUMPHOST_INIT is fatal; then connect() to the destination and
\* the INITIAL_PAYLOAD.
RelayStarts ==
    /\ phase = "init" /\ pipe["in"] # <<>> /\ Head(pipe["in"]) = JumpInit
    /\ pipe' = [pipe EXCEPT !["in"] = Tail(@)]
    /\ hop2' = Recover(hop2) /\ phase' = "connect"
    /\ UNCHANGED <<hop1, hand, sawFd, isRec, thread, Ends, sent, got>>

\* connect() returns false, which is counted once and leaves the loop: the relay
\* goes on without reader, writer and INITIAL_PAYLOAD.  It has no descriptor
\* ("bare"), or the number of one that is closed ("stuck").
RelayConnectFails ==
    /\ phase = "init" /\ pipe["in"] # <<>> /\ Head(pipe["in"]) = JumpInit
    /\ faults < MaxFaults /\ faults' = faults + 1
    /\ pipe' = [pipe EXCEPT !["in"] = Tail(@)]
    /\ phase' \in {"bare", "stuck"}
    /\ UNCHANGED <<hop1, hop2, hand, sawFd, isRec, thread, server, over, fatal,
                   sent, got>>

\* select() fails for the closed number and leaves the router in its set: one
\* packet is read, and written again and again, as there is no writer.
RelayStuckTakes ==
    /\ phase = "stuck" /\ hop2.back["in"] = <<>> /\ pipe["in"] # <<>>
    /\ hop2' = Put(hop2, "in", Head(pipe["in"]))
    /\ pipe' = [pipe EXCEPT !["in"] = Tail(@)]
    /\ UNCHANGED <<hop1, hand, Relay, Ends, sent, got>>

RelayConnected ==
    /\ phase = "connect" /\ Readable(hop2, "out")
    /\ Head(Waiting(hop2, "out")) = Response
    /\ hop2' = Taken(hop2, "out") /\ phase' = "relay" /\ sawFd' = hop2.up
    /\ UNCHANGED <<hop1, pipe, hand, isRec, thread, Ends, sent, got>>

\* The response has an error: run() throws and the process ends.
RelayThrows ==
    /\ phase = "connect" /\ Readable(hop2, "out")
    /\ Head(Waiting(hop2, "out")) = ErrorResponse
    /\ hop2' = Fail(hop2) /\ phase' = "over"
    /\ pipe' = [pipe EXCEPT !["in"] = <<>>]
    /\ UNCHANGED <<hop1, hand, sawFd, isRec, thread, Ends, sent, got>>

\* Three looks without the response: counted, and the loop is left anyway.
RelayGivesUpWaiting ==
    /\ phase = "connect"
    /\ phase' = "relay" /\ sawFd' = hop2.up
    /\ UNCHANGED <<hop1, hop2, pipe, hand, isRec, thread, Ends, sent, got>>

\* The router is readable and there was no socket: a running reconnection is
\* joined; otherwise one is started, after joining one that a failed read has
\* started, and a socket it has brought is closed again.
RelayJoins ==
    /\ phase = "relay" /\ ~sawFd /\ isRec /\ pipe["in"] # <<>> /\ ~thread
    /\ isRec' = FALSE /\ sawFd' = hop2.up
    /\ UNCHANGED <<hop1, hop2, pipe, hand, phase, thread, Ends, sent, got>>

RelayWakes ==
    /\ phase \in {"relay", "bare"} /\ ~sawFd /\ ~isRec /\ pipe["in"] # <<>> /\ ~thread
    /\ isRec' = TRUE /\ thread' = TRUE
    /\ hop2' = IF hop2.up THEN Fail(hop2) ELSE hop2
    /\ sawFd' = FALSE
    /\ UNCHANGED <<hop1, pipe, hand, phase, Ends, sent, got>>

RelayToDest ==
    /\ phase = "relay" /\ sawFd /\ hand["out"] = <<>> /\ pipe["in"] # <<>>
    /\ hop2' = Put(hop2, "in", Head(pipe["in"]))
    /\ pipe' = [pipe EXCEPT !["in"] = Tail(@)]
    /\ sawFd' = hop2.up
    /\ UNCHANGED <<hop1, hand, phase, isRec, thread, Ends, sent, got>>

RelayFromDest ==
    /\ phase = "relay" /\ sawFd /\ hand["out"] = <<>> /\ Readable(hop2, "out")
    /\ hop2' = Taken(hop2, "out")
    /\ Write("out", Head(Waiting(hop2, "out")))
    /\ sawFd' = hop2.up
    /\ UNCHANGED <<hop1, phase, isRec, thread, Ends, sent, got>>

\* Nothing for 11 s: the socket is closed, and not connected again.
RelayIdle ==
    /\ phase = "relay" /\ sawFd /\ hand["out"] = <<>> /\ hop2.up
    /\ pipe["in"] = <<>> /\ hop2.sock["out"] = <<>>
    /\ faults < MaxFaults /\ faults' = faults + 1
    /\ hop2' = Fail(hop2) /\ isRec' = FALSE /\ sawFd' = FALSE
    /\ UNCHANGED <<hop1, pipe, hand, phase, thread, server, over, fatal, sent, got>>

\* A pass in which nothing is ready, which takes a new look at the descriptor.
RelayLooks ==
    /\ phase = "relay" /\ sawFd # hop2.up /\ hand["out"] = <<>>
    /\ sawFd \/ pipe["in"] = <<>>
    /\ sawFd' = hop2.up
    /\ UNCHANGED <<hop1, hop2, pipe, hand, phase, isRec, thread, Ends, sent, got>>

\* The reconnect thread: a new socket, or INVALID_KEY, which shuts the
\* connection down and ends the relay's loop.  Without reader and writer
\* recover() ends the process.
Reconnected ==
    /\ thread /\ server # "ended" /\ phase # "bare" /\ ~hop2.up
    /\ thread' = FALSE /\ hop2' = Recover(hop2)
    /\ UNCHANGED <<hop1, pipe, hand, phase, sawFd, isRec, Ends, sent, got>>

RelayRefused ==
    /\ thread /\ (server = "ended" \/ phase = "bare") /\ ~hop2.up /\ hand["out"] = <<>>
    /\ thread' = FALSE /\ phase' = "over"
    /\ pipe' = [pipe EXCEPT !["in"] = <<>>]
    /\ UNCHANGED <<hop1, hop2, hand, sawFd, isRec, Ends, sent, got>>

\* A read fails: the connection starts to reconnect by itself.
RelayLosesDest(h) ==
    /\ hop2.up /\ hop2' = h /\ thread' = TRUE
    /\ UNCHANGED <<hop1, pipe, hand, phase, sawFd, isRec, server, over, fatal,
                   sent, got>>

-----------------------------------------------------------------------------
(* The destination, as in KeepaliveLoop.                                   *)

DestFirst ==
    /\ server = "first" /\ phase # "init" /\ hop2.up
    /\ server' = "loop" /\ hop2' = Put(hop2, "out", Response)
    /\ UNCHANGED <<hop1, pipe, hand, Relay, over, fatal, faults, sent, got>>

\* A reverse tunnel is refused: runTerminal answers with the error and returns,
\* and the connection stays without anybody who reads it.
DestRefuses ==
    /\ server = "first" /\ phase # "init" /\ hop2.up
    /\ server' = "failed" /\ hop2' = Put(hop2, "out", ErrorResponse)
    /\ UNCHANGED <<hop1, pipe, hand, Relay, over, fatal, faults, sent, got>>

\* One packet of while (hasData()); a keepalive is echoed.
DestReads ==
    /\ server = "loop" /\ Readable(hop2, "in")
    /\ LET p == Head(Waiting(hop2, "in"))
       IN  /\ hop2' = IF p = Keepalive THEN Put(Taken(hop2, "in"), "out", p)
                      ELSE Taken(hop2, "in")
           /\ got' = Received("in", p)
    /\ UNCHANGED <<hop1, pipe, hand, Relay, Ends, sent>>

DestSends ==
    /\ server = "loop" /\ MaySend("out")
    /\ hop2' = Put(hop2, "out", sent["out"] + 1)
    /\ sent' = [sent EXCEPT !["out"] = @ + 1]
    /\ UNCHANGED <<hop1, pipe, hand, Relay, Ends, got>>

\* The shell has exited: the client is removed and the socket shut down.
DestEnds ==
    /\ server = "loop" /\ server' = "ended"
    /\ hop2' = [hop2 EXCEPT !.sock["in"] = <<>>]
    /\ UNCHANGED <<hop1, pipe, hand, Relay, over, fatal, faults, sent, got>>

DestEof ==
    /\ server = "ended" /\ hop2.sock["out"] = <<>>
    /\ RelayLosesDest(Fail(hop2)) /\ UNCHANGED faults

-----------------------------------------------------------------------------
Link1Fails ==
    /\ hop1.up /\ over = "no" /\ faults < MaxFaults
    /\ hop1' = Fail(hop1) /\ faults' = faults + 1
    /\ UNCHANGED <<hop2, pipe, hand, Relay, server, over, fatal, sent, got>>

ClientReconnects ==
    /\ ~hop1.up /\ over = "no" /\ ~fatal
    /\ hop1' = Recover(hop1)
    /\ UNCHANGED <<hop2, pipe, hand, Relay, Ends, sent, got>>

\* After the end of the stream the client is answered INVALID_KEY.
ClientTold ==
    /\ over = "jumphost" /\ ~Readable(hop1, "out")
    /\ over' = "client"
    /\ UNCHANGED <<hop1, hop2, pipe, hand, Relay, server, fatal, faults, sent, got>>

Link2Fails ==
    /\ faults < MaxFaults /\ faults' = faults + 1
    /\ RelayLosesDest(Fail(hop2))

-----------------------------------------------------------------------------
Jump == JumpToClient \/ JumpFromClient \/ JumpEnds \/ WriteContinues("in")

RelayPass ==
    \/ RelayStarts
    \/ RelayStuckTakes
    \/ RelayConnected
    \/ RelayThrows
    \/ RelayJoins
    \/ RelayWakes
    \/ RelayLooks
    \/ RelayToDest
    \/ RelayFromDest
    \/ WriteContinues("out")

Next ==
    \/ ClientSends
    \/ ClientKeepalive
    \/ ClientReads
    \/ Jump
    \/ RelayPass
    \/ RelayConnectFails
    \/ RelayGivesUpWaiting
    \/ RelayIdle
    \/ Reconnected
    \/ RelayRefused
    \/ DestFirst
    \/ DestRefuses
    \/ DestReads
    \/ DestSends
    \/ DestEnds
    \/ DestEof
    \/ Link1Fails
    \/ ClientReconnects
    \/ ClientTold
    \/ Link2Fails

Spec == Init /\ [][Next]_vars

\* Every loop comes round and handles each of its descriptors; the client
\* sends keepalives; a lost connection is restored in the end.  Nobody has to
\* type or print, and the shell need not exit.
Fairness ==
    /\ SF_vars(ClientKeepalive) /\ WF_vars(ClientReads)
    /\ SF_vars(JumpToClient) /\ SF_vars(JumpFromClient) /\ WF_vars(JumpEnds)
    /\ \A d \in Dirs : WF_vars(WriteContinues(d))
    /\ WF_vars(RelayStarts \/ RelayConnectFails) /\ WF_vars(RelayStuckTakes)
    /\ WF_vars(RelayConnected \/ RelayThrows \/ RelayGivesUpWaiting)
    /\ WF_vars(RelayJoins) /\ WF_vars(RelayWakes) /\ WF_vars(RelayLooks)
    /\ SF_vars(RelayToDest) /\ SF_vars(RelayFromDest)
    /\ WF_vars(Reconnected) /\ WF_vars(RelayRefused)
    /\ WF_vars(DestFirst \/ DestRefuses) /\ WF_vars(DestReads) /\ WF_vars(DestEof)
    /\ WF_vars(ClientReconnects) /\ WF_vars(ClientTold)

FairSpec == Spec /\ Fairness

-----------------------------------------------------------------------------
(* Properties.                                                             *)

\* The data of s, with other packets in between, is 1, 2, ..., n.
InOrder(s, n) ==
    /\ \A i \in DOMAIN s : IsData(s[i]) => s[i] <= n
    /\ \A i, j \in DOMAIN s : i < j /\ IsData(s[i]) /\ IsData(s[j]) => s[i] < s[j]
    /\ \A k \in 1..n : \E i \in DOMAIN s : s[i] = k

\* Every packet of a direction that has been sent.
InWay == got["in"] \o (UnderWay(hop2, "in") \o (pipe["in"] \o (hand["in"]
             \o UnderWay(hop1, "in"))))
OutWay == got["out"] \o (UnderWay(hop1, "out") \o (pipe["out"] \o (hand["out"]
             \o UnderWay(hop2, "out"))))

\* While the relay and the destination's session last, every packet is
\* somewhere exactly once, and in order, through both sessions, the pipe and
\* the hands of the two relays, whichever link fails, however often the relay
\* drops and restores the second session, and when it could not make one.
RelayInOrder ==
    server # "ended" /\ phase # "over" =>
        InOrder(InWay, sent["in"]) /\ InOrder(OutWay, sent["out"])

\* One reconnection at a time: a socket of the second session and a thread
\* that is about to make one never exist together.
OneReconnection == ~(hop2.up /\ thread)

\* Jump server and relay both wait for the other to read the pipe, which both
\* write with a blocking writePacket.
BothBlocked == \A d \in Dirs : hand[d] # <<>> /\ Len(pipe[d]) = PipeCap

\* What is typed reaches the destination and what it prints the client, also
\* when the second session was closed as idle and output waits behind it, unless
\* a session ended or never began, or the two relays block each other.
DataArrives ==
    \A d \in Dirs :
        Len(got[d]) < sent[d] ~>
            \/ Len(got[d]) = sent[d]
            \/ server \in {"ended", "failed"} \/ phase \in {"over", "stuck"} \/ fatal
            \/ BothBlocked

\* When the destination's session or the relay ends, the client is told in the
\* end, unless the two relays block each other.
EndIsTold ==
    (server = "ended" \/ phase = "over") ~> (over = "client" \/ fatal \/ BothBlocked)

\* A relay that could not connect does not go on: "Connecting to server failed"
\* is logged, and "Could not make initial connection" ends it.
\* Does not hold: see Known deviations in README.md.
ConnectsOrEnds == phase \notin {"bare", "stuck"}

\* The relays never wait for each other.
\* Does not hold: see Known deviations in README.md.
NeverBlocked == ~BothBlocked

\* The client never meets the INITIAL_RESPONSE of the second session.
\* Does not hold: see Known deviations in README.md.
ResponseNotRelayed == ~fatal
=============================================================================
