--------------------------- MODULE KeepaliveLoop ---------------------------
(***************************************************************************)
(* TerminalClient and TerminalServer::runTerminal over one session: the    *)
(* handshake INITIAL_PAYLOAD / INITIAL_RESPONSE of the client's            *)
(* constructor, then input, output and keepalives.  Both loops look at the *)
(* session only when select() reports its socket, and packets that a       *)
(* recovery has put into localBuffer are not on the socket.                *)
(*                                                                         *)
(* One action is one pass through the part of a loop that handles one      *)
(* descriptor or the timer; threads and mutexes are in ClientReconnect.    *)
(***************************************************************************)
EXTENDS Naturals, SequencesExt, Hop

CONSTANTS
    MaxData,     \* bound: packets of data in each direction
    MaxFaults    \* bound: links that fail or keepalives that are late

KeepaliveAssumption == MaxData \in Nat /\ MaxFaults \in Nat

VARIABLES
    hop,      \* the session
    phase,    \* the client: "constructor", "run", "exit" or "fatal"
    looks,    \* select() calls of the constructor
    waiting,  \* waitingOnKeepalive
    serving,  \* the session thread: "first" packet, "loop", or "refused"
              \* a reverse tunnel and over
    sent,     \* data written so far, per direction
    got,      \* data delivered so far, per direction
    faults

vars == <<hop, phase, looks, waiting, serving, sent, got, faults>>

Kinds == {"payload", "response", "refusal", "data", "keepalive"}

TypeOK ==
    /\ hop \in [up : BOOLEAN, back : [Dirs -> Seq(Kinds)],
                sock : [Dirs -> Seq(Kinds)], local : [Dirs -> Seq(Kinds)]]
    /\ phase \in {"constructor", "run", "exit", "fatal"} /\ looks \in 0..3
    /\ waiting \in BOOLEAN /\ serving \in {"first", "loop", "refused"}
    /\ sent \in [Dirs -> 0..MaxData]
    /\ got \in [Dirs -> 0..MaxData]
    /\ faults \in 0..MaxFaults

\* connect() has worked and the payload is written.
Init ==
    /\ hop = Put(NewHop, "in", "payload")
    /\ phase = "constructor" /\ looks = 0
    /\ waiting = FALSE /\ serving = "first"
    /\ sent = [d \in Dirs |-> 0] /\ got = [d \in Dirs |-> 0]
    /\ faults = 0

Count(s, k) == Cardinality({i \in DOMAIN s : s[i] = k})

-----------------------------------------------------------------------------
(* Mutated forms of the definitions below.                                 *)

ServerReadsNoEcho ==
    /\ serving = "loop" /\ Readable(hop, "in")
    /\ hop' = Drained(hop, "in")
    /\ got' = [got EXCEPT !["in"] = @ + Count(Waiting(hop, "in"), "data")]
    /\ UNCHANGED <<phase, looks, waiting, serving, sent, faults>>

KeepaliveSentUnwritten ==
    /\ phase = "run" /\ hop.up /\ ~waiting
    /\ waiting' = TRUE
    /\ UNCHANGED <<hop, phase, looks, serving, sent, got, faults>>

-----------------------------------------------------------------------------
(* TerminalClient::TerminalClient.                                         *)

\* select() of one second reports the socket: the packet must be the
\* INITIAL_RESPONSE.
ConstructorReads ==
    /\ phase = "constructor" /\ Readable(hop, "out")
    /\ phase' = IF Head(Waiting(hop, "out")) = "response" THEN "run"
                ELSE IF Head(Waiting(hop, "out")) = "refusal" THEN "exit"
                ELSE "fatal"
    /\ hop' = Taken(hop, "out")
    /\ UNCHANGED <<looks, waiting, serving, sent, got, faults>>

\* A second without an answer, or without a socket.
ConstructorWaits ==
    /\ phase = "constructor" /\ ~Readable(hop, "out")
    /\ looks < 3
    /\ looks' = looks + 1
    /\ UNCHANGED <<hop, phase, waiting, serving, sent, got, faults>>

\* After three of them the failure is counted, and the loop is left anyway.
ConstructorGivesUp ==
    /\ phase = "constructor" /\ looks = 3
    /\ phase' = "run"
    /\ UNCHANGED <<hop, looks, waiting, serving, sent, got, faults>>

-----------------------------------------------------------------------------
(* TerminalClient::run.                                                    *)

ClientInput ==
    /\ phase = "run" /\ sent["in"] < MaxData
    /\ hop' = Put(hop, "in", "data")
    /\ sent' = [sent EXCEPT !["in"] = @ + 1]
    /\ UNCHANGED <<phase, looks, waiting, serving, got, faults>>

\* while (hasData()): output is shown, a keepalive noted; an unknown packet
\* type is fatal.
ClientReads ==
    /\ phase = "run" /\ Readable(hop, "out")
    /\ LET ps == Waiting(hop, "out")
       IN  /\ got' = [got EXCEPT !["out"] = @ + Count(ps, "data")]
           /\ waiting' = (waiting /\ Count(ps, "keepalive") = 0)
           /\ phase' = IF Count(ps, "response") + Count(ps, "refusal") > 0
                       THEN "fatal" ELSE phase
    /\ hop' = Drained(hop, "out")
    /\ UNCHANGED <<looks, serving, sent, faults>>

\* keepaliveTime has passed.
KeepaliveSent ==
    /\ phase = "run" /\ hop.up /\ ~waiting
    /\ hop' = Put(hop, "in", "keepalive")
    /\ waiting' = TRUE
    /\ UNCHANGED <<phase, looks, serving, sent, got, faults>>

\* It passes again without an answer: because the link is slow (bounded by
\* MaxFaults), or because nothing is on the way on either socket.
KeepaliveMissed ==
    /\ phase = "run" /\ hop.up /\ waiting
    /\ \/ hop.sock = None /\ UNCHANGED faults
       \/ hop.sock # None /\ faults < MaxFaults /\ faults' = faults + 1
    /\ hop' = Fail(hop)
    /\ waiting' = FALSE
    /\ UNCHANGED <<phase, looks, serving, sent, got>>

\* A pass of the loop without a socket; a quick reconnection leaves none.
ClientDisconnected ==
    /\ phase = "run" /\ ~hop.up /\ waiting
    /\ waiting' = FALSE
    /\ UNCHANGED <<hop, phase, looks, serving, sent, got, faults>>

-----------------------------------------------------------------------------
(* TerminalServer::handleConnection and runTerminal.                       *)

\* readPacket in a loop, without select(); anything but the payload is fatal.
\* The reverse tunnels are opened; one that fails ends the thread.
FirstPacket ==
    /\ serving = "first" /\ hop.up
    /\ Waiting(hop, "in") # <<>> /\ Head(Waiting(hop, "in")) = "payload"
    /\ \/ hop' = Put(Taken(hop, "in"), "out", "response") /\ serving' = "loop"
       \/ hop' = Put(Taken(hop, "in"), "out", "refusal") /\ serving' = "refused"
    /\ UNCHANGED <<phase, looks, waiting, sent, got, faults>>

ServerOutput ==
    /\ serving = "loop" /\ sent["out"] < MaxData
    /\ hop' = Put(hop, "out", "data")
    /\ sent' = [sent EXCEPT !["out"] = @ + 1]
    /\ UNCHANGED <<phase, looks, waiting, serving, got, faults>>

\* while (hasData()): input goes to the terminal, keepalives are echoed.
ServerReads ==
    /\ serving = "loop" /\ Readable(hop, "in")
    /\ LET ps == Waiting(hop, "in")
           echoes == [i \in 1..Count(ps, "keepalive") |-> "keepalive"]
       IN  /\ hop' = [Drained(hop, "in") EXCEPT !.sock["out"] = @ \o echoes]
           /\ got' = [got EXCEPT !["in"] = @ + Count(ps, "data")]
    /\ UNCHANGED <<phase, looks, waiting, serving, sent, faults>>

-----------------------------------------------------------------------------
LinkFails ==
    /\ hop.up /\ faults < MaxFaults
    /\ hop' = Fail(hop)
    /\ faults' = faults + 1
    /\ UNCHANGED <<phase, looks, waiting, serving, sent, got>>

Reconnect ==
    /\ ~hop.up /\ phase \in {"constructor", "run"}
    /\ hop' = Recover(hop)
    /\ UNCHANGED <<phase, looks, waiting, serving, sent, got, faults>>

-----------------------------------------------------------------------------
Constructor == ConstructorReads \/ ConstructorWaits \/ ConstructorGivesUp

Next ==
    \/ Constructor
    \/ ClientInput
    \/ ClientReads
    \/ KeepaliveSent
    \/ KeepaliveMissed
    \/ ClientDisconnected
    \/ FirstPacket
    \/ ServerOutput
    \/ ServerReads
    \/ LinkFails
    \/ Reconnect

Spec == Init /\ [][Next]_vars

\* Both loops come round, the keepalive timer expires in the end, and a lost
\* connection is restored in the end.  Nobody has to type or print.
Fairness ==
    /\ WF_vars(Constructor) /\ WF_vars(ClientReads)
    /\ SF_vars(KeepaliveSent) /\ SF_vars(KeepaliveMissed /\ hop.sock = None)
    /\ WF_vars(FirstPacket) /\ WF_vars(ServerReads)
    /\ WF_vars(Reconnect)

FairSpec == Spec /\ Fairness

-----------------------------------------------------------------------------
(* Properties.                                                             *)

\* The client waits for a keepalive only while one is on its way, there or
\* back: through failures, quick reconnections and missed keepalives the flag
\* and the packets stay in step, so a connection is never given up for an
\* answer nobody will send.
KeepaliveUnderWay ==
    (waiting /\ phase = "run" /\ serving # "refused") =>
        \E d \in Dirs : "keepalive" \in Range(UnderWay(hop, d))

\* Nothing but the payload is the first packet the server reads.
PayloadFirst ==
    serving = "first" => /\ UnderWay(hop, "in") # <<>>
                /\ Head(UnderWay(hop, "in")) = "payload"

\* Data is handed out at most once: what the loops have got and what is under
\* way is no more than was written.
DataBounded ==
    \A d \in Dirs : got[d] + Count(UnderWay(hop, d), "data") <= sent[d]

\* A session with a socket has nothing held back and one without it nothing on
\* it; the constructor does not wait for a keepalive.
Settled ==
    /\ IF hop.up THEN hop.back = None ELSE hop.sock = None
    /\ phase = "constructor" => ~waiting

\* The inductive invariant.
LoopInv ==
    /\ TypeOK
    /\ Settled
    /\ DataBounded
    /\ KeepaliveUnderWay
    /\ PayloadFirst

\* What one side writes the other gets, also when it arrived in a catchup
\* buffer and no byte follows it on the socket: the next keepalive or its
\* echo brings the loop back.
CaughtUpIsDelivered ==
    \A d \in Dirs : got[d] < sent[d] ~>
        (got[d] = sent[d] \/ phase = "fatal" \/ serving = "refused")

\* The client never meets a packet type it does not know.
\* Does not hold: see Known deviations in README.md.
NoUnknownPacket == phase # "fatal"
=============================================================================
