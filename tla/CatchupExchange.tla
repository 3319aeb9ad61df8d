--------------------------- MODULE CatchupExchange ---------------------------
(***************************************************************************)
(* The inside of Connection::recover on a link that holds less than a      *)
(* catchup buffer: writeProto and readProto of both sides through          *)
(* writeAllOrThrow, readAll and the non-blocking UnixSocketHandler::write. *)
(* BackedConnection takes each of these exchanges for one step.            *)
(*                                                                         *)
(* A catchup buffer is a number of units.  The header, and the length in   *)
(* front of every message, always fit a link.                              *)
(***************************************************************************)
EXTENDS Integers, Sequences

CONSTANTS
    Backlogs,   \* b[s] for b in Backlogs: units that s has written and its peer
                \* has not read
    Capacity,   \* units that both socket buffers of a direction hold
    UnitsIn5s,  \* units the network carries in the 5 s of UnixSocketHandler::write
    MaxTries,   \* calls of it in the 30 s of SOCKET_DATA_TRANSFER_TIMEOUT
    MaxFaults   \* bound: links that fail

Sides == {"client", "server"}
Peer(s) == IF s = "client" THEN "server" ELSE "client"

ExchangeAssumption ==
    /\ Backlogs \subseteq [Sides -> Nat]
    /\ {Capacity, UnitsIn5s, MaxTries} \subseteq Nat \ {0}
    /\ MaxFaults \in Nat

VARIABLES
    pc,      \* pc[s]: where s is in recover()
    todo,    \* todo[s]: units of the catchup buffer of s
    sent,    \* sent[s]: bytesWritten of the innermost loop
    tries,   \* tries[s]: calls of write that have returned -1
    net,     \* net[s]: units under way to s
    header,  \* header[s]: a SequenceHeader is under way to s
    got,     \* got[s]: units of the buffer that s is reading
    revived, \* revived[s]: s has the catchup buffer of its peer
    faults

vars == <<pc, todo, sent, tries, net, header, got, revived, faults>>

TypeOK ==
    /\ pc \in [Sides -> {"start", "header", "send", "recv", "up", "failed"}]
    /\ {todo, sent, tries} \subseteq [Sides -> Nat]
    /\ {net, got} \subseteq [Sides -> Seq(Nat)]
    /\ \A s \in Sides :
        /\ sent[s] <= todo[s] /\ tries[s] <= MaxTries
        /\ Len(net[s]) <= Capacity /\ Len(got[s]) <= todo[Peer(s)]
    /\ {header, revived} \subseteq [Sides -> BOOLEAN]
    /\ faults \in 0..MaxFaults

Begin ==
    /\ pc' = [s \in Sides |-> "start"]
    /\ sent' = [s \in Sides |-> 0] /\ tries' = [s \in Sides |-> 0]
    /\ net' = [s \in Sides |-> <<>>] /\ header' = [s \in Sides |-> FALSE]
    /\ got' = [s \in Sides |-> <<>>]

Init ==
    /\ pc = [s \in Sides |-> "start"]
    /\ todo \in Backlogs
    /\ sent = [s \in Sides |-> 0] /\ tries = [s \in Sides |-> 0]
    /\ net = [s \in Sides |-> <<>>] /\ header = [s \in Sides |-> FALSE]
    /\ got = [s \in Sides |-> <<>>]
    /\ revived = [s \in Sides |-> FALSE]
    /\ faults = 0

Go(s, where) == pc' = [pc EXCEPT ![s] = where]

\* EAGAIN.
Full(s) == Len(net[Peer(s)]) >= Capacity

\* s is in a write that cannot go on.
Stuck(s) == pc[s] = "send" /\ Full(s)

-----------------------------------------------------------------------------
SendHeader(s) ==
    /\ pc[s] = "start" /\ Go(s, "header")
    /\ header' = [header EXCEPT ![Peer(s)] = TRUE]
    /\ UNCHANGED <<todo, sent, tries, net, got, revived, faults>>

\* Mutated form: the peer's catchup buffer is read before the own one is sent.
RecvHeaderReadsFirst(s) ==
    /\ pc[s] = "header" /\ header[s] /\ Go(s, "recv")
    /\ header' = [header EXCEPT ![s] = FALSE]
    /\ UNCHANGED <<todo, sent, tries, net, got, revived, faults>>

\* An empty catchup buffer is a length only.
RecvHeader(s) ==
    /\ pc[s] = "header" /\ header[s]
    /\ Go(s, IF todo[s] = 0 THEN "recv" ELSE "send")
    /\ header' = [header EXCEPT ![s] = FALSE]
    /\ UNCHANGED <<todo, sent, tries, net, got, revived, faults>>

\* send() takes what there is room for; the loop is over when all is sent.
SendUnit(s) ==
    /\ pc[s] = "send" /\ ~Full(s) /\ pc[Peer(s)] # "failed"
    /\ net' = [net EXCEPT ![Peer(s)] = Append(@, sent[s] + 1)]
    /\ sent' = [sent EXCEPT ![s] = @ + 1]
    /\ IF sent[s] + 1 = todo[s] THEN Go(s, "recv") ELSE UNCHANGED pc
    /\ UNCHANGED <<todo, tries, header, got, revived, faults>>

\* Mutated form: write gives up at the first EAGAIN.
GivesUpAtOnce(s) == Full(s)

\* 5 s since the call began, whatever was sent meanwhile: no time passes while
\* the peer reads, but for what the network needs.
GivesUp(s) == Full(s) /\ (Stuck(Peer(s)) \/ sent[s] > UnitsIn5s)

\* write returns -1 and does not say what it has sent; writeAllOrThrow begins
\* again at its own position, the begin of the buffer.
GiveUp(s) ==
    /\ pc[s] = "send" /\ GivesUp(s) /\ tries[s] < MaxTries
    /\ sent' = [sent EXCEPT ![s] = 0]
    /\ tries' = [tries EXCEPT ![s] = @ + 1]
    /\ UNCHANGED <<pc, todo, net, header, got, revived, faults>>

\* "Socket Timeout": 30 s without a write that was a success.
Timeout(s) ==
    /\ pc[s] = "send" /\ Full(s) /\ tries[s] = MaxTries
    /\ Go(s, "failed")
    /\ UNCHANGED <<todo, sent, tries, net, header, got, revived, faults>>

RecvUnit(s) ==
    /\ pc[s] = "recv" /\ net[s] # <<>> /\ Len(got[s]) < todo[Peer(s)]
    /\ got' = [got EXCEPT ![s] = Append(@, Head(net[s]))]
    /\ net' = [net EXCEPT ![s] = Tail(@)]
    /\ UNCHANGED <<pc, todo, sent, tries, header, revived, faults>>

InOrder(units) == units = [i \in 1..Len(units) |-> i]

\* The buffer is complete: the reader is revived with what it contains, and
\* the peer has nothing left to send.  Other bytes than the peer's may be an
\* invalid proto or may pass for another one.
RecvDone(s) ==
    /\ pc[s] = "recv" /\ Len(got[s]) = todo[Peer(s)]
    /\ pc[Peer(s)] \notin {"start", "header"}
    /\ \/ Go(s, "up") /\ revived' = [revived EXCEPT ![s] = TRUE]
       \/ ~InOrder(got[s]) /\ Go(s, "failed") /\ UNCHANGED revived
    /\ UNCHANGED <<todo, sent, tries, net, header, got, faults>>

\* BackedReader takes what is left on the link for a packet, which does not
\* decrypt: the connection is over, and the process as well.
ReadRest(s) ==
    /\ pc[s] = "up" /\ net[s] # <<>> /\ Go(s, "failed")
    /\ UNCHANGED <<todo, sent, tries, net, header, got, revived, faults>>

\* EPIPE: the peer has closed, in the middle of recover() or after it.
PeerFailed(s) ==
    /\ pc[s] # "failed" /\ pc[Peer(s)] = "failed"
    /\ Go(s, "failed")
    /\ UNCHANGED <<todo, sent, tries, net, header, got, revived, faults>>

\* The network fails, or nothing comes for 30 s in readAll.
LinkFails ==
    /\ faults < MaxFaults /\ faults' = faults + 1
    /\ pc # [s \in Sides |-> "failed"]
    /\ pc' = [s \in Sides |-> "failed"]
    /\ UNCHANGED <<todo, sent, tries, net, header, got, revived>>

\* pollReconnect tries again; a side that was revived has its catchup.
Retry ==
    /\ \A s \in Sides : pc[s] = "failed"
    /\ Begin
    /\ todo' = [s \in Sides |-> IF revived[Peer(s)] THEN 0 ELSE todo[s]]
    /\ UNCHANGED <<revived, faults>>

Side(s) ==
    \/ SendHeader(s) \/ RecvHeader(s) \/ SendUnit(s) \/ GiveUp(s) \/ Timeout(s)
    \/ RecvUnit(s) \/ RecvDone(s) \/ ReadRest(s) \/ PeerFailed(s)

Next == LinkFails \/ Retry \/ \E s \in Sides : Side(s)

Spec == Init /\ [][Next]_vars

\* Both processes run, timers run out and pollReconnect is called again.
Fairness == WF_vars(Retry) /\ \A s \in Sides : WF_vars(Side(s))

FairSpec == Spec /\ Fairness

-----------------------------------------------------------------------------
(* Properties.                                                             *)

Up == pc = [s \in Sides |-> "up"]

\* UnixSocketHandler.hpp of write: "Writes `count` bytes by retrying until
\* completion or timeout."  What is read of a catchup buffer is what was
\* written, in order and once, and nothing of it is left on the link for the
\* first packets to be taken from.
StreamIntact ==
    /\ \A s \in Sides : InOrder(got[s])
    /\ Up => \A s \in Sides : net[s] = <<>>

\* Where a side is says how much of its buffer it has sent; one that is up has
\* read all of the peer's.
SentSoFar ==
    \A s \in Sides :
        /\ pc[s] \in {"start", "header"} => sent[s] = 0
        /\ pc[s] = "send" => sent[s] < todo[s]
        /\ pc[s] \in {"recv", "up"} => sent[s] = todo[s]
        /\ pc[s] = "up" => Len(got[s]) = todo[Peer(s)]

\* The buffers are such that no write gives up: the network carries each in
\* 5 s, and one of them fits the link.
Fits(b) == (\A s \in Sides : b[s] <= UnitsIn5s) /\ \E s \in Sides : b[s] <= Capacity

\* What has been read and what is under way make up what has been sent.
WireOrdered ==
    \A s \in Sides : got[s] \o net[s] = [i \in 1..sent[Peer(s)] |-> i]

\* The inductive invariant; of buffers that do not fit, write sends units a
\* second time.
ExchangeInv ==
    /\ TypeOK
    /\ SentSoFar
    /\ Fits(todo) => WireOrdered /\ StreamIntact

\* An attempt comes to an end, with the session or without, also when both
\* sides write and neither reads: the timeout of 30 s is their way out.
AttemptEnds == []<>(Up \/ pc = [s \in Sides |-> "failed"])

\* "a new connection is established and continues where the previous connection
\* left off" (docs/protocol.md), once the network stops failing.
RecoveryCompletes == <>[]Up
=============================================================================
