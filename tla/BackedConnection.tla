-------------------------- MODULE BackedConnection --------------------------
(***************************************************************************)
(* One session of Eternal Terminal: a ClientConnection and the             *)
(* ServerClientConnection of the same id, each with a BackedReader and a   *)
(* BackedWriter, over TCP connections ("links") that break and are         *)
(* replaced.  The session exists and both ends know its key; creation and  *)
(* removal belong to ServerConnection.                                     *)
(*                                                                         *)
(* Packets are numbered as they are written.  A packet is encrypted with   *)
(* the nonce of its number, so decrypting packet n as the k-th one works   *)
(* exactly when n = k, and fails with STFATAL otherwise.  On a link the    *)
(* bytes of a packet are two parts, so that a read or a failed write can   *)
(* stop in the middle.  Byte limits count packets of size one here;        *)
(* BackedWriter has the byte arithmetic.                                   *)
(*                                                                         *)
(* The socketFd fields of Connection, reader and writer only differ inside *)
(* closeSocket and recover, under the mutexes of the connection, and are   *)
(* one variable.  A thread in Connection::recover, and the reconnect       *)
(* thread from its connect() on, holds connectionMutex, so read and write  *)
(* of that side wait while phase is not "idle".                            *)
(***************************************************************************)
EXTENDS Integers, Sequences

CONSTANTS
    MaxBackup,     \* MAX_BACKUP_BYTES
    MaxOutage,     \* DISCONNECT_BUFFER_BYTES
    ProtoLimit,    \* largest CatchupBuffer writeProto accepts (128 MB)
    HalfRange,     \* 2^31: SequenceHeader.sequenceNumber is an int32
    SocketBuffer,  \* parts of packets in flight in one direction of a link
    MaxPackets,    \* bound: packets written by a side, MaxPackets[s]
    MaxLinks,      \* bound: links opened
    MaxFaults      \* bound: network failures and timeouts

Sides == {"client", "server"}
Peer(s) == IF s = "client" THEN "server" ELSE "client"
Links == 1..MaxLinks

ASSUME ConnectionAssumption ==
    /\ MaxBackup \in Nat
    /\ MaxOutage \in Nat
    /\ ProtoLimit \in Nat
    /\ HalfRange \in Nat \ {0}
    /\ SocketBuffer \in Nat
    /\ MaxPackets \in [Sides -> Nat]
    /\ MaxLinks \in Nat \ {0}
    /\ MaxFaults \in Nat

VARIABLES
    wseq,         \* BackedWriter::sequenceNumber
    low,          \* the backup holds the packets low+1..wseq
    outage,       \* BackedWriter::disconnectedBytes
    sunk,         \* parts the socket took after its link went down
    rseq,         \* BackedReader::sequenceNumber
    localBuffer,  \* BackedReader::localBuffer
    partial,      \* BackedReader::partialMessage
    nonce,        \* packets decrypted by the reader's CryptoHandler
    fd,           \* the link of socketFd, 0 for -1
    phase,        \* what the thread in connect/recover waits to read
    rlink,        \* the link it works on (newSocketFd), 0 when idle
    handler,      \* ServerConnection::clientHandler of a link
    up,           \* the link still carries data
    net,          \* net[l][s]: bytes on link l on their way to s
    links,        \* links opened so far
    faults,       \* network failures and timeouts so far
    process       \* "fatal" once a process ended in STFATAL

writers == <<wseq, low, outage, sunk>>
readers == <<rseq, localBuffer, partial, nonce>>
network == <<up, net>>
bounds == <<links, faults>>
vars == <<wseq, low, outage, sunk, rseq, localBuffer, partial, nonce, fd, phase,
          rlink, handler, up, net, links, faults, process>>

(* What travels on a link: the connection handshake, the two messages of   *)
(* recovery, and the parts of packets.                                     *)
Request == [type |-> "request"]
Response == [type |-> "response"]
Header(n) == [type |-> "header", num |-> n]
Catchup(packets) == [type |-> "catchup", packets |-> packets]
Part(half, n) == [type |-> half, num |-> n]

Message ==
    [type : {"request", "response"}]
        \cup [type : {"header"}, num : Int]
        \cup [type : {"catchup"}, packets : Seq(Nat)]
        \cup [type : {"first", "last"}, num : Nat]

TypeOK ==
    /\ wseq \in [Sides -> Nat]
    /\ low \in [Sides -> Nat]
    /\ outage \in [Sides -> Nat]
    /\ sunk \in [Sides -> Nat]
    /\ rseq \in [Sides -> Nat]
    /\ localBuffer \in [Sides -> Seq(Nat)]
    /\ partial \in [Sides -> Nat]
    /\ nonce \in [Sides -> Nat]
    /\ fd \in [Sides -> 0..MaxLinks]
    /\ phase \in [Sides -> {"idle", "response", "header", "catchup"}]
    /\ rlink \in [Sides -> 0..MaxLinks]
    /\ handler \in [Links -> {"none", "request", "recover", "done"}]
    /\ up \in [Links -> BOOLEAN]
    /\ net \in [Links -> [Sides -> Seq(Message)]]
    /\ links \in 1..MaxLinks
    /\ faults \in 0..MaxFaults
    /\ process \in {"running", "fatal"}

\* The session right after its creation: both ends use link 1.
Init ==
    /\ wseq = [s \in Sides |-> 0]
    /\ low = [s \in Sides |-> 0]
    /\ outage = [s \in Sides |-> 0]
    /\ sunk = [s \in Sides |-> 0]
    /\ rseq = [s \in Sides |-> 0]
    /\ localBuffer = [s \in Sides |-> <<>>]
    /\ partial = [s \in Sides |-> 0]
    /\ nonce = [s \in Sides |-> 0]
    /\ fd = [s \in Sides |-> 1]
    /\ phase = [s \in Sides |-> "idle"]
    /\ rlink = [s \in Sides |-> 0]
    /\ handler = [l \in Links |-> IF l = 1 THEN "done" ELSE "none"]
    /\ up = [l \in Links |-> l = 1]
    /\ net = [l \in Links |-> [s \in Sides |-> <<>>]]
    /\ links = 1
    /\ faults = 0
    /\ process = "running"

-----------------------------------------------------------------------------
(* Mutated forms of the definitions below.                                 *)

WriteSentUncounted(s) ==
    /\ phase[s] = "idle"
    /\ fd[s] # 0
    /\ wseq[s] < MaxPackets[s]
    /\ Len(net[fd[s]][Peer(s)]) + 2 <= SocketBuffer
    /\ net' = IF up[fd[s]]
              THEN [net EXCEPT ![fd[s]][Peer(s)] = @ \o
                      <<Part("first", wseq[s] + 1), Part("last", wseq[s] + 1)>>]
              ELSE net
    /\ UNCHANGED <<writers, readers, fd, phase, rlink, handler, up, bounds, process>>

RecoveredOffByOne(s, n) == [i \in 1..(wseq[s] - n) |-> n + i - 1]

RecvCatchupKeepsPartial(s) ==
    /\ phase[s] = "catchup"
    /\ net[rlink[s]][s] # <<>>
    /\ LET l == rlink[s]
           m == Head(net[l][s])
       IN  /\ m.type = "catchup"
           /\ fd' = [fd EXCEPT ![s] = l]
           /\ localBuffer' = [localBuffer EXCEPT ![s] = @ \o m.packets]
           /\ rseq' = [rseq EXCEPT ![s] = @ + Len(m.packets)]
           /\ net' = [net EXCEPT ![l][s] = Tail(@)]
    /\ outage' = [outage EXCEPT ![s] = 0]
    /\ sunk' = [sunk EXCEPT ![s] = 0]
    /\ phase' = [phase EXCEPT ![s] = "idle"]
    /\ rlink' = [rlink EXCEPT ![s] = 0]
    /\ UNCHANGED <<wseq, low, partial, nonce, handler, up, bounds, process>>

HandlerRecoverNeedsClosed(l) ==
    /\ handler[l] = "recover"
    /\ phase["server"] = "idle"
    /\ fd["server"] = 0
    /\ net' = IF up[l]
              THEN [net EXCEPT ![l]["client"] = Append(@, Header(rseq["server"]))]
              ELSE net
    /\ phase' = [phase EXCEPT !["server"] = "header"]
    /\ rlink' = [rlink EXCEPT !["server"] = l]
    /\ handler' = [handler EXCEPT ![l] = "done"]
    /\ UNCHANGED <<writers, readers, fd, up, bounds, process>>

-----------------------------------------------------------------------------
(* The network.                                                            *)

\* What a write of msgs by side s on link l leaves on the link: nothing once
\* the link is down, although the write itself may still succeed.
Put(l, s, msgs) ==
    IF up[l] THEN [net EXCEPT ![l][Peer(s)] = @ \o msgs] ELSE net

\* What is left of a network whose link l side s closed: the bytes it had not
\* read are gone, those it had sent may still arrive.
Discard(network_, l, s) == [network_ EXCEPT ![l][s] = <<>>]

Arrived(l, s) == net[l][s] # <<>>

\* A fault is charged when a live link fails an operation.
Charge(l) ==
    /\ up[l] => faults < MaxFaults
    /\ faults' = IF up[l] THEN faults + 1 ELSE faults

\* The network fails: what is under way in either direction may be lost.
Break(l) ==
    /\ up[l]
    /\ Charge(l)
    /\ up' = [up EXCEPT ![l] = FALSE]
    /\ UNCHANGED <<writers, readers, fd, phase, rlink, handler, net, links,
                   process>>

\* The last bytes under way on a link that is down are lost.
Lose(l, s) ==
    /\ ~up[l]
    /\ Arrived(l, s)
    /\ net' = [net EXCEPT ![l][s] = SubSeq(@, 1, Len(@) - 1)]
    /\ UNCHANGED <<writers, readers, fd, phase, rlink, handler, up, bounds,
                   process>>

-----------------------------------------------------------------------------
(* Connection::write.                                                      *)

\* The side is inside Connection::recover.
Recovering(s) == phase[s] \in {"header", "catchup"}

\* What a side's threads need for read or write: connectionMutex.
Unlocked(s) == phase[s] = "idle"

\* The cleanup loop of BackedWriter::write for a writer with a socket.
Trimmed(s) == IF wseq[s] + 1 - low[s] > MaxBackup THEN wseq[s] + 1 - MaxBackup
                                                   ELSE low[s]

\* BUFFERED_ONLY.  When the budget of the outage is used up the write is
\* SKIPPED, and writePacket tries again later.
WriteBuffered(s) ==
    /\ Unlocked(s)
    /\ fd[s] = 0
    /\ wseq[s] < MaxPackets[s]
    /\ outage[s] + 1 <= MaxOutage
    /\ wseq' = [wseq EXCEPT ![s] = @ + 1]
    /\ outage' = [outage EXCEPT ![s] = @ + 1]
    /\ UNCHANGED <<low, sunk, readers, fd, phase, rlink, handler, network,
                   bounds, process>>

\* SUCCESS: the socket took all the bytes.  On a link that is down they fill
\* the buffer of the socket and go nowhere.
WriteSent(s) ==
    /\ Unlocked(s)
    /\ fd[s] # 0
    /\ wseq[s] < MaxPackets[s]
    /\ Len(net[fd[s]][Peer(s)]) + sunk[s] + 2 <= SocketBuffer
    /\ sunk' = [sunk EXCEPT ![s] = IF up[fd[s]] THEN @ ELSE @ + 2]
    /\ net' = Put(fd[s], s, <<Part("first", wseq[s] + 1), Part("last", wseq[s] + 1)>>)
    /\ wseq' = [wseq EXCEPT ![s] = @ + 1]
    /\ low' = [low EXCEPT ![s] = Trimmed(s)]
    /\ UNCHANGED <<outage, readers, fd, phase, rlink, handler, up, bounds,
                   process>>

\* WROTE_WITH_FAILURE, after none or some of the bytes; write() then closes
\* the socket.  The packet counts as written.
WriteFailed(s) ==
    /\ Unlocked(s)
    /\ fd[s] # 0
    /\ wseq[s] < MaxPackets[s]
    /\ Charge(fd[s])
    /\ \E taken \in {<<>>, <<Part("first", wseq[s] + 1)>>} :
          /\ Len(net[fd[s]][Peer(s)]) + sunk[s] + Len(taken) <= SocketBuffer
          /\ net' = Discard(Put(fd[s], s, taken), fd[s], s)
    /\ up' = [up EXCEPT ![fd[s]] = FALSE]
    /\ fd' = [fd EXCEPT ![s] = 0]
    /\ wseq' = [wseq EXCEPT ![s] = @ + 1]
    /\ low' = [low EXCEPT ![s] = Trimmed(s)]
    /\ UNCHANGED <<outage, sunk, readers, phase, rlink, handler, links, process>>

-----------------------------------------------------------------------------
(* Connection::read.                                                       *)

\* CryptoHandler::decrypt of packet n by the reader of side s.
Decrypt(s, n) ==
    /\ nonce' = [nonce EXCEPT ![s] = IF n = @ + 1 THEN @ + 1 ELSE @]
    /\ process' = IF n = nonce[s] + 1 THEN process ELSE "fatal"

\* A packet that recovery left in localBuffer.
ReadLocal(s) ==
    /\ Unlocked(s)
    /\ fd[s] # 0
    /\ localBuffer[s] # <<>>
    /\ localBuffer' = [localBuffer EXCEPT ![s] = Tail(@)]
    /\ Decrypt(s, Head(localBuffer[s]))
    /\ UNCHANGED <<writers, rseq, partial, fd, phase, rlink, handler, network,
                   bounds>>

\* Bytes from the socket.  The first part of a packet is kept in
\* partialMessage; the last part completes it.  Bytes that do not continue the
\* partial message make a packet that does not decrypt.
ReadSocket(s) ==
    /\ Unlocked(s)
    /\ fd[s] # 0
    /\ localBuffer[s] = <<>>
    /\ Arrived(fd[s], s)
    /\ LET m == Head(net[fd[s]][s])
       IN  IF m.type = "last" /\ partial[s] = m.num
           THEN /\ partial' = [partial EXCEPT ![s] = 0]
                /\ rseq' = [rseq EXCEPT ![s] = @ + 1]
                /\ Decrypt(s, m.num)
           ELSE /\ partial' = [partial EXCEPT ![s] =
                                 IF m.type = "first" THEN m.num ELSE @]
                /\ process' = IF m.type = "first" /\ partial[s] = 0
                               THEN process ELSE "fatal"
                /\ UNCHANGED <<rseq, nonce>>
    /\ net' = [net EXCEPT ![fd[s]][s] = Tail(@)]
    /\ UNCHANGED <<writers, localBuffer, fd, phase, rlink, handler, up, bounds>>

\* End of file, a socket error, or five seconds without data: read() closes
\* the socket.
ReadFailed(s) ==
    /\ Unlocked(s)
    /\ fd[s] # 0
    /\ localBuffer[s] = <<>>
    /\ ~Arrived(fd[s], s)
    /\ Charge(fd[s])
    /\ up' = [up EXCEPT ![fd[s]] = FALSE]
    /\ fd' = [fd EXCEPT ![s] = 0]
    /\ UNCHANGED <<writers, readers, phase, rlink, handler, net, links, process>>

-----------------------------------------------------------------------------
(* Connection::recover, on either side.                                    *)

\* SequenceHeader carries the int64 counter as an int32.
Int32(n) ==
    IF n < HalfRange THEN n
    ELSE ((n + HalfRange) % (2 * HalfRange)) - HalfRange

\* The packets n+1..wseq, as BackedWriter::recover returns them.
Recovered(s, n) == [i \in 1..(wseq[s] - n) |-> n + i]

\* Give up on newSocketFd: it is closed and the mutexes are released.
Abandon(s, l) ==
    /\ up' = [up EXCEPT ![l] = FALSE]
    /\ net' = Discard(net, l, s)
    /\ phase' = [phase EXCEPT ![s] = "idle"]
    /\ rlink' = [rlink EXCEPT ![s] = 0]

\* Read the remote sequence number and send what the peer has not received.
\* A peer that claims more than was written ("client is ahead of server") and
\* a catchup buffer over the limit of writeProto are fatal; a peer whose
\* packets have left the backup ("Client is too far behind server.") makes
\* recover() throw, and so does a catchup buffer that a dead link cannot take.
RecvHeader(s) ==
    /\ phase[s] = "header"
    /\ Arrived(rlink[s], s)
    /\ LET l == rlink[s]
           m == Head(net[l][s])
           popped == [net EXCEPT ![l][s] = Tail(@)]
       IN  /\ m.type = "header"
           /\ process' = IF \/ m.num > wseq[s]
                            \/ m.num >= low[s] /\ wseq[s] - m.num > ProtoLimit
                         THEN "fatal" ELSE process
           /\ IF m.num < low[s] \/ (~up[l] /\ 2 * (wseq[s] - m.num) > SocketBuffer)
              THEN Abandon(s, l)
              ELSE /\ net' = IF up[l]
                             THEN [popped EXCEPT ![l][Peer(s)] =
                                     Append(@, Catchup(Recovered(s, m.num)))]
                             ELSE popped
                   /\ phase' = [phase EXCEPT ![s] = "catchup"]
                   /\ UNCHANGED <<up, rlink>>
    /\ UNCHANGED <<writers, readers, fd, handler, bounds>>

\* Read the peer's catchup buffer and revive reader and writer.
RecvCatchup(s) ==
    /\ phase[s] = "catchup"
    /\ Arrived(rlink[s], s)
    /\ LET l == rlink[s]
           m == Head(net[l][s])
       IN  /\ m.type = "catchup"
           /\ fd' = [fd EXCEPT ![s] = l]
           /\ partial' = [partial EXCEPT ![s] = 0]
           /\ localBuffer' = [localBuffer EXCEPT ![s] = @ \o m.packets]
           /\ rseq' = [rseq EXCEPT ![s] = @ + Len(m.packets)]
           /\ net' = [net EXCEPT ![l][s] = Tail(@)]
    /\ outage' = [outage EXCEPT ![s] = 0]
    /\ sunk' = [sunk EXCEPT ![s] = 0]
    /\ phase' = [phase EXCEPT ![s] = "idle"]
    /\ rlink' = [rlink EXCEPT ![s] = 0]
    /\ UNCHANGED <<wseq, low, nonce, handler, up, bounds, process>>

\* A read or write of the handshake or of recover throws: the link is down, or
\* thirty seconds passed without progress.
RecoverFailed(s) ==
    /\ phase[s] # "idle"
    /\ Charge(rlink[s])
    /\ Abandon(s, rlink[s])
    /\ UNCHANGED <<writers, readers, fd, handler, links, process>>

-----------------------------------------------------------------------------
(* ClientConnection::pollReconnect.                                        *)

\* TerminalClient misses a keepalive and closes the socket, which starts the
\* reconnect thread; unread bytes are lost.
ClientClose ==
    /\ Unlocked("client")
    /\ fd["client"] # 0
    /\ Charge(fd["client"])
    /\ up' = [up EXCEPT ![fd["client"]] = FALSE]
    /\ net' = Discard(net, fd["client"], "client")
    /\ fd' = [fd EXCEPT !["client"] = 0]
    /\ UNCHANGED <<writers, readers, phase, rlink, handler, links, process>>

\* connect() succeeds and the request is written.  A connect() that fails
\* changes nothing.
ClientConnect ==
    /\ Unlocked("client")
    /\ fd["client"] = 0
    /\ links < MaxLinks
    /\ links' = links + 1
    /\ up' = [up EXCEPT ![links'] = TRUE]
    /\ net' = [net EXCEPT ![links']["server"] = <<Request>>]
    /\ handler' = [handler EXCEPT ![links'] = "request"]
    /\ phase' = [phase EXCEPT !["client"] = "response"]
    /\ rlink' = [rlink EXCEPT !["client"] = links']
    /\ UNCHANGED <<writers, readers, fd, faults, process>>

\* RETURNING_CLIENT arrives; recover() starts by sending the read position.
ClientResponse ==
    /\ phase["client"] = "response"
    /\ Arrived(rlink["client"], "client")
    /\ LET l == rlink["client"]
           popped == [net EXCEPT ![l]["client"] = Tail(@)]
       IN  /\ Head(net[l]["client"]) = Response
           /\ net' = IF up[l]
                     THEN [popped EXCEPT ![l]["server"] =
                              Append(@, Header(Int32(rseq["client"])))]
                     ELSE popped
    /\ phase' = [phase EXCEPT !["client"] = "header"]
    /\ UNCHANGED <<writers, readers, fd, rlink, handler, up, bounds, process>>

-----------------------------------------------------------------------------
(* ServerConnection::clientHandler for a client that has a connection; the *)
(* other answers are ServerRegistry's.                                     *)

\* Read the request, find the connection, answer RETURNING_CLIENT.  classMutex
\* is released before the answer, and recoverClient has not started.
HandlerRequest(l) ==
    /\ handler[l] = "request"
    /\ Arrived(l, "server")
    /\ LET popped == [net EXCEPT ![l]["server"] = Tail(@)]
       IN  net' = IF up[l]
                  THEN [popped EXCEPT ![l]["client"] = Append(@, Response)]
                  ELSE popped
    /\ handler' = [handler EXCEPT ![l] = "recover"]
    /\ UNCHANGED <<writers, readers, fd, phase, rlink, up, bounds, process>>

\* recoverClient: whatever socket the connection has is closed, then recover()
\* sends the read position on the new one.
HandlerRecover(l) ==
    /\ handler[l] = "recover"
    /\ Unlocked("server")
    /\ LET old == fd["server"]
           closed == IF old = 0 THEN net ELSE Discard(net, old, "server")
       IN  /\ up' = IF old = 0 THEN up ELSE [up EXCEPT ![old] = FALSE]
           /\ net' = IF up[l]
                     THEN [closed EXCEPT ![l]["client"] =
                              Append(@, Header(Int32(rseq["server"])))]
                     ELSE closed
    /\ fd' = [fd EXCEPT !["server"] = 0]
    /\ phase' = [phase EXCEPT !["server"] = "header"]
    /\ rlink' = [rlink EXCEPT !["server"] = l]
    /\ handler' = [handler EXCEPT ![l] = "done"]
    /\ UNCHANGED <<writers, readers, bounds, process>>

\* Reading the request or writing the answer throws: the socket is closed.
HandlerFailed(l) ==
    /\ handler[l] = "request"
    /\ Charge(l)
    /\ up' = [up EXCEPT ![l] = FALSE]
    /\ net' = Discard(net, l, "server")
    /\ handler' = [handler EXCEPT ![l] = "done"]
    /\ UNCHANGED <<writers, readers, fd, phase, rlink, links, process>>

-----------------------------------------------------------------------------
SideStep(s) ==
    \/ WriteBuffered(s)
    \/ WriteSent(s)
    \/ WriteFailed(s)
    \/ ReadLocal(s)
    \/ ReadSocket(s)
    \/ ReadFailed(s)
    \/ RecvHeader(s)
    \/ RecvCatchup(s)
    \/ RecoverFailed(s)

LinkStep(l) ==
    \/ Break(l)
    \/ \E s \in Sides : Lose(l, s)
    \/ HandlerRequest(l)
    \/ HandlerRecover(l)
    \/ HandlerFailed(l)

\* A process that ends in STFATAL takes its side of the session with it.
Next ==
    /\ process = "running"
    /\ \/ \E s \in Sides : SideStep(s)
       \/ \E l \in Links : LinkStep(l)
       \/ ClientClose
       \/ ClientConnect
       \/ ClientResponse

Spec == Init /\ [][Next]_vars

\* What keeps running: readers that are told of data read it (keepalives make
\* them look), handlers and reconnect attempts go on, and give up on a dead
\* link after their timeout.  The client notices a dead link by keepalive.
\* Nothing is assumed of the application's writes, of faults, of lost bytes,
\* nor that the server notices a dead link by itself.
OnDeadLink(l) == l # 0 /\ ~up[l]

Fairness ==
    /\ \A s \in Sides :
          /\ WF_vars(ReadLocal(s))
          /\ WF_vars(ReadSocket(s))
          /\ WF_vars(RecvHeader(s))
          /\ WF_vars(RecvCatchup(s))
          /\ WF_vars(OnDeadLink(rlink[s]) /\ RecoverFailed(s))
    /\ \A l \in Links :
          /\ WF_vars(HandlerRequest(l))
          /\ WF_vars(HandlerRecover(l))
          /\ WF_vars(OnDeadLink(l) /\ HandlerFailed(l))
    /\ WF_vars(OnDeadLink(fd["client"]) /\ ClientClose)
    /\ WF_vars(ClientConnect)
    /\ WF_vars(ClientResponse)

FairSpec == Spec /\ Fairness

-----------------------------------------------------------------------------
(* Properties.                                                             *)

\* One STFATAL can be reached, that of writeProto, and only in a recovery of a
\* side whose backup has grown past the 128 MB of a message.  Whatever the
\* order of breaks, recoveries, stale handlers and reads, every packet decrypts
\* with the next nonce, and no peer claims to have received more than was
\* written.
FatalOnlyOverLimit ==
    [][process' # process =>
          \E s \in Sides : phase[s] = "header" /\ wseq[s] - low[s] > ProtoLimit]_vars

\* Connection::write would "sever the connection instead of crashing the
\* process": recovery does not end a process either.
\* Does not hold: see Known deviations in README.md.
NoFatal == process # "fatal"

\* The session implements the reliable channel: packets accepted by
\* Connection::write are handed out by Connection::read in order, once each,
\* across any number of reconnections.
Channel == INSTANCE ReliableChannel
             WITH accepted <- wseq, delivered <- nonce
ImplementsChannel == Channel!Spec

\* Every packet that Connection::write accepted, with or without a socket, is
\* handed to the reader of the other side in the end: the retries of
\* pollReconnect and the resends of recover() finish the job once the network
\* stops failing.
EventuallyDelivered ==
    \A s \in Sides : \A n \in 1..MaxPackets[s] :
        wseq[s] >= n ~> nonce[Peer(s)] >= n

\* Recovery "continues where the previous connection left off"
\* (docs/protocol.md): a peer that is in the middle of recovery never asks for
\* packets that have left the backup.  When it does, recover() throws "Client
\* is too far behind server." now and on every later attempt, because neither
\* number changes any more.
NeverTooFarBehind ==
    \A s \in Sides :
        phase[s] = "header" /\ Recovering(Peer(s)) /\ rlink[s] = rlink[Peer(s)]
            => low[s] <= rseq[Peer(s)]

-----------------------------------------------------------------------------
(* Why it works, as an invariant.  A side listens on a link while it reads *)
(* from it, in recover() or after.                                         *)

Listens(s, l) == l # 0 /\ (fd[s] = l \/ rlink[s] = l)

\* Threads: a side recovers only without a socket, and only the client waits
\* for the response to a connection request.
PhaseInv ==
    \A s \in Sides :
        /\ phase[s] = "idle" <=> rlink[s] = 0
        /\ rlink[s] # 0 => fd[s] = 0
        /\ phase["server"] # "response"

\* Links: the client lets go of a link before it opens the next one, so a link
\* that is up is the last one opened and the client uses it; at its other end
\* is the server's connection or a handler on its way there.
LinkInv ==
    /\ \A l \in Links : up[l] =>
          /\ l = links
          /\ Listens("client", l)
          /\ Listens("server", l) \/ handler[l] \in {"request", "recover"}
    /\ \A l \in Links : l > links => handler[l] = "none"
    /\ \A l \in Links : handler[l] # "done" => ~Listens("server", l)
    /\ \A s \in Sides : fd[s] <= links /\ rlink[s] <= links
    /\ \A l \in Links : ~Listens("client", l) => net[l]["client"] = <<>>
    /\ \A l \in Links : ~Listens("server", l) /\ handler[l] \in {"none", "done"}
                          => net[l]["server"] = <<>>

\* Readers: localBuffer holds the packets after the last decrypted one and up
\* to the read position; a partial message is the next packet.
ReaderInv ==
    \A s \in Sides :
        /\ nonce[s] + Len(localBuffer[s]) = rseq[s]
        /\ \A i \in 1..Len(localBuffer[s]) : localBuffer[s][i] = nonce[s] + i
        /\ rseq[s] <= wseq[Peer(s)]
        /\ low[s] <= wseq[s]
        /\ wseq[s] <= MaxPackets[s]
        /\ fd[s] # 0 => partial[s] \in {0, rseq[s] + 1}

\* Message b may follow message a in the stream to a side that has received r
\* packets.
Follows(r, a, b) ==
    /\ a.type # "request"
    /\ a.type = "response" => b.type = "header"
    /\ a.type = "header"   => b.type = "catchup"
    /\ a.type = "catchup"  => b = Part("first", r + Len(a.packets) + 1)
    /\ a.type = "first"    => b = Part("last", a.num)
    /\ a.type = "last"     => b = Part("first", a.num + 1)

\* How far the use of a link has come when it carries message m.
Stage(m) ==
    [request |-> 0, response |-> 1, header |-> 2, catchup |-> 3,
     first |-> 4, last |-> 4][m.type]

\* A message never goes back to an earlier stage, and only packets come twice.
Later(a, b) == Stage(a) < Stage(b) \/ (Stage(a) = 4 /\ Stage(b) = 4)

\* What message m brings to a side that has received r of w packets: packets
\* that were written, and in a catchup buffer the ones right after r.
Brings(m, r, w) ==
    /\ m.type = "catchup" =>
          /\ r + Len(m.packets) <= w
          /\ \A j \in 1..Len(m.packets) : m.packets[j] = r + j
    /\ m.type \in {"first", "last"} => m.num <= w

\* A stream to a side that has received r of the w packets written for it.
Stream(q, r, w) ==
    /\ \A i \in 1..(Len(q) - 1) : Follows(r, q[i], q[i + 1])
    /\ \A i, j \in 1..Len(q) : i < j => Later(q[i], q[j])
    /\ \A i \in 1..Len(q) : Brings(q[i], r, w)

\* The message that a side waits for in phase ph, after r packets and with pa
\* as its partial message.
Awaited(ph, pa, r, m) ==
    /\ ph # "idle" => m.type = ph
    /\ ph = "idle" => m = IF pa = 0 THEN Part("first", r + 1)
                                     ELSE Part("last", r + 1)

\* Streams: message follows message, and what side s reads next continues
\* where it is.
StreamInv ==
    \A s \in Sides, l \in Links : Listens(s, l) =>
        /\ Stream(net[l][s], rseq[s], wseq[Peer(s)])
        /\ Arrived(l, s) => Awaited(phase[s], partial[s], rseq[s], net[l][s][1])

\* Headers under way never claim more than their sender has received, and
\* exactly that while the sender waits for the answer.
HeaderInv ==
    \A s \in Sides, l \in Links : \A i \in 1..Len(net[l][s]) :
        net[l][s][i].type = "header" =>
            /\ net[l][s][i].num \in 0..rseq[Peer(s)]
            /\ rlink[Peer(s)] = l => net[l][s][i].num = rseq[Peer(s)]

\* The handler of a link before it enters recover().
HandlerInv ==
    \A l \in Links :
        /\ handler[l] = "request" =>
              /\ net[l]["server"] \in {<<>>, <<Request>>}
              /\ net[l]["client"] = <<>>
              /\ rlink["client"] = l => phase["client"] = "response"
        /\ handler[l] = "recover" =>
              /\ Len(net[l]["server"]) <= 1
              /\ \A i \in 1..Len(net[l]["server"]) :
                    net[l]["server"][i].type = "header"
              /\ net[l]["client"] \in {<<>>, <<Response>>}
              /\ rlink["client"] = l => phase["client"] \in {"response", "header"}

\* The handshake: until the client has read the response it sends nothing
\* after its request, so the server is at most at the start of recover().
HandshakeInv ==
    \A l \in Links : rlink["client"] = l /\ phase["client"] = "response" =>
        /\ handler[l] # "request" => net[l]["server"] = <<>>
        /\ Listens("server", l) => rlink["server"] = l /\ phase["server"] = "header"
        /\ up[l] /\ handler[l] = "recover" => net[l]["client"] = <<Response>>

\* Side s has read all that was written for it, the last of it from link l.
ReadAll(s, l) == fd[s] = l /\ rseq[s] = wseq[Peer(s)] /\ partial[s] = 0

\* Message m brings side s up to date.
CaughtUp(s, m) == m.type = "catchup" /\ rseq[s] + Len(m.packets) = wseq[Peer(s)]

\* The end of the stream from p to a side s on a link that is up: everything
\* p has written or promised is under way or has been read.
SentInv ==
    \A s \in Sides, l \in Links :
        LET p == Peer(s)
            q == net[l][s]
        IN  up[l] =>
            /\ fd[p] = l =>
                  IF q = <<>> THEN ReadAll(s, l)
                  ELSE q[Len(q)] = Part("last", wseq[p]) \/ CaughtUp(s, q[Len(q)])
            /\ rlink[p] = l /\ phase[p] = "catchup" =>
                  IF q = <<>> THEN ReadAll(s, l) ELSE CaughtUp(s, q[Len(q)])
            /\ rlink[p] = l /\ phase[p] = "header" =>
                  IF q = <<>> THEN rlink[s] = l /\ phase[s] = "catchup"
                  ELSE q[Len(q)].type = "header"
            /\ fd[p] = l \/ (rlink[p] = l /\ Recovering(p)) =>
                  Listens(s, l) \/ (s = "server" /\ handler[l] = "recover")

SessionInv ==
    /\ TypeOK
    /\ PhaseInv
    /\ LinkInv
    /\ ReaderInv
    /\ StreamInv
    /\ HeaderInv
    /\ HandlerInv
    /\ HandshakeInv
    /\ SentInv

\* SequenceHeaders "contain the last received sequence number for each side"
\* (docs/protocol.md): between two sides that recover on one link it is the
\* position of the sender, also past the 2^31st packet, where recover()
\* otherwise finds more packets missing than there are, on every attempt.
\* Does not hold: see Known deviations in README.md.
HeaderIsPosition ==
    \A s \in Sides :
        LET l == rlink[s]
        IN  l # 0 /\ rlink[Peer(s)] = l =>
                \A i \in 1..Len(net[l][s]) :
                    net[l][s][i].type = "header" => net[l][s][i].num = rseq[Peer(s)]
=============================================================================
