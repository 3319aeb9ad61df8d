---------------------------- MODULE BackedWriter ----------------------------
(***************************************************************************)
(* The outgoing half of a connection: et::BackedWriter.  Every packet is   *)
(* encrypted, numbered and kept in a backup deque before it is put on the  *)
(* socket, so that Connection::recover can resend what the peer missed.    *)
(* The deque is bounded in bytes, but only trimmed by writes that find a   *)
(* socket; while there is none, a second budget makes callers wait.        *)
(*                                                                         *)
(* A packet is its number and its encrypted length: the nonce of a packet  *)
(* is its number, so the number stands for the ciphertext.  write() holds  *)
(* recoverMutex from start to end; its three parts (back up, trim loop,    *)
(* send) are separate steps here, and the mutex keeps the others out.      *)
(***************************************************************************)
EXTENDS Integers, Sequences

CONSTANTS
    MAX_BACKUP_BYTES,         \* the trim loop runs while the backup is larger
    DISCONNECT_BUFFER_BYTES,  \* budget of the writes made without a socket
    MACBYTES,                 \* what encryption adds to a payload
    Lengths,                  \* plaintext lengths of the packets written
    MaxPackets                \* bound: packets written in a behaviour

ASSUME WriterAssumption ==
    /\ MAX_BACKUP_BYTES \in Nat
    /\ DISCONNECT_BUFFER_BYTES \in Nat
    /\ MACBYTES \in Nat
    /\ Lengths \subseteq Nat
    /\ MaxPackets \in Nat

VARIABLES
    connected,          \* socketFd >= 0
    backupBuffer,       \* the deque, oldest packet first
    backupSize,         \* its running size in bytes
    disconnectedBytes,  \* bytes backed up since the socket was lost
    sequenceNumber,     \* packets written since construction
    mutex,              \* recoverMutex: who is inside, "free" when nobody
    asked,              \* the argument of the recover() that holds the mutex
    recovered,          \* what that recover() returned
    offset,             \* history: offset[n] is the size of packets 1..n
    outages             \* history: outages with buffered data that ended
                        \* since a write last went through the trim loop

writerVars == <<connected, backupBuffer, backupSize, disconnectedBytes,
                sequenceNumber>>
vars == <<connected, backupBuffer, backupSize, disconnectedBytes,
          sequenceNumber, mutex, asked, recovered, offset, outages>>

Packet == [num : Nat, len : Nat]

TypeOK ==
    /\ connected \in BOOLEAN
    /\ backupBuffer \in Seq(Packet)
    /\ backupSize \in Int
    /\ disconnectedBytes \in Nat
    /\ sequenceNumber \in Nat
    /\ mutex \in {"free", "write", "recover"}
    /\ asked \in Nat
    /\ recovered \in Seq(Packet)
    /\ offset \in [0..sequenceNumber -> Nat]
    /\ outages \in Nat

Init ==
    /\ connected = TRUE
    /\ backupBuffer = <<>>
    /\ backupSize = 0
    /\ disconnectedBytes = 0
    /\ sequenceNumber = 0
    /\ mutex = "free"
    /\ asked = 0
    /\ recovered = <<>>
    /\ offset = [n \in {0} |-> 0]
    /\ outages = 0

\* The newest packet that is no longer in the backup.
Dropped == sequenceNumber - Len(backupBuffer)

Newest == backupBuffer[Len(backupBuffer)]

-----------------------------------------------------------------------------
(* Mutated forms of the definitions below.                                 *)

TrimWithoutSocketCheck ==
    /\ mutex = "write"
    /\ backupSize > MAX_BACKUP_BYTES
    /\ backupSize' = backupSize - Head(backupBuffer).len
    /\ backupBuffer' = Tail(backupBuffer)
    /\ UNCHANGED <<connected, disconnectedBytes, sequenceNumber, mutex, asked,
                   recovered, offset, outages>>

RecoverWithSocket(n) ==
    /\ mutex = "free"
    /\ sequenceNumber - n <= Len(backupBuffer)
    /\ asked' = n
    /\ recovered' = SubSeq(backupBuffer,
                           Len(backupBuffer) - (sequenceNumber - n) + 1,
                           Len(backupBuffer))
    /\ mutex' = "recover"
    /\ UNCHANGED <<writerVars, offset, outages>>

ToRecoverOffByOne(n) ==
    SubSeq(backupBuffer, Len(backupBuffer) - (sequenceNumber - n) + 2,
           Len(backupBuffer))

WriteDoneUntrimmed ==
    /\ mutex = "write"
    /\ connected
    /\ mutex' = "free"
    /\ outages' = 0
    /\ UNCHANGED <<writerVars, asked, recovered, offset>>

-----------------------------------------------------------------------------
(* Operations.                                                             *)

\* hasBufferCapacity(bytes), which is also the test of write() that returns
\* SKIPPED.  The length is the one before encryption.
HasBufferCapacity(bytes) ==
    connected \/ disconnectedBytes + bytes <= DISCONNECT_BUFFER_BYTES

\* write(), first part: encrypt, push to the backup, count.  A write that is
\* SKIPPED changes nothing.
Write(length) ==
    /\ mutex = "free"
    /\ sequenceNumber < MaxPackets
    /\ HasBufferCapacity(length)
    /\ LET packet == [num |-> sequenceNumber + 1, len |-> length + MACBYTES]
       IN  /\ backupBuffer' = Append(backupBuffer, packet)
           /\ backupSize' = backupSize + packet.len
           /\ offset' = [n \in 0..packet.num |->
                            IF n = packet.num
                            THEN offset[sequenceNumber] + packet.len
                            ELSE offset[n]]
    /\ sequenceNumber' = sequenceNumber + 1
    /\ mutex' = "write"
    /\ UNCHANGED <<connected, disconnectedBytes, asked, recovered, outages>>

\* write(), one turn of the cleanup loop: the oldest packet goes, whether or
\* not the peer has received it.
Trim ==
    /\ mutex = "write"
    /\ connected
    /\ backupSize > MAX_BACKUP_BYTES
    /\ backupSize' = backupSize - Head(backupBuffer).len
    /\ backupBuffer' = Tail(backupBuffer)
    /\ UNCHANGED <<connected, disconnectedBytes, sequenceNumber, mutex, asked,
                   recovered, offset, outages>>

\* write() returns BUFFERED_ONLY.
BufferedOnly ==
    /\ mutex = "write"
    /\ ~connected
    /\ disconnectedBytes' = disconnectedBytes + Newest.len
    /\ mutex' = "free"
    /\ UNCHANGED <<connected, backupBuffer, backupSize, sequenceNumber, asked,
                   recovered, offset, outages>>

\* write() returns SUCCESS, or WROTE_WITH_FAILURE, which the caller follows
\* with Invalidate; the writer itself is left in the same state by both.
WriteDone ==
    /\ mutex = "write"
    /\ connected
    /\ backupSize <= MAX_BACKUP_BYTES
    /\ mutex' = "free"
    /\ outages' = 0
    /\ UNCHANGED <<writerVars, asked, recovered, offset>>

\* invalidateSocket(), from Connection::closeSocket.
Invalidate ==
    /\ mutex = "free"
    /\ connected
    /\ connected' = FALSE
    /\ UNCHANGED <<backupBuffer, backupSize, disconnectedBytes, sequenceNumber,
                   mutex, asked, recovered, offset, outages>>

\* The packets recover(n) collects, newest first, and then reverses.
ToRecover(n) ==
    SubSeq(backupBuffer, Len(backupBuffer) - (sequenceNumber - n) + 1,
           Len(backupBuffer))

\* recover(n) under the mutex that Connection::recover holds.  The peer has
\* received n packets.  A number the backup does not reach throws, and a live
\* socket throws: both leave the writer as it was.
Recover(n) ==
    /\ mutex = "free"
    /\ ~connected
    /\ sequenceNumber - n <= Len(backupBuffer)
    /\ asked' = n
    /\ recovered' = ToRecover(n)
    /\ mutex' = "recover"
    /\ UNCHANGED <<writerVars, offset, outages>>

\* revive(): Connection::recover has exchanged both catchup buffers.
Revive ==
    /\ mutex = "recover"
    /\ mutex' = "free"
    /\ connected' = TRUE
    /\ disconnectedBytes' = 0
    /\ outages' = IF disconnectedBytes > 0 THEN outages + 1 ELSE outages
    /\ UNCHANGED <<backupBuffer, backupSize, sequenceNumber, asked, recovered,
                   offset>>

\* Connection::recover fails after the writer was asked: the mutex is
\* released and nothing else happens.
AbortRecover ==
    /\ mutex = "recover"
    /\ mutex' = "free"
    /\ UNCHANGED <<writerVars, asked, recovered, offset, outages>>

Next ==
    \/ \E length \in Lengths : Write(length)
    \/ Trim
    \/ BufferedOnly
    \/ WriteDone
    \/ Invalidate
    \/ \E n \in 0..sequenceNumber : Recover(n)
    \/ Revive
    \/ AbortRecover

Spec == Init /\ [][Next]_vars

-----------------------------------------------------------------------------
(* Properties.                                                             *)

\* BackedWriter::write and the trim loop keep a gap-free run of the newest
\* packets in the deque: packet i of the backup is number Dropped + i and has
\* the length it was written with.
BackupIsNewestRun ==
    /\ Len(backupBuffer) <= sequenceNumber
    /\ \A i \in 1..Len(backupBuffer) :
          /\ backupBuffer[i].num = Dropped + i
          /\ backupBuffer[i].len = offset[Dropped + i] - offset[Dropped + i - 1]

\* The running backupSize is the exact number of bytes in the deque however
\* pushes, trims and outages follow each other, so it cannot drift.
BackupSizeExact ==
    backupSize = offset[sequenceNumber] - offset[Dropped]

\* BackedWriter::recover(n) returns exactly the packets n+1..sequenceNumber,
\* in the order they were written, and they stay that for as long as
\* Connection::recover holds the mutex.
RecoverExact ==
    mutex = "recover" =>
        /\ Len(recovered) = sequenceNumber - asked
        /\ \A i \in 1..Len(recovered) : recovered[i].num = asked + i

\* "never drop data when disconnected" (BackedWriter::write): what the backup
\* could resend when the socket was lost, it can resend throughout the outage.
NoDropWhileDisconnected == [][~connected => Dropped' = Dropped]_vars

\* The budget of an outage: the test in write() uses the length before
\* encryption and the count the one after, so an outage may exceed the limit
\* by one MAC and never by more; a new outage starts with the whole budget.
OutageBudget ==
    /\ disconnectedBytes <= DISCONNECT_BUFFER_BYTES + MACBYTES
    /\ connected => disconnectedBytes = 0

\* Every byte accepted during an outage is still in the backup.
OutageIsBackedUp == disconnectedBytes <= backupSize

\* The backup is only trimmed by a write that finds a socket, so it grows by
\* one budget per outage that ends without such a write, and by no more.
BackupGrowth ==
    mutex = "free" =>
        backupSize <= MAX_BACKUP_BYTES + disconnectedBytes
                        + outages * (DISCONNECT_BUFFER_BYTES + MACBYTES)

\* What BackedWriter.hpp says of its two limits, "Maximum bytes to buffer for
\* recovery" and "Max bytes buffered while disconnected before blocking":
\* together they bound what the writer keeps.
\* Does not hold: see Known deviations in README.md.
BackupWithinLimits ==
    mutex = "free" =>
        backupSize <= MAX_BACKUP_BYTES + DISCONNECT_BUFFER_BYTES + MACBYTES

-----------------------------------------------------------------------------
(* The inductive invariant behind the safety properties.                   *)

\* Offsets never decrease: no packet has a negative length.
OffsetsMonotone ==
    \A i, j \in 0..sequenceNumber : i <= j => offset[i] <= offset[j]

\* Between the two halves of a write without a socket the newest packet is in
\* the backup but not yet counted in disconnectedBytes.
PendingWrite ==
    mutex = "write" /\ ~connected =>
        /\ Len(backupBuffer) > 0
        /\ disconnectedBytes + Newest.len <= DISCONNECT_BUFFER_BYTES + MACBYTES
        /\ disconnectedBytes + Newest.len <= backupSize
        /\ backupSize <= MAX_BACKUP_BYTES + disconnectedBytes + Newest.len
                            + outages * (DISCONNECT_BUFFER_BYTES + MACBYTES)

\* recover() and BUFFERED_ONLY only happen without a socket, and what
\* Connection::recover was promised stays bounded while it holds the mutex.
RecoverLocked ==
    mutex = "recover" =>
        /\ ~connected
        /\ asked <= sequenceNumber
        /\ backupSize <= MAX_BACKUP_BYTES + disconnectedBytes
                            + outages * (DISCONNECT_BUFFER_BYTES + MACBYTES)

WriterInv ==
    /\ TypeOK
    /\ BackupIsNewestRun
    /\ BackupSizeExact
    /\ OffsetsMonotone
    /\ RecoverExact
    /\ RecoverLocked
    /\ OutageBudget
    /\ OutageIsBackedUp
    /\ PendingWrite
    /\ BackupGrowth

=============================================================================
