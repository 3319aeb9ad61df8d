--------------------------- MODULE ClientReconnect ---------------------------
(***************************************************************************)
(* The threads of the client: TerminalClient::run on the main thread and   *)
(* ClientConnection::pollReconnect on the reconnect thread, which share a  *)
(* socket under connectionMutex.  The main thread closes the socket, joins *)
(* the old reconnect thread and starts a new one; read() and write() do so *)
(* while they hold connectionMutex, the missed keepalive does not.         *)
(*                                                                         *)
(* Packets are left out (BackedConnection has them): an operation on a     *)
(* socket works or fails, and fails for good once the link is down.        *)
(***************************************************************************)
EXTENDS Naturals

CONSTANTS
    Budget,    \* packets that fit DISCONNECT_BUFFER_BYTES
    MaxFaults  \* bound: links that fail

ReconnectAssumption == Budget \in Nat /\ MaxFaults \in Nat

VARIABLES
    pc,            \* where the main thread is
    ret,           \* where it goes on after a write or a close
    sawFd,         \* clientFd > 0, read at the top of the loop
    waiting,       \* waitingOnKeepalive
    quit,          \* TerminalClient::shuttingDown
    shuttingDown,  \* Connection::shuttingDown
    fd,            \* socketFd: "none", or the state of its link
    buffered,      \* packets backed up since the socket was lost
    mutex,         \* owner of connectionMutex
    thread,        \* reconnectThread: "none", where it is, or "done" (joinable)
    session,       \* the server still knows the client's key
    terminated,    \* std::terminate: a joinable std::thread was destroyed
    faults

main == <<pc, ret, sawFd, waiting>>
vars == <<pc, ret, sawFd, waiting, quit, shuttingDown, fd, buffered, mutex,
          thread, session, terminated, faults>>

TypeOK ==
    /\ pc \in {"top", "console", "read", "keepalive", "rest", "write", "join",
               "close", "exit", "destroy", "gone"}
    /\ ret \in {"read", "keepalive", "rest"}
    /\ fd \in {"none", "good", "dead"}
    /\ buffered \in 0..Budget
    /\ mutex \in {"free", "main", "reconnect"}
    /\ thread \in {"none", "start", "attempt", "check", "sleep", "done"}
    /\ {sawFd, waiting, quit, shuttingDown, session, terminated} \subseteq BOOLEAN
    /\ faults \in 0..MaxFaults

Init ==
    /\ pc = "top"
    /\ ret = "read"
    /\ sawFd = FALSE
    /\ waiting = FALSE
    /\ quit = FALSE
    /\ shuttingDown = FALSE
    /\ fd = "good"
    /\ buffered = 0
    /\ mutex = "free"
    /\ thread = "none"
    /\ session = TRUE
    /\ terminated = FALSE
    /\ faults = 0

-----------------------------------------------------------------------------
(* Mutated forms of the definitions below.                                 *)

WriteAbortedWithSocket ==
    /\ pc = "write" /\ mutex = "free"
    /\ shuttingDown /\ fd # "none"
    /\ pc' = ret
    /\ UNCHANGED <<ret, sawFd, waiting, quit, shuttingDown, fd, buffered, mutex,
                   thread, session, terminated, faults>>

ReconnectTopUnchecked ==
    /\ thread = "start" /\ mutex = "free"
    /\ IF shuttingDown
       THEN thread' = "done" /\ UNCHANGED mutex
       ELSE thread' = "attempt" /\ mutex' = "reconnect"
    /\ UNCHANGED <<main, quit, shuttingDown, fd, buffered, session, terminated,
                   faults>>

ReconnectTopOnce ==
    /\ thread = "start" /\ mutex = "free"
    /\ IF fd # "none" \/ shuttingDown \/ faults > 1
       THEN thread' = "done" /\ UNCHANGED mutex
       ELSE thread' = "attempt" /\ mutex' = "reconnect"
    /\ UNCHANGED <<main, quit, shuttingDown, fd, buffered, session, terminated,
                   faults>>

-----------------------------------------------------------------------------
(* The environment.                                                        *)

\* The network fails under the socket.
LinkFails ==
    /\ fd = "good"
    /\ faults < MaxFaults
    /\ fd' = "dead"
    /\ faults' = faults + 1
    /\ UNCHANGED <<main, quit, shuttingDown, buffered, mutex, thread, session,
                   terminated>>

\* The shell ends: the server removes the client and closes the socket.
SessionEnds ==
    /\ session
    /\ session' = FALSE
    /\ fd' = IF fd = "good" THEN "dead" ELSE fd
    /\ UNCHANGED <<main, quit, shuttingDown, buffered, mutex, thread, terminated,
                   faults>>

\* TerminalClient::shutdown from another thread, or an error in the loop.
Quit ==
    /\ ~quit
    /\ quit' = TRUE
    /\ UNCHANGED <<main, shuttingDown, fd, buffered, mutex, thread, session,
                   terminated, faults>>

-----------------------------------------------------------------------------
(* TerminalClient::run.                                                    *)

\* Loop test, then clientFd = getSocketFd(); both take connectionMutex.
Top ==
    /\ pc = "top"
    /\ mutex = "free"
    /\ IF shuttingDown \/ quit
       THEN pc' = "exit" /\ UNCHANGED sawFd
       ELSE pc' = "console" /\ sawFd' = (fd # "none")
    /\ UNCHANGED <<ret, waiting, quit, shuttingDown, fd, buffered, mutex, thread,
                   session, terminated, faults>>

\* End of file on the console.
ConsoleEof ==
    /\ pc = "console"
    /\ pc' = "exit"
    /\ UNCHANGED <<ret, sawFd, waiting, quit, shuttingDown, fd, buffered, mutex,
                   thread, session, terminated, faults>>

\* Leave a stage of the loop with nothing (more) to do in it.
Skip(from, to) ==
    /\ pc = from
    /\ pc' = to
    /\ waiting' = (waiting /\ (from = "keepalive" => sawFd))
    /\ UNCHANGED <<ret, sawFd, quit, shuttingDown, fd, buffered, mutex, thread,
                   session, terminated, faults>>

\* Console input, window size and forwarded data are written with writePacket.
StartWrite(from, to) ==
    /\ pc = from
    /\ pc' = "write"
    /\ ret' = to
    /\ UNCHANGED <<sawFd, waiting, quit, shuttingDown, fd, buffered, mutex,
                   thread, session, terminated, faults>>

\* The keepalive timer expired, with clientFd as it was at the top.
KeepaliveSent ==
    /\ pc = "keepalive" /\ sawFd
    /\ ~waiting
    /\ waiting' = TRUE
    /\ pc' = "write"
    /\ ret' = "rest"
    /\ UNCHANGED <<sawFd, quit, shuttingDown, fd, buffered, mutex, thread,
                   session, terminated, faults>>

KeepaliveMissed ==
    /\ pc = "keepalive" /\ sawFd
    /\ waiting
    /\ waiting' = FALSE
    /\ pc' = "join"
    /\ ret' = "rest"
    /\ UNCHANGED <<sawFd, quit, shuttingDown, fd, buffered, mutex, thread,
                   session, terminated, faults>>

\* Connection::read hands out a packet, perhaps the keepalive.
ReadPacket ==
    /\ pc = "read" /\ sawFd /\ mutex = "free"
    /\ fd # "none"
    /\ waiting' \in {waiting, FALSE}
    /\ UNCHANGED <<pc, ret, sawFd, quit, shuttingDown, fd, buffered, mutex,
                   thread, session, terminated, faults>>

\* Connection::read fails and calls closeSocketAndMaybeReconnect, holding
\* connectionMutex.
ReadFails ==
    /\ pc = "read" /\ sawFd /\ mutex = "free"
    /\ fd = "dead"
    /\ mutex' = "main"
    /\ pc' = "join"
    /\ ret' = "keepalive"
    /\ UNCHANGED <<sawFd, waiting, quit, shuttingDown, fd, buffered, thread,
                   session, terminated, faults>>

-----------------------------------------------------------------------------
(* Connection::writePacket.  While a write is SKIPPED, for a full buffer    *)
(* and no socket, it sleeps and tries again.                               *)

WriteAborted ==
    /\ pc = "write" /\ mutex = "free"
    /\ shuttingDown
    /\ pc' = ret
    /\ UNCHANGED <<ret, sawFd, waiting, quit, shuttingDown, fd, buffered, mutex,
                   thread, session, terminated, faults>>

WriteSent ==
    /\ pc = "write" /\ mutex = "free" /\ ~shuttingDown
    /\ fd # "none"
    /\ pc' = ret
    /\ UNCHANGED <<ret, sawFd, waiting, quit, shuttingDown, fd, buffered, mutex,
                   thread, session, terminated, faults>>

WriteBuffers ==
    /\ pc = "write" /\ mutex = "free" /\ ~shuttingDown
    /\ fd = "none"
    /\ buffered < Budget
    /\ buffered' = buffered + 1
    /\ pc' = ret
    /\ UNCHANGED <<ret, sawFd, waiting, quit, shuttingDown, fd, mutex, thread,
                   session, terminated, faults>>

\* Connection::write fails and calls closeSocketAndMaybeReconnect, holding
\* connectionMutex.
WriteFails ==
    /\ pc = "write" /\ mutex = "free" /\ ~shuttingDown
    /\ fd = "dead"
    /\ mutex' = "main"
    /\ pc' = "join"
    /\ UNCHANGED <<ret, sawFd, waiting, quit, shuttingDown, fd, buffered, thread,
                   session, terminated, faults>>

-----------------------------------------------------------------------------
(* ClientConnection::closeSocketAndMaybeReconnect.                         *)

\* waitReconnect: join() returns when the thread has ended.
WaitReconnect ==
    /\ pc = "join"
    /\ thread \in {"none", "done"}
    /\ thread' = "none"
    /\ pc' = "close"
    /\ UNCHANGED <<ret, sawFd, waiting, quit, shuttingDown, fd, buffered, mutex,
                   session, terminated, faults>>

\* closeSocket, and a new reconnect thread unless shutting down.  A read or
\* write that got here then releases connectionMutex.
CloseAndReconnect ==
    /\ pc = "close"
    /\ mutex # "reconnect"
    /\ fd' = "none"
    /\ thread' = IF shuttingDown THEN thread ELSE "start"
    /\ terminated' = (terminated \/ (~shuttingDown /\ thread # "none"))
    /\ mutex' = "free"
    /\ pc' = ret
    /\ UNCHANGED <<ret, sawFd, waiting, quit, shuttingDown, buffered, session,
                   faults>>

\* ~TerminalClient: Connection::shutdown ...
Shutdown ==
    /\ pc = "exit"
    /\ mutex = "free"
    /\ shuttingDown' = TRUE
    /\ fd' = "none"
    /\ pc' = "destroy"
    /\ UNCHANGED <<ret, sawFd, waiting, quit, buffered, mutex, thread, session,
                   terminated, faults>>

\* ... and ~ClientConnection, which joins the reconnect thread.
Destroy ==
    /\ pc = "destroy"
    /\ thread \in {"none", "done"}
    /\ thread' = "none"
    /\ fd' = "none"
    /\ pc' = "gone"
    /\ UNCHANGED <<ret, sawFd, waiting, quit, shuttingDown, buffered, mutex,
                   session, terminated, faults>>

-----------------------------------------------------------------------------
(* ClientConnection::pollReconnect.                                        *)

ReconnectTop ==
    /\ thread = "start" /\ mutex = "free"
    /\ IF fd # "none" \/ shuttingDown
       THEN thread' = "done" /\ UNCHANGED mutex
       ELSE thread' = "attempt" /\ mutex' = "reconnect"
    /\ UNCHANGED <<main, quit, shuttingDown, fd, buffered, session, terminated,
                   faults>>

\* connect, handshake and recover all work; recover sets socketFd.
ReconnectSucceeds ==
    /\ thread = "attempt"
    /\ session
    /\ fd' = "good"
    /\ buffered' = 0
    /\ mutex' = "free"
    /\ thread' = "check"
    /\ UNCHANGED <<main, quit, shuttingDown, session, terminated, faults>>

\* No route, a timeout, a broken handshake or recovery: the new socket is
\* closed, and the mutex is released until the next attempt.
ReconnectFails ==
    /\ thread = "attempt"
    /\ mutex' = "free"
    /\ thread' = "check"
    /\ UNCHANGED <<main, quit, shuttingDown, fd, buffered, session, terminated,
                   faults>>

\* INVALID_KEY: the server has ended the session.
ReconnectRefused ==
    /\ thread = "attempt"
    /\ ~session
    /\ shuttingDown' = TRUE
    /\ mutex' = "free"
    /\ thread' = "done"
    /\ UNCHANGED <<main, quit, fd, buffered, session, terminated, faults>>

\* isDisconnected(), outside the block that held the mutex.
ReconnectCheck ==
    /\ thread = "check" /\ mutex = "free"
    /\ thread' = IF fd = "none" THEN "sleep" ELSE "start"
    /\ UNCHANGED <<main, quit, shuttingDown, fd, buffered, mutex, session,
                   terminated, faults>>

ReconnectSleep ==
    /\ thread = "sleep"
    /\ thread' = "start"
    /\ UNCHANGED <<main, quit, shuttingDown, fd, buffered, mutex, session,
                   terminated, faults>>

-----------------------------------------------------------------------------
LoopDone ==
    \/ Skip("console", "read")
    \/ Skip("read", "keepalive")
    \/ Skip("keepalive", "rest")
    \/ Skip("rest", "top")

Work ==
    \/ StartWrite("console", "read")
    \/ StartWrite("rest", "rest")
    \/ KeepaliveSent
    \/ ReadPacket

DeadSocketNoticed == KeepaliveMissed \/ ReadFails \/ WriteFails

WriteReturns == WriteAborted \/ WriteSent \/ WriteBuffers

Closing == WaitReconnect \/ CloseAndReconnect \/ Shutdown \/ Destroy

ReconnectThread ==
    \/ ReconnectTop
    \/ ReconnectSucceeds
    \/ ReconnectFails
    \/ ReconnectRefused
    \/ ReconnectCheck
    \/ ReconnectSleep

Next ==
    \/ LinkFails
    \/ SessionEnds
    \/ Quit
    \/ ConsoleEof
    \/ Top
    \/ LoopDone
    \/ Work
    \/ DeadSocketNoticed
    \/ WriteReturns
    \/ Closing
    \/ ReconnectThread

Spec == Init /\ [][Next]_vars

\* Both threads run and get connectionMutex in the end (each leaves it free
\* while it sleeps in select or between attempts); each stage of the loop is
\* left; a dead socket is noticed in the end, by an error or a missed
\* keepalive; and the network lets an attempt through in the end.
Fairness ==
    /\ SF_vars(Top)
    /\ SF_vars(LoopDone)
    /\ SF_vars(fd = "dead" /\ DeadSocketNoticed)
    /\ SF_vars(WriteReturns)
    /\ SF_vars(Closing)
    /\ SF_vars(ReconnectThread)
    /\ SF_vars(ReconnectSucceeds \/ ReconnectRefused)

FairSpec == Spec /\ Fairness

-----------------------------------------------------------------------------
(* Properties.                                                             *)

\* closeSocketAndMaybeReconnect never drops a reconnect thread that is still
\* joinable, which would end the client in std::terminate.
NeverTerminates == ~terminated

\* pollReconnect replaces socketFd only when there is none: while it connects
\* and recovers no other thread has a socket or the mutex, although it looked
\* at socketFd long before.
ReconnectOwnsSocket ==
    thread = "attempt" => fd = "none" /\ mutex = "reconnect"

\* A client that has lost its socket and is not shutting down always has a
\* reconnect thread that is still trying: no order of failures, missed
\* keepalives and reconnections leaves it without one.
AlwaysReconnecting ==
    fd = "none" /\ ~shuttingDown =>
        thread \in {"start", "attempt", "check", "sleep"}

\* Why: each holder of connectionMutex is in the code that takes it, the main
\* thread closes only after it has joined, and destruction follows shutdown.
ThreadInv ==
    /\ thread = "attempt" <=> mutex = "reconnect"
    /\ mutex = "main" => pc \in {"join", "close"}
    /\ pc = "close" => thread = "none"
    /\ pc \in {"destroy", "gone"} => shuttingDown

\* While pollReconnect connects and recovers nobody else has the socket or the
\* mutex, a client without a socket always has a thread that is trying, and no
\* thread object is dropped while it is joinable.
ReconnectInv ==
    /\ TypeOK
    /\ ThreadInv
    /\ NeverTerminates
    /\ ReconnectOwnsSocket
    /\ AlwaysReconnecting

\* read() or write() joins the reconnect thread holding the mutex that the
\* thread needs to see that it has reconnected.
JoinDeadlock == pc = "join" /\ mutex = "main" /\ thread \in {"start", "check"}

\* The client is on its way out, or has been told to go.
Leaving == quit \/ shuttingDown \/ pc \in {"exit", "destroy", "gone"}

\* Once asked to quit, at the end of its input, or told by the server that the
\* session is over, the client leaves run(), joins its thread and is
\* destroyed.  The join deadlock is the only way not to.
ShutdownCompletes == Leaving ~> (pc = "gone" \/ JoinDeadlock)

\* A client whose link fails has a working one in the end, or is shutting
\* down.  The join deadlock is the only way not to.
ReconnectCompletes ==
    fd # "good" ~> (fd = "good" \/ Leaving \/ JoinDeadlock)

\* "automatically reconnects without interrupting the session" (README.md): a
\* client whose link fails has a working one in the end, or is shutting down.
ReconnectsAutomatically ==
    fd # "good" ~> (fd = "good" \/ Leaving)

=============================================================================
