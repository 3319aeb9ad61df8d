----------------------------- MODULE SocketTable -----------------------------
(***************************************************************************)
(* The descriptors of one process and UnixSocketHandler's table of them    *)
(* (activeSocketMutexes), with the listening sockets of TcpSocketHandler   *)
(* (portServerSockets).  The main thread accepts; a pool thread answers a  *)
(* client on the descriptor it was given, then serves the session through  *)
(* the Connection's socketFd, under connectionMutex, and closes it; other  *)
(* threads connect and listen for port forwards.                           *)
(*                                                                         *)
(* read and write look a descriptor up under globalMutex, keep the         *)
(* iterator and use it after unlocking.  The kernel gives out the lowest   *)
(* free descriptor.  Connections are numbered; an entry of the table is    *)
(* named by the connection it was inserted for.                            *)
(***************************************************************************)
EXTENDS Integers, FiniteSetsExt

CONSTANTS
    Handlers,    \* pool and session threads
    NFds,        \* bound: descriptors
    MaxConns,    \* bound: connections ever made
    MaxTries,    \* EAGAINs after which write gives up (5 s)
    Ports,       \* ports sessions listen on
    Addresses,   \* addresses a port is bound on
    Returning    \* a client may come back while its first handler is at work

SocketAssumption ==
    /\ NFds \in Nat /\ MaxConns \in Nat /\ MaxTries \in Nat
    /\ Addresses \in Nat \ {0} /\ Returning \in BOOLEAN
    /\ "nobody" \notin Handlers /\ "main" \notin Handlers

VARIABLES
    os,        \* per descriptor: Free, Listening, or its connection
    table,     \* activeSocketMutexes
    global,    \* who holds globalMutex
    lock,      \* who holds the mutex of an entry
    accepted,  \* the main thread: what accept(2) returned, and checked or not
    th,        \* the threads
    sock,      \* socketFd of each connection, 0 for -1
    endpoint,  \* portServerSockets
    conns,     \* connections made
    fatal, dangling, stray

vars == <<os, table, global, lock, accepted, th, sock, endpoint, conns,
          fatal, dangling, stray>>

Fds == 1..NFds
Conns == 1..MaxConns
Free == 0
Listening == -1

Idle == [pc |-> "idle", stage |-> "none", conn |-> 0, fd |-> 0, it |-> 0,
         tries |-> 0, port |-> "none"]

TypeOK ==
    /\ os \in [Fds -> Conns \union {Free, Listening}]
    /\ table \in [Fds -> Conns \union {0}]
    /\ global \in Handlers \union {"nobody"}
    /\ lock \in [Conns -> Handlers \union {"nobody"}]
    /\ accepted \in [pc : {"idle", "checking", "inserting"}, fd : Fds \union {0},
                     conn : Conns \union {0}]
    /\ th \in [Handlers ->
                 [pc : {"idle", "ready", "found", "io", "failed", "closing",
                        "erasing", "done", "connecting"},
                  stage : {"none", "respond", "serve"}, conn : Conns \union {0},
                  fd : Fds \union {0}, it : Conns \union {0},
                  tries : 0..MaxTries, port : Ports \union {"none"}]]
    /\ sock \in [Conns -> Fds \union {0}]
    /\ endpoint \in [Ports -> SUBSET Fds]
    /\ conns \in 0..MaxConns
    /\ fatal \in {"no", "insert", "listen"}

Init ==
    /\ os = [f \in Fds |-> Free] /\ table = [f \in Fds |-> 0]
    /\ global = "nobody" /\ lock = [c \in Conns |-> "nobody"]
    /\ accepted = [pc |-> "idle", fd |-> 0, conn |-> 0]
    /\ th = [h \in Handlers |-> Idle]
    /\ sock = [c \in Conns |-> 0] /\ endpoint = [p \in Ports |-> {}]
    /\ conns = 0 /\ fatal = "no" /\ dangling = FALSE /\ stray = FALSE

Faults == <<fatal, dangling, stray>>
Locks == <<global, lock>>

FreeFds == {f \in Fds : os[f] = Free}
Alive(c) == \E f \in Fds : table[f] = c

\* The process is not dead and nobody holds globalMutex.
Global == fatal = "no" /\ global = "nobody"

\* addToActiveSockets.
Insert(f, c) ==
    IF table[f] = 0
    THEN table' = [table EXCEPT ![f] = c] /\ UNCHANGED fatal
    ELSE fatal' = "insert" /\ UNCHANGED table

-----------------------------------------------------------------------------
(* Mutated forms of the definitions below.                                 *)

CloseKernelUnlocks(h) ==
    /\ fatal = "no" /\ th[h].pc = "closing" /\ lock[table[th[h].fd]] = "nobody"
    /\ os' = [os EXCEPT ![th[h].fd] = Free]
    /\ lock' = [lock EXCEPT ![table[th[h].fd]] = h] /\ global' = "nobody"
    /\ th' = [th EXCEPT ![h].pc = "erasing"]
    /\ UNCHANGED <<table, accepted, sock, endpoint, conns, Faults>>

CloseBeginKeepsFd(h, c) ==
    /\ Global /\ sock[c] # 0 /\ sock' = sock
    /\ IF table[sock[c]] = 0
       THEN th' = [th EXCEPT ![h].pc = "done"] /\ UNCHANGED global
       ELSE /\ global' = h
            /\ th' = [th EXCEPT ![h].pc = "closing", ![h].fd = sock[c], ![h].it = c]
    /\ UNCHANGED <<os, table, lock, accepted, endpoint, conns, Faults>>

\* write retries for ever.
GivesUpNever(h) == FALSE

-----------------------------------------------------------------------------
(* UnixSocketHandler::accept.                                              *)

\* accept(2); a transient error returns -1, and the caller comes again.
AcceptKernel ==
    /\ fatal = "no" /\ accepted.pc = "idle" /\ FreeFds # {} /\ conns < MaxConns
    /\ \E h \in Handlers : th[h].pc = "idle"
    /\ LET f == Min(FreeFds)
       IN  /\ accepted' = [pc |-> "checking", fd |-> f, conn |-> conns + 1]
           /\ os' = [os EXCEPT ![f] = conns + 1]
    /\ conns' = conns + 1
    /\ UNCHANGED <<table, Locks, th, sock, endpoint, Faults>>

\* The loop that waits for an entry of the same number to go.
AcceptChecks ==
    /\ Global /\ accepted.pc = "checking" /\ table[accepted.fd] = 0
    /\ accepted' = [accepted EXCEPT !.pc = "inserting"]
    /\ UNCHANGED <<os, table, Locks, th, sock, endpoint, conns, Faults>>

\* The entry is made and the descriptor handed to a pool thread, which makes
\* a Connection of it.
AcceptInserts(h) ==
    /\ Global /\ accepted.pc = "inserting" /\ th[h].pc = "idle"
    /\ Insert(accepted.fd, accepted.conn)
    /\ sock' = [sock EXCEPT ![accepted.conn] = accepted.fd]
    /\ th' = [th EXCEPT ![h] = [Idle EXCEPT !.pc = "ready", !.stage = "respond",
                                            !.conn = accepted.conn, !.fd = accepted.fd]]
    /\ accepted' = [accepted EXCEPT !.pc = "idle"]
    /\ UNCHANGED <<os, Locks, endpoint, conns, dangling, stray>>

-----------------------------------------------------------------------------
(* UnixSocketHandler::read and write.                                      *)

\* The ConnectResponse goes to the handler's own copy of the descriptor;
\* later packets to the Connection's.
FdOf(h) == IF th[h].stage = "respond" THEN th[h].fd ELSE sock[th[h].conn]

LookUp(h) ==
    /\ Global /\ th[h].pc = "ready" /\ FdOf(h) # 0
    /\ th' = IF table[FdOf(h)] = 0
             THEN [th EXCEPT ![h].pc = "failed"]
             ELSE [th EXCEPT ![h].pc = "found", ![h].fd = FdOf(h),
                             ![h].it = table[FdOf(h)], ![h].tries = 0]
    /\ UNCHANGED <<os, table, Locks, accepted, sock, endpoint, conns, Faults>>

\* The mutex behind the iterator.  Of an erased entry anything may come; here
\* it locks nothing.
LockEntry(h) ==
    /\ fatal = "no" /\ th[h].pc = "found"
    /\ th' = [th EXCEPT ![h].pc = "io"]
    /\ \/ /\ Alive(th[h].it) /\ lock[th[h].it] = "nobody"
          /\ lock' = [lock EXCEPT ![th[h].it] = h] /\ UNCHANGED dangling
       \/ /\ ~Alive(th[h].it)
          /\ dangling' = TRUE /\ UNCHANGED lock
    /\ UNCHANGED <<os, table, global, accepted, sock, endpoint, conns, fatal, stray>>

\* EAGAIN for 5 s.
GivesUp(h) == th[h].tries = MaxTries

\* The system call on the descriptor, whatever it is by now, and the unlock.
Syscall(h) ==
    /\ fatal = "no" /\ th[h].pc = "io"
    /\ lock' = IF lock[th[h].it] = h THEN [lock EXCEPT ![th[h].it] = "nobody"] ELSE lock
    /\ stray' = (stray \/ os[th[h].fd] \notin {Free, th[h].conn})
    /\ \/ /\ os[th[h].fd] > 0
          /\ th' = [th EXCEPT ![h].pc = "ready", ![h].stage = "serve", ![h].it = 0]
       \/ /\ os[th[h].fd] > 0 /\ ~GivesUp(h)
          /\ th' = [th EXCEPT ![h].pc = "found", ![h].tries = Min({@ + 1, MaxTries})]
       \/ /\ os[th[h].fd] <= 0 \/ GivesUp(h)
          /\ th' = [th EXCEPT ![h].pc = "failed"]
    /\ UNCHANGED <<os, table, global, accepted, sock, endpoint, conns, fatal, dangling>>

-----------------------------------------------------------------------------
(* Connection::closeSocket and UnixSocketHandler::close.                   *)

\* socketFd is -1 from here on; close holds globalMutex to its end.
CloseBegin(h, c) ==
    /\ Global /\ sock[c] # 0 /\ sock' = [sock EXCEPT ![c] = 0]
    /\ IF table[sock[c]] = 0
       THEN th' = [th EXCEPT ![h].pc = "done"] /\ UNCHANGED global
       ELSE /\ global' = h
            /\ th' = [th EXCEPT ![h].pc = "closing", ![h].fd = sock[c], ![h].it = c]
    /\ UNCHANGED <<os, table, lock, accepted, endpoint, conns, Faults>>

\* The session is over, the write of the response has failed, or the object
\* is destroyed.
CloseOwn(h) ==
    /\ \/ th[h].pc \in {"failed", "done"}
       \/ th[h].pc = "ready" /\ th[h].stage = "serve"
    /\ CloseBegin(h, th[h].conn)

\* ServerClientConnection::recoverClient: the client of c is back with h.
\* connectionMutex keeps it from a session that reads or writes.
RecoverClient(h, c) ==
    /\ Returning /\ th[h].pc = "ready" /\ th[h].stage = "serve" /\ th[h].conn # c
    /\ \A u \in Handlers \ {h} :
          th[u].conn = c =>
              th[u].stage = "respond" \/ th[u].pc \in {"idle", "ready", "done"}
    /\ CloseBegin(h, c)

CloseKernel(h) ==
    /\ fatal = "no" /\ th[h].pc = "closing" /\ lock[table[th[h].fd]] = "nobody"
    /\ stray' = (stray \/ os[th[h].fd] # th[h].it)
    /\ os' = [os EXCEPT ![th[h].fd] = Free]
    /\ lock' = [lock EXCEPT ![table[th[h].fd]] = h]
    /\ th' = [th EXCEPT ![h].pc = "erasing"]
    /\ UNCHANGED <<table, global, accepted, sock, endpoint, conns, fatal, dangling>>

CloseErase(h) ==
    /\ fatal = "no" /\ th[h].pc = "erasing"
    /\ table' = [table EXCEPT ![th[h].fd] = 0]
    /\ lock' = [c \in Conns |-> IF lock[c] = h THEN "nobody" ELSE lock[c]]
    /\ global' = "nobody"
    /\ th' = [th EXCEPT ![h].pc = IF th[h].it = th[h].conn THEN "done" ELSE "ready"]
    /\ UNCHANGED <<os, accepted, sock, endpoint, conns, Faults>>

\* The thread ends; ~ForwardSourceHandler stops listening.
Retire(h) ==
    /\ Global /\ th[h].pc \in {"ready", "failed", "done"}
    /\ sock[th[h].conn] = 0 /\ (th[h].stage = "serve" \/ th[h].pc # "ready")
    /\ th' = [th EXCEPT ![h] = Idle]
    /\ IF th[h].port \in Ports
       THEN /\ os' = [f \in Fds |-> IF f \in endpoint[th[h].port] THEN Free ELSE os[f]]
            /\ endpoint' = [endpoint EXCEPT ![th[h].port] = {}]
       ELSE UNCHANGED <<os, endpoint>>
    /\ UNCHANGED <<table, Locks, accepted, sock, conns, Faults>>

-----------------------------------------------------------------------------
(* TcpSocketHandler::connect and listen, which hold globalMutex throughout. *)

ConnectBegin(h) ==
    /\ Global /\ th[h].pc = "idle" /\ FreeFds # {} /\ conns < MaxConns
    /\ global' = h /\ conns' = conns + 1
    /\ os' = [os EXCEPT ![Min(FreeFds)] = conns + 1]
    /\ th' = [th EXCEPT ![h] = [Idle EXCEPT !.pc = "connecting", !.conn = conns + 1,
                                            !.fd = Min(FreeFds)]]
    /\ UNCHANGED <<table, lock, accepted, sock, endpoint, Faults>>

Connected(h) ==
    /\ fatal = "no" /\ th[h].pc = "connecting"
    /\ Insert(th[h].fd, th[h].conn)
    /\ sock' = [sock EXCEPT ![th[h].conn] = th[h].fd]
    /\ th' = [th EXCEPT ![h].pc = "ready", ![h].stage = "serve"]
    /\ global' = "nobody"
    /\ UNCHANGED <<os, lock, accepted, endpoint, conns, dangling, stray>>

\* Refused, or no answer for 3 s: the descriptor is closed.
ConnectFails(h) ==
    /\ fatal = "no" /\ th[h].pc = "connecting"
    /\ os' = [os EXCEPT ![th[h].fd] = Free]
    /\ th' = [th EXCEPT ![h] = Idle]
    /\ global' = "nobody"
    /\ UNCHANGED <<table, lock, accepted, sock, endpoint, conns, Faults>>

\* A session with a reverse tunnel binds one socket per address.  A port that
\* is already listened on is fatal to the process.
Lowest(n) == {f \in FreeFds : Cardinality({g \in FreeFds : g < f}) < n}

Bound(S) == os' = [f \in Fds |-> IF f \in S THEN Listening ELSE os[f]]

MayListen(h) ==
    /\ Global /\ th[h].pc = "ready" /\ th[h].stage = "serve" /\ th[h].port = "none"
    /\ Cardinality(FreeFds) >= Addresses

Listen(h, p) ==
    /\ MayListen(h)
    /\ IF endpoint[p] # {}
       THEN fatal' = "listen" /\ UNCHANGED <<os, endpoint, th>>
       ELSE /\ Bound(Lowest(Addresses))
            /\ endpoint' = [endpoint EXCEPT ![p] = Lowest(Addresses)]
            /\ th' = [th EXCEPT ![h].port = p]
            /\ UNCHANGED fatal
    /\ UNCHANGED <<table, Locks, accepted, sock, conns, dangling, stray>>

\* An address that cannot be bound throws; the sockets of the addresses before
\* it stay open.  runTerminal reports the error and returns.
ListenFails(h, p) ==
    /\ MayListen(h) /\ endpoint[p] = {}
    /\ \E n \in 0..Addresses - 1 : Bound(Lowest(n))
    /\ th' = [th EXCEPT ![h] = Idle]
    /\ UNCHANGED <<table, Locks, accepted, sock, endpoint, conns, Faults>>

-----------------------------------------------------------------------------
Next ==
    \/ AcceptKernel
    \/ AcceptChecks
    \/ \E h \in Handlers :
          \/ AcceptInserts(h)
          \/ LookUp(h)
          \/ LockEntry(h)
          \/ Syscall(h)
          \/ CloseOwn(h)
          \/ \E c \in Conns : RecoverClient(h, c)
          \/ CloseKernel(h)
          \/ CloseErase(h)
          \/ Retire(h)
          \/ ConnectBegin(h)
          \/ Connected(h)
          \/ ConnectFails(h)
          \/ \E p \in Ports : Listen(h, p) \/ ListenFails(h, p)

Spec == Init /\ [][Next]_vars

\* Threads that can run do.  A close may lose the mutex of an entry again and
\* again to a writer that retries at once; a reader or writer only to sessions,
\* which pause between their operations.  Peers may never read.
Fairness ==
    /\ WF_vars(AcceptChecks)
    /\ \A h \in Handlers :
          /\ SF_vars(LockEntry(h)) /\ WF_vars(Syscall(h))
          /\ WF_vars(CloseKernel(h)) /\ WF_vars(CloseErase(h))
          /\ WF_vars(Connected(h) \/ ConnectFails(h))

FairSpec == Spec /\ Fairness

-----------------------------------------------------------------------------
(* Properties.                                                             *)

\* Whenever globalMutex is free, an entry of the table is about a descriptor
\* that is open and still belongs to the connection it was inserted for.
TableSound ==
    Global => \A f \in Fds : table[f] # 0 => os[f] = table[f]

\* No descriptor is lost: one that belongs to a connection is in the table, or
\* a thread is about to insert or to close it.
StreamsAccounted ==
    \A f \in Fds : os[f] > 0 =>
        \/ table[f] = os[f]
        \/ accepted.pc # "idle" /\ accepted.fd = f
        \/ \E h \in Handlers : th[h].pc = "connecting" /\ th[h].fd = f

\* addToActiveSockets never meets an entry of the same number.
NoDuplicateInsert == fatal # "insert"

\* globalMutex is held across steps by the thread that closes or connects, the
\* mutex of an entry by the one that reads, writes or erases it.
MutexesHeld ==
    /\ \A h \in Handlers : global = h <=> th[h].pc \in {"closing", "erasing", "connecting"}
    /\ \A c \in Conns, h \in Handlers :
          lock[c] = h => th[h].pc \in {"io", "erasing"} /\ th[h].it = c

\* socketFd of a connection is its descriptor, and in the table as such.
SocketsEntered ==
    \A c \in Conns : sock[c] # 0 => table[sock[c]] = c /\ os[sock[c]] = c

\* An entry outlives its descriptor only while close erases it.
EntriesOpen ==
    \A f \in Fds : table[f] # 0 /\ os[f] # table[f] =>
        \E h \in Handlers : th[h].pc = "erasing" /\ th[h].fd = f

\* What close works on is the entry it found, which is no connection's any
\* more; meanwhile the kernel may give the descriptor out to accept only.
ClosingAlone ==
    \A h \in Handlers : th[h].pc \in {"closing", "erasing"} =>
        /\ th[h].fd \in Fds /\ th[h].it # 0 /\ table[th[h].fd] = th[h].it
        /\ \A c \in Conns : sock[c] # th[h].fd
        /\ IF th[h].pc = "closing" THEN os[th[h].fd] = th[h].it
           ELSE os[th[h].fd] = Free \/ (accepted.pc # "idle" /\ accepted.fd = th[h].fd)

\* A descriptor that connect or accept has got and not yet inserted is
\* nobody else's; only accept may have to wait for an old entry.
InsertsAlone ==
    /\ \A h \in Handlers : th[h].pc = "connecting" =>
          /\ th[h].fd \in Fds /\ th[h].conn # 0
          /\ table[th[h].fd] = 0 /\ os[th[h].fd] = th[h].conn
    /\ accepted.pc # "idle" =>
          /\ accepted.fd \in Fds /\ accepted.conn # 0 /\ os[accepted.fd] = accepted.conn
          /\ table[accepted.fd] # 0 =>
                /\ accepted.pc = "checking"
                /\ \E h \in Handlers : th[h].pc = "erasing" /\ th[h].fd = accepted.fd
          /\ \A h \in Handlers : th[h].pc = "connecting" => th[h].fd # accepted.fd

\* A thread at work has its connection, and one that reads or writes its
\* descriptor and entry.
ThreadsBusy ==
    \A h \in Handlers :
        /\ th[h].pc # "idle" => th[h].conn # 0
        /\ th[h].pc \in {"found", "io"} => th[h].fd # 0 /\ th[h].it # 0

\* Ports are listened on with descriptors of their own.
EndpointsOpen ==
    /\ \A p \in Ports : \A f \in endpoint[p] : os[f] = Listening
    /\ \A p, q \in Ports : p # q => endpoint[p] \intersect endpoint[q] = {}

\* The inductive invariant.
TableInv ==
    /\ TypeOK
    /\ TableSound
    /\ StreamsAccounted
    /\ NoDuplicateInsert
    /\ MutexesHeld
    /\ SocketsEntered
    /\ EntriesOpen
    /\ ClosingAlone
    /\ InsertsAlone
    /\ ThreadsBusy
    /\ EndpointsOpen

\* Bytes reach the peer of the connection they are for, and a close closes it.
RightPeer == ~stray

\* Connections are numbered as they are made, and each has one thread.
OwnersDiffer ==
    /\ \A h \in Handlers : th[h].conn <= conns
    /\ \A h, u \in Handlers : th[h].conn # 0 /\ th[h].conn = th[u].conn => h = u
    /\ accepted.pc # "idle" =>
          accepted.conn <= conns /\ \A h \in Handlers : th[h].conn # accepted.conn

\* While nobody else closes a connection, its thread has its socketFd.
OwnersKeepFd ==
    \A h \in Handlers :
        /\ th[h].pc \in {"ready", "found", "io"} =>
              th[h].fd # 0 /\ sock[th[h].conn] = th[h].fd
        /\ th[h].pc \in {"closing", "erasing"} => th[h].it = th[h].conn

\* What RightPeer rests on where no client comes back.
PeerInv == OwnersDiffer /\ OwnersKeepFd /\ RightPeer

\* The mutex that read and write lock is the one of their socket.
\* Does not hold: see Known deviations in README.md.
IteratorValid == ~dangling

\* listen is never called for a port that is already listened on.
\* Does not hold: see Known deviations in README.md.
NoListenTwice == fatal # "listen"

\* Every read, write, close and accept comes to an end, although closing waits
\* with globalMutex held for a writer whose peer does not read.
OperationsEnd ==
    /\ \A h \in Handlers :
          th[h].pc \in {"found", "io", "closing", "erasing", "connecting"} ~>
              (th[h].pc \in {"idle", "ready", "failed", "done"} \/ fatal # "no")
    /\ accepted.pc = "checking" ~> (accepted.pc # "checking" \/ fatal # "no")
=============================================================================
