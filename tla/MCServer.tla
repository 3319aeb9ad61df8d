----------------------------- MODULE MCServer -----------------------------
(***************************************************************************)
(* What the threads of a server process share, for TLC: the registry of a  *)
(* client id (ServerRegistry), the table of descriptors (SocketTable) and  *)
(* the log buffer (Telemetry).  Each has its own mutexes and none waits    *)
(* for another with one of them held, so they are checked side by side: in *)
(* a behaviour the component that part names runs from its initial state,  *)
(* and the others stay in theirs.  The registry is extended; SocketTable   *)
(* is an instance of its proof module, so that its theorems are at hand    *)
(* where the properties of the runs are proved (ServerProofs).             *)
(***************************************************************************)
EXTENDS ServerRegistry, TLC

CONSTANTS Parts,
    \* SocketTable
    Handlers, NFds, MaxConns, MaxTries, Ports, Addresses, OwnedFds, OwnedConns,
    \* Telemetry
    Loggers, Main, Victims, BufferSize, BatchSize, MaxLogs, MaxEnds

VARIABLES part,
    os, table, global, lock, newFd, th, sock, endpoint, lastConn, fatal,
    dangling, stray,
    instance, shuttingDown, logBuffer, logMutex, pc, level, sender, posted,
    accepted, due, logged, ends, process

\* Clients may come back while their first handler is at work, or not.
Table == INSTANCE SocketTableProofs
    WITH Returning <- TRUE, accepted <- newFd, conns <- lastConn
Owned == INSTANCE SocketTableProofs
    WITH Returning <- FALSE, Ports <- {}, NFds <- OwnedFds, MaxConns <- OwnedConns,
         accepted <- newFd, conns <- lastConn

Log == INSTANCE Telemetry

ASSUME ServerAssumption ==
    /\ RegistryAssumption
    /\ Table!SocketAssumption /\ Owned!SocketAssumption
    /\ Log!TelemetryAssumption

\* Threads are interchangeable.
ThreadSymmetry == Permutations(Handlers)

registryVars == vars
tableVars    == <<os, table, global, lock, newFd, th, sock, endpoint, lastConn,
                  fatal, dangling, stray>>
logVars      == <<instance, shuttingDown, logBuffer, logMutex, pc, level, sender,
                  posted, accepted, due, logged, ends, process>>
serverVars   == <<part, registryVars, tableVars, logVars>>

ServerInit == /\ part \in Parts
              /\ Init /\ Log!Init
              /\ IF part = "owned" THEN Owned!Init ELSE Table!Init

RegistryNext == part = "registry" /\ Next /\ UNCHANGED <<part, tableVars, logVars>>
TableNext    == part = "table" /\ Table!Next /\ UNCHANGED <<part, registryVars, logVars>>
OwnedNext    == part = "owned" /\ Owned!Next /\ UNCHANGED <<part, registryVars, logVars>>
LogNext      == part = "log" /\ Log!Next /\ UNCHANGED <<part, registryVars, tableVars>>

ServerNext == RegistryNext \/ TableNext \/ OwnedNext \/ LogNext

ServerSpec == ServerInit /\ [][ServerNext]_serverVars

-----------------------------------------------------------------------------
(* The components' properties; their modules state them.  RegistryInv is   *)
(* checked as ServerRegistry has it.                                       *)

\* ServerRegistry: a client that got through connect() is served in the end,
\* also when connect() takes a returning connection for a new one.
ReturningServed == part = "registry" => (Fairness => ClientServed)

\* ServerRegistry: a client whose session has ended is told, also by a handler
\* that had found the connection just before it was removed.
LateClientTold == part = "registry" => (Fairness => EndIsTold)

\* SocketTable: while globalMutex is free an entry of activeSocketMutexes is
\* about the connection it was inserted for, no descriptor is lost, and an
\* insert never meets an older entry, although numbers are used again.
TableInv ==
    /\ part = "table" => Table!TableInv
    /\ part = "owned" => Owned!TableInv

\* SocketTable: while no client comes back during its own handshake, bytes
\* reach the peer they are for, although descriptors are used again.
RightPeer == part = "owned" => Owned!PeerInv

\* SocketTable: every operation ends, although close waits for a writer with
\* globalMutex held.
OperationsEnd == part = "table" => (Table!Fairness => Table!OperationsEnd)

\* Telemetry: nothing that threads append is lost, posted twice or out of
\* order, although the sender unlocks between looking and taking, and the
\* process ends after the flush, whichever way it ends.
LogInv == Log!LogInv

\* Telemetry: what is appended is posted in the end, and a process that sets
\* out to end does, unless a signal interrupts a thread that holds logMutex.
SenderLive ==
    part = "log" => (Log!Fairness => Log!LogsPosted /\ Log!EndsOnceBegun)
=============================================================================
