--------------------------- MODULE ServerRegistry ---------------------------
(***************************************************************************)
(* The registry of one client id on the server: its passkey (clientKeys),  *)
(* its terminal (UserTerminalRouter::idInfoMap), its connection            *)
(* (clientConnections) and the terminal threads, shared by the handlers of *)
(* the sockets the client opens, by TerminalServer::run and by the thread  *)
(* of the session.  The client makes a first connection with connect() and *)
(* later ones with pollReconnect(); it may die and be started again.       *)
(*                                                                         *)
(* recover() is one step of both sides (BackedConnection has its messages) *)
(* and the only packet is the INITIAL_PAYLOAD.  Socket descriptors and     *)
(* connection objects are reused once nobody refers to them.               *)
(***************************************************************************)
EXTENDS Naturals, FiniteSets

CONSTANTS
    Sockets,      \* descriptors of accepted client sockets
    Connections,  \* ServerClientConnection objects
    Passkeys,     \* passkeys a terminal may register the id with
    PoolSize,     \* threads of clientHandlerThreadPool
    CallsShutdown, \* the owner calls ServerConnection::shutdown, as the
                  \* repository's ConnectionTest does and TerminalServer,
                  \* whose own shutdown() hides it, does not
    MaxProcs,     \* bound: client processes started with this id
    MaxFaults     \* bound: links that fail

RegistryAssumption ==
    /\ 0 \notin Sockets /\ 0 \notin Connections /\ 0 \notin Passkeys
    /\ PoolSize \in Nat \ {0} /\ CallsShutdown \in BOOLEAN
    /\ MaxProcs \in Nat /\ MaxFaults \in Nat

VARIABLES
    key,      \* clientKeys[id], 0 when there is none
    router,   \* passkey of idInfoMap[id], 0 when there is none
    map,      \* clientConnections[id], 0 when there is none
    mutex,    \* classMutex: "free", or who holds it between steps
    conns,    \* connection object -> its state
    hs,       \* socket -> its clientHandler: where it is, its connection, and
              \* whether the request has the server's protocol version
    link,     \* socket -> is it open, and the ConnectResponse under way
    client,   \* the client process
    run,      \* TerminalServer::run: "loop", "join" or "returned"
    halt,
    joins,    \* threads run() iterates over, by connection
    stop,     \* ServerConnection::shutdown: "no", "held" or "done"
    procs, faults

server == <<key, router, map, mutex, conns, hs>>
owner  == <<run, halt, joins, stop>>
vars   == <<key, router, map, mutex, conns, hs, link, client, run, halt, joins,
            stop, procs, faults>>

NoConn == [key |-> 0, sock |-> 0, shut |-> FALSE, paid |-> FALSE,
           thread |-> "none"]
Idle   == [pc |-> "done", conn |-> 0, match |-> TRUE]
Closed == [open |-> FALSE, resp |-> "none"]
NoClient == [pc |-> "none", sock |-> 0]

\* A client past connect(): it has a reader, a writer and its payload in the
\* backup of the writer.
Established == {"up", "down", "reconnect", "recover"}
Alive(c) == conns[c].thread \in {"first", "run"}
Busy(s) == hs[s].pc \notin {"done", "queued"}

\* The types, and classMutex is held across steps only by the handler that is
\* in recoverClient.
TypeOK ==
    /\ key \in Passkeys \cup {0} /\ router \in Passkeys \cup {0}
    /\ map \in Connections \cup {0}
    /\ mutex \in {"free", "recover", "shutdown"}
    /\ conns \in [Connections -> [key : Passkeys \cup {0}, sock : Sockets \cup {0},
                            shut : BOOLEAN, paid : BOOLEAN,
                            thread : {"none", "first", "run", "ended", "refused"}]]
    /\ hs \in [Sockets -> [pc : {"queued", "request", "created", "start",
                                 "returning", "recover", "recovering",
                                 "invalid", "done"},
                           conn : Connections \cup {0}, match : BOOLEAN]]
    /\ link \in [Sockets -> [open : BOOLEAN,
                             resp : {"none", "new", "returning", "invalid",
                                     "mismatch"}]]
    /\ client \in [pc : {"none", "connect", "stuck", "ended"} \cup Established,
                   sock : Sockets \cup {0}]
    /\ run \in {"loop", "join", "returned"} /\ halt \in BOOLEAN
    /\ joins \subseteq Connections /\ stop \in {"no", "held", "done"}
    /\ procs \in 0..MaxProcs /\ faults \in 0..MaxFaults
    /\ mutex = "recover" <=> \E s \in Sockets : hs[s].pc = "recovering"

Init ==
    /\ key = 0 /\ router = 0 /\ map = 0 /\ mutex = "free"
    /\ conns = [c \in Connections |-> NoConn]
    /\ hs = [s \in Sockets |-> Idle]
    /\ link = [s \in Sockets |-> Closed]
    /\ client = NoClient
    /\ run = "loop" /\ halt = FALSE /\ joins = {} /\ stop = "no"
    /\ procs = 0 /\ faults = 0

-----------------------------------------------------------------------------
(* Mutated forms of the definitions below.                                 *)

DestroyNothing(cs) == <<map, cs>>

LookupIgnoresMap(s, c) ==
    IF key # 0
    THEN /\ map' = c
         /\ conns' = [conns EXCEPT ![c] = [NoConn EXCEPT !.key = key, !.sock = s]]
         /\ hs' = [hs EXCEPT ![s].pc = "created", ![s].conn = c]
    ELSE /\ hs' = [hs EXCEPT ![s].pc = "invalid"]
         /\ UNCHANGED <<map, conns>>

HandlerInvalidSilent(s) ==
    /\ hs[s].pc = "invalid"
    /\ link' = [link EXCEPT ![s].open = FALSE]
    /\ hs' = [hs EXCEPT ![s] = Idle]
    /\ UNCHANGED <<key, router, map, mutex, conns, client, owner, procs, faults>>

-----------------------------------------------------------------------------
(* Closing, and the end of shared_ptr references.                          *)

\* socketHandler->close of a set of descriptors: the peer reads end of file.
Close(l, ss) == [s \in Sockets |-> IF s \in ss THEN Closed ELSE l[s]]

\* The state once handler s is over: a connection that is not in the map and
\* has no thread and no other handler is destroyed, with its socket.
Unreferenced(s, m, cs) ==
    {c \in Connections : /\ c = hs[s].conn /\ c # m
                         /\ cs[c].thread \notin {"first", "run"}
                         /\ \A t \in Sockets \ {s} : hs[t].conn # c}
Release(s, m, cs) ==
    [c \in Connections |-> IF c \in Unreferenced(s, m, cs) THEN NoConn ELSE cs[c]]
Released(s, m, cs) == {cs[c].sock : c \in Unreferenced(s, m, cs)}

\* Connection::shutdown.
ShutDown(cs, c) == [cs EXCEPT ![c].shut = TRUE, ![c].sock = 0]

\* destroyPartialConnection: the new map entry and connections.
DestroyPartial(cs) == <<0, IF map = 0 THEN cs ELSE ShutDown(cs, map)>>

\* removeClient: the new key, map entry and connections.
RemoveClient(cs) ==
    IF key = 0 THEN <<0, map, cs>>
    ELSE <<0, 0, IF map = 0 THEN cs ELSE ShutDown(cs, map)>>

-----------------------------------------------------------------------------
(* The terminal process and TerminalServer::run.                           *)

\* UserTerminalRouter::acceptNewConnection, then addClientKey: an id that was
\* ever registered is rejected, also after its session has ended.
Register(pk) ==
    /\ run = "loop" /\ stop = "no" /\ mutex = "free"
    /\ router = 0
    /\ router' = pk
    /\ key' = pk
    /\ UNCHANGED <<map, mutex, conns, hs, link, client, owner, procs, faults>>

\* TerminalServer::shutdown.
Halt ==
    /\ ~halt
    /\ halt' = TRUE
    /\ UNCHANGED <<server, link, client, run, joins, stop, procs, faults>>

\* run() leaves its loop, calls shutdown(), which is TerminalServer's, and
\* iterates over terminalThreads without terminalThreadMutex.
LoopEnds ==
    /\ run = "loop" /\ halt
    /\ run' = "join"
    /\ joins' = {c \in Connections : conns[c].thread # "none"}
    /\ UNCHANGED <<server, link, client, halt, stop, procs, faults>>

JoinThreads ==
    /\ run = "join"
    /\ \A c \in joins : ~Alive(c)
    /\ run' = "returned"
    /\ UNCHANGED <<server, link, client, halt, joins, stop, procs, faults>>

\* ServerConnection::shutdown stops listening and waits for the pool to run
\* all its tasks, with classMutex held ...
ShutdownBegins ==
    /\ CallsShutdown /\ stop = "no" /\ mutex = "free"
    /\ stop' = "held"
    /\ mutex' = "shutdown"
    /\ UNCHANGED <<key, router, map, conns, hs, link, client, run, halt, joins,
                   procs, faults>>

\* ... and then shuts the connections down.
ShutdownEnds ==
    /\ stop = "held"
    /\ \A s \in Sockets : hs[s].pc = "done"
    /\ stop' = "done"
    /\ mutex' = "free"
    /\ map' = 0
    /\ conns' = IF map = 0 THEN conns ELSE ShutDown(conns, map)
    /\ link' = Close(link, IF map = 0 THEN {} ELSE {conns[map].sock})
    /\ UNCHANGED <<key, router, hs, client, run, halt, joins, procs, faults>>

-----------------------------------------------------------------------------
(* The client and the network.                                             *)

\* A socket is connected, accepted and enqueued (acceptNewConnection), and the
\* client sends its ConnectRequest.
Accepted(s, match) ==
    /\ run = "loop" /\ stop = "no" /\ mutex = "free"
    /\ hs[s] = Idle /\ client.sock # s
    /\ \A c \in Connections : conns[c].sock # s
    /\ link' = [link EXCEPT ![s] = [open |-> TRUE, resp |-> "none"]]
    /\ hs' = [hs EXCEPT ![s] = [pc |-> "queued", conn |-> 0, match |-> match]]

\* A client that got the id and passkey over ssh calls connect().
ClientConnect(s, match) ==
    /\ client.pc = "none" /\ router # 0
    /\ procs < MaxProcs
    /\ Accepted(s, match)
    /\ client' = [pc |-> "connect", sock |-> s]
    /\ procs' = procs + 1
    /\ UNCHANGED <<key, router, map, mutex, conns, owner, faults>>

\* connect() takes NEW_CLIENT and RETURNING_CLIENT alike, and the payload is
\* written; the constructor goes on after a connect() that failed.
ClientConnected ==
    /\ client.pc = "connect"
    /\ LET l == link[client.sock] IN
       \/ /\ l.open /\ l.resp \in {"new", "returning"}
          /\ client' = [client EXCEPT !.pc = "up"]
          /\ UNCHANGED link
       \/ /\ ~l.open \/ l.resp \in {"invalid", "mismatch"}
          /\ client' = [client EXCEPT !.pc = "stuck", !.sock = 0]
          /\ link' = Close(link, {client.sock})
    /\ UNCHANGED <<server, owner, procs, faults>>

\* read() or write() fails, or a keepalive is missed.
ClientLosesSocket ==
    /\ client.pc = "up" /\ ~link[client.sock].open
    /\ client' = [client EXCEPT !.pc = "down", !.sock = 0]
    /\ UNCHANGED <<server, link, owner, procs, faults>>

\* pollReconnect.
ClientReconnects(s) ==
    /\ client.pc = "down"
    /\ Accepted(s, TRUE)
    /\ client' = [client EXCEPT !.pc = "reconnect", !.sock = s]
    /\ UNCHANGED <<key, router, map, mutex, conns, owner, procs, faults>>

ClientReconnected ==
    /\ client.pc = "reconnect"
    /\ LET l == link[client.sock] IN
       \/ /\ l.open /\ l.resp = "returning"
          /\ client' = [client EXCEPT !.pc = "recover"]
          /\ UNCHANGED link
       \/ /\ ~l.open \/ l.resp = "new"
          /\ client' = [client EXCEPT !.pc = "down", !.sock = 0]
          /\ link' = Close(link, {client.sock})
       \/ /\ l.open /\ l.resp = "invalid"
          /\ client' = [client EXCEPT !.pc = "ended", !.sock = 0]
          /\ link' = Close(link, {client.sock})
    /\ UNCHANGED <<server, owner, procs, faults>>

ClientRecoverFails ==
    /\ client.pc = "recover" /\ ~link[client.sock].open
    /\ client' = [client EXCEPT !.pc = "down", !.sock = 0]
    /\ UNCHANGED <<server, link, owner, procs, faults>>

ClientDies ==
    /\ client.pc # "none"
    /\ client' = NoClient
    /\ link' = Close(link, {client.sock})
    /\ UNCHANGED <<server, owner, procs, faults>>

LinkFails(s) ==
    /\ link[s].open /\ faults < MaxFaults
    /\ link' = Close(link, {s})
    /\ faults' = faults + 1
    /\ UNCHANGED <<server, client, owner, procs>>

-----------------------------------------------------------------------------
(* ServerConnection::clientHandler on the thread pool.                     *)

HandlerStart(s) ==
    /\ hs[s].pc = "queued"
    /\ Cardinality({t \in Sockets : Busy(t)}) < PoolSize
    /\ hs' = [hs EXCEPT ![s].pc = "request"]
    /\ UNCHANGED <<key, router, map, mutex, conns, link, client, owner, procs,
                   faults>>

\* What the first block under classMutex decides; c is the object it may make.
Lookup(s, c) ==
    IF map # 0
    THEN /\ hs' = [hs EXCEPT ![s].pc = IF key = 0 THEN "invalid" ELSE "returning",
                            ![s].conn = map]
         /\ UNCHANGED <<map, conns>>
    ELSE IF key # 0
    THEN /\ map' = c
         /\ conns' = [conns EXCEPT ![c] = [NoConn EXCEPT !.key = key, !.sock = s]]
         /\ hs' = [hs EXCEPT ![s].pc = "created", ![s].conn = c]
    ELSE /\ hs' = [hs EXCEPT ![s].pc = "invalid"]
         /\ UNCHANGED <<map, conns>>

FreeConns == {c \in Connections : /\ map # c /\ ~Alive(c) /\ c \notin joins
                                  /\ \A s \in Sockets : hs[s].conn # c}

\* writeProto of a ConnectResponse: bytes for a link that is closed already are
\* taken by the kernel or refused (HandlerThrows).
Respond(s, resp) ==
    link' = IF link[s].open THEN [link EXCEPT ![s].resp = resp] ELSE link

\* The request may be read from the buffer of a link that is closed already.
HandlerRequest(s) ==
    /\ hs[s].pc = "request" /\ hs[s].match
    /\ mutex = "free"
    /\ \E c \in FreeConns : Lookup(s, c)
    /\ UNCHANGED <<key, router, mutex, link, client, owner, procs, faults>>

HandlerMismatch(s) ==
    /\ hs[s].pc = "request" /\ ~hs[s].match
    /\ Respond(s, "mismatch")
    /\ hs' = [hs EXCEPT ![s] = Idle]
    /\ UNCHANGED <<key, router, map, mutex, conns, client, owner, procs, faults>>

HandlerInvalid(s) ==
    /\ hs[s].pc = "invalid"
    /\ Respond(s, "invalid")
    /\ hs' = [hs EXCEPT ![s] = Idle]
    /\ UNCHANGED <<key, router, map, mutex, conns, client, owner, procs, faults>>

HandlerRespond(s) ==
    /\ hs[s].pc \in {"created", "returning"}
    /\ Respond(s, IF hs[s].pc = "created" THEN "new" ELSE "returning")
    /\ hs' = [hs EXCEPT ![s].pc = IF hs[s].pc = "created" THEN "start"
                                  ELSE "recover"]
    /\ UNCHANGED <<key, router, map, mutex, conns, client, owner, procs, faults>>

\* TerminalServer::newClient starts the thread of the session.
NewClient(s) ==
    /\ hs[s].pc = "start" /\ mutex = "free"
    /\ conns' = [conns EXCEPT ![hs[s].conn].thread = "first"]
    /\ hs' = [hs EXCEPT ![s] = Idle]
    /\ UNCHANGED <<key, router, map, mutex, link, client, owner, procs, faults>>

\* recoverClient, with classMutex held: the old socket is closed first.
HandlerRecover(s) ==
    /\ hs[s].pc = "recover" /\ mutex = "free"
    /\ mutex' = "recover"
    /\ hs' = [hs EXCEPT ![s].pc = "recovering"]
    /\ link' = Close(link, {conns[hs[s].conn].sock})
    /\ conns' = [conns EXCEPT ![hs[s].conn].sock = 0]
    /\ UNCHANGED <<key, router, map, client, owner, procs, faults>>

\* Both sides of recover(): the catchup buffer holds the payload.
Recovered(s) ==
    /\ hs[s].pc = "recovering"
    /\ client.pc = "recover" /\ client.sock = s /\ link[s].open
    /\ mutex' = "free"
    /\ client' = [client EXCEPT !.pc = "up"]
    /\ LET cs == [conns EXCEPT ![hs[s].conn].sock = s, ![hs[s].conn].paid = TRUE]
       IN  /\ conns' = Release(s, map, cs)
           /\ link' = Close(link, Released(s, map, cs))
    /\ hs' = [hs EXCEPT ![s] = Idle]
    /\ UNCHANGED <<key, router, map, owner, procs, faults>>

\* recover() fails: the link is down, or the client is in connect() and what
\* it sends is no SequenceHeader.
RecoverFails(s) ==
    /\ hs[s].pc = "recovering"
    /\ ~link[s].open \/ (client.sock = s /\ client.pc = "up")
    /\ mutex' = "free"
    /\ conns' = Release(s, map, conns)
    /\ link' = Close(link, {s} \cup Released(s, map, conns))
    /\ hs' = [hs EXCEPT ![s] = Idle]
    /\ UNCHANGED <<key, router, map, client, owner, procs, faults>>

\* readProto or writeProto throws: the link is closed, and the request has not
\* come or the response is refused.
HandlerThrows(s) ==
    /\ hs[s].pc \in {"request", "created", "returning", "invalid"}
    /\ ~link[s].open
    /\ hs[s].pc = "created" => mutex = "free"
    /\ LET d == IF hs[s].pc = "created" THEN DestroyPartial(conns)
                ELSE <<map, conns>>
       IN  /\ map' = d[1]
           /\ conns' = Release(s, d[1], d[2])
           /\ link' = Close(link, {s} \cup Released(s, d[1], d[2]) \cup
                      {conns[c].sock : c \in {e \in Connections : d[2][e].shut}})
    /\ hs' = [hs EXCEPT ![s] = Idle]
    /\ UNCHANGED <<key, router, mutex, client, owner, procs, faults>>

-----------------------------------------------------------------------------
(* handleConnection and the end of runTerminal, on the session's thread.   *)

\* The first packet: left by a recovery, or under way on the socket.
FirstPacketReady(c) ==
    /\ ~conns[c].shut
    /\ \/ conns[c].paid
       \/ /\ conns[c].sock # 0 /\ link[conns[c].sock].open
          /\ client.sock = conns[c].sock /\ client.pc = "up"

\* handleConnection reads the payload, and the terminal router is asked for
\* the terminal of the id, checking the passkey.  A reverse tunnel may be
\* refused: then the thread ends and the connection stays.
FirstPacket(c) ==
    /\ conns[c].thread = "first" /\ FirstPacketReady(c)
    /\ \E ok \in BOOLEAN :
          conns' = [conns EXCEPT ![c].paid = FALSE,
                                 ![c].thread = IF ok /\ router = conns[c].key
                                               THEN "run" ELSE "refused"]
    /\ UNCHANGED <<key, router, map, mutex, hs, link, client, owner, procs,
                   faults>>

\* Connection::read of the server side finds the link closed.
ServerEof(c) ==
    /\ Alive(c) /\ conns[c].sock # 0 /\ ~link[conns[c].sock].open
    /\ conns' = [conns EXCEPT ![c].sock = 0]
    /\ UNCHANGED <<key, router, map, mutex, hs, link, client, owner, procs,
                   faults>>

\* The shell ends, or the thread sees halt: removeClient(id).
SessionEnds(c) ==
    /\ conns[c].thread = "run" /\ mutex = "free"
    /\ LET cs == [conns EXCEPT ![c].thread = "ended"]
           r  == RemoveClient(cs)
       IN  /\ key' = r[1] /\ map' = r[2]
           /\ conns' = r[3]
           /\ link' = Close(link, {conns[d].sock : d \in {e \in Connections : r[3][e].shut}})
    /\ UNCHANGED <<router, mutex, hs, client, owner, procs, faults>>

-----------------------------------------------------------------------------
Handler(s) ==
    \/ HandlerStart(s)
    \/ HandlerRequest(s)
    \/ HandlerMismatch(s)
    \/ HandlerInvalid(s)
    \/ HandlerRespond(s)
    \/ NewClient(s)
    \/ HandlerRecover(s)
    \/ Recovered(s)
    \/ RecoverFails(s)
    \/ HandlerThrows(s)

ClientSteps ==
    \/ ClientConnected
    \/ ClientLosesSocket
    \/ ClientReconnected
    \/ ClientRecoverFails

Thread(c) == FirstPacket(c) \/ ServerEof(c)

OwnerSteps == LoopEnds \/ JoinThreads \/ ShutdownEnds

Next ==
    \/ \E pk \in Passkeys : Register(pk)
    \/ \E s \in Sockets : \/ Handler(s)
                          \/ \E match \in BOOLEAN : ClientConnect(s, match)
                          \/ ClientReconnects(s)
                          \/ LinkFails(s)
    \/ \E c \in Connections : Thread(c) \/ SessionEnds(c)
    \/ ClientSteps
    \/ ClientDies
    \/ Halt
    \/ ShutdownBegins
    \/ OwnerSteps

Spec == Init /\ [][Next]_vars

\* Pool threads, session threads, the owner and a living client keep running;
\* a thread that waits for classMutex gets it in the end.  Nothing makes a
\* shell end, a client die or a link fail, except that a session's thread
\* notices halt.
Fairness ==
    /\ \A s \in Sockets : SF_vars(Handler(s))
    /\ \A c \in Connections : WF_vars(Thread(c)) /\ SF_vars(halt /\ SessionEnds(c))
    /\ WF_vars(ClientSteps)
    /\ SF_vars(\E s \in Sockets : ClientReconnects(s))
    /\ WF_vars(OwnerSteps)

FairSpec == Spec /\ Fairness

-----------------------------------------------------------------------------
(* Properties.                                                             *)

\* However handlers of one client interleave, at most one thread serves it:
\* a terminal is never read by two threads.
OneTerminalThread == Cardinality({c \in Connections : Alive(c)}) <= 1

\* The handler that made a connection and is about to start its thread.
Starting(s) == hs[s].pc \in {"created", "start"}

\* A connection in the map has its key, is not shut down, and somebody cares
\* for it: its thread, the handler that will start the thread, or the thread
\* that refused a reverse tunnel and left it.
ConnectionsAttended ==
    map # 0 =>
        /\ key # 0 /\ ~conns[map].shut
        /\ \/ conns[map].thread \in {"first", "run", "refused"}
           \/ \E s \in Sockets : hs[s].conn = map /\ Starting(s)

\* A session thread always finds its terminal: the router still has the id,
\* with the passkey the connection was made with.
TerminalKnown == \A c \in Connections : Alive(c) => router = conns[c].key

\* classMutex is held across steps by one handler in recoverClient or by
\* shutdown(), which lets the handlers finish first.
LocksAgree ==
    /\ mutex = "shutdown" <=> stop = "held"
    /\ \A s, t \in Sockets : hs[s].pc = "recovering" /\ hs[t].pc = "recovering" => s = t
    /\ stop = "done" => \A s \in Sockets : hs[s].pc = "done"

\* clientKeys never has another passkey than the router, and neither has the
\* connection in the map.
KeysAgree ==
    /\ key \in {0, router}
    /\ map # 0 => conns[map].key = router

\* A thread is started once: the handler that is to start it is the only one,
\* its connection is in the map and has had no thread, and a thread's
\* connection stays in the map until the thread or the server ends.
StartedOnce ==
    /\ \A s \in Sockets : Starting(s) =>
          map # 0 /\ hs[s].conn = map /\ conns[map].thread = "none"
    /\ \A s, t \in Sockets : Starting(s) /\ Starting(t) => s = t
    /\ \A c \in Connections : Alive(c) => map = c \/ stop = "done"
    /\ \A c, d \in Connections : Alive(c) /\ Alive(d) => c = d

\* The inductive invariant.
RegistryInv ==
    /\ TypeOK
    /\ LocksAgree
    /\ KeysAgree
    /\ StartedOnce
    /\ OneTerminalThread
    /\ ConnectionsAttended
    /\ TerminalKnown

\* A client that got through connect() is served in the end, whichever
\* handler created, recovered or destroyed its connection on the way and
\* although connect() mistakes a returning connection for a new one.
ClientServed ==
    client.pc \in Established ~>
        \/ \E c \in Connections : conns[c].thread \in {"run", "refused", "ended"}
        \/ client.pc \in {"none", "ended"} \/ halt

\* After the session has ended a client that is still there learns it, also
\* when a handler had found the connection just before it was removed.
EndIsTold ==
    (router # 0 /\ key = 0 /\ client.pc \in Established) ~>
        (client.pc \in {"none", "ended"} \/ halt)

\* run() has joined every session thread when it returns.
\* Does not hold: see Known deviations in README.md.
ThreadsJoined == run = "returned" => \A c \in Connections : ~Alive(c)

\* run() returns after TerminalServer::shutdown.
\* Does not hold: see Known deviations in README.md.
HaltReturns == halt ~> run = "returned"

\* ServerConnection::shutdown returns.
\* Does not hold: see Known deviations in README.md.
ShutdownReturns == stop = "held" ~> stop = "done"
=============================================================================
