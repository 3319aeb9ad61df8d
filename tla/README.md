# Eternal Terminal: TLA+ specifications

Eternal Terminal (`et`) is a remote shell whose session survives the loss of
its TCP connection.  This directory holds TLA+ models of the code that makes it
survive and of the programs around it, TLC configurations that check them on
small instances, and proofs that TLAPS checks for every value of the constants.
Paths below are relative to the repository root.

## Inventory

| Part | State | Operations | Talks to |
|---|---|---|---|
| `BackedWriter` | `backupBuffer`, `backupSize`, `disconnectedBytes`, `sequenceNumber`, `socketFd` | `write`, `recover`, `revive`, `invalidateSocket`, `hasBufferCapacity` | `SocketHandler`, `CryptoHandler` |
| `BackedReader` | `localBuffer`, `partialMessage`, `sequenceNumber`, `socketFd` | `read`, `revive`, `invalidateSocket`, `hasData` | `SocketHandler`, `CryptoHandler` |
| `Connection` | `socketFd`, `shuttingDown`, `connectionMutex` | `read`, `write`, `readPacket`, `writePacket`, `recover`, `closeSocket`, `shutdown` | one reader, one writer, the peer's `recover` |
| `ClientConnection` | `reconnectThread` | `connect`, `pollReconnect`, `closeSocketAndMaybeReconnect`, `waitReconnect` | `ServerConnection::clientHandler` through a socket |
| `ServerClientConnection` | key | `recoverClient`, `verifyPasskey` | `Connection::recover` |
| `ServerConnection` | `clientKeys`, `clientConnections`, a pool of 8 handlers, `classMutex` | `acceptNewConnection`, `clientHandler`, `removeClient`, `destroyPartialConnection`, `shutdown` | every `ServerClientConnection` |
| `CryptoHandler` | key, nonce | `encrypt`, `decrypt` | libsodium |
| `SocketHandler` family | `activeSocketMutexes`, `portServerSockets`, `globalMutex` | `readAll`, `writeAllOrThrow`, `readProto`, `writeProto`, `connect`, `listen`, `accept`, `close` | the kernel |
| `TerminalClient` | console, keepalive timer, forwarding handler | constructor (first connection), `run`, `shutdown` | `ClientConnection` |
| `TerminalServer` | `terminalThreads`, `halt` | `run`, `newClient`, `handleConnection`, `runTerminal`, `runJumpHost` | `ServerConnection`, router |
| `UserTerminalRouter` | `idInfoMap` | `acceptNewConnection`, `tryGetInfoForConnection` | `etterminal` through a fifo |
| `UserTerminalHandler`, `UserJumphostHandler` | pending input; two connections | `run` | router, pseudo terminal, second server |
| port forwarding | source and destination handlers, maps of socket ids | `update`, `createSource`, `createDestination`, `handlePacket`, closes | both `run` loops |
| `htm` multiplexer | tabs, splits, panes, kept lines | `newTab`, `newSplit`, `closePane`, `update`, recovery of a client | its own client over a pipe |
| `TelemetryService` | `logBuffer`, `shuttingDown`, sender thread | `log`, `shutdown`, destroy, signal and crash handlers | every thread that logs |
| configuration | `Options`, seen flags; tunnel requests | `parse_ssh_config_file`, `match_hostname`, `parseRangesToRequests` | `et`'s main |
| `SshSetupHandler`, `etterminal`'s main, `ServerFifoPath` | id and passkey, fifo path | `SetupSsh`, registration | ssh, router |
| logging, daemon, subprocess, console | | | the operating system |

What is hard in this system:

* **Failure in the middle.**  A link may fail between any two bytes.  Half a
  packet may have been read; a write may have failed after some of its bytes;
  one side may have left `recover()` while the other is still in it.
* **Concurrency.**  On the server several handlers may hold sockets of the same
  client, the older ones stale; on the client the reconnect thread and the main
  thread share the socket and join each other; descriptors are looked up in a
  table and used after it is unlocked; signals end a process that logs.
* **Ordering.**  A packet decrypts only with the nonce of its number, and a
  failed decryption ends the process: a duplicate, a gap or a swap is fatal.
  Closes, data and responses of forwarded sockets, and panes closed from both
  sides, cross on the way.
* **Bounds.**  64 MB of backup, 64 MB per outage, 128 MB per message, an int32
  in the recovery header; pipes and socket buffers between single-threaded loops
  that block.
* **Liveness.**  Recovery is retried for ever and has to succeed once the
  network does; shutdown has to get through while it has not; packets that were
  caught up are read although no byte follows them.

## Modules

| Module | Models |
|---|---|
| `BackedWriter` | `BackedWriter` with its byte arithmetic, step by step inside `write()` |
| `ReliableChannel` | abstract: what a session promises the programs at its ends |
| `BackedConnection` | a session: both `Connection`s with reader and writer, links, `recover`, `pollReconnect`, `clientHandler` of a returning client |
| `CatchupExchange` | inside `recover()`: two catchup buffers on a link smaller than they are |
| `ClientReconnect` | the two threads of the client and `connectionMutex` |
| `ServerRegistry` | keys, connections and terminal threads of a client id on the server |
| `SocketTable` | descriptors, the kernel and `activeSocketMutexes` |
| `Hop` | operators: a session as the loops above it see it |
| `KeepaliveLoop` | `TerminalClient` against `runTerminal`: handshake, data, keepalives |
| `TerminalPipeline` | the bounded buffers from the client's keyboard to the shell and back |
| `JumpHost` | `runJumpHost`, the pipe, `UserJumphostHandler`, the second session |
| `PortForward` | both ends of forwarded connections |
| `Multiplexer`, `ScrollBack` | `htm`: the forest of panes and the protocol with the editor; the kept lines of a pane |
| `Telemetry` | log buffer, sender and the ways a process ends |
| `SshConfig`, `HostPattern`, `TunnelArgs` | configuration: files and blocks, host patterns, tunnel arguments |
| `SessionSetup` | how a session gets its id and passkey, with and without a jumphost |
| `MC...` | instances for TLC |
| `BackedWriterProofs`, `SessionProofs` | theorems about the writer, and about a session: types, links, streams, refinement |
| `SocketTableProofs` | theorems about `SocketTable` |
| `LifecycleProofs` | theorems about `ClientReconnect`, `CatchupExchange` and `SessionSetup` |
| `TerminalProofs` | theorems about `TerminalPipeline`, `KeepaliveLoop` |
| `ServerProofs` | theorems about `ServerRegistry` and `Telemetry`, and about descriptors and log buffer as `MCServer` has them |
| `RelaysProofs` | theorems about `JumpHost` and `PortForward` |
| `HtmProofs` | theorems about `Multiplexer` and `ScrollBack` |

How they fit together.  `BackedWriter` has the bytes, `BackedConnection` the
messages of a session with packets of size one; it implements
`ReliableChannel`, and the modules above it use what that promises:
`PortForward` two queues, `KeepaliveLoop` and `JumpHost` the records of `Hop`,
which also say which packets are in `localBuffer`.  `CatchupExchange` opens one
step of `BackedConnection`, `ServerRegistry` the life of the object around it,
`SocketTable` the descriptors under it, `SessionSetup` what comes before it.

### BackedWriter

The variables are the fields of the class.  `write()` is three steps under
`recoverMutex`: `Write` (encrypt, push, count), `Trim` (a turn of the cleanup
loop), then `BufferedOnly` or `WriteDone`.  `Recover`, `Revive` and
`AbortRecover` are the calls `Connection::recover` makes while it holds the
mutex; `Invalidate` is `closeSocket`.  A packet is its number and its encrypted
length.  Two history variables state the properties: `offset[n]`, the size of
the first n packets, and `outages`, the number of outages that ended since the
cleanup loop last ran.

### BackedConnection

One session that already exists.  A *link* is a TCP connection; `net[l][s]` is
what is under way on link `l` to side `s`, in order: the request and response
of the handshake, the two messages of recovery, and packets in two parts.  A
link that is down takes bytes into the socket buffer and loses them from the
end (`Lose`), so a reader sees a prefix of what was sent.  The client has one
link at a time; the server has a handler per link, and the handlers of dead
links may still be waiting to call `recoverClient`.

| Action | Code |
|---|---|
| `WriteBuffered`, `WriteSent`, `WriteFailed` | `Connection::write` by the result of `BackedWriter::write` |
| `ReadLocal`, `ReadSocket`, `ReadFailed` | `Connection::read` from `localBuffer`, from the socket, failing |
| `RecvHeader`, `RecvCatchup`, `RecoverFailed` | the waits of `Connection::recover`, on either side |
| `ClientClose`, `ClientConnect`, `ClientResponse` | missed keepalive and `pollReconnect` |
| `HandlerRequest`, `HandlerRecover`, `HandlerFailed` | `ServerConnection::clientHandler`, `recoverClient` |
| `Break`, `Lose` | the network |

`process` becomes `"fatal"` where the code ends the process with STFATAL: a packet that
does not decrypt, a peer that is ahead, a catchup buffer over the limit of
`writeProto`.  Byte limits count packets of size one; `BackedWriter` has the
byte arithmetic.

### CatchupExchange

Each side sends its header and then its whole catchup buffer before it reads
(`Connection.cpp:115-140`).  A buffer is a number of units, a link holds
`Capacity` of them.  A unit that does not fit makes `write()` wait; after 5 s
(`UnitsIn5s` units) it gives up and `writeAllOrThrow` begins again, after 30 s
the attempt fails and `pollReconnect` makes another one.

### ClientReconnect

`pc` walks through the loop of `TerminalClient::run`: console, reads, keepalive,
the rest.  A failing read or write enters `closeSocketAndMaybeReconnect` with
`connectionMutex` held (`mutex = "main"`), a missed keepalive without.
`thread` is the program counter of `pollReconnect`, `"done"` while the thread
has ended and not been joined.

### ServerRegistry

One client id.  Every socket the client opens has a handler (`hs`) that walks
through `clientHandler`: look up under `classMutex`, create or recover the
connection, start its thread or destroy what it made.  The session threads walk
through `handleConnection`, `TerminalServer::run` through accept, router and
the joins after `halt`, `stop` through `ServerConnection::shutdown`.  The
client connects, loses its link, dies and starts again; the owner of the
terminal registers passkeys with the router.  `recover()` is one step.

### SocketTable

`os` is the kernel's table, `table` the code's, `global` the holder of
`globalMutex`, `lock` the mutexes of the entries.  The main thread accepts, a
pool thread answers the client, then serves the session through `socketFd`;
others connect and listen for port forwards.  A close takes three steps: the
entry's mutex with `globalMutex` held, `::close`, the erase.  `Returning` says
whether a client may come back while its first handler is still answering.

### KeepaliveLoop, TerminalPipeline, JumpHost

One action is one pass of a loop through the part that handles one descriptor
or the timer.  `KeepaliveLoop` has the handshake, the keepalive flag and the
question whether `select` looks at a connection whose packets are in
`localBuffer`.  `TerminalPipeline` has capacities for the links, the pipe
between server and `etterminal`, the pty and `pendingInput`, and the states in
which a blocking write leaves its thread.  `JumpHost` has the relay's
reconnections: the idle close, the reconnect thread, the wake-up by a packet
from the router.  A step takes one packet also in the `while (hasData())` loops
of the client and the destination: what the others do meanwhile may come between
two packets of one drain.

A first connection of the relay that fails leaves it without reader and writer
(`phase` `"bare"` or `"stuck"`), and an INITIAL_RESPONSE with an error ends it.

### PortForward

`socketFdMap`, `unassignedFds` and `idHandler` of the listening side, `dests`
of the connecting side, and the packets under way between them.  Applications
open, write and close at will, descriptors are given out again, a destination
may refuse or stall.  A socket id is any number that is not in `dests`, as in
`createDestination`; `redraws` counts the ids that were drawn before
(`MaxRedraws` bounds it).  `update()` sends all it reads of every socket in one step.

### Multiplexer and ScrollBack

`st` is the forest: tabs, splits and panes with parents, children and sizes as
fractions.  The editor makes tabs and splits and closes panes by messages;
`update()` closes the pane of a shell that has ended and tells the editor.
`life` leaves `"running"` where the code is fatal or throws out of `run()`.
`ScrollBack` is the deque of lines of one pane with the two loops that cut it.

### Telemetry

All threads log, main too, and append under `logMutex`; the sender waits, decides,
takes the buffer and posts; `shutdown()` sets the flag and joins it.  Main, a
fatal log and a signal each end the process.  A signal takes the thread it
interrupts over, with what the thread holds: when that is `logMutex`
(`HolderInterrupted`) the process hangs.

### SshConfig, HostPattern, TunnelArgs

Inputs are chosen piece by piece (a line, a pattern, an element) and parsed as
the code does; the properties compare the result with a definition that looks
at the whole input.  The recursion of `match_pattern` is a function of the two
positions.

### SessionSetup

The client's own key begins with XXX and tells `etterminal` to draw another one.
Each `etterminal` looks for the fifo of an `etserver` (`ServerFifoPath`: option,
root's, the user's), registers, prints its key and serves; `SshSetupHandler`
parses the output and, with a jumphost, hands the key on.  An `etterminal` that
gets no key on stdin prints a message in its place (`TermReadsNoKey`).  The daemons that
exist, the one that listens at the port and the options are all enumerated.

### Instances side by side

Components that share no state are checked in one run.  The `MC` module extends
one of them and instantiates the others with variables of their own; `part`
names the one that runs in a behaviour and the others stay in an initial state.
So an invariant of a component is one of the run as it stands.  A liveness
property reads `part = "x" => (Fairness of x => property of x)`, so that the
assumption is the component's own.  Where two sets of constants matter the same
module is instantiated twice, and its invariants hold of the instance that
runs: `Table`/`Owned`, `File`/`LongFile`, `Pattern`/`PatternList`.

The modules with the proofs of these parts, `LifecycleProofs`, `TerminalProofs`,
`ServerProofs`, `RelaysProofs` and `HtmProofs`, extend the `MC` module, so that
what they prove is the formula that TLC checks.  What `MC` modules instantiate twice is instantiated
from its proof module: the theorems come with the definitions.

## Runs

| Run | Checks | Result |
|---|---|---|
| `writer` | the inductive invariant (backup is a gap-free run of the newest packets, exact size, outage budget), exact `recover`, growth per outage, no drop without a socket | holds |
| `session` | the only STFATAL is that of a catchup buffer over the limit, the session invariant, refinement of `ReliableChannel` | holds |
| `lifecycle` | `ReconnectInv`, `EndsWhenTold`, `LinkComesBack` of the client's threads; `EventuallyDelivered` of a session; `StreamIntact` and `RecoveryCompletes` of catchup buffers; `SetupInv`, `SetupEnds` of the setup over ssh | holds |
| `server` | `RegistryInv`: one thread per client, connections attended, terminal known; `TableInv`, `RightPeer`: the table agrees with the kernel and bytes reach their peer; `LogInv`: messages posted in order and before the process ends | holds |
| `server_live` | a client past `connect()` is served, and told when its session has ended; socket operations end; messages are posted and a process that sets out to end does, unless a signal interrupts a thread that holds `logMutex` | holds |
| `terminal` | `PipelineInv`: output neither lost nor duplicated; input reaches the shell; the end of shell or server is noticed; `LoopInv`: a keepalive is under way whenever one is waited for; caught up packets are read | holds |
| `relays` | `ForwardInv`: while no socket id is drawn twice, forwarded data in order and to its own peer, sockets paired, no unexpected packet; `RelayInv`: every packet through a jump host exactly once and in order, one reconnection at a time | holds |
| `relays_live` | data and ends are carried, through forwards and through a jump host, unless its relay could not connect or the two relays block each other | holds |
| `htm` | `PanesInv`: the forest, the order of tabs, the editor's view; dead panes close; `LinesInv`: kept lines counted exactly, all of them and the newest output shown | holds |
| `config` | `SettingsInv`, `TunnelInv`, `PatternInv`: blocks, settings, tunnels and patterns against reference definitions | holds |
| `session_behind` | a recovering peer never needs a packet that has left the backup | violated |
| `client_join` | the client reconnects automatically | violated |

### Bounds

* `writer`: payloads of 1 and 3 bytes, a MAC of 1, both limits 5, so a backup
  holds one or two packets, trims take several turns and outages exceed the
  limit by the MAC; 7 packets are enough for three outages.
* `session`: a backup and an outage of one packet each and a message of two, the
  ratio of the 64, 64 and 128 MB of the code, so that trimming happens and a
  catchup buffer can exceed the limit; four packets fit a link; three faults and
  four links let a recovery fail in both halves and leave a stale handler behind.
* `lifecycle`: for `EventuallyDelivered` two faults and four links; a fault can
  cost two links (a stale handler closes the next one), so the bound on links
  never refuses a connection.  Its backup is larger than what is written: with
  trimming, `session_behind` shows that delivery can fail.  Client threads:
  three link failures, one packet of outage budget, so that `writePacket`
  waits.  Catchup: a link of 2 units, backlogs of 2 and 4 that get through and
  of 4 and 6 that block each other, 4 units in 5 s.  Setup: every subset of daemons, port and
  option of both hosts.
* `server`: three sockets, two connections, two passkeys, a pool of two, two
  lives of the client, one fault; three threads over three descriptors and three
  connections, or four where `RightPeer` is checked, so that numbers are used
  again, also while a listening port has two of them; two loggers, a buffer of one, batches
  of two, four messages, a signal that interrupts a logger or main.
  `server_live`: two sockets and two faults.
* `terminal`: four units of input through capacities of one and two, so that
  every buffer fills and the session thread holds output back; two packets each
  way and three link failures against the keepalive timer.
* `relays`: two handlers, two connections, two descriptors, so that a descriptor
  is used again while packets for its last owner are under way; a pipe of one
  packet, two packets (`MaxMany`) in either direction and one (`MaxFew`) in the
  other; one id drawn a second time.  `relays_live`: one descriptor used twice;
  through the jump host one packet and one failure, in either direction, and a
  pipe of one packet, which keepalives are enough to fill both ways; no id drawn
  a second time.
* `htm`: four panes, which is enough for a split inside a split and for a
  collapse into either; output of 8 characters against limits of 3 lines and 4
  characters.
* `config`: files of three lines of 29 kinds and of four lines of 9 kinds, two
  files, nested includes; three elements of 21 kinds with two forwards of the
  config; names of up to 3 and patterns of up to 4 characters, lists of two.
* `session_behind`: a backup of three packets when a link holds one, so that
  bytes in flight alone cannot overrun it (64 MB against a few MB of socket
  buffer).

Threads (`server`) and listening handlers (`relays`) are symmetric; the runs with
liveness use no symmetry.

Deadlock is not checked: packets, links, faults and inputs are bounded, and
clients, sessions and processes that have ended stay ended.

### Fairness

* `BackedConnection`: readers read what is there, handlers and attempts proceed,
  and an operation on a dead link times out (30 s in `readAll`, 5 s in `read`).
  The client notices a dead link by keepalive.  Nothing is assumed of writes, of
  the network while it fails, nor of the server noticing a dead link: there,
  only the next handler does.
* `ClientReconnect`: both threads get the mutex in the end (the loop sleeps in
  `select` and the reconnect thread a second between attempts), each stage of
  the loop ends, a dead socket is noticed, an attempt gets through in the end.
* `CatchupExchange`: both processes run, timers expire, `pollReconnect` tries
  again.
* `ServerRegistry`: handlers get `classMutex` in the end (strong: it is released
  and taken again), session threads, the client and the owner of the terminal go
  on.
* `SocketTable`: strong for the mutex of an entry, weak for system calls and
  closes.  A write to a peer that does not read ends by its timeout.
* `TerminalPipeline`, `KeepaliveLoop`, `JumpHost`: the loops run, the shell
  reads and echoes, the client reconnects; strong for what `select` decides anew
  each turn: the rate limit's reset every second and the keepalive timer.
* `PortForward`: `update()` is called and packets are handled in every turn of
  both `run` loops; applications owe nothing.
* `Multiplexer`: `run()` calls `update()`.
* `Telemetry`: threads and sender run while the process does; the flush after
  30 s is strong, as others may hold `logMutex` when it is due.
* `SessionSetup`: processes go on and ssh ends.

### What the violations show

* `session_behind`: a side that has read the peer's catchup buffer revives and
  may write, which trims its backup to 64 MB although its own catchup buffer,
  up to 128 MB, has not been read.  If the link fails now, the peer asks for
  packets that are gone, and every later recovery throws.
* `client_join`: after `recover` the reconnect thread releases
  `connectionMutex` and takes it again in `isDisconnected()`.  A read or write
  that fails in between joins the thread while it holds that mutex.

### Known deviations

Statements of the repository that TLC refutes on these modules, besides the two
above.  The first column is the definition that states it and the constants
that show it (under `Spec`, or `Spec` with `Fairness` for liveness; what is not
given is as in the runs).  Those that a passing run checks hold there because
its constants leave the case out.

| Definition, constants | Code | What happens |
|---|---|---|
| `BackedWriter!BackupWithinLimits` | `BackedWriter.cpp:37` | the cleanup loop runs only in a write with a socket and `revive` gives a new budget, so outages that end without such a write add up past 128 MB; `BackupGrowth` is the bound that does hold |
| `BackedConnection!NoFatal` | `SocketHandler.hpp:88` | with the catchup lost and nothing written, a second outage makes the next catchup buffer exceed 128 MB and `writeProto` ends the process; `Connection.cpp:226` wants to "sever the connection instead of crashing the process" |
| `BackedConnection!HeaderIsPosition`, `HalfRange` 2 | `Connection.cpp:115` | the int64 position travels as an int32; past 2^31 packets every recovery throws |
| `CatchupExchange!RecoveryCompletes`, backlogs 4 and 6 | `Connection.cpp:131` | both sides write before they read and block each other in every attempt |
| `CatchupExchange!StreamIntact`, `UnitsIn5s` 2 | `UnixSocketHandler.cpp:99` | `write()` returns -1 after 5 s although part was sent, `writeAllOrThrow` sends that part again |
| `ServerRegistry!HaltReturns` | `TerminalServer.cpp:434` | `handleConnection` waits for a first packet and looks neither at `halt` nor at the connection's shutdown; `run()` joins it for ever |
| `ServerRegistry!ThreadsJoined` | `TerminalServer.cpp:97` | `run()` walks through `terminalThreads` without the mutex that guards it while `newClient` inserts |
| `ServerRegistry!ShutdownReturns`, `CallsShutdown` | `ServerConnection.cpp:31` | `shutdown()` waits for the pool with `classMutex` held, a handler waits for `classMutex` |
| `SocketTable!IteratorValid`, `Returning` | `UnixSocketHandler.cpp:80` | `write()` uses an iterator after another owner's `close()` has erased the entry |
| `SocketTable!NoListenTwice`, a port, two sessions | `TcpSocketHandler.cpp:156` | two sessions ask for the same reverse port; the assertion ends the server |
| `TerminalPipeline!InputReachesShell`, `TotalInput` 9 | `TerminalServer.cpp:386` | past what the buffers hold, session thread and `etterminal` block writing to each other; `UserTerminalHandler.cpp:80` says the buffering prevents it |
| `KeepaliveLoop!NoUnknownPacket` | `TerminalClient.cpp:120` | the constructor gives up after three looks, and the INITIAL_RESPONSE that comes then is fatal in `run()` |
| `JumpHost!NeverBlocked` | `TerminalServer.cpp:181` | `runJumpHost` and the relay block writing to each other through the pipe; `DataArrives` and `EndIsTold` exempt it |
| `JumpHost!ConnectsOrEnds` | `UserJumphostHandler.cpp:104` | a `connect()` that returns false is counted once and the loop is left at line 120: the relay goes on without reader, writer and INITIAL_PAYLOAD, and what is typed is lost in it or ends it |
| `JumpHost!ResponseNotRelayed` | `UserJumphostHandler.cpp:120` | three looks without an answer leave the loop too, and the relay hands the late INITIAL_RESPONSE, or the one with an error that should have ended it at line 95, to the client, for which it is fatal |
| `PortForward!OwnDataInOrder`, once `redraws > 0` | `PortForwardHandler.cpp:124` | the id of a new socket is only compared with the sockets that are open; data and ends for the socket that had it before may still be on their way and reach the new one |
| `PortForward!NoGap`, `MaxData` 2, a stall | `ForwardSourceHandler.cpp:119` | the result of `writeAllOrReturn` is ignored, later data is written behind the gap |
| `Multiplexer!CollapseWorks` | `MultiplexerState.cpp:253` | the last child of a split is looked up as a pane and may be a split |
| `Multiplexer!NoStaleRequest` | `MultiplexerState.cpp:91` | a key that crosses SERVER_CLOSE_PANE meets an assertion |
| `Multiplexer!OutlivesClient` | `HtmServer.cpp:135` | after a failed read SESSION_END is written to the dead socket, which throws out of `run()` |
| `Multiplexer!SizesNormalized` | `MultiplexerState.cpp:249` | scaling by oldSize/newSize is right for equal sizes only |
| `ScrollBack!LinesReplayed` | `TerminalHandler.cpp:81` | a newline at the end of a read is lost |
| `Telemetry!SignalEnds` | `TelemetryService.cpp:297` | the signal handler joins the sender on a thread that holds `logMutex`, which the sender needs; `TelemetryService.cpp:182` has it exit "like the default SIGTERM handler would do" |
| `Telemetry!Flushed`, `MaxEnds` 2 | `TelemetryService.cpp:288` | a second `shutdown()` returns at once and its caller ends the process before the flush |
| `Telemetry!NoLateGet` | `TelemetryService.cpp:55` | `exists()`, then `destroy()` by another thread, then `get()` |
| `TunnelArgs!OnlyParseException`, ports that are not numbers | `TunnelUtils.cpp:152` | `stoi` throws what nobody catches |
| `TunnelArgs!RangesPaired` | `TunnelUtils.cpp:20` | `1-3:/sock` is taken for a port and a socket: `stoi` reads 1, and ports 2 and 3 are dropped silently; `TunnelUtils.cpp:70` has "if source is a range, destination must be a range", and `TunnelUtilsTest.cpp:149-155` wants the exception for a range against a port |
| `TunnelArgs!ConfigKeepsValid` | `TerminalClientMain.cpp:431` | a LocalForward of the config is appended to an ssh-style argument and makes it invalid |
| `HostPattern!WildcardsMatch` | `ParseConfigFile.hpp:337` | `a**` does not match `a` |
| `SessionSetup!SameKeyOnBothHosts`, TRUE in `Collide` | `TerminalMain.cpp:114` | a drawn id that begins with XXX is drawn again by the jumphost |
| `SessionSetup!KeyKnown` with a jumphost | `TerminalMain.cpp:153` | the key is printed before it is registered |
| `SessionSetup!KeyKnown`, `RouterTimely` FALSE | `TerminalServer.cpp:80` | a connection is handed to the pool before the registration waiting in the fifo is accepted |
| `SessionSetup!OptionUsed` | `TerminalMain.cpp:127` | the key of `--idpasskey` goes to a variable that shadows the one used |

Smaller observations: an Include with a wildcard in a directory that does not
exist ends `et`, as `directory_iterator` throws and nobody catches it
(`ParseConfigFile.hpp:1344`, `SshConfig!IncludeThrows`); `SetupSsh` reads the
second part of what the jumphost's `etterminal` printed whether there is one or
not (`SshSetupHandler.cpp:163`, `SessionSetup!JumphostUntold`); a keepalive that
a quick recovery put into the server's `localBuffer` is echoed only when the
next byte arrives, so the client may give up a healthy link once; htmd keeps
running without panes until the editor's CLIENT_CLOSE_PANE arrives; `Match user
x` sets the user (`ParseConfigFile.hpp:1389`); a `SetEnv NAME=VALUE` without
quotes is dropped.

## Proofs

`BackedWriterProofs` proves, for all limits, lengths and numbers of packets,
that `WriterInv` is an invariant, and from it the properties of run `writer`.
`WriterInv` adds to them what happens inside the mutex: between the two halves
of a write without a socket the newest packet is in the backup but not in
`disconnectedBytes` (`PendingWrite`), and `Connection::recover` holds a promise
that must stay true until it releases the mutex (`RecoverLocked`).  The only
assumption is `WriterAssumption`: the constants are natural numbers.

`SessionProofs` proves, for any number of packets, links and failures
and any limits (`ConnectionAssumption`: they are natural numbers, and the
session has a link to start with):

- `TypeCorrect`: the types.  They are not inductive alone: the steps of the
  handshake and of `recover` read from `rlink`, which must be a real link.
  `PhaseInv` says that it is, as long as the thread is not idle; the two are
  inductive together (`RecoverExclusive`).  `PhaseInv` also says that a side
  recovers only while it has no socket, which is what holding `connectionMutex`
  through the reconnect is for.
- `OneLiveLink`: `LinkInv`, the part of `SessionInv` about links.  A link that
  is up is the newest one, the client uses it, and at its other end is the
  server's connection or a handler on its way to `recoverClient`; what is under
  way goes to a side that reads it or to that handler.  So a handler of a dead
  link that wakes up late finds nothing on it, and cannot answer on it.  Thirteen
  of the actions follow one pattern, stated once as `LinkInvKept`: they open no
  link, write only on links that are up, and a side that lets go of a link takes
  it down and drops what it had not read.  The handler's steps and
  `ClientConnect` are proved one by one.

On that builds the rest of the module.

- `SessionCorrect`: `SessionInv`.  What it adds is about streams: on a link, what
  a side has delivered, what it has read in part, what is under way to it and
  what the peer's writer has in its backup make up one run of packet numbers
  without a gap, and the messages of a recovery announce positions that are
  still true.  The proof goes link by link: `LinkOK` is what `SessionInv` says
  of one link, and the frame lemma `LinkKept`
  says that a step which touches neither the link nor the state its ends depend
  on keeps it, so each action is argued on the link it works on only.
- `ChannelImplemented`: every step of a session is a step of `ReliableChannel` or
  a stutter, so the session implements it.
- `FatalLimited`: `FatalOnlyOverLimit`, an action property.  The process ends in
  STFATAL in `recover()` only, of a side whose backup has grown over the limit of
  `writeProto`; no packet fails to decrypt and no peer is ahead.  Nothing is
  assumed about the limits: that they can be met is `NoFatal` in Known deviations.

  The three assume `PacketsNumbered`, that neither side writes `HalfRange` (2^31)
  packets, as the position travels in an int32; `HeaderIsPosition` in Known
  deviations shows what happens without it.

`LifecycleProofs`:

- `ReconnectCorrect`: `ReconnectInv`.  It becomes inductive with `ThreadInv`, who
  holds `connectionMutex` at which place in the code.  The join deadlock of run
  `client_join` satisfies it: there a thread waits, none loses its socket.
- `StreamCorrect`: `StreamIntact`, which is `ExchangeInv`, for all buffers.  Where
  a side is says how much of its catchup buffer is sent (`SentSoFar`), and while
  the buffers `Fits`, what is read and what is under way make up what was sent
  (`WireOrdered`), so it is read in order and nothing is left.  `Fits` says that
  the network carries each of the two in the 5 s of a `write()`, and that one of
  them fits the link, so that its sender comes to read and the other is not
  stuck.  Without it a `write()` gives up halfway and sends its beginning again
  (Known deviations).
- `SetupKeysAgree`: `SetupInv` of the setup with and without a jumphost, for every
  value of the constants.  `RegisteredOnce` says where a key is at each place of an
  `etterminal`, `OutputTells` what ssh has shown of it, and `KeyHandedOn` whose
  key the client and the jumphost have at each place of `SetupSsh`, or that an
  `etterminal` had none to tell.

`TerminalProofs`:

- `PipelineCorrect`: `PipelineInv`.  `OutputAccounted` counts the output over all
  buffers; `LoopsAgree` has what the loops rely on from one `select` to its use, and gives
  `LastOutputDelivered`.
- `LoopCorrect`: `LoopInv`.  A keepalive under way is followed through
  `localBuffer`, socket and backup of both directions; lemmas about `Hop` say what a
  read, a write, a failure and a recovery do to the sequence of packets under way.

`ServerProofs`: `RegistryCorrect`.  `KeysAgree` and `StartedOnce` are why
one thread serves a client: a handler that created the connection is the only
one to start its thread, and the connection stays in the map until the thread
or the server ends.  The invariant is proved in two halves, what
the steps of handlers and threads share and what each says of itself.  `LogsKept`:
`PostedInOrder` is the main part of `LogInv`; `SenderInv` says what a last run of
the sender knows, and `OneEnder`, for `MaxEnds <= 1`, that the thread which ends
the process has set the flag and waited.

`SocketTableProofs`: `TableCorrect`, for any number of threads, descriptors and
connections.  The table lags behind the kernel only while a close erases
an entry, and then the closing thread holds `globalMutex` (`EntriesOpen`,
`ClosingAlone`); a descriptor that was given out again meanwhile waits in
`accept` (`InsertsAlone`).  `PeerCorrect` adds that each thread has a connection
of its own and its current descriptor (`PeerInv`), which needs `~Returning`: a client that
comes back during its own handshake is the case of `IteratorValid` in Known
deviations.

`DescriptorsSound` and `BytesReachPeer` of `ServerProofs` restate these two for the
properties of run `server`.  They rest on lemmas (`TableApart`, `OwnedApart`) that
no other part changes the variables of the one that runs.

`RelaysProofs`:

- `RelayCorrect`: `RelayInv`, for any number of packets and failures and any
  capacities.  A direction is five sequences in a row: received, under way in the
  session on the far side, in the pipe, in the hand of a blocked write, under way
  in the session on the near side (`InParts`, `OutParts`).  A step of the jump
  host moves the border between two neighbours, adds at the near end or drops
  what is not data, and lemmas about sequences (`Order...`) say that each of these
  keeps the data of the whole in order and complete.  What makes it inductive is
  that a session without a socket has nothing in one and a session with one has
  nothing in its backup (`Sound`), and `JumpControl`: before it has started the
  relay has neither socket nor thread.
- `ForwardCorrect`: `ForwardInv`, for any handlers, connections and descriptors.
  `WhileNew` is the invariant: `ForwardInd` as long as every id drawn was new, and
  nothing after that (`RedrawsCounted`: the count of ids drawn again never falls).
  `ForwardInd` has two halves.  `FlowOK` follows what one end of a connection
  writes: of what is unread in its socket, under way and received, each is before
  the next, none is there twice, and nothing follows the end.  `Linked` says why a
  piece of data arrives at its own connection: there is a function `names` from
  the ids drawn so far to connections, one to one, with which everything agrees
  that names a socket: `dests`, `socketFdMap` with the descriptors, requests,
  responses and data under way.  A descriptor that waits for a response has one
  request or one response under way and is given to nobody else (`AwaitedOK`,
  `OneAnswer`); data of the connecting side is behind the response that makes its
  id known (`DataAnswered`); an end is the last packet of its side (`EndsOnce`,
  `DestKept`, `SourceKept`).  `update()` sends what several sockets hold with
  `FlattenSeq` over `SetToSeq`; that this is each socket's data in its own order
  (`FlattenOK`, `ReadPacketsAre`) is an induction over the sockets, done by taking
  the least counterexample (`LeastOf`).

`HtmProofs`: `PanesCorrect`, `PanesInv` for any number of panes and requests.  The
inductive invariant `PanesInd` has two parts.

- The forest is read as two functions, `Lists` (what a tab or a split lists) and
  `Names` (the parent a pane or a split names), and `Sound` says that they agree.
  One lemma about the two functions for each kind of change (`Planted`,
  `Appended`, `SplitInPlace`, `Uprooted`, `Removed`, `Collapsed`) is about forests
  only; `NewTabGood`, `NewSplitGood` and `ClosePaneGood` show that the code makes
  these changes.  Between `LeaveSplit` and `Collapse` a split has one child, which
  `Sized` allows for that split.  `Numbered` counts the tabs, and `MadeWith` says
  that an id is free when the pane it is made with has not been heard of.
- `Protocol` is about what is on the way while htmd runs.  `QueueOK`: a request
  makes a pane nobody has heard of and closes one that is there, is closed, or is
  made by an earlier request, so `closePane` always finds its pane.  `ViewOK`: what
  the editor shows is there, ordered, or its end is on the way, and it shows all
  but what it has asked to close; a served close therefore never takes a pane off
  that the editor still shows.

Where `closePane` and `getPane` are fatal (Known deviations) `life` says so and the
forest stays as it was.

`LinesCorrect` is `LinesInv` of `ScrollBack`, for any `MAX_BUFFER_LINES`,
`MAX_BUFFER_CHARS`, `BUF_SIZE` and any output.  The inductive invariant `LinesInd`
says that the kept characters are the end of those on the screen, and both the end
of the output's (`EndOf`), and that there is at most one kept line more than the output
has line breaks, without which nothing bounds what the loop on lines cuts.  What
`split()`, the loops and `sendTerminalBuffers` compute is shown operator by operator
(`TokensIs`, `AddedIs`, `CutLinesIs`, `CutCharsIs`, `JoinedIs`) from facts about
`FlattenSeq` and `Chars`.  These are inductions over sequences.  The induction
theorems of the library take an operator, so the property to show is made a set:
`Grows` says that a set with the empty sequence that is closed under `Append` has
every sequence, and follows from the least counterexample.

The other assumptions (`...Assumption`) are that sizes and bounds are natural
numbers and names are distinct.  They are plain definitions, hypotheses of the
theorems, and the `MC` modules assume them (`LifecycleAssumption`,
`TerminalAssumption`, `ServerAssumption`, `RelaysAssumption`, `HtmAssumption`);
`WriterAssumption` and `ConnectionAssumption` are `ASSUME`s.

Only model-checked:

* every liveness property and the two violations, which are about behaviours
  under fairness and about reachable states;
* `SettingsInv`, `TunnelInv` and `PatternInv`: they compare a parser with a
  definition that looks at the whole input.  The proof is an induction over that
  input, of the kind `LinesCorrect` rests on, and has not been done: TLC runs
  through all inputs up to the bounds of the run.

## Not modelled

* `HostParsing.hpp` (one string is split), base64 helpers,
  `ServerFifoPath::createDirectoriesIfRequired` and the permissions set by
  `PipeSocketHandler::listen` (file system checks), address resolution.
* Windows variants, daemonizing, subprocesses, console, pseudo terminal and log
  files: wrappers around the operating system.
* The HTTP client and sentry behind telemetry, libsodium, protobuf, the JSON of
  htm's state.
* `createDestination` answers with an error after 100000 draws that all hit an
  open socket: a process has far fewer descriptors than there are ids.
* A signal delivered to the telemetry sender itself, which would join itself.
* The 5 s retry of `CatchupExchange` inside the blocked pipe writes of
  `TerminalPipeline` and `JumpHost`: there a blocked write continues.
* `PipeSocketHandler::stopListening` leaves its map entry; nothing looks at it
  again.
