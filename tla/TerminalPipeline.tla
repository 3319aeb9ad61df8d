-------------------------- MODULE TerminalPipeline --------------------------
(***************************************************************************)
(* The way of the input and the output of a shell: the client's connection,*)
(* the session thread of the server (TerminalServer::runTerminal), the     *)
(* socket pair between server and etterminal, UserTerminalHandler and the  *)
(* pty.  Every buffer on the way is bounded and both loops are single      *)
(* threads, so each may wait for the other.                                *)
(*                                                                         *)
(* A unit is a packet of input or as much output; the shell echoes what it *)
(* reads and may print more.  Keepalives and forwarded ports are left to   *)
(* KeepaliveLoop and PortForward.                                          *)
(***************************************************************************)
EXTENDS Naturals, FiniteSetsExt

CONSTANTS
    TotalInput,  \* bound: units the client sends
    MaxPrint,    \* bound: units the shell prints on its own
    MaxFaults,   \* bound: links to the client that fail
    InCap,       \* capacity of the socket from server to etterminal
    OutCap,      \* ... and from etterminal to server
    LowWater,    \* free space from which select() calls a socket writable
    Chunk,       \* most output one read() returns (BUF_SIZE)
    PtyCap,      \* capacity of the pty in each direction
    MaxPending,  \* maxPendingInput
    BufCap,      \* what canBufferWrite lets a lost connection hold back
    RateLimit    \* output per second unless noratelimit; 0 is no limit

PipelineAssumption ==
    /\ \A n \in {TotalInput, MaxPrint, MaxFaults, RateLimit} : n \in Nat
    /\ \A n \in {InCap, OutCap, LowWater, Chunk, PtyCap, MaxPending, BufCap} :
          n \in Nat \ {0}

VARIABLES
    toSend,    \* input the client has not sent yet
    sock,      \* input on the client's socket
    up,        \* the client is connected
    shown,     \* output written to the client's socket
    held,      \* output buffered by the connection without a socket
    spc,       \* the session thread: where it is, "ended", or "crashed" when
               \* the server process has died
    inPipe, outPipe,
    hung,      \* etterminal has closed its end
    upc,       \* UserTerminalHandler: where it is
    sel,       \* what its select() reported: subset of {"pty", "router"}
    left,      \* output of one read() still to be written
    perSecond, \* outputPerSecond
    pending,   \* pendingInput
    ptyIn, ptyOut,
    shell,     \* the shell is running
    printed,   \* output of the shell so far
    dropped,   \* input was under way to a shell that had ended
    faults

client  == <<toSend, sock, up, faults>>
session == <<shown, held, spc>>
handler == <<upc, sel, left, perSecond, pending>>
pty     == <<ptyIn, ptyOut, shell, printed>>
vars == <<toSend, sock, up, shown, held, spc, inPipe, outPipe, hung, upc, sel,
          left, perSecond, pending, ptyIn, ptyOut, shell, printed, dropped,
          faults>>

MaxOutput == TotalInput + MaxPrint

\* Input on its way to the pty.
Unread == toSend + sock + inPipe + pending + (IF spc = "write" THEN 1 ELSE 0)

\* The types; the bounds are the buffers' capacities.
TypeOK ==
    /\ toSend \in 0..TotalInput /\ sock \in 0..TotalInput
    /\ up \in BOOLEAN /\ hung \in BOOLEAN
    /\ shell \in BOOLEAN /\ dropped \in BOOLEAN
    /\ shown \in 0..MaxOutput /\ printed \in 0..MaxOutput
    /\ held \in 0..(BufCap + Chunk)
    /\ spc \in {"top", "input", "write", "ended", "crashed"}
    /\ inPipe \in 0..InCap /\ outPipe \in 0..OutCap
    /\ upc \in {"top", "pty", "out", "router", "drain", "over"}
    /\ sel \subseteq {"pty", "router"}
    /\ left \in 0..Chunk /\ pending \in 0..MaxPending
    /\ perSecond \in 0..(RateLimit + Chunk)
    /\ ptyIn \in 0..PtyCap /\ ptyOut \in 0..PtyCap
    /\ faults \in 0..MaxFaults

Init ==
    /\ toSend = TotalInput /\ sock = 0 /\ up = TRUE
    /\ shown = 0 /\ held = 0 /\ spc = "top"
    /\ inPipe = 0 /\ outPipe = 0 /\ hung = FALSE
    /\ upc = "top" /\ sel = {} /\ left = 0 /\ perSecond = 0 /\ pending = 0
    /\ ptyIn = 0 /\ ptyOut = 0 /\ shell = TRUE /\ printed = 0
    /\ dropped = FALSE
    /\ faults = 0

-----------------------------------------------------------------------------
(* Mutated forms of the definitions below.                                 *)

DrainBlocks ==
    /\ upc = "drain"
    /\ (pending > 0 /\ shell) => ptyIn < PtyCap
    /\ LET n == Min({pending, PtyCap - ptyIn})
       IN  pending' = pending - n /\ ptyIn' = ptyIn + n
    /\ upc' = "top"
    /\ UNCHANGED <<client, session, inPipe, outPipe, hung, sel, left, perSecond,
                   ptyOut, shell, printed, dropped>>

SessionOutputUnheld ==
    /\ spc = "top"
    /\ (up \/ held < BufCap) /\ outPipe > 0
    /\ LET n == Min({outPipe, Chunk})
       IN  /\ outPipe' = outPipe - n
           /\ shown' = IF up THEN shown + n ELSE shown
    /\ spc' = "input"
    /\ UNCHANGED <<client, held, inPipe, hung, handler, pty, dropped>>

RouterReadIgnoresEof ==
    /\ upc = "router"
    /\ IF "router" \in sel /\ inPipe > 0
       THEN inPipe' = inPipe - 1 /\ pending' = pending + 1
       ELSE UNCHANGED <<inPipe, pending>>
    /\ upc' = "drain"
    /\ UNCHANGED <<client, session, outPipe, hung, sel, left, perSecond, pty,
                   dropped>>

-----------------------------------------------------------------------------
(* The client.                                                             *)

Send ==
    /\ up /\ toSend > 0 /\ spc # "ended"
    /\ toSend' = toSend - 1
    /\ sock' = sock + 1
    /\ UNCHANGED <<up, faults, session, inPipe, outPipe, hung, handler, pty,
                   dropped>>

\* What was under way is resent after the recovery.
LinkFails ==
    /\ up /\ faults < MaxFaults
    /\ up' = FALSE
    /\ toSend' = toSend + sock
    /\ sock' = 0
    /\ faults' = faults + 1
    /\ UNCHANGED <<session, inPipe, outPipe, hung, handler, pty, dropped>>

\* Recovery hands over the output held back.
Reconnect ==
    /\ ~up /\ spc \notin {"ended", "crashed"}
    /\ up' = TRUE
    /\ shown' = shown + held
    /\ held' = 0
    /\ UNCHANGED <<toSend, sock, faults, spc, inPipe, outPipe, hung, handler,
                   pty, dropped>>

\* etserver dies, with all its sockets.
ServerCrashes ==
    /\ spc \notin {"ended", "crashed"}
    /\ spc' = "crashed"
    /\ up' = FALSE
    /\ UNCHANGED <<toSend, sock, faults, shown, held, inPipe, outPipe, hung,
                   handler, pty, dropped>>

-----------------------------------------------------------------------------
(* TerminalServer::runTerminal.                                            *)

CanBuffer == up \/ held < BufCap

\* select, then read(terminalFd) and writePacket.
SessionOutput ==
    /\ spc = "top"
    /\ CanBuffer /\ outPipe > 0
    /\ LET n == Min({outPipe, Chunk})
       IN  /\ outPipe' = outPipe - n
           /\ shown' = IF up THEN shown + n ELSE shown
           /\ held' = IF up THEN held ELSE held + n
    /\ spc' = "input"
    /\ UNCHANGED <<client, inPipe, hung, handler, pty, dropped>>

SessionNoOutput ==
    /\ spc = "top"
    /\ ~CanBuffer \/ (outPipe = 0 /\ ~hung)
    /\ spc' = "input"
    /\ UNCHANGED <<client, shown, held, inPipe, outPipe, hung, handler, pty,
                   dropped>>

\* End of file from etterminal: the session ends and the client is removed.
SessionEof ==
    /\ spc = "top"
    /\ CanBuffer /\ outPipe = 0 /\ hung
    /\ spc' = "ended"
    /\ UNCHANGED <<client, shown, held, inPipe, outPipe, hung, handler, pty,
                   dropped>>

\* while (hasData()): the next packet of the client.
SessionInput ==
    /\ spc = "input"
    /\ IF up /\ sock > 0
       THEN sock' = sock - 1 /\ spc' = "write"
       ELSE spc' = "top" /\ UNCHANGED sock
    /\ UNCHANGED <<toSend, up, faults, shown, held, inPipe, outPipe, hung,
                   handler, pty, dropped>>

\* writeAllOrThrow(terminalFd) waits for space, without a timeout; it throws
\* once etterminal has gone, which closes the client's socket.
SessionWrite ==
    /\ spc = "write"
    /\ IF hung
       THEN /\ up' = FALSE
            /\ toSend' = toSend + sock
            /\ sock' = 0
            /\ spc' = "top"
            /\ dropped' = TRUE
            /\ UNCHANGED inPipe
       ELSE /\ inPipe < InCap
            /\ inPipe' = inPipe + 1
            /\ spc' = "input"
            /\ UNCHANGED <<toSend, sock, up, dropped>>
    /\ UNCHANGED <<faults, shown, held, outPipe, hung, handler, pty>>

-----------------------------------------------------------------------------
(* UserTerminalHandler::runUserTerminal.                                   *)

\* The descriptors select() reports: output is asked for only if the router
\* is writable, input only if pendingInput has room.
Selected ==
    (IF pending < MaxPending /\ (inPipe > 0 \/ spc = "crashed")
     THEN {"router"} ELSE {})
    \cup (IF (OutCap - outPipe >= LowWater \/ spc = "crashed")
             /\ (ptyOut > 0 \/ ~shell)
          THEN {"pty"} ELSE {})

Select ==
    /\ upc = "top"
    /\ sel' = Selected
    /\ perSecond' \in {0, perSecond}
    /\ upc' = "pty"
    /\ UNCHANGED <<client, session, inPipe, outPipe, hung, left, pending, pty,
                   dropped>>

RateAllows == RateLimit = 0 \/ perSecond < RateLimit

PtyRead ==
    /\ upc = "pty" /\ "pty" \in sel /\ RateAllows /\ ptyOut > 0
    /\ LET n == Min({ptyOut, Chunk})
       IN  /\ ptyOut' = ptyOut - n
           /\ left' = n
           /\ perSecond' = IF RateLimit = 0 THEN 0 ELSE perSecond + n
    /\ upc' = "out"
    /\ UNCHANGED <<client, session, inPipe, outPipe, hung, sel, pending, ptyIn,
                   shell, printed, dropped>>

\* read() returns 0 or EIO: the shell has ended and its output is read.
PtyEof ==
    /\ upc = "pty" /\ "pty" \in sel /\ RateAllows /\ ptyOut = 0 /\ ~shell
    /\ upc' = "over"
    /\ hung' = TRUE
    /\ dropped' = (dropped \/ pending > 0 \/ inPipe > 0)
    /\ UNCHANGED <<client, session, inPipe, outPipe, sel, left, perSecond,
                   pending, pty>>

PtySkipped ==
    /\ upc = "pty" /\ ("pty" \notin sel \/ ~RateAllows)
    /\ upc' = "router"
    /\ UNCHANGED <<client, session, inPipe, outPipe, hung, sel, left, perSecond,
                   pending, pty, dropped>>

\* writeAllOrThrow(routerFd): waits for space; throws once the server has
\* closed the socket.
OutWrite ==
    /\ upc = "out"
    /\ IF left = 0 \/ spc = "crashed"
       THEN /\ upc' = IF left = 0 THEN "router" ELSE "over"
            /\ UNCHANGED <<outPipe, left>>
       ELSE /\ outPipe < OutCap
            /\ outPipe' = outPipe + 1
            /\ left' = left - 1
            /\ UNCHANGED upc
    /\ UNCHANGED <<client, session, inPipe, hung, sel, perSecond, pending, pty,
                   dropped>>

\* A packet of input, or the end of the server ("Router has ended abruptly").
RouterRead ==
    /\ upc = "router"
    /\ IF "router" \in sel /\ inPipe > 0
       THEN inPipe' = inPipe - 1 /\ pending' = pending + 1
       ELSE UNCHANGED <<inPipe, pending>>
    /\ upc' = IF "router" \in sel /\ inPipe = 0 THEN "over" ELSE "drain"
    /\ UNCHANGED <<client, session, outPipe, hung, sel, left, perSecond, pty,
                   dropped>>

\* A non-blocking write to the pty; it fails for good once the shell is gone.
Drain ==
    /\ upc = "drain"
    /\ IF pending > 0 /\ ~shell
       THEN /\ upc' = "over" /\ hung' = TRUE /\ dropped' = TRUE
            /\ UNCHANGED <<pending, ptyIn>>
       ELSE /\ LET n == Min({pending, PtyCap - ptyIn})
               IN  pending' = pending - n /\ ptyIn' = ptyIn + n
            /\ upc' = "top"
            /\ UNCHANGED <<hung, dropped>>
    /\ UNCHANGED <<client, session, inPipe, outPipe, sel, left, perSecond,
                   ptyOut, shell, printed>>

-----------------------------------------------------------------------------
(* The shell.                                                              *)

Echo ==
    /\ shell /\ ptyIn > 0 /\ ptyOut < PtyCap
    /\ ptyIn' = ptyIn - 1
    /\ ptyOut' = ptyOut + 1
    /\ printed' = printed + 1
    /\ UNCHANGED <<client, session, inPipe, outPipe, hung, handler, shell,
                   dropped>>

ShellPrints ==
    /\ shell /\ ptyOut < PtyCap
    /\ printed + ptyIn + Unread < MaxOutput
    /\ ptyOut' = ptyOut + 1
    /\ printed' = printed + 1
    /\ UNCHANGED <<client, session, inPipe, outPipe, hung, handler, ptyIn, shell,
                   dropped>>

ShellExits ==
    /\ shell
    /\ shell' = FALSE
    /\ ptyIn' = 0
    /\ dropped' = (dropped \/ ptyIn > 0)
    /\ UNCHANGED <<client, session, inPipe, outPipe, hung, handler, ptyOut,
                   printed>>

-----------------------------------------------------------------------------
SessionThread ==
    \/ SessionOutput
    \/ SessionNoOutput
    \/ SessionEof
    \/ SessionInput
    \/ SessionWrite

TerminalHandler ==
    \/ Select
    \/ PtyRead
    \/ PtyEof
    \/ PtySkipped
    \/ OutWrite
    \/ RouterRead
    \/ Drain

Next ==
    \/ Send
    \/ LinkFails
    \/ Reconnect
    \/ ServerCrashes
    \/ SessionThread
    \/ TerminalHandler
    \/ Echo
    \/ ShellPrints
    \/ ShellExits

Spec == Init /\ [][Next]_vars

\* Both loops and the shell keep running when they can, the client sends and
\* reconnects in the end, and every second ends (Select may reset perSecond).
Fairness ==
    /\ WF_vars(Send) /\ WF_vars(Reconnect)
    /\ WF_vars(SessionThread) /\ WF_vars(TerminalHandler)
    /\ WF_vars(Echo)
    /\ SF_vars(Select /\ perSecond' = 0)

FairSpec == Spec /\ Fairness

-----------------------------------------------------------------------------
(* Properties.                                                             *)

\* A shell's last words are not lost: when the session ends without input
\* still on its way to the shell and without an outage, the client has all
\* the shell printed, although two loops and four buffers hold parts of it.
LastOutputDelivered ==
    (spc = "ended" /\ ~dropped /\ faults = 0) => shown = printed

\* No output is lost or duplicated on the way, whatever the client's link, the
\* shell or the server does: what the shell has printed has been written to the
\* client or is in exactly one of the buffers.
OutputAccounted == printed = shown + held + outPipe + left + ptyOut

\* Input is never duplicated, so no buffer on the way gets more than the client
\* has typed, and the shell's output stays within what it was given and prints.
InputBounded ==
    /\ Unread + ptyIn <= TotalInput
    /\ printed + ptyIn + Unread <= MaxOutput

\* What the two loops rely on: a chunk of output is in hand only while it is
\* written (or was when the server died), the room select() saw in pendingInput
\* is still there when the packet is read, and the session is over only after
\* etterminal has hung up.
LoopsAgree ==
    /\ left > 0 => upc = "out" \/ (upc = "over" /\ spc = "crashed")
    /\ "router" \in sel /\ upc \in {"pty", "out", "router"} => pending < MaxPending
    /\ hung => upc = "over"
    /\ hung /\ ~dropped => ~shell /\ ptyOut = 0 /\ left = 0
    /\ spc = "ended" => hung /\ outPipe = 0
    /\ ~dropped /\ faults = 0 => held = 0 /\ (up \/ spc = "crashed")

\* The inductive invariant: every buffer keeps its bound, no output is lost or
\* duplicated, and a session that ends without input on its way to the shell
\* and without an outage has shown all of it.
PipelineInv ==
    /\ TypeOK
    /\ OutputAccounted
    /\ InputBounded
    /\ LoopsAgree
    /\ LastOutputDelivered

\* What the client types reaches the shell, as long as there is one.
InputReachesShell ==
    toSend > 0 ~> (Unread = 0 \/ ~shell \/ spc = "crashed")

\* After the shell has ended the session ends, whatever is still buffered.
EndIsNoticed == ~shell ~> spc \in {"ended", "crashed"}

\* When the server has died the terminal handler ends its session, although
\* it does not look at the router while pendingInput is full.
CrashIsNoticed == spc = "crashed" ~> upc = "over"
=============================================================================
