----------------------------- MODULE MCTerminal -----------------------------
(***************************************************************************)
(* A terminal session above its connection, for TLC: the packets and       *)
(* timers of the two loops (KeepaliveLoop) and the way of the bytes between *)
(* client and shell (TerminalPipeline).  Keepalives never reach the pipes, *)
(* so the two are checked side by side: in a behaviour the component that  *)
(* part names runs from its initial state, and the other stays in its own. *)
(***************************************************************************)
EXTENDS KeepaliveLoop

CONSTANTS TotalInput, MaxPrint, MaxDrops, InCap, OutCap, LowWater, Chunk, PtyCap,
          MaxPending, BufCap, RateLimit

VARIABLES part,
    toSend, sock, up, shown, held, spc, inPipe, outPipe, hung, upc, sel, left,
    perSecond, pending, ptyIn, ptyOut, shell, printed, dropped, drops

P == INSTANCE TerminalPipeline WITH MaxFaults <- MaxDrops, faults <- drops

ASSUME TerminalAssumption == KeepaliveAssumption /\ P!PipelineAssumption

loopVars == vars
pipelineVars == <<toSend, sock, up, shown, held, spc, inPipe, outPipe, hung, upc,
                  sel, left, perSecond, pending, ptyIn, ptyOut, shell, printed,
                  dropped, drops>>
terminalVars == <<part, loopVars, pipelineVars>>

TerminalInit == part \in {"pipeline", "loop"} /\ Init /\ P!Init

LoopNext     == part = "loop" /\ Next /\ UNCHANGED <<part, pipelineVars>>
PipelineNext == part = "pipeline" /\ P!Next /\ UNCHANGED <<part, loopVars>>

TerminalNext == LoopNext \/ PipelineNext

TerminalSpec == TerminalInit /\ [][TerminalNext]_terminalVars

-----------------------------------------------------------------------------
(* The components' properties; their modules state them.  LoopInv is       *)
(* checked as KeepaliveLoop has it.                                        *)

\* TerminalPipeline: no output is lost or duplicated between two loops and
\* four bounded buffers, and when the session ends the client has all of it.
PipelineInv == P!PipelineInv

\* TerminalPipeline: what is typed reaches the shell while it fits the buffers.
InputReachesShell == part = "pipeline" => (P!Fairness => P!InputReachesShell)

\* TerminalPipeline: the end of the shell ends the session, and the terminal
\* handler ends when the server has died.
EndIsNoticed ==
    part = "pipeline" => (P!Fairness => P!EndIsNoticed /\ P!CrashIsNoticed)

\* KeepaliveLoop: packets that a recovery has put into localBuffer are read,
\* although no byte follows them on the socket.
BufferIsRead == part = "loop" => (Fairness => CaughtUpIsDelivered)
=============================================================================
