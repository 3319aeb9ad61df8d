------------------------------- MODULE MCHtm -------------------------------
(***************************************************************************)
(* htmd for TLC: the tabs, splits and panes (Multiplexer) and what it      *)
(* keeps of the output of one pane (ScrollBack).  Output does not change   *)
(* the tree, so the two are checked side by side: in a behaviour the       *)
(* component that part names runs from its initial state.                  *)
(***************************************************************************)
EXTENDS Multiplexer

CONSTANTS
    \* ScrollBack
    MaxBufferLines, MaxBufferChars, ReadSize, MaxOut

VARIABLES part,
    \* ScrollBack
    out, buffer, bufferLength, screen, run, connected

Lines == INSTANCE ScrollBack

ASSUME HtmAssumption == MultiplexerAssumption /\ Lines!ScrollBackAssumption

paneVars == vars
lineVars == <<out, buffer, bufferLength, screen, run, connected>>
htmVars == <<part, paneVars, lineVars>>

HtmInit == part \in {"panes", "lines"} /\ Init /\ Lines!Init

PanesNext == part = "panes" /\ Next /\ UNCHANGED <<part, lineVars>>
LinesNext == part = "lines" /\ Lines!Next /\ UNCHANGED <<part, paneVars>>

HtmNext == PanesNext \/ LinesNext

HtmSpec == HtmInit /\ [][HtmNext]_htmVars

-----------------------------------------------------------------------------
(* The components' properties; their modules state them.  PanesInv is      *)
(* checked as Multiplexer has it.                                          *)

\* Multiplexer: a pane whose shell has ended is closed, although update()
\* closes one per call.
DeadPaneCloses == part = "panes" => (Fairness => EndedPaneCloses)

\* ScrollBack: bufferLength is the length of the kept lines, however they were
\* cut, nothing is cut before a limit is reached, and a client, also one that
\* comes back, sees the newest output and all of it that is kept.
LinesInv ==
    /\ Lines!TypeOK
    /\ Lines!LengthExact
    /\ Lines!NewestCharsShown
    /\ Lines!KeptWithinLimits
=============================================================================
