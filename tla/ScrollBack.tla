----------------------------- MODULE ScrollBack -----------------------------
(***************************************************************************)
(* TerminalHandler of one htm pane: the lines it keeps of the shell's      *)
(* output, and what MultiplexerState shows the client: the new bytes while *)
(* it is connected, the kept lines when it comes back.                     *)
(*                                                                         *)
(* A character is its position in the output; a newline is 0.              *)
(***************************************************************************)
EXTENDS Integers, SequencesExt, FiniteSetsExt

CONSTANTS
    MaxBufferLines,  \* MAX_BUFFER_LINES
    MaxBufferChars,  \* MAX_BUFFER_CHARS
    ReadSize,        \* BUF_SIZE
    MaxOut           \* bound: bytes the shell prints

ScrollBackAssumption ==
    /\ MaxBufferLines \in Nat \ {0} /\ MaxBufferChars \in Nat \ {0}
    /\ ReadSize \in Nat \ {0} /\ MaxOut \in Nat

VARIABLES
    out,           \* everything the shell has printed and the pane has read
    buffer,        \* the kept lines
    bufferLength,
    screen,        \* what the client has been sent since it connected
    run,           \* the shell has not ended
    connected

vars == <<out, buffer, bufferLength, screen, run, connected>>

Char == 0..MaxOut
Chars(s) == FlattenSeq([i \in DOMAIN s |-> IF s[i] = 0 THEN <<>> ELSE <<s[i]>>])
LineLength(b) == Len(FlattenSeq(b))

TypeOK ==
    /\ out \in Seq(Char) /\ buffer \in Seq(Seq(Char)) /\ screen \in Seq(Char)
    /\ bufferLength \in 0..MaxBufferChars
    /\ Len(buffer) <= MaxBufferLines
    /\ run \in BOOLEAN /\ connected \in BOOLEAN

Init ==
    /\ out = <<>> /\ buffer = <<>> /\ bufferLength = 0
    /\ screen = <<>> /\ run = TRUE /\ connected = TRUE

-----------------------------------------------------------------------------
(* split() with getline: nothing follows the last delimiter.               *)

Pieces(s) ==
    LET continued(ps, c) == Append(Front(ps), Append(Last(ps), c))
        pieces[i \in 0..Len(s)] ==
            IF i = 0 THEN <<<<>>>>
            ELSE IF s[i] = 0 THEN Append(pieces[i - 1], <<>>)
            ELSE continued(pieces[i - 1], s[i])
    IN  pieces[Len(s)]

Tokens(s) == IF Last(s) = 0 THEN Front(Pieces(s)) ELSE Pieces(s)

\* The first token continues the last kept line.
Added(b, tokens) ==
    IF b = <<>> THEN tokens
    ELSE Append(Front(b), Last(b) \o Head(tokens)) \o Tail(tokens)

\* Mutated form: the newest line is cut.
CutCharsFromBack(x) ==
    LET fits == {i \in 0..Len(x.lines) :
                    x.length - LineLength(SubSeq(x.lines, i + 1, Len(x.lines)))
                        <= MaxBufferChars}
    IN  [lines |-> SubSeq(x.lines, 1, Max(fits)),
         length |-> LineLength(SubSeq(x.lines, 1, Max(fits)))]

CutLines(b, n) ==
    LET cut == Max({0, Len(b) - MaxBufferLines})
    IN  [lines |-> SubSeq(b, cut + 1, Len(b)),
         length |-> n - LineLength(SubSeq(b, 1, cut))]

\* while (bufferLength > MAX_BUFFER_CHARS) pop_front.
CutChars(x) ==
    LET left(i) == x.length - LineLength(SubSeq(x.lines, 1, i))
        i == Min({j \in 0..Len(x.lines) : left(j) <= MaxBufferChars})
    IN  [lines |-> SubSeq(x.lines, i + 1, Len(x.lines)), length |-> left(i)]

-----------------------------------------------------------------------------
Chunks ==
    {[i \in 1..n |-> IF i \in nl THEN 0 ELSE Len(out) + i] :
        n \in 1..ReadSize, nl \in SUBSET (1..ReadSize)}

\* pollUserTerminal with data, called by update() for a connected client.
Poll(s) ==
    /\ run /\ connected /\ Len(out) + Len(s) <= MaxOut
    /\ LET kept == CutChars(CutLines(Added(buffer, Tokens(s)),
                                bufferLength + LineLength(Tokens(s))))
       IN  buffer' = kept.lines /\ bufferLength' = kept.length
    /\ out' = out \o s
    /\ screen' = screen \o s
    /\ UNCHANGED <<run, connected>>

\* The read fails or ends: update() closes the pane.
PollEnds ==
    /\ run /\ connected
    /\ run' = FALSE
    /\ UNCHANGED <<out, buffer, bufferLength, screen, connected>>

Disconnect ==
    /\ connected /\ connected' = FALSE
    /\ UNCHANGED <<out, buffer, bufferLength, screen, run>>

\* sendTerminalBuffers joins the kept lines; an empty start gets no newline.
Joined(b) ==
    LET first(i) == \A j \in 1..(i - 1) : b[j] = <<>>
    IN  FlattenSeq([i \in DOMAIN b |-> IF first(i) THEN b[i] ELSE <<0>> \o b[i]])

Reconnect ==
    /\ run /\ ~connected
    /\ connected' = TRUE /\ screen' = Joined(buffer)
    /\ UNCHANGED <<out, buffer, bufferLength, run>>

Next ==
    \/ \E s \in Chunks : Poll(s)
    \/ PollEnds
    \/ Disconnect
    \/ Reconnect

Spec == Init /\ [][Next]_vars

-----------------------------------------------------------------------------
(* Properties.                                                             *)

\* bufferLength is the length of the kept lines, however they were cut: the
\* loop that pops lines stops before the deque is empty and counts on.
LengthExact == bufferLength = LineLength(buffer)

\* The client sees the newest output: what it shows is, but for newlines, the
\* end of what the shell has printed, and reaches back at least as far as the
\* kept lines do, also when it comes back.
NewestCharsShown ==
    /\ IsSuffix(Chars(screen), Chars(out))
    /\ IsSuffix(FlattenSeq(buffer), Chars(screen))

\* Nothing is cut before a limit is reached.
KeptWithinLimits ==
    (/\ Len(Chars(out)) <= MaxBufferChars
     /\ Len(out) - Len(Chars(out)) < MaxBufferLines) =>
        LineLength(buffer) = Len(Chars(out))

\* The buffered lines are replayed when a client reconnects: characters side
\* by side on the screen were printed side by side, without a line break that
\* is lost between them.
\* Does not hold: see Known deviations in README.md.
LinesReplayed ==
    \A i \in 2..Len(screen) :
        screen[i - 1] # 0 /\ screen[i] # 0 => screen[i] = screen[i - 1] + 1
=============================================================================
