------------------------------ MODULE MCConfig ------------------------------
(***************************************************************************)
(* What et is told, for TLC: the ssh config (SshConfig), the host patterns *)
(* in it (HostPattern) and the tunnel arguments (TunnelArgs).  SshConfig   *)
(* takes of a pattern only its result and TunnelArgs of the config only    *)
(* its forwards, so the three are checked side by side: in a behaviour the *)
(* component that part names runs from its initial state.                  *)
(***************************************************************************)
EXTENDS Integers

CONSTANTS
    \* SshConfig
    Lines, LongLines, CommandLines, LocalUser, None, MaxLines, MaxOpen,
    LongMaxLines, LongMaxOpen,
    \* TunnelArgs
    Elements, MaxElements, MaxForwards,
    \* HostPattern
    Chars, Wild

VARIABLES part,
    file, open, parsing, seen, options, log, client,
    arg, typed, outcome,
    host, subs, result

\* Short files with every kind of line, longer ones with fewer.
File == INSTANCE SshConfig
LongFile == INSTANCE SshConfig
    WITH Lines <- LongLines, MaxLines <- LongMaxLines, MaxOpen <- LongMaxOpen

Tunnels == INSTANCE TunnelArgs

\* One pattern, or a list in which some are too long.
Pattern == INSTANCE HostPattern
    WITH SubSize <- 6, MaxHost <- 3, MaxPattern <- 4, MaxSubs <- 1
PatternList == INSTANCE HostPattern
    WITH SubSize <- 4, MaxHost <- 2, MaxPattern <- 3, MaxSubs <- 2

ASSUME /\ File!SshConfigAssumption /\ LongFile!SshConfigAssumption
       /\ Tunnels!TunnelArgsAssumption
       /\ Pattern!HostPatternAssumption /\ PatternList!HostPatternAssumption

fileVars    == <<file, open, parsing, seen, options, log, client>>
tunnelVars  == <<arg, typed, outcome>>
patternVars == <<host, subs, result>>
vars == <<part, fileVars, tunnelVars, patternVars>>

Init == /\ part \in {"file", "longFile", "tunnels", "pattern", "patternList"}
        /\ File!Init /\ Tunnels!Init /\ Pattern!Init

FileNext == /\ \/ part = "file" /\ File!Next
               \/ part = "longFile" /\ LongFile!Next
            /\ UNCHANGED <<part, tunnelVars, patternVars>>
TunnelsNext == /\ part = "tunnels" /\ Tunnels!Next
               /\ UNCHANGED <<part, fileVars, patternVars>>
PatternNext == /\ \/ part = "pattern" /\ Pattern!Next
                  \/ part = "patternList" /\ PatternList!Next
               /\ UNCHANGED <<part, fileVars, tunnelVars>>

Next == FileNext \/ TunnelsNext \/ PatternNext

Spec == Init /\ [][Next]_vars

-----------------------------------------------------------------------------
(* Inputs.                                                                 *)

L(k, v) == [key |-> k, val |-> v]

\* Every kind of line.
MCLines ==
    {L("Host", <<1>>), L("Host", <<0>>), L("Host", <<1, -1>>), L("Host", <<1, 0>>),
     L("Match", L("Host", <<0>>)), L("Match", L("User", "u2")), L("Include", 1),
     L("Include", 0), L("Include", -1), L("Unsupported", None),
     L("Port", 0), L("Port", 22), L("Port", 65544), L("User", "u1"), L("User", None),
     L("ProxyJump", "j"), L("HostName", [host |-> "h1", user |-> None]),
     L("HostName", [host |-> "h2", user |-> "hu"]),
     L("ForwardAgent", 1), L("ForwardAgent", 0), L("ForwardAgent", -1),
     L("LocalForward", [local |-> 80, remote |-> 81]),
     L("LocalForward", [local |-> 82, remote |-> None]),
     L("Protocol", {1, 3}), L("ConnectTimeout", 5), L("ProxyCommand", "none"),
     L("IdentityAgent", "a"), L("SetEnv", [entry |-> "e", quoted |-> TRUE]),
     L("SetEnv", [entry |-> "f", quoted |-> FALSE])}

\* Fewer of them, for longer files.
MCLongLines ==
    {L("Host", <<1, 0>>), L("Host", <<1, -1>>), L("Include", 1), L("Port", 0), L("Port", 22),
     L("User", "u1"), L("ForwardAgent", 1), L("ForwardAgent", 0),
     L("HostName", [host |-> "h2", user |-> "hu"])}

MCCommandLines == {[user |-> None, jumphost |-> None], [user |-> "cu", jumphost |-> None],
                   [user |-> None, jumphost |-> "cj"]}

\* The fields of TunnelArgs.
Field(k, m, n) == [kind |-> k, a |-> m, b |-> n]
Num(n) == Field("num", n, n)
RangeField(m, n) == Field("range", m, n)
Name(k) == Field(k, 0, 0)

MCElements ==
    {<<Num(1), Num(2)>>, <<Num(1)>>, <<RangeField(1, 3), RangeField(4, 6)>>,
     <<RangeField(1, 3), RangeField(4, 5)>>, <<RangeField(3, 1), RangeField(6, 4)>>,
     <<RangeField(5, 5), RangeField(9, 9)>>, <<Num(1), RangeField(1, 2)>>,
     <<Name("sock"), Name("sock")>>, <<Name("sock"), Num(3)>>,
     <<Num(3), Name("sock")>>, <<RangeField(1, 3), Name("sock")>>,
     <<Name("sock"), RangeField(1, 3)>>,
     <<Name("word"), Name("sock")>>, <<Name("word"), Name("word")>>,
     <<Name("word"), Num(1)>>, <<Name("sock"), Name("word")>>,
     <<Name("word"), Num(1), Name("word"), Num(2)>>,
     <<Name("addr"), Num(1), Name("addr"), Num(2)>>,
     <<Name("addr0"), Num(1), Name("addr"), Num(2)>>,
     <<Num(1), Name("word"), Num(2)>>, <<Field("half", 1, 1), RangeField(1, 2)>>}

-----------------------------------------------------------------------------
(* The components' properties; their modules state them.                   *)

\* SshConfig: a block reaches to the next Host line, through included files;
\* which of several settings counts depends on the lines and files alone; and
\* the command line comes before the files, these before the defaults.
SettingsInv ==
    /\ part = "file" =>
          /\ File!TypeOK
          /\ File!BlocksAsWritten
          /\ File!ForwardsAccumulate
          /\ File!Precedence
    /\ part = "longFile" =>
          /\ LongFile!TypeOK
          /\ LongFile!BlocksAsWritten
          /\ LongFile!FirstSettingWins
          /\ LongFile!LaterFileWins

\* TunnelArgs: what is accepted, and has no range on one side only, requests
\* exactly the ports written, and a list is accepted as a whole or not at all.
TunnelInv ==
    part = "tunnels" =>
        Tunnels!TypeOK /\ Tunnels!RequestsAsAsked /\ Tunnels!NothingDropped

\* HostPattern: match_hostname agrees with laying the patterns over the name, a
\* negated match decides wherever it stands, and a subpattern that does not
\* fit its buffer never opens a block.
PatternInv ==
    /\ part = "pattern" => Pattern!ListDecides
    /\ part = "patternList" =>
          PatternList!ListDecides /\ PatternList!TooLongNeverMatches
=============================================================================
