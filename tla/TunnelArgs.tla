----------------------------- MODULE TunnelArgs -----------------------------
(***************************************************************************)
(* TunnelUtils: from the -t or -r argument, with the LocalForward entries  *)
(* of the ssh config that main joins to it, to port forward requests.      *)
(*                                                                         *)
(* An argument is a sequence of elements (split at commas), an element the *)
(* sequence of its fields outside brackets (split at colons).  A field is  *)
(* a record whose kind says how the code tells it apart:                   *)
(*   num   "80"        range "80-82"      half "80-"                       *)
(*   sock  "/a/path"   word  any other name   empty ""                     *)
(*   addr  "[2001:db8::1]"   addr0 "[::1]"                                 *)
(***************************************************************************)
EXTENDS Integers, SequencesExt, FiniteSetsExt

CONSTANTS
    Elements,     \* the elements that arguments are made of
    MaxElements,  \* bound: elements on the command line
    MaxForwards   \* bound: LocalForward entries of the config

Num(n) == [kind |-> "num", a |-> n, b |-> n]
RangeField(m, n) == [kind |-> "range", a |-> m, b |-> n]
Half(n) == [kind |-> "half", a |-> n, b |-> n]
Name(k) == [kind |-> k, a |-> 0, b |-> 0]

TunnelArgsAssumption ==
    /\ \A e \in Elements : e # <<>>
    /\ MaxElements \in Nat \ {0} /\ MaxForwards \in Nat

VARIABLES
    arg,       \* the elements of the argument so far
    typed,     \* how many of them the user wrote
    outcome    \* what parseRangesToRequests gives

vars == <<arg, typed, outcome>>

Pending == [status |-> "pending", requests |-> <<>>]
ParseError == [status |-> "TunnelParseException", requests |-> <<>>]
LogicError == [status |-> "logic_error", requests |-> <<>>]
Undefined == [status |-> "undefined", requests |-> <<>>]
Requests(rs) == [status |-> "ok", requests |-> rs]

Init == arg = <<>> /\ typed = 0 /\ outcome = Pending

-----------------------------------------------------------------------------
(* How the code tells fields apart.                                        *)

IsSocketPath(f) == f.kind = "sock"
\* Nothing but digits and dashes.
IsNumeric(f) == f.kind \in {"num", "range", "half", "empty"}
HasDash(f) == f.kind \in {"range", "half"}
\* stoi reads the number that a field begins with.
StoiFails(f) == f.kind \notin {"num", "range", "half"}

\* split() at every colon cuts a bracketed address in pieces.
Split(e) ==
    FlattenSeq([i \in DOMAIN e |->
        CASE e[i].kind = "addr" -> <<Name("word"), Name("word")>>
          [] e[i].kind = "addr0" -> <<Name("word"), Name("empty"), Name("word")>>
          [] OTHER -> <<e[i]>>])

\* An endpoint without a port.
Path == -1
Environment == -2

Endpoint(f) == IF IsSocketPath(f) THEN Path ELSE f.a

SocketRequest(src, dst) ==
    IF \E f \in {src, dst} : ~IsSocketPath(f) /\ StoiFails(f) THEN ParseError
    ELSE Requests(<<[source |-> Endpoint(src), destination |-> Endpoint(dst)]>>)

EnvironmentRequest == Requests(<<[source |-> Environment, destination |-> Path]>>)

\* Mutated form: the end of the range left out.
RangeRequestsExclusive(src, dst) ==
    IF "half" \in {src.kind, dst.kind} THEN Undefined
    ELSE IF src.b - src.a # dst.b - dst.a THEN ParseError
    ELSE Requests([i \in 1..(src.b - src.a) |->
                    [source |-> src.a + i - 1, destination |-> dst.a + i - 1]])

\* The second number of a range is read without a look at how many there are.
RangeRequests(src, dst) ==
    IF "half" \in {src.kind, dst.kind} THEN Undefined
    ELSE IF src.b - src.a # dst.b - dst.a THEN ParseError
    ELSE Requests([i \in 1..(src.b - src.a + 1) |->
                    [source |-> src.a + i - 1, destination |-> dst.a + i - 1]])

PairRequest(src, dst) ==
    IF StoiFails(src) \/ StoiFails(dst) THEN ParseError
    ELSE Requests(<<[source |-> src.a, destination |-> dst.a]>>)

\* processEtStyleTunnelArg: only the first two fields are looked at.
EtStyle(fields) ==
    IF Len(fields) < 2 THEN ParseError
    ELSE LET src == fields[1] dst == fields[2]
         IN  CASE IsSocketPath(src) \/ (IsSocketPath(dst) /\ IsNumeric(src)) ->
                    SocketRequest(src, dst)
               [] ~IsNumeric(src) /\ ~IsNumeric(dst) -> EnvironmentRequest
               [] HasDash(src) /\ HasDash(dst) -> RangeRequests(src, dst)
               [] HasDash(src) # HasDash(dst) -> ParseError
               [] OTHER -> PairRequest(src, dst)

\* parseSshTunnelArg and what follows it; stoi is outside any try here.
SshStyle(e) ==
    IF Len(e) # 4 THEN ParseError
    ELSE IF StoiFails(e[2]) \/ StoiFails(e[4]) THEN LogicError
    ELSE Requests(<<[source |-> e[2].a, destination |-> e[4].a]>>)

\* Elements are parsed in order; the first that fails decides.
Join(results) ==
    LET bad == {i \in DOMAIN results : results[i].status # "ok"}
    IN  IF bad # {} THEN results[Min(bad)]
        ELSE Requests(FlattenSeq([i \in DOMAIN results |-> results[i].requests]))

\* parseRangesToRequests: the ssh style only without commas.
ParseRanges(a) ==
    IF Len(a) > 1 THEN Join([i \in DOMAIN a |-> EtStyle(Split(a[i]))])
    ELSE IF Len(Split(a[1])) <= 2 THEN EtStyle(Split(a[1]))
    ELSE SshStyle(a[1])

-----------------------------------------------------------------------------
\* The user writes one more element.
Type(e) ==
    /\ outcome = Pending /\ typed = Len(arg) /\ typed < MaxElements
    /\ arg' = Append(arg, e) /\ typed' = typed + 1
    /\ UNCHANGED outcome

\* main appends a LocalForward of the config, always a pair of ports.
AddLocalForward(m, n) ==
    /\ outcome = Pending /\ Len(arg) - typed < MaxForwards
    /\ arg' = Append(arg, <<Num(m), Num(n)>>)
    /\ UNCHANGED <<typed, outcome>>

\* TerminalClient's constructor, if there is an argument at all.
Parse ==
    /\ outcome = Pending /\ arg # <<>>
    /\ outcome' = ParseRanges(arg)
    /\ UNCHANGED <<arg, typed>>

Next ==
    \/ \E e \in Elements : Type(e)
    \/ AddLocalForward(7, 8)
    \/ Parse

Spec == Init /\ [][Next]_vars

TypeOK ==
    /\ typed \in 0..MaxElements /\ Len(arg) - typed \in 0..MaxForwards
    /\ outcome.status \in {"pending", "ok", "TunnelParseException", "logic_error",
                           "undefined"}
    /\ outcome.status # "ok" => outcome.requests = <<>>

-----------------------------------------------------------------------------
(* Properties.                                                             *)

\* A range on one side only.
LoneRange(e) == \E f, g \in Range(e) : HasDash(f) /\ ~HasDash(g)

\* What one element asks for: the ports of a range one by one, both ends
\* included, and one request for anything else; a lone range asks for nothing
\* that could be requested.
Wanted(e) ==
    IF LoneRange(e) THEN {}
    ELSE IF \A f \in Range(e) : f.kind = "range"
    THEN {<<e[1].a + i, e[2].a + i>> : i \in 0..(e[1].b - e[1].a)}
    ELSE LET n == IF Len(e) = 4 THEN 2 ELSE 1
         IN  {<<IF e[n].kind = "word" THEN Environment ELSE Endpoint(e[n]),
                IF e[2 * n].kind = "word" THEN Path ELSE Endpoint(e[2 * n])>>}

\* "srcStart-srcEnd:dstStart-dstEnd (inclusive) port ranges": an accepted
\* argument, a list of pairs or one ssh-style argument, gives every request
\* it asks for and no other, unless it has a lone range (RangesPaired).
RequestsAsAsked ==
    /\ outcome.status = "ok" /\ \A i \in DOMAIN arg : ~LoneRange(arg[i])
    /\ Len(arg) = 1 \/ \A i \in DOMAIN arg : Len(arg[i]) = 2
    => {<<r.source, r.destination>> : r \in Range(outcome.requests)}
            = UNION {Wanted(arg[i]) : i \in DOMAIN arg}

\* All or nothing: a list is accepted only if each of its elements is, and each
\* of them is requested.  Two kinds of element are exceptions: a reversed
\* range, which asks for no port, and a lone range (RangesPaired).
NothingDropped ==
    outcome.status = "ok" /\ Len(arg) > 1 =>
        \A i \in DOMAIN arg :
            \/ EtStyle(Split(arg[i])).requests # <<>>
            \/ LoneRange(arg[i])
            \/ \A f \in Range(arg[i]) : f.kind = "range" /\ f.b < f.a

\* "if source is a range, destination must be a range (and vice versa)": a lone
\* range is not accepted.  With a socket on the other side it is, and the first
\* of its ports is the only one requested.
\* Does not hold: see Known deviations in README.md.
RangesPaired == outcome.status = "ok" => \A i \in DOMAIN arg : ~LoneRange(arg[i])

\* parseRangesToRequests: "@throws TunnelParseException when the syntax is
\* invalid", which is what main catches.
\* Does not hold: see Known deviations in README.md.
OnlyParseException == outcome.status \notin {"logic_error", "undefined"}

\* "Tunnel: Array of source:destination ports or ... ssh-style -L/-R
\* argument": an argument that is fine by itself asks for the same when the
\* config has a LocalForward.
\* Does not hold: see Known deviations in README.md.
ConfigKeepsValid ==
    outcome # Pending /\ typed > 0 =>
        LET alone == ParseRanges(SubSeq(arg, 1, typed))
        IN  alone.status = "ok" =>
                outcome.status = "ok" /\ IsPrefix(alone.requests, outcome.requests)
=============================================================================
