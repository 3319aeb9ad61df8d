---------------------------- MODULE HostPattern -----------------------------
(***************************************************************************)
(* match_hostname: whether a Host line's pattern list is for a host name.  *)
(* A name and a pattern are sequences of characters, in lower case; a list *)
(* is a sequence of subpatterns, each perhaps negated.  Which characters a *)
(* user writes is chosen one at a time.                                    *)
(***************************************************************************)
EXTENDS Integers, SequencesExt, FiniteSetsExt

CONSTANTS
    Chars,       \* the characters of host names
    Wild,        \* the wildcards that are written: a subset of {"*", "?"}
    SubSize,     \* sizeof(sub)
    MaxHost,     \* bound: length of the name
    MaxPattern,  \* bound: length of a subpattern
    MaxSubs      \* bound: subpatterns

HostPatternAssumption ==
    /\ Wild \subseteq {"*", "?"} /\ Chars \cap {"*", "?"} = {}
    /\ {SubSize, MaxHost, MaxPattern, MaxSubs} \subseteq Nat \ {0}

VARIABLES host, subs, result

vars == <<host, subs, result>>

Sub(neg, pattern) == [negated |-> neg, pattern |-> pattern]

Init == host = <<>> /\ subs = <<>> /\ result = "none"

-----------------------------------------------------------------------------
\* Mutated form: the search for the character after an asterisk takes the
\* first one only.
match_pattern_first(s, p) ==
    LET m[i \in 1..(Len(s) + 1), j \in 1..(Len(p) + 1)] ==
            IF j > Len(p) THEN i > Len(s)
            ELSE IF p[j] = "*" /\ j = Len(p) THEN TRUE
            ELSE IF p[j] = "*" /\ p[j + 1] \notin {"?", "*"} THEN
                LET hits == {k \in i..Len(s) : s[k] = p[j + 1]}
                IN  hits # {} /\ m[Min(hits) + 1, j + 2]
            ELSE IF p[j] = "*" THEN \E k \in i..Len(s) : m[k, j + 1]
            ELSE i <= Len(s) /\ p[j] \in {"?", s[i]} /\ m[i + 1, j + 1]
    IN  m[1, 1]

\* m[i, j]: s from i on matches pattern from j on.  After an asterisk: nothing
\* accepts at once, a plain character is looked for in the rest, and before
\* another wildcard each position that still has a character is tried.
match_pattern(s, p) ==
    LET m[i \in 1..(Len(s) + 1), j \in 1..(Len(p) + 1)] ==
            IF j > Len(p) THEN i > Len(s)
            ELSE IF p[j] = "*" /\ j = Len(p) THEN TRUE
            ELSE IF p[j] = "*" /\ p[j + 1] \notin {"?", "*"} THEN
                \E k \in i..Len(s) : s[k] = p[j + 1] /\ m[k + 1, j + 2]
            ELSE IF p[j] = "*" THEN \E k \in i..Len(s) : m[k, j + 1]
            ELSE i <= Len(s) /\ p[j] \in {"?", s[i]} /\ m[i + 1, j + 1]
    IN  m[1, 1]

\* In order: a subpattern that does not fit into sub ends in no match, a
\* negated one that matches ends in -1.
match_pattern_list(s, list) ==
    LET long == {i \in DOMAIN list : Len(list[i].pattern) >= SubSize - 1}
        no == {i \in DOMAIN list : list[i].negated /\ match_pattern(s, list[i].pattern)}
        yes == {i \in DOMAIN list : ~list[i].negated /\ match_pattern(s, list[i].pattern)}
    IN  IF long \cup no # {} THEN IF Min(long \cup no) \in long THEN 0 ELSE -1
        ELSE IF yes # {} THEN 1 ELSE 0

-----------------------------------------------------------------------------
HostChar(c) ==
    /\ result = "none" /\ subs = <<>> /\ Len(host) < MaxHost
    /\ host' = Append(host, c)
    /\ UNCHANGED <<subs, result>>

NextSub(neg) ==
    /\ result = "none" /\ host # <<>> /\ Len(subs) < MaxSubs
    /\ subs' = Append(subs, Sub(neg, <<>>))
    /\ UNCHANGED <<host, result>>

PatternChar(c) ==
    /\ result = "none" /\ subs # <<>> /\ Len(Last(subs).pattern) < MaxPattern
    /\ subs' = [subs EXCEPT ![Len(subs)].pattern = Append(@, c)]
    /\ UNCHANGED <<host, result>>

match_hostname ==
    /\ result = "none" /\ host # <<>>
    /\ result' = ToString(match_pattern_list(host, subs))
    /\ UNCHANGED <<host, subs>>

Next ==
    \/ \E c \in Chars : HostChar(c)
    \/ \E neg \in BOOLEAN : NextSub(neg)
    \/ \E c \in Chars \cup Wild : PatternChar(c)
    \/ match_hostname

Spec == Init /\ [][Next]_vars

-----------------------------------------------------------------------------
(* Reference: a pattern matches if its characters can be laid over the     *)
(* name: end[k] is how much of the name the first k of them cover.         *)

Covers(s, p) ==
    \E end \in [0..Len(p) -> 0..Len(s)] :
        /\ end[0] = 0 /\ end[Len(p)] = Len(s)
        /\ \A k \in DOMAIN p :
            IF p[k] = "*" THEN end[k] >= end[k - 1]
            ELSE end[k] = end[k - 1] + 1 /\ p[k] \in {"?", s[end[k]]}

Expected ==
    LET hits == {l \in Range(subs) : Covers(host, l.pattern)}
    IN  IF \E l \in hits : l.negated THEN -1 ELSE IF hits # {} THEN 1 ELSE 0

DoubleAsterisk(p) == \E k \in 1..(Len(p) - 1) : p[k] = "*" /\ p[k + 1] = "*"

-----------------------------------------------------------------------------
(* Properties.                                                             *)

\* "-1 if negation matches, 1 if there is a positive match, 0 if there is no
\* match at all", wherever in the list they stand, for subpatterns that fit
\* and have no two asterisks in a row.
ListDecides ==
    result # "none" /\ (\A l \in Range(subs) : /\ ~DoubleAsterisk(l.pattern)
                                               /\ Len(l.pattern) < SubSize - 1)
        => result = ToString(Expected)

\* A subpattern that is too long never opens a block: not even one that
\* stands after a match.
TooLongNeverMatches ==
    result = "1" => \A l \in Range(subs) : Len(l.pattern) < SubSize - 1

\* match_pattern: "Returns true if the given string matches the pattern (which
\* may contain ? and * as wildcards), and zero if it does not match."
\* Does not hold: see Known deviations in README.md.
WildcardsMatch ==
    result # "none" /\ (\A l \in Range(subs) : Len(l.pattern) < SubSize - 1)
        => result = ToString(Expected)
=============================================================================
