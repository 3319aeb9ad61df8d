----------------------------- MODULE SshConfig ------------------------------
(***************************************************************************)
(* ParseConfigFile and the settings the client takes from it: the user's   *)
(* and then the system's ssh config, line by line, with Host blocks,       *)
(* Include and the options of the command line.                            *)
(*                                                                         *)
(* A line is [key, val], chosen when it is read: a file holds what was     *)
(* read of it.  A Host line's value is what match_hostname returns for     *)
(* each of its patterns (1, 0 or -1), a flag is 1, 0 or -1 (neither yes    *)
(* nor no), a number is what strtol makes of the text (0 if nothing), an   *)
(* Include's is how many files it names, -1 for a wildcard in a directory  *)
(* that cannot be read, and None is a missing token.  An included file is  *)
(* read where it is named, so all that is left of the nesting is how many  *)
(* files are still to be read to their end.  ssh_options_set never makes a *)
(* line fail.                                                              *)
(***************************************************************************)
EXTENDS Integers, SequencesExt, FiniteSetsExt

CONSTANTS
    Lines,        \* the lines that files may hold
    CommandLines, \* [user, jumphost] of the command line, None if not given
    LocalUser,    \* ssh_get_local_username
    None,
    MaxLines,     \* bound: lines of all files
    MaxOpen       \* bound: files still to be read to their end

SshConfigAssumption ==
    /\ \A l \in Lines : "key" \in DOMAIN l /\ "val" \in DOMAIN l
    /\ \A c \in CommandLines : {"user", "jumphost"} \subseteq DOMAIN c
    /\ MaxLines \in Nat /\ MaxOpen \in Nat \ {0}

Flags == {"StrictHostKeyChecking", "GSSAPIDelegateCredentials", "ForwardAgent"}
Strings == {"UserKnownHostsFile", "GSSAPIServerIdentity", "GSSAPIClientIdentity",
            "IdentityAgent", "ProxyCommand"}
Numbers == {"ConnectTimeout"}
\* Read only while no file has set them.
UntilSet == {"Port", "User", "ProxyJump"}
\* These may come again; for all others only the first line of a file counts.
Repeatable == {"Host", "Match", "Include", "LocalForward", "SetEnv", "Unsupported"}
Keys == Flags \cup Strings \cup Numbers \cup UntilSet \cup Repeatable
            \cup {"HostName", "Protocol"}

VARIABLES
    file,      \* 1 the user's file, 2 the system's, 3 both are done, 4 et has ended
    open,      \* files still to be read to their end
    parsing,   \* the lines are for the target host
    seen,
    options,
    log,       \* the lines read, each with its top level file
    client     \* what main goes on with

vars == <<file, open, parsing, seen, options, log, client>>

Unset == [k \in Flags \cup Numbers \cup {"Port"} |-> 0]
         @@ [k \in Strings \cup {"User", "ProxyJump"} |-> None]
         @@ [HostName |-> "arg", Protocol |-> {}, LocalForward |-> <<>>, SetEnv |-> <<>>]

TypeOK ==
    /\ file \in 1..4 /\ open \in 0..MaxOpen
    /\ parsing \in BOOLEAN /\ seen \subseteq (Keys \ Repeatable)
    /\ DOMAIN options = DOMAIN Unset /\ options.Port \in 0..65535
    /\ options.Protocol \subseteq {1, 2}
    /\ \A i \in DOMAIN log : log[i].line \in Lines /\ log[i].file \in 1..2
    /\ Len(log) <= MaxLines

Init ==
    /\ file = 1 /\ open = 1 /\ parsing = TRUE /\ seen = {}
    /\ options = Unset /\ log = <<>> /\ client = None

-----------------------------------------------------------------------------
(* ssh_options_set: what an option becomes.                                *)

\* HostName may hold a user, who replaces any other.
SetHost(o, v) ==
    [o EXCEPT !.HostName = v.host,
              !.User = IF v.user = None THEN @ ELSE v.user]

SetPort(o, v) == IF v <= 0 THEN o ELSE [o EXCEPT !.Port = v % 65536]

SetString(o, k, v) == [o EXCEPT ![k] = v]

SetProxyCommand(o, v) == [o EXCEPT !.ProxyCommand = IF v = "none" THEN None ELSE v]

SetNumber(o, k, v) == IF v < 0 THEN o ELSE [o EXCEPT ![k] = v]

SetProtocol(o, v) == [o EXCEPT !.Protocol = v \cap {1, 2}]

\* A forward without a colon in its second part is dropped.
AddForward(o, v) ==
    IF v.remote = None THEN o
    ELSE [o EXCEPT !.LocalForward = Append(@, <<v.local, v.remote>>)]

\* ssh_config_get_token: a token ends at an equals sign unless it is quoted.
TokenKeepsEquals(v) == v.quoted

\* An entry without an equals sign is dropped.
AddEnv(o, v) ==
    IF TokenKeepsEquals(v) THEN [o EXCEPT !.SetEnv = Append(@, v.entry)] ELSE o

Store(o, l) ==
    CASE l.val = None -> o
      [] l.key \in UntilSet /\ o[l.key] # Unset[l.key] -> o
      [] l.key = "HostName" -> SetHost(o, l.val)
      [] l.key = "Port" -> SetPort(o, l.val)
      [] l.key = "ProxyCommand" -> SetProxyCommand(o, l.val)
      [] l.key \in Flags \cup Numbers -> SetNumber(o, l.key, l.val)
      [] l.key = "Protocol" -> SetProtocol(o, l.val)
      [] l.key = "LocalForward" -> AddForward(o, l.val)
      [] l.key = "SetEnv" -> AddEnv(o, l.val)
      [] OTHER -> SetString(o, l.key, l.val)

-----------------------------------------------------------------------------
(* ssh_config_parse_line.                                                  *)

\* "Match" parses the rest of its line as a line.
Meant(l) == IF l.key = "Match" THEN l.val ELSE l

Read(l) == file < 3 /\ Len(log) < MaxLines /\ log' = Append(log, [file |-> file, line |-> l])

\* A keyword that is read in a block of this host is done with for this file,
\* whatever its value.
Seen(k) == seen' = IF parsing /\ k \notin Repeatable THEN seen \cup {k} ELSE seen

Skips(k) == parsing /\ k \in seen

\* A negated pattern that matches ends the search; one that does not match
\* leaves what an earlier one decided.
HostActive(results) ==
    FoldLeft(LAMBDA ok, r : IF ok = -1 \/ r = 0 THEN ok ELSE r, 0, results) = 1

HostLine(l) ==
    /\ Meant(l).key = "Host" /\ Read(l)
    /\ parsing' = HostActive(Meant(l).val)
    /\ UNCHANGED <<file, open, seen, options, client>>

\* Mutated form: an included file begins as if it were the first.
IncludeLineFresh(l) ==
    /\ Meant(l).key = "Include" /\ Meant(l).val >= 0 /\ Read(l)
    /\ open + Meant(l).val <= MaxOpen
    /\ open' = open + Meant(l).val
    /\ parsing' = (Meant(l).val > 0 \/ parsing)
    /\ UNCHANGED <<file, seen, options, client>>

\* A file, which need not exist, or those that a wildcard matches; also inside
\* a block of another host.
IncludeLine(l) ==
    /\ Meant(l).key = "Include" /\ Meant(l).val >= 0 /\ Read(l)
    /\ open + Meant(l).val <= MaxOpen
    /\ open' = open + Meant(l).val
    /\ UNCHANGED <<file, parsing, seen, options, client>>

\* directory_iterator throws where the directory of a wildcard cannot be read,
\* and nobody up to main catches it.
IncludeThrows(l) ==
    /\ Meant(l).key = "Include" /\ Meant(l).val < 0 /\ Read(l)
    /\ file' = 4
    /\ UNCHANGED <<open, parsing, seen, options, client>>

OptionLine(l) ==
    /\ Meant(l).key \notin {"Host", "Include", "Unsupported"}
    /\ ~Skips(Meant(l).key) /\ Read(l)
    /\ options' = IF parsing THEN Store(options, Meant(l)) ELSE options
    /\ Seen(Meant(l).key)
    /\ UNCHANGED <<file, open, parsing, client>>

IgnoredLine(l) ==
    /\ Meant(l).key = "Unsupported" \/ Skips(Meant(l).key)
    /\ Read(l)
    /\ UNCHANGED <<file, open, parsing, seen, options, client>>

\* local_parse_file returns to the line after its Include.
IncludedFileEnds ==
    /\ file < 3 /\ open > 1
    /\ open' = open - 1
    /\ UNCHANGED <<file, parsing, seen, options, log, client>>

\* parse_ssh_config_file returns; main calls it for the second file.
FileEnds ==
    /\ file < 3 /\ open = 1
    /\ file' = file + 1
    /\ parsing' = TRUE /\ seen' = {}
    /\ UNCHANGED <<open, options, log, client>>

-----------------------------------------------------------------------------
(* main: the command line before the config, the config before the         *)
(* defaults.                                                               *)

First(choices) == LET given == SelectSeq(choices, LAMBDA c : c # None)
                  IN  IF given = <<>> THEN None ELSE Head(given)

Resolve(cmd) ==
    /\ file = 3 /\ client = None
    /\ client' = [user |-> First(<<cmd.user, options.User, LocalUser>>),
                  jumphost |-> First(<<cmd.jumphost, options.ProxyJump>>),
                  host |-> options.HostName, cmd |-> cmd]
    /\ UNCHANGED <<file, open, parsing, seen, options, log>>

ReadLine(l) ==
    \/ HostLine(l) \/ IncludeLine(l) \/ IncludeThrows(l)
    \/ OptionLine(l) \/ IgnoredLine(l)

Next ==
    \/ \E l \in Lines : ReadLine(l)
    \/ IncludedFileEnds \/ FileEnds
    \/ \E cmd \in CommandLines : Resolve(cmd)

Spec == Init /\ [][Next]_vars

-----------------------------------------------------------------------------
(* Reference: what the lines read say, found without parsing and seen.     *)

Entry(i) == Meant(log[i].line)

\* The last Host line above i, in the same top level file, decides.
ActiveAt(i) ==
    LET hosts == {j \in 1..(i - 1) : Entry(j).key = "Host" /\ log[j].file = log[i].file}
    IN  hosts = {} \/ LET results == Entry(Max(hosts)).val
                      IN  1 \in Range(results) /\ -1 \notin Range(results)

Setting(f, k) == {i \in DOMAIN log : log[i].file = f /\ Entry(i).key = k /\ ActiveAt(i)}

\* What the first line of file f for k says, and the default if there is none.
Says(f, k, default) ==
    IF Setting(f, k) = {} \/ Entry(Min(Setting(f, k))).val = None THEN default
    ELSE Entry(Min(Setting(f, k))).val

PortOf(f) == LET v == Says(f, "Port", 0) IN IF v <= 0 THEN 0 ELSE v % 65536
HostUser(f) == Says(f, "HostName", [host |-> None, user |-> None]).user
HostOf(f) == Says(f, "HostName", [host |-> None, user |-> None]).host

UserSays ==
    First(<<HostUser(2), HostUser(1), Says(1, "User", None), Says(2, "User", None)>>)

-----------------------------------------------------------------------------
(* Properties.                                                             *)

\* A block reaches to the next Host line wherever that stands: through the
\* end of an included file and into one, but never from the user's file into
\* the system's; and a negated pattern closes it for good.
BlocksAsWritten ==
    file < 3 =>
        LET hosts == {j \in DOMAIN log : Entry(j).key = "Host" /\ log[j].file = file}
        IN  parsing <=> (hosts = {} \/ LET results == Entry(Max(hosts)).val
                                       IN  1 \in Range(results) /\ -1 \notin Range(results))

\* Port, User and ProxyJump: the first line for this host in the user's file,
\* and only if that says nothing the first in the system's; a user inside a
\* HostName replaces both, also when it comes later.
FirstSettingWins ==
    /\ options.Port = IF PortOf(1) # 0 THEN PortOf(1) ELSE PortOf(2)
    /\ options.User = UserSays
    /\ options.ProxyJump = First(<<Says(1, "ProxyJump", None), Says(2, "ProxyJump", None)>>)

\* The other options: of each file the first line for this host, and the
\* system's file after the user's.
LaterFileWins ==
    /\ options.HostName = First(<<HostOf(2), HostOf(1), "arg">>)
    /\ \A k \in Flags :
        LET one == Says(1, k, -1) two == Says(2, k, -1)
        IN  options[k] = IF two >= 0 THEN two ELSE IF one >= 0 THEN one ELSE 0

\* Forwards accumulate over blocks and files, in the order they are read.
ForwardsAccumulate ==
    LET all == SetToSortSeq(Setting(1, "LocalForward") \cup Setting(2, "LocalForward"),
                            LAMBDA i, j : i < j)
        kept == SelectSeq(all, LAMBDA i : Entry(i).val.remote # None)
    IN  options.LocalForward =
            [i \in DOMAIN kept |-> <<Entry(kept[i]).val.local, Entry(kept[i]).val.remote>>]

\* main: "Parse username: cmdline > sshconfig > localuser" and "Parse
\* jumphost: cmd > sshconfig", whatever the files say.
Precedence ==
    client # None =>
        /\ client.user = First(<<client.cmd.user, UserSays, LocalUser>>)
        /\ client.jumphost = First(<<client.cmd.jumphost, Says(1, "ProxyJump", None),
                                     Says(2, "ProxyJump", None)>>)
=============================================================================
