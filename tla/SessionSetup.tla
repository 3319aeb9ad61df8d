---------------------------- MODULE SessionSetup ----------------------------
(***************************************************************************)
(* How a session comes to its id and passkey: SshSetupHandler runs         *)
(* etterminal over ssh on the destination and, with a jumphost, a second   *)
(* one there; each registers with the etserver of its host through the     *)
(* fifo that ServerFifoPath finds, and the client connects with the key it *)
(* is told.                                                                *)
(*                                                                         *)
(* An id and its passkey are one key.  Only whether an id begins with XXX  *)
(* matters: the client's own does, and etterminal draws a new one if so.   *)
(***************************************************************************)
EXTENDS Integers, Sequences

CONSTANTS
    Collide,       \* whether a drawn id may begin with XXX: TRUE is in it if it
                   \* may with a jumphost, FALSE if it may without one
    RouterTimely   \* etserver has accepted the terminals that wait at its
                   \* fifo before it looks at a client

SessionSetupAssumption == Collide \subseteq BOOLEAN /\ RouterTimely \in BOOLEAN

Hosts == {"dst", "jump"}
Key == [from : {"client", "option", "dst", "jump", "none"}, begins : {"XXX", "other"}]
ClientKey == [from |-> "client", begins |-> "XXX"]
NoKey == [from |-> "none", begins |-> "other"]

\* getPathForCreation: the daemon of root, of the user, or with an override.
Paths == {"root", "user", "override"}

VARIABLES
    cpc,        \* where SetupSsh and the connection after it are
    key,        \* the key the client goes on with
    term,       \* term[h]: the etterminal of host h; out is what ssh shows of it
    fifo,       \* fifo[h]: keys sent to the router and not yet accepted
    clientKeys, \* clientKeys[h]: the keys known to the etserver whose fifo was
                \* used
    link,       \* the jumphost's connection to the destination
    daemons,    \* daemons[h]: the etservers that run on h, by their fifo
    port,       \* port[h]: the one whose port the connection to h is for
    option,     \* option[h]: "override", etterminal has --serverfifo; "root", it
                \* runs as root
    useJump     \* the session goes through a jumphost

vars == <<cpc, key, term, fifo, clientKeys, link, daemons, port, option,
          useJump>>
site == <<daemons, port, option, useJump>>

TypeOK ==
    /\ cpc \in {"start", "dst", "next", "jump", "connect", "connected", "refused",
                "fatal", "by hand"}
    /\ key \in Key
    /\ term \in [Hosts -> [pc : {"none", "read", "print", "connect", "register",
                                 "serve", "dead", "unread", "undefined"},
                           key : Key, out : {"nothing", "key"}]]
    /\ fifo \in [Hosts -> Seq(Key)]
    /\ clientKeys \in [Hosts -> SUBSET Key]
    /\ link \in {"none", "up", "refused"}
    /\ daemons \in [Hosts -> SUBSET Paths]
    /\ port \in [Hosts -> Paths \cup {"none"}]
    /\ option \in [Hosts -> SUBSET {"override", "root"}] /\ useJump \in BOOLEAN
    /\ \A h \in Hosts : daemons[h] # {} => port[h] \in daemons[h]

Init ==
    /\ cpc = "start" /\ key = ClientKey
    /\ term = [h \in Hosts |-> [pc |-> "none", key |-> NoKey, out |-> "nothing"]]
    /\ fifo = [h \in Hosts |-> <<>>]
    /\ clientKeys = [h \in Hosts |-> {}]
    /\ link = "none"
    /\ daemons \in [Hosts -> SUBSET Paths]
    /\ port \in [Hosts -> Paths \cup {"none"}]
    /\ \A h \in Hosts : IF daemons[h] = {} THEN port[h] = "none" ELSE port[h] \in daemons[h]
    /\ option \in [Hosts -> SUBSET {"override", "root"}] /\ useJump \in BOOLEAN

-----------------------------------------------------------------------------
(* etterminal: main of TerminalMain.                                       *)

\* Mutated form: the terminal tells its key before it registers.
AfterTellFirst(h) ==
    [read |-> "print", print |-> "connect", connect |-> "register", register |-> "serve"]

\* The handler of a terminal registers in its constructor, before the key is
\* printed; the jumphost prints it first and registers in run().
After(h) ==
    IF h = "jump"
    THEN [read |-> "print", print |-> "connect", connect |-> "register", register |-> "serve"]
    ELSE [read |-> "connect", connect |-> "register", register |-> "print", print |-> "serve"]

Go(h, t) == term' = [term EXCEPT ![h] = t]

\* The key that the line on stdin gives: a client of today leaves it to this
\* side.
KeysDrawn(h, given) ==
    IF given.begins = "XXX"
    THEN [from : {h}, begins : IF useJump \in Collide THEN {"XXX", "other"} ELSE {"other"}]
    ELSE {given}

TermReads(h) ==
    /\ term[h].pc = "read" /\ term[h].key.from # "option"
    /\ \E k \in KeysDrawn(h, term[h].key) :
        Go(h, [term[h] EXCEPT !.pc = After(h).read, !.key = k])
    /\ UNCHANGED <<cpc, key, fifo, clientKeys, link, site>>

\* Nothing comes on stdin within a second or at all, or the line has not two
\* parts, as with a TERM that holds a "_": etterminal ends without a key.
TermReadsNoKey(h) ==
    /\ term[h].pc = "read" /\ term[h].key.from # "option"
    /\ Go(h, [term[h] EXCEPT !.pc = "unread", !.key = NoKey])
    /\ UNCHANGED <<cpc, key, fifo, clientKeys, link, site>>

\* With --idpasskey or --idpasskeyfile the key goes into a variable of the
\* block; the one that is used is still empty, and so is what split makes of
\* it: its first element is read all the same.
TermReadsOption(h) ==
    /\ term[h].pc = "read" /\ term[h].key.from = "option"
    /\ Go(h, [term[h] EXCEPT !.pc = "undefined", !.key = NoKey])
    /\ UNCHANGED <<cpc, key, fifo, clientKeys, link, site>>

\* detectAndConnect: the given fifo, or root's and then the user's own.
FifoUsed(h) ==
    LET tried == IF "override" \in option[h] THEN "override"
                 ELSE IF "root" \in daemons[h] \cup option[h] THEN "root" ELSE "user"
    IN  IF tried \in daemons[h] THEN tried ELSE "none"

TermConnects(h) ==
    /\ term[h].pc = "connect"
    /\ Go(h, [term[h] EXCEPT !.pc = IF FifoUsed(h) = "none" THEN "dead" ELSE After(h).connect])
    /\ UNCHANGED <<cpc, key, fifo, clientKeys, link, site>>

\* TERMINAL_USER_INFO.
TermRegisters(h) ==
    /\ term[h].pc = "register"
    /\ Go(h, [term[h] EXCEPT !.pc = After(h).register])
    /\ fifo' = [fifo EXCEPT ![h] = Append(@, term[h].key)]
    /\ UNCHANGED <<cpc, key, clientKeys, link, site>>

\* IDPASSKEY, and the daemon that lets ssh end.
TermPrints(h) ==
    /\ term[h].pc = "print"
    /\ Go(h, [term[h] EXCEPT !.pc = After(h).print, !.out = "key"])
    /\ UNCHANGED <<cpc, key, fifo, clientKeys, link, site>>

\* etserver: UserTerminalRouter::acceptNewConnection and addClientKey.
RouterAccepts(h) ==
    /\ fifo[h] # <<>>
    /\ clientKeys' = [clientKeys EXCEPT ![h] = @ \cup {Head(fifo[h])}]
    /\ fifo' = [fifo EXCEPT ![h] = Tail(@)]
    /\ UNCHANGED <<cpc, key, term, link, site>>

-----------------------------------------------------------------------------
(* The client: SetupSsh, then ClientConnection::connect.                   *)

Start(h, k) == Go(h, [pc |-> "read", key |-> k, out |-> "nothing"])

SshToDestination ==
    /\ cpc = "start" /\ cpc' = "dst"
    /\ Start("dst", key)
    /\ UNCHANGED <<key, fifo, clientKeys, link, site>>

\* ssh prints nothing; the error is shown and setup goes on with its own key.
SshFails ==
    /\ cpc = "start" /\ cpc' = "next"
    /\ UNCHANGED <<key, term, fifo, clientKeys, link, site>>

\* Mutated form: the output is read until it has a key.
DestinationToldOnly ==
    /\ cpc = "dst" /\ term["dst"].out = "key"
    /\ cpc' = "next" /\ key' = term["dst"].key
    /\ UNCHANGED <<term, fifo, clientKeys, link, site>>

\* ssh has ended: with a key, or with the message of an etterminal that read no
\* key or found no etserver, after which setup goes on as well.
DestinationTold ==
    /\ cpc = "dst" /\ (term["dst"].out = "key" \/ term["dst"].pc \in {"dead", "unread"})
    /\ cpc' = "next"
    /\ key' = IF term["dst"].out = "key" THEN term["dst"].key ELSE key
    /\ UNCHANGED <<term, fifo, clientKeys, link, site>>

\* The second ssh hands the key of the first on.
SshToJumphost ==
    /\ cpc = "next" /\ useJump /\ cpc' = "jump"
    /\ Start("jump", key)
    /\ UNCHANGED <<key, fifo, clientKeys, link, site>>

\* "etserver jumpclient failed to start" is not caught.
JumpSshFails ==
    /\ cpc = "next" /\ useJump /\ cpc' = "fatal"
    /\ UNCHANGED <<key, term, fifo, clientKeys, link, site>>

JumphostTold ==
    /\ cpc = "jump" /\ term["jump"].out = "key"
    /\ cpc' = "connect"
    /\ key' = term["jump"].key
    /\ UNCHANGED <<term, fifo, clientKeys, link, site>>

\* An etterminal without a key prints nothing, which is fatal, or a message, of
\* which what follows the first colon is taken for the key whether there is one
\* or not: the client crashes, or goes on with a key that nobody knows.
JumphostUntold ==
    /\ cpc = "jump" /\ term["jump"].pc = "unread"
    /\ \/ cpc' = "fatal" /\ UNCHANGED key
       \/ cpc' = "connect" /\ key' = NoKey
    /\ UNCHANGED <<term, fifo, clientKeys, link, site>>

NoJumphost ==
    /\ cpc = "next" /\ ~useJump /\ cpc' = "connect"
    /\ UNCHANGED <<key, term, fifo, clientKeys, link, site>>

FirstHost == IF useJump THEN "jump" ELSE "dst"

\* clientHandler: the etserver at the port answers.
Accepts(h, k) == FifoUsed(h) = port[h] /\ k \in clientKeys[h]

\* The client is answered once: after INVALID_KEY it does not ask again.
Connect ==
    /\ cpc = "connect"
    /\ RouterTimely => fifo[FirstHost] = <<>>
    /\ cpc' = IF Accepts(FirstHost, key) THEN "connected" ELSE "refused"
    /\ UNCHANGED <<key, term, fifo, clientKeys, link, site>>

\* UserJumphostHandler::run connects on with the key it was given.
JumpConnects ==
    /\ useJump /\ cpc = "connected" /\ term["jump"].pc = "serve" /\ link = "none"
    /\ RouterTimely => fifo["dst"] = <<>>
    /\ link' = IF Accepts("dst", term["jump"].key) THEN "up" ELSE "refused"
    /\ UNCHANGED <<cpc, key, term, fifo, clientKeys, site>>

\* Somebody starts etterminal with --idpasskey.
StartByHand ==
    /\ cpc = "start" /\ cpc' = "by hand"
    /\ Start("dst", [from |-> "option", begins |-> "other"])
    /\ UNCHANGED <<key, fifo, clientKeys, link, site>>

-----------------------------------------------------------------------------
Term(h) ==
    \/ TermReads(h) \/ TermReadsNoKey(h) \/ TermReadsOption(h)
    \/ TermConnects(h) \/ TermRegisters(h) \/ TermPrints(h) \/ RouterAccepts(h)

Client ==
    \/ SshToDestination \/ SshFails \/ DestinationTold
    \/ SshToJumphost \/ JumpSshFails \/ JumphostTold \/ JumphostUntold
    \/ NoJumphost \/ Connect \/ JumpConnects

Next == Client \/ StartByHand \/ \E h \in Hosts : Term(h)

Spec == Init /\ [][Next]_vars

\* Processes that can go on do; ssh ends once etterminal has.
Fairness == WF_vars(Client) /\ \A h \in Hosts : WF_vars(Term(h))

FairSpec == Spec /\ Fairness

-----------------------------------------------------------------------------
(* Properties.                                                             *)

\* docs/protocol.md: the keys are registered "awaiting a user connection", and
\* "After etterminal connects to etserver, it outputs the client-id and
\* passkey".  A client that was told a key is not refused by the etserver that
\* etterminal has found.
KeyKnown ==
    cpc = "refused" /\ term[FirstHost].out = "key" => FifoUsed(FirstHost) # port[FirstHost]

\* One etserver on the destination is enough, root's or the user's own, without
\* options: a client is refused only where ssh failed or etterminal read no key,
\* or was given a fifo nobody has, or is root's and the etserver another user's.
SoleDaemonServes ==
    ~useJump /\ cpc = "refused" =>
        \/ term["dst"].pc \in {"none", "unread"}
        \/ daemons["dst"] \notin {{p} : p \in Paths}
        \/ ("override" \in option["dst"]) # ("override" \in daemons["dst"])
        \/ "root" \in option["dst"] /\ daemons["dst"] = {"user"}

\* The key travels from the destination over the client to the jumphost: both
\* sessions are set up with one key, and the jumphost is let in by the
\* destination unless etterminal could not be started there or has registered
\* with another etserver than the one at the port.
SameKeyOnBothHosts ==
    /\ link = "up" => key = term["jump"].key /\ key = term["dst"].key
    /\ link = "refused" => term["dst"].out # "key" \/ FifoUsed("dst") # port["dst"]

\* A terminal registers its key once, and the key is with the router or in
\* clientKeys from then on; an etterminal that has given up found no etserver.
RegisteredOnce ==
    \A h \in Hosts :
        /\ IF term[h].pc = "serve" \/ (h = "dst" /\ term[h].pc = "print")
           THEN \/ fifo[h] = <<term[h].key>> /\ clientKeys[h] = {}
                \/ fifo[h] = <<>> /\ clientKeys[h] = {term[h].key}
           ELSE fifo[h] = <<>> /\ clientKeys[h] = {}
        /\ term[h].pc = "dead" => FifoUsed(h) = "none"

\* What ssh has shown of an etterminal says where that is.
OutputTells ==
    /\ term["dst"].out = "key" <=> term["dst"].pc = "serve"
    /\ term["jump"].out = "key" <=>
          term["jump"].pc \in {"connect", "register", "serve", "dead"}

\* After the first ssh the etterminal of the destination has come to its end.
\* Its key, if it told one, is the client's and the jumphost's from then on,
\* unless the jumphost draws another one; ssh gives none as an option.
KeyHandedOn ==
    LET told == term["dst"].out = "key"
    IN  /\ cpc \in {"next", "jump", "connect", "connected", "refused", "fatal"} =>
              term["dst"].pc \in {"none", "dead", "unread", "serve"}
        /\ cpc = "start" => term["dst"].pc = "none"
        /\ term["jump"].pc # "none" =>
              useJump /\ cpc \in {"jump", "connect", "connected", "refused", "fatal"}
        /\ cpc = "fatal" => term["jump"].pc \in {"none", "unread"}
        /\ told /\ (cpc \in {"next", "jump"} \/ (cpc \in {"connect", "refused"} /\ ~useJump)) =>
              key = term["dst"].key
        /\ useJump /\ cpc \in {"connect", "connected", "refused"} =>
              \/ term["jump"].out = "key" /\ key = term["jump"].key
              \/ term["jump"].pc = "unread"
        /\ useJump \notin Collide =>
            /\ \A h \in Hosts : term[h].pc # "read" => term[h].key.begins = "other"
            /\ told /\ term["jump"].pc \notin {"none", "unread"} => term["jump"].key = term["dst"].key
        /\ link # "none" => useJump /\ cpc = "connected"
        /\ cpc # "by hand" =>
              "option" \notin {key.from, term["dst"].key.from, term["jump"].key.from}

\* The inductive invariant.  With a jumphost KeyKnown does not hold, and both
\* hosts know one key only when no drawn id begins with XXX.
SetupInv ==
    /\ TypeOK
    /\ RegisteredOnce
    /\ OutputTells
    /\ KeyHandedOn
    /\ ~useJump /\ RouterTimely => KeyKnown /\ SoleDaemonServes
    /\ useJump \notin Collide /\ RouterTimely => SameKeyOnBothHosts

\* Nothing the client waits for over ssh fails to come: the setup ends, with
\* or without a session.
SetupEnds ==
    <>(cpc \in {"connected", "refused", "fatal", "by hand"})

\* etterminal's option idpasskey: "If set, uses IPC to send a client id/key to
\* the server daemon."
\* Does not hold: see Known deviations in README.md.
OptionUsed == cpc = "by hand" ~> (term["dst"].key.from = "option"
                                  /\ term["dst"].pc \in {"serve", "dead"})
=============================================================================
