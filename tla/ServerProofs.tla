---------------------------- MODULE ServerProofs ----------------------------
(***************************************************************************)
(* Proof that ServerRegistry keeps RegistryInv, for any numbers of sockets, *)
(* connections, pool threads, client processes and failing links; that     *)
(* Telemetry keeps LogInv, for any numbers of threads and messages and     *)
(* every size of the buffer; and, from the theorems about SocketTable, of  *)
(* the other invariants the runs of MCServer check.                        *)
(*                                                                         *)
(* Core holds what the handlers, session threads and shutdown() share and  *)
(* carries the argument; Sides holds the types of the client, the links    *)
(* and the owner, which Core does not depend on.                           *)
(***************************************************************************)
EXTENDS MCServer, SequenceTheorems, FiniteSetTheorems, TLAPS

Stages == {"none", "first", "run", "ended", "refused"}
Places == {"queued", "request", "created", "start", "returning", "recover",
           "recovering", "invalid", "done"}
Answers == {"none", "new", "returning", "invalid", "mismatch"}

ConnSet(B) == [key : Passkeys \cup {0}, sock : Sockets \cup {0}, shut : B,
               paid : B, thread : Stages]
\* Whether a request has the server's version; only opened where Zenon is used.
Versions == BOOLEAN
HandlerSet == [pc : Places, conn : Connections \cup {0}, match : Versions]
LinkSet(B) == [open : B, resp : Answers]
ClientSet == [pc : {"none", "connect", "stuck", "ended"} \cup Established,
              sock : Sockets \cup {0}]

\* The shared part, but for the flag of a connection that is shut down.
Control ==
    /\ key \in Passkeys \cup {0} /\ router \in Passkeys \cup {0}
    /\ map \in Connections \cup {0}
    /\ mutex \in {"free", "recover", "shutdown"} /\ stop \in {"no", "held", "done"}
    /\ hs \in [Sockets -> HandlerSet]
    /\ mutex = "recover" <=> \E s \in Sockets : hs[s].pc = "recovering"
    /\ LocksAgree /\ KeysAgree /\ StartedOnce /\ TerminalKnown
    /\ map # 0 => /\ key # 0
                  /\ \/ conns[map].thread \in {"first", "run", "refused"}
                     \/ \E s \in Sockets : hs[s].conn = map /\ Starting(s)

Unshut == map # 0 => ~conns[map].shut

Core == Control /\ Unshut /\ conns \in [Connections -> ConnSet(BOOLEAN)]

Sides ==
    /\ link \in [Sockets -> LinkSet(BOOLEAN)] /\ client \in ClientSet
    /\ run \in {"loop", "join", "returned"} /\ halt \in BOOLEAN
    /\ joins \subseteq Connections
    /\ procs \in 0..MaxProcs /\ faults \in 0..MaxFaults

\* Two of the threads that serve are the same one.
LEMMA AtMostOne ==
    ASSUME \A c, d \in Connections : Alive(c) /\ Alive(d) => c = d
    PROVE  OneTerminalThread
<1>1. PICK A : A = {c \in Connections : Alive(c)}
  OBVIOUS
<1>2. CASE A = {}
  <2>1. Cardinality(A) = 0
    BY <1>2, FS_EmptySet
  <2> QED BY <1>1, <2>1 DEF OneTerminalThread
<1>3. CASE A # {}
  <2>1. PICK c : c \in A
    BY <1>3
  <2>2. A = {c}
    BY <1>1, <2>1
  <2>3. Cardinality(A) = 1
    BY <2>2, FS_Singleton
  <2> QED BY <1>1, <2>3 DEF OneTerminalThread
<1> QED BY <1>2, <1>3

LEMMA InvParts == RegistryInv => Core /\ Sides
<1>1. SUFFICES ASSUME RegistryInv PROVE Core /\ Sides
  OBVIOUS
<1>2. /\ TypeOK /\ LocksAgree /\ KeysAgree /\ StartedOnce
      /\ ConnectionsAttended /\ TerminalKnown
  BY <1>1 DEF RegistryInv
<1>3. Sides
  BY <1>2, Zenon DEF TypeOK, Sides, LinkSet, ClientSet, Answers
<1>4. conns \in [Connections -> ConnSet(BOOLEAN)] /\ Unshut
  BY <1>2, Zenon DEF TypeOK, ConnSet, Stages, Unshut, ConnectionsAttended
<1>5. Control
  BY <1>2, Zenon DEF TypeOK, Control, HandlerSet, Versions, Places, ConnectionsAttended
<1> QED BY <1>3, <1>4, <1>5 DEF Core

LEMMA InvFromParts == Core /\ Sides => RegistryInv
<1>1. SUFFICES ASSUME Core, Sides PROVE RegistryInv
  OBVIOUS
<1>2. Control /\ Unshut /\ conns \in [Connections -> ConnSet(BOOLEAN)]
  BY <1>1 DEF Core
<1>3. LocksAgree /\ KeysAgree /\ StartedOnce /\ TerminalKnown
  BY <1>2 DEF Control
<1>4. ConnectionsAttended
  BY <1>2, Zenon DEF Control, Unshut, ConnectionsAttended
<1>5. TypeOK
  BY <1>1, <1>2, Zenon DEF TypeOK, Control, Sides, HandlerSet, Versions, Places, ConnSet, Stages,
     LinkSet, Answers, ClientSet
<1>6. OneTerminalThread
  BY <1>3, AtMostOne DEF StartedOnce
<1> QED BY <1>3, <1>4, <1>5, <1>6 DEF RegistryInv

LEMMA InvFromPartsNext == Core' /\ Sides' => RegistryInv'
  BY InvFromParts, PTL

-----------------------------------------------------------------------------
(* The shared part.                                                        *)

\* What a step does to the connections that matter: they stay as they are,
\* but for their socket and their payload; others may be destroyed.
SameConn(c) ==
    /\ conns'[c].key = conns[c].key /\ conns'[c].thread = conns[c].thread
    /\ conns'[c].shut = conns[c].shut
ConnsKept ==
    \A c \in Connections : SameConn(c) \/ (c # map /\ ~Alive(c) /\ conns'[c] = NoConn)

LEMMA KeptMatters ==
    ASSUME ConnsKept
    PROVE  /\ \A c \in Connections : (conns'[c].thread \in {"first", "run"}) <=> Alive(c)
           /\ \A c \in Connections : Alive(c) \/ c = map =>
                 /\ conns'[c].key = conns[c].key /\ conns'[c].thread = conns[c].thread
                 /\ conns'[c].shut = conns[c].shut
<1>1. NoConn.thread = "none"
  BY DEF NoConn
<1>2. ASSUME NEW c \in Connections
      PROVE  /\ (conns'[c].thread \in {"first", "run"}) <=> Alive(c)
             /\ Alive(c) \/ c = map =>
                 /\ conns'[c].key = conns[c].key /\ conns'[c].thread = conns[c].thread
                 /\ conns'[c].shut = conns[c].shut
  <2>1. CASE SameConn(c)
    BY <2>1, Zenon DEF SameConn, Alive
  <2>2. CASE c # map /\ ~Alive(c) /\ conns'[c] = NoConn
    <3>1. conns'[c].thread = "none"
      BY <1>1, <2>2
    <3>2. conns'[c].thread \notin {"first", "run"}
      BY <3>1
    <3> QED BY <2>2, <3>2, Zenon
  <2> QED BY <2>1, <2>2 DEF ConnsKept
<1> QED BY <1>2

LEMMA UnshutKept ==
    ASSUME Unshut, ConnsKept, map \in Connections \cup {0}, map' = map \/ map' = 0
    PROVE  Unshut'
<1>1. map # 0 => conns'[map].shut = conns[map].shut
  BY KeptMatters, Zenon
<1>2. CASE map' = 0
  BY <1>2, Zenon DEF Unshut
<1>3. CASE map' = map
  BY <1>1, <1>3, Zenon DEF Unshut
<1> QED BY <1>2, <1>3

\* A handler goes on, or ends and lets go of what it held.
LEMMA HandlerMoves ==
    ASSUME Control, NEW s \in Sockets, NEW r \in HandlerSet,
           hs' = [hs EXCEPT ![s] = r],
           key' = key, router' = router, map' = map, stop' = stop,
           mutex' = IF hs[s].pc = "recovering" THEN "free" ELSE mutex,
           r.pc # "recovering", stop = "done" => r.pc = "done",
           Starting(s) <=> r.pc \in {"created", "start"},
           Starting(s) => r.conn = hs[s].conn,
           ConnsKept
    PROVE  Control'
<1>1. /\ hs \in [Sockets -> HandlerSet] /\ map \in Connections \cup {0}
      /\ mutex \in {"free", "recover", "shutdown"}
      /\ mutex = "recover" <=> \E t \in Sockets : hs[t].pc = "recovering"
      /\ LocksAgree /\ KeysAgree /\ StartedOnce /\ TerminalKnown
  BY DEF Control
<1>2. hs' \in [Sockets -> HandlerSet] /\ hs'[s] = r /\ \A t \in Sockets \ {s} : hs'[t] = hs[t]
  BY <1>1
<1>3. \A t \in Sockets : (Starting(t)' <=> Starting(t)) /\ (Starting(t) => hs'[t].conn = hs[t].conn)
  BY <1>2 DEF Starting
<1>4. \A t \in Sockets : hs'[t].pc = "recovering" <=> (hs[t].pc = "recovering" /\ t # s)
  BY <1>2
<1>5. /\ mutex' \in {"free", "recover", "shutdown"}
      /\ mutex' = "recover" <=> \E t \in Sockets : hs'[t].pc = "recovering"
  BY <1>1, <1>4 DEF LocksAgree
<1>6. LocksAgree'
  <2>1. (mutex' = "shutdown" <=> stop' = "held")
    BY <1>1 DEF LocksAgree
  <2>2. \A t, u \in Sockets : hs'[t].pc = "recovering" /\ hs'[u].pc = "recovering" => t = u
    BY <1>1, <1>4 DEF LocksAgree
  <2>3. stop' = "done" => \A t \in Sockets : hs'[t].pc = "done"
    BY <1>1, <1>2 DEF LocksAgree
  <2> QED BY <2>1, <2>2, <2>3 DEF LocksAgree
<1>7. /\ \A c \in Connections : Alive(c)' <=> Alive(c)
      /\ \A c \in Connections : Alive(c) \/ c = map =>
            conns'[c].key = conns[c].key /\ conns'[c].thread = conns[c].thread
  BY KeptMatters, Zenon DEF Alive
<1>8. map # 0 => conns'[map].key = conns[map].key /\ conns'[map].thread = conns[map].thread
  BY <1>1, <1>7
<1>9. KeysAgree'
  BY <1>1, <1>8 DEF KeysAgree
<1>10. StartedOnce'
  BY <1>1, <1>3, <1>7, <1>8, Zenon DEF StartedOnce
<1>11. TerminalKnown'
  BY <1>1, <1>7, Zenon DEF TerminalKnown
<1>12. (map # 0 => /\ key # 0
                   /\ \/ conns[map].thread \in {"first", "run", "refused"}
                      \/ \E t \in Sockets : hs[t].conn = map /\ Starting(t))'
  BY <1>3, <1>8, Zenon DEF Control
<1> QED BY <1>1, <1>2, <1>5, <1>6, <1>9, <1>10, <1>11, <1>12, Zenon DEF Control

-----------------------------------------------------------------------------
(* Changes of the table of connections.                                    *)

WithSock(f, c, v) == [f EXCEPT ![c].sock = v]
WithPaid(f, c, v, p) == [f EXCEPT ![c].sock = v, ![c].paid = p]
WithThread(f, c, x) == [f EXCEPT ![c].thread = x]
WithFirst(f, c, p, x) == [f EXCEPT ![c].paid = p, ![c].thread = x]
WithShut(f, c, b) == [f EXCEPT ![c].shut = b, ![c].sock = 0]

LEMMA SockSet ==
    ASSUME NEW B, NEW f \in [Connections -> ConnSet(B)], NEW c, NEW v \in Sockets \cup {0}
    PROVE  /\ WithSock(f, c, v) \in [Connections -> ConnSet(B)]
           /\ \A d \in Connections : /\ WithSock(f, c, v)[d].key = f[d].key
                                     /\ WithSock(f, c, v)[d].thread = f[d].thread
                                     /\ WithSock(f, c, v)[d].shut = f[d].shut
  BY DEF ConnSet, WithSock

LEMMA PaidSet ==
    ASSUME NEW B, NEW f \in [Connections -> ConnSet(B)], NEW c, NEW v \in Sockets \cup {0}, NEW p \in B
    PROVE  /\ WithPaid(f, c, v, p) \in [Connections -> ConnSet(B)]
           /\ \A d \in Connections : /\ WithPaid(f, c, v, p)[d].key = f[d].key
                                     /\ WithPaid(f, c, v, p)[d].thread = f[d].thread
                                     /\ WithPaid(f, c, v, p)[d].shut = f[d].shut
  BY DEF ConnSet, WithPaid

LEMMA ThreadSet ==
    ASSUME NEW B, NEW f \in [Connections -> ConnSet(B)], NEW c, NEW x \in Stages
    PROVE  /\ WithThread(f, c, x) \in [Connections -> ConnSet(B)]
           /\ \A d \in Connections : /\ WithThread(f, c, x)[d].key = f[d].key
                                     /\ WithThread(f, c, x)[d].thread = IF d = c THEN x ELSE f[d].thread
                                     /\ WithThread(f, c, x)[d].shut = f[d].shut
  BY DEF ConnSet, WithThread

LEMMA FirstSet ==
    ASSUME NEW B, NEW f \in [Connections -> ConnSet(B)], NEW c, NEW p \in B, NEW x \in Stages
    PROVE  /\ WithFirst(f, c, p, x) \in [Connections -> ConnSet(B)]
           /\ \A d \in Connections : /\ WithFirst(f, c, p, x)[d].key = f[d].key
                                     /\ WithFirst(f, c, p, x)[d].thread = IF d = c THEN x ELSE f[d].thread
                                     /\ WithFirst(f, c, p, x)[d].shut = f[d].shut
  BY DEF ConnSet, WithFirst

LEMMA ShutSet ==
    ASSUME NEW B, NEW f \in [Connections -> ConnSet(B)], NEW c, NEW b \in B
    PROVE  /\ WithShut(f, c, b) \in [Connections -> ConnSet(B)]
           /\ \A d \in Connections : /\ WithShut(f, c, b)[d].key = f[d].key
                                     /\ WithShut(f, c, b)[d].thread = f[d].thread
  BY DEF ConnSet, WithShut

LEMMA NoConnType == NoConn \in ConnSet(BOOLEAN)
  BY DEF NoConn, ConnSet, Stages

\* ShutDown keeps the types, the keys and the threads.
LEMMA ShutDownIs ==
    ASSUME NEW f \in [Connections -> ConnSet(BOOLEAN)], NEW c
    PROVE  /\ ShutDown(f, c) \in [Connections -> ConnSet(BOOLEAN)]
           /\ \A d \in Connections : /\ ShutDown(f, c)[d].key = f[d].key
                                     /\ ShutDown(f, c)[d].thread = f[d].thread
<1>1. PICK b \in BOOLEAN : b = TRUE
  OBVIOUS
<1>2. ShutDown(f, c) = WithShut(f, c, b)
  BY <1>1 DEF ShutDown, WithShut
<1> QED BY <1>2, ShutSet

\* A handler that ends destroys its connection or leaves it; it is not the one
\* in the map, and has no thread.
LEMMA ReleaseIs ==
    ASSUME NEW s, NEW m, NEW f \in [Connections -> ConnSet(BOOLEAN)]
    PROVE  /\ Release(s, m, f) \in [Connections -> ConnSet(BOOLEAN)]
           /\ \A c \in Connections :
                \/ Release(s, m, f)[c] = f[c]
                \/ /\ c # m /\ f[c].thread \notin {"first", "run"}
                   /\ Release(s, m, f)[c] = NoConn
  BY NoConnType, Zenon DEF Release, Unreferenced

\* Connections that only change their socket or payload before that are kept.
LEMMA ReleaseKeeps ==
    ASSUME NEW s, NEW f \in [Connections -> ConnSet(BOOLEAN)],
           \A c \in Connections : /\ f[c].key = conns[c].key /\ f[c].thread = conns[c].thread
                                  /\ f[c].shut = conns[c].shut,
           conns' = Release(s, map, f)
    PROVE  ConnsKept /\ conns' \in [Connections -> ConnSet(BOOLEAN)]
<1>1. ASSUME NEW c \in Connections
      PROVE  SameConn(c) \/ (c # map /\ ~Alive(c) /\ conns'[c] = NoConn)
  <2>1. CASE conns'[c] = f[c]
    BY <2>1, Zenon DEF SameConn
  <2>2. CASE c # map /\ f[c].thread \notin {"first", "run"} /\ conns'[c] = NoConn
    BY <2>2, Zenon DEF Alive
  <2>3. \/ Release(s, map, f)[c] = f[c]
        \/ /\ c # map /\ f[c].thread \notin {"first", "run"}
           /\ Release(s, map, f)[c] = NoConn
    BY ReleaseIs
  <2> QED BY <2>1, <2>2, <2>3
<1> QED BY <1>1, ReleaseIs, Zenon DEF ConnsKept

-----------------------------------------------------------------------------
(* The actions that change the shared part.                                *)

\* Every conjunct of Core is about these variables.
LEMMA CoreStutters ==
    ASSUME Core, UNCHANGED server, stop' = stop
    PROVE  Core'
  BY Zenon DEF Core, Control, Unshut, server, LocksAgree, KeysAgree, StartedOnce, TerminalKnown,
     Starting, Alive

LEMMA ConnsStutter ==
    ASSUME conns' = conns
    PROVE  ConnsKept
  BY Zenon DEF ConnsKept, SameConn

\* Handlers that go on and leave the connections alone.
LEMMA HandlerGoesOn ==
    ASSUME Core, NEW s \in Sockets, NEW r \in HandlerSet,
           hs' = [hs EXCEPT ![s] = r],
           key' = key, router' = router, map' = map, stop' = stop, mutex' = mutex,
           conns' = conns, hs[s].pc # "recovering",
           r.pc # "recovering", stop = "done" => r.pc = "done",
           Starting(s) <=> r.pc \in {"created", "start"},
           Starting(s) => r.conn = hs[s].conn
    PROVE  Core'
<1>1. Control /\ Unshut /\ conns \in [Connections -> ConnSet(BOOLEAN)] /\ map \in Connections \cup {0}
  BY DEF Core, Control
<1>2. ConnsKept
  BY ConnsStutter
<1>3. Control'
  BY <1>1, <1>2, HandlerMoves, Zenon
<1>4. Unshut'
  BY <1>1, <1>2, UnshutKept, Zenon
<1> QED BY <1>1, <1>3, <1>4, Zenon DEF Core

LEMMA CoreTypes ==
    ASSUME Core, NEW s \in Sockets
    PROVE  /\ hs[s] \in HandlerSet /\ hs \in [Sockets -> HandlerSet]
           /\ stop = "done" => hs[s].pc = "done"
           /\ stop \in {"no", "held", "done"}
           /\ mutex = "recover" <=> \E t \in Sockets : hs[t].pc = "recovering"
  BY DEF Core, Control, LocksAgree

\* A socket is accepted.
LEMMA AcceptedKeeps ==
    ASSUME Core, NEW s \in Sockets, NEW v \in Versions, Accepted(s, v),
           UNCHANGED <<key, router, map, mutex, conns, owner>>
    PROVE  Core'
<1>1. /\ stop = "no" /\ hs[s] = Idle
      /\ hs' = [hs EXCEPT ![s] = [pc |-> "queued", conn |-> 0, match |-> v]]
      /\ key' = key /\ router' = router /\ map' = map /\ stop' = stop /\ mutex' = mutex
      /\ conns' = conns
  BY DEF Accepted, owner
<1>2. PICK r : r = [pc |-> "queued", conn |-> 0, match |-> v]
  OBVIOUS
<1>3. r \in HandlerSet /\ r.pc = "queued"
  BY <1>2 DEF HandlerSet, Places
<1>4. hs[s].pc = "done"
  BY <1>1 DEF Idle
<1> QED BY <1>1, <1>2, <1>3, <1>4, HandlerGoesOn DEF Starting

LEMMA HandlerStartKeeps == ASSUME Core, NEW s \in Sockets, HandlerStart(s) PROVE Core'
<1>1. /\ hs[s].pc = "queued" /\ hs' = [hs EXCEPT ![s].pc = "request"]
      /\ key' = key /\ router' = router /\ map' = map /\ stop' = stop /\ mutex' = mutex
      /\ conns' = conns
  BY DEF HandlerStart, owner
<1>2. PICK r : r = [hs[s] EXCEPT !.pc = "request"]
  OBVIOUS
<1>3. r \in HandlerSet /\ r.pc = "request" /\ hs' = [hs EXCEPT ![s] = r]
  BY <1>1, <1>2, CoreTypes DEF HandlerSet, Places
<1>4. stop # "done"
  BY <1>1, CoreTypes
<1> QED BY <1>1, <1>3, <1>4, HandlerGoesOn DEF Starting

LEMMA IdleType == Idle \in HandlerSet /\ Idle.pc = "done"
<1>1. TRUE \in Versions
  BY Zenon DEF Versions
<1>2. PICK v \in Versions : Idle = [pc |-> "done", conn |-> 0, match |-> v]
  BY <1>1, Zenon DEF Idle
<1> QED BY <1>2 DEF HandlerSet, Places

LEMMA HandlerMismatchKeeps == ASSUME Core, NEW s \in Sockets, HandlerMismatch(s) PROVE Core'
<1>1. /\ hs[s].pc = "request" /\ hs' = [hs EXCEPT ![s] = Idle]
      /\ key' = key /\ router' = router /\ map' = map /\ stop' = stop /\ mutex' = mutex
      /\ conns' = conns
  BY DEF HandlerMismatch, owner
<1> QED BY <1>1, IdleType, HandlerGoesOn DEF Starting

LEMMA HandlerInvalidKeeps == ASSUME Core, NEW s \in Sockets, HandlerInvalid(s) PROVE Core'
<1>1. /\ hs[s].pc = "invalid" /\ hs' = [hs EXCEPT ![s] = Idle]
      /\ key' = key /\ router' = router /\ map' = map /\ stop' = stop /\ mutex' = mutex
      /\ conns' = conns
  BY DEF HandlerInvalid, owner
<1> QED BY <1>1, IdleType, HandlerGoesOn DEF Starting

LEMMA HandlerRespondKeeps == ASSUME Core, NEW s \in Sockets, HandlerRespond(s) PROVE Core'
<1>1. /\ hs[s].pc \in {"created", "returning"}
      /\ hs' = [hs EXCEPT ![s].pc = IF hs[s].pc = "created" THEN "start" ELSE "recover"]
      /\ key' = key /\ router' = router /\ map' = map /\ stop' = stop /\ mutex' = mutex
      /\ conns' = conns
  BY DEF HandlerRespond, owner
<1>2. PICK r : r = [hs[s] EXCEPT !.pc = IF hs[s].pc = "created" THEN "start" ELSE "recover"]
  OBVIOUS
<1>3. /\ r \in HandlerSet /\ r.pc = (IF hs[s].pc = "created" THEN "start" ELSE "recover")
      /\ r.conn = hs[s].conn /\ hs' = [hs EXCEPT ![s] = r]
  BY <1>1, <1>2, CoreTypes DEF HandlerSet, Places
<1>4. stop # "done"
  BY <1>1, CoreTypes
<1> QED BY <1>1, <1>3, <1>4, HandlerGoesOn DEF Starting

\* What Control says, with the definitions opened.
LEMMA ControlFacts ==
    ASSUME Core
    PROVE  /\ key \in Passkeys \cup {0} /\ router \in Passkeys \cup {0} /\ map \in Connections \cup {0}
           /\ mutex \in {"free", "recover", "shutdown"} /\ stop \in {"no", "held", "done"}
           /\ hs \in [Sockets -> HandlerSet]
           /\ mutex = "recover" <=> \E s \in Sockets : hs[s].pc = "recovering"
           /\ LocksAgree /\ KeysAgree /\ StartedOnce /\ TerminalKnown /\ Unshut
           /\ conns \in [Connections -> ConnSet(BOOLEAN)]
           /\ map # 0 => /\ key # 0
                         /\ \/ conns[map].thread \in {"first", "run", "refused"}
                            \/ \E s \in Sockets : hs[s].conn = map /\ Starting(s)
  BY Zenon DEF Core, Control

\* No thread serves while a connection is being made or none is in the map,
\* unless shutdown() has been through.
LEMMA NobodyServes ==
    ASSUME RegistryAssumption, Core, stop # "done", map = 0 \/ \E s \in Sockets : Starting(s)
    PROVE  \A c \in Connections : ~Alive(c)
<1>1. StartedOnce
  BY ControlFacts
<1>2. ASSUME NEW c \in Connections, Alive(c) PROVE FALSE
  <2>1. map = c
    BY <1>1, <1>2 DEF StartedOnce
  <2>2. CASE map = 0
    BY <2>1, <2>2, <1>2 DEF RegistryAssumption
  <2>3. CASE \E s \in Sockets : Starting(s)
    BY <1>1, <1>2, <2>1, <2>3 DEF StartedOnce, Alive
  <2> QED BY <2>2, <2>3
<1> QED BY <1>2

\* The handler finds the connection, makes one, or finds no key.
LEMMA HandlerRequestKeeps ==
    ASSUME RegistryAssumption, Core, NEW s \in Sockets, HandlerRequest(s) PROVE Core'
<1>1. PICK c \in FreeConns : Lookup(s, c)
  BY DEF HandlerRequest
<1>2. /\ hs[s].pc = "request" /\ mutex = "free"
      /\ key' = key /\ router' = router /\ stop' = stop /\ mutex' = mutex
  BY DEF HandlerRequest, owner
<1>3. stop # "done" /\ hs[s] \in HandlerSet
  BY <1>2, CoreTypes
<1>4. CASE map # 0
  <2>1. PICK r : r = [hs[s] EXCEPT !.pc = IF key = 0 THEN "invalid" ELSE "returning", !.conn = map]
    OBVIOUS
  <2>2. hs' = [hs EXCEPT ![s] = r] /\ map' = map /\ conns' = conns
    BY <1>1, <1>4, <2>1 DEF Lookup
  <2>3. map \in Connections \cup {0}
    BY ControlFacts
  <2>4. r \in HandlerSet /\ r.pc \in {"invalid", "returning"}
    BY <1>3, <2>1, <2>3 DEF HandlerSet, Places
  <2> QED BY <1>2, <1>3, <2>2, <2>4, HandlerGoesOn DEF Starting
<1>5. CASE map = 0 /\ key = 0
  <2>1. PICK r : r = [hs[s] EXCEPT !.pc = "invalid"]
    OBVIOUS
  <2>2. r \in HandlerSet /\ r.pc = "invalid"
    BY <1>3, <2>1 DEF HandlerSet, Places
  <2>3. hs' = [hs EXCEPT ![s] = r] /\ map' = map /\ conns' = conns
    BY <1>1, <1>5, <2>1 DEF Lookup
  <2> QED BY <1>2, <1>3, <2>2, <2>3, HandlerGoesOn DEF Starting
<1>6. CASE map = 0 /\ key # 0
  <2>1. PICK n : n = [NoConn EXCEPT !.key = key, !.sock = s]
    OBVIOUS
  <2>2. /\ key \in Passkeys \cup {0} /\ router \in Passkeys \cup {0} /\ hs \in [Sockets -> HandlerSet]
        /\ mutex = "recover" <=> \E t \in Sockets : hs[t].pc = "recovering"
        /\ LocksAgree /\ KeysAgree /\ StartedOnce /\ TerminalKnown
        /\ conns \in [Connections -> ConnSet(BOOLEAN)] /\ stop \in {"no", "held", "done"}
    BY ControlFacts
  <2>3. n \in ConnSet(BOOLEAN) /\ n.key = key /\ n.thread = "none"
    BY <2>1, <2>2 DEF NoConn, ConnSet, Stages
  <2>4. ~n.shut
    BY <2>1 DEF NoConn
  <2>5. /\ map' = c /\ conns' = [conns EXCEPT ![c] = n]
        /\ hs' = [hs EXCEPT ![s].pc = "created", ![s].conn = c]
    BY <1>1, <1>6, <2>1 DEF Lookup
  <2>6. c \in Connections /\ c # 0
    BY DEF FreeConns, RegistryAssumption
  <2>7. /\ conns' \in [Connections -> ConnSet(BOOLEAN)] /\ conns'[c] = n
        /\ \A d \in Connections \ {c} : conns'[d] = conns[d]
    BY <2>2, <2>3, <2>5, <2>6
  <2>8. Unshut'
    BY <2>4, <2>5, <2>7, Zenon DEF Unshut
  <2>9. PICK r : r = [hs[s] EXCEPT !.pc = "created", !.conn = c]
    OBVIOUS
  <2>10. r \in HandlerSet /\ r.pc = "created" /\ r.conn = c
    BY <1>3, <2>6, <2>9 DEF HandlerSet, Places
  <2>11. /\ hs' \in [Sockets -> HandlerSet] /\ hs'[s] = r
         /\ \A t \in Sockets \ {s} : hs'[t] = hs[t]
    BY <2>2, <2>5, <2>9, <2>10
  <2>12. \A t \in Sockets : ~Starting(t)
    BY <1>6, <2>2 DEF StartedOnce
  <2>13. \A t \in Sockets : Starting(t)' <=> t = s
    BY <2>10, <2>11, <2>12 DEF Starting
  <2>14. \A d \in Connections : ~Alive(d)
    BY <1>3, <1>6, NobodyServes
  <2>15. \A d \in Connections : ~Alive(d)'
    BY <2>3, <2>6, <2>7, <2>14 DEF Alive
  <2>16. LocksAgree'
    BY <1>2, <1>3, <2>2, <2>10, <2>11 DEF LocksAgree
  <2>17. mutex' = "recover" <=> \E t \in Sockets : hs'[t].pc = "recovering"
    BY <1>2, <2>2, <2>10, <2>11
  <2>18. KeysAgree'
    BY <1>2, <1>6, <2>2, <2>3, <2>5, <2>7 DEF KeysAgree
  <2>19. StartedOnce'
    <3>1. map' # 0 /\ hs'[s].conn = map' /\ conns'[map'].thread = "none"
      BY <2>3, <2>5, <2>6, <2>7, <2>10, <2>11
    <3> QED BY <2>13, <2>15, <3>1, Zenon DEF StartedOnce
  <2>20. TerminalKnown'
    BY <2>15, Zenon DEF TerminalKnown
  <2>21. hs'[s].conn = map' /\ Starting(s)' /\ key' # 0 /\ map' \in Connections \cup {0}
    BY <1>2, <1>6, <2>5, <2>6, <2>10, <2>11, <2>13
  <2>22. Control'
    BY <1>2, <2>2, <2>11, <2>16, <2>17, <2>18, <2>19, <2>20, <2>21, Zenon DEF Control
  <2> QED BY <2>7, <2>8, <2>22, Zenon DEF Core
<1> QED BY <1>4, <1>5, <1>6

\* newClient starts the only thread.
LEMMA NewClientKeeps ==
    ASSUME RegistryAssumption, Core, NEW s \in Sockets, NewClient(s) PROVE Core'
<1>1. /\ hs[s].pc = "start" /\ mutex = "free" /\ hs' = [hs EXCEPT ![s] = Idle]
      /\ conns' = WithThread(conns, hs[s].conn, "first")
      /\ key' = key /\ router' = router /\ map' = map /\ stop' = stop /\ mutex' = mutex
  BY DEF NewClient, owner, WithThread
<1>2. /\ key \in Passkeys \cup {0} /\ router \in Passkeys \cup {0} /\ hs \in [Sockets -> HandlerSet]
      /\ map \in Connections \cup {0} /\ stop \in {"no", "held", "done"}
      /\ mutex = "recover" <=> \E t \in Sockets : hs[t].pc = "recovering"
      /\ LocksAgree /\ KeysAgree /\ StartedOnce /\ TerminalKnown
      /\ conns \in [Connections -> ConnSet(BOOLEAN)] /\ (map # 0 => key # 0)
  BY ControlFacts
<1>3. Starting(s) /\ stop # "done"
  BY <1>1, CoreTypes DEF Starting
<1>4. map # 0 /\ map \in Connections /\ hs[s].conn = map
  BY <1>2, <1>3 DEF StartedOnce
<1>5. \A d \in Connections : ~Alive(d)
  BY <1>3, NobodyServes
<1>6. "first" \in Stages
  BY DEF Stages
<1>7. /\ conns' \in [Connections -> ConnSet(BOOLEAN)]
      /\ \A d \in Connections : /\ conns'[d].key = conns[d].key
                                /\ conns'[d].thread = IF d = map THEN "first" ELSE conns[d].thread
                                /\ conns'[d].shut = conns[d].shut
  BY <1>1, <1>2, <1>4, <1>6, ThreadSet
<1>8. Unshut'
  BY <1>1, <1>4, <1>7, ControlFacts, Zenon DEF Unshut
<1>9. /\ hs' \in [Sockets -> HandlerSet] /\ hs'[s].pc = "done"
      /\ \A t \in Sockets \ {s} : hs'[t] = hs[t]
  BY <1>1, <1>2, IdleType
<1>10. \A t \in Sockets : ~Starting(t)'
  BY <1>2, <1>3, <1>9 DEF Starting, StartedOnce
<1>11. \A d \in Connections : Alive(d)' <=> d = map
  BY <1>5, <1>7 DEF Alive
<1>12. LocksAgree'
  BY <1>1, <1>2, <1>9 DEF LocksAgree
<1>13. mutex' = "recover" <=> \E t \in Sockets : hs'[t].pc = "recovering"
  BY <1>1, <1>2, <1>9
<1>14. KeysAgree' /\ conns'[map].key = router
  BY <1>1, <1>2, <1>4, <1>7 DEF KeysAgree
<1>15. StartedOnce'
  BY <1>1, <1>10, <1>11, Zenon DEF StartedOnce
<1>16. TerminalKnown'
  BY <1>1, <1>11, <1>14, Zenon DEF TerminalKnown
<1>17. conns'[map'].thread = "first"
  BY <1>1, <1>4, <1>7
<1>18. Control'
  BY <1>1, <1>2, <1>9, <1>12, <1>13, <1>14, <1>15, <1>16, <1>17 DEF Control
<1> QED BY <1>7, <1>8, <1>18, Zenon DEF Core

\* recoverClient takes classMutex and closes the old socket.
LEMMA HandlerRecoverKeeps == ASSUME Core, NEW s \in Sockets, HandlerRecover(s) PROVE Core'
<1>1. /\ hs[s].pc = "recover" /\ mutex = "free" /\ mutex' = "recover"
      /\ hs' = [hs EXCEPT ![s].pc = "recovering"]
      /\ conns' = WithSock(conns, hs[s].conn, 0)
      /\ key' = key /\ router' = router /\ map' = map /\ stop' = stop
  BY DEF HandlerRecover, owner, WithSock
<1>2. /\ key \in Passkeys \cup {0} /\ router \in Passkeys \cup {0} /\ hs \in [Sockets -> HandlerSet]
      /\ map \in Connections \cup {0} /\ stop \in {"no", "held", "done"}
      /\ mutex = "recover" <=> \E t \in Sockets : hs[t].pc = "recovering"
      /\ LocksAgree /\ KeysAgree /\ StartedOnce /\ TerminalKnown
      /\ conns \in [Connections -> ConnSet(BOOLEAN)] /\ (map # 0 => key # 0)
  BY ControlFacts
<1>3. /\ conns' \in [Connections -> ConnSet(BOOLEAN)]
      /\ \A d \in Connections : /\ conns'[d].key = conns[d].key /\ conns'[d].thread = conns[d].thread
                                /\ conns'[d].shut = conns[d].shut
  BY <1>1, <1>2, SockSet
<1>4. Unshut' /\ \A d \in Connections : Alive(d)' <=> Alive(d)
  BY <1>1, <1>2, <1>3, ControlFacts, Zenon DEF Unshut, Alive
<1>5. /\ hs' \in [Sockets -> HandlerSet] /\ hs'[s].pc = "recovering" /\ hs'[s].conn = hs[s].conn
      /\ \A t \in Sockets \ {s} : hs'[t] = hs[t]
  BY <1>1, <1>2 DEF HandlerSet, Places
<1>6. \A t \in Sockets : (Starting(t)' <=> Starting(t)) /\ hs'[t].conn = hs[t].conn
  BY <1>1, <1>5 DEF Starting
<1>7. LocksAgree' /\ (mutex' = "recover" <=> \E t \in Sockets : hs'[t].pc = "recovering")
  BY <1>1, <1>2, <1>5 DEF LocksAgree
<1>8. map # 0 => conns'[map].key = conns[map].key /\ conns'[map].thread = conns[map].thread
  BY <1>2, <1>3
<1>9. KeysAgree'
  BY <1>1, <1>2, <1>8 DEF KeysAgree
<1>10. StartedOnce'
  BY <1>1, <1>2, <1>4, <1>6, <1>8, Zenon DEF StartedOnce
<1>11. TerminalKnown'
  BY <1>1, <1>2, <1>3, <1>4, Zenon DEF TerminalKnown
<1>12. (map # 0 => /\ key # 0
                   /\ \/ conns[map].thread \in {"first", "run", "refused"}
                      \/ \E t \in Sockets : hs[t].conn = map /\ Starting(t))'
  BY <1>1, <1>6, <1>8, ControlFacts, Zenon
<1>13. mutex' \in {"free", "recover", "shutdown"}
  BY <1>1
<1>14. Control'
  BY <1>1, <1>2, <1>5, <1>7, <1>9, <1>10, <1>11, <1>12, <1>13, Zenon DEF Control
<1> QED BY <1>3, <1>4, <1>14, Zenon DEF Core

\* A handler that ends after its connection was found by somebody else too.
LEMMA HandlerEnds ==
    ASSUME Core, NEW s \in Sockets, NEW f \in [Connections -> ConnSet(BOOLEAN)],
           \A c \in Connections : /\ f[c].key = conns[c].key /\ f[c].thread = conns[c].thread
                                  /\ f[c].shut = conns[c].shut,
           conns' = Release(s, map, f), hs' = [hs EXCEPT ![s] = Idle],
           key' = key, router' = router, map' = map, stop' = stop, ~Starting(s),
           mutex' = IF hs[s].pc = "recovering" THEN "free" ELSE mutex
    PROVE  Core'
<1>1. Control /\ Unshut /\ map \in Connections \cup {0}
  BY Zenon DEF Core, Control
<1>2. ConnsKept /\ conns' \in [Connections -> ConnSet(BOOLEAN)]
  BY ReleaseKeeps, Zenon
<1>3. Idle.pc # "recovering" /\ Idle.pc \notin {"created", "start"} /\ Idle.pc = "done"
  BY IdleType
<1>4. Control'
  BY <1>1, <1>2, <1>3, IdleType, HandlerMoves, Zenon
<1>5. Unshut'
  BY <1>1, <1>2, UnshutKept, Zenon
<1> QED BY <1>2, <1>4, <1>5, Zenon DEF Core

LEMMA RecoveredKeeps == ASSUME Core, NEW s \in Sockets, Recovered(s) PROVE Core'
<1>1. PICK b \in BOOLEAN : b = TRUE
  OBVIOUS
<1>2. PICK f : f = WithPaid(conns, hs[s].conn, s, b)
  OBVIOUS
<1>3. /\ hs[s].pc = "recovering" /\ mutex' = "free" /\ hs' = [hs EXCEPT ![s] = Idle]
      /\ key' = key /\ router' = router /\ map' = map /\ stop' = stop
      /\ conns' = Release(s, map, f)
  BY <1>1, <1>2 DEF Recovered, owner, WithPaid
<1>4. conns \in [Connections -> ConnSet(BOOLEAN)]
  BY ControlFacts
<1>5. s \in Sockets \cup {0}
  OBVIOUS
<1>6. /\ f \in [Connections -> ConnSet(BOOLEAN)]
      /\ \A c \in Connections : /\ f[c].key = conns[c].key /\ f[c].thread = conns[c].thread
                                /\ f[c].shut = conns[c].shut
  BY <1>2, <1>4, <1>5, PaidSet
<1>7. ~Starting(s) /\ mutex' = IF hs[s].pc = "recovering" THEN "free" ELSE mutex
  BY <1>3 DEF Starting
<1> QED BY <1>3, <1>6, <1>7, HandlerEnds, Zenon

LEMMA RecoverFailsKeeps == ASSUME Core, NEW s \in Sockets, RecoverFails(s) PROVE Core'
<1>1. /\ hs[s].pc = "recovering" /\ mutex' = "free" /\ hs' = [hs EXCEPT ![s] = Idle]
      /\ key' = key /\ router' = router /\ map' = map /\ stop' = stop
      /\ conns' = Release(s, map, conns)
  BY Zenon DEF RecoverFails, owner
<1>2. conns \in [Connections -> ConnSet(BOOLEAN)]
  BY ControlFacts
<1>3. ~Starting(s) /\ mutex' = IF hs[s].pc = "recovering" THEN "free" ELSE mutex
  BY <1>1 DEF Starting
<1> QED BY <1>1, <1>2, <1>3, HandlerEnds, Zenon

\* Steps after which no connection is in the map and no thread is started.
LEMMA MapEmptied ==
    ASSUME Core, map' = 0, key' \in {0, key}, router' = router, hs' \in [Sockets -> HandlerSet],
           mutex' \in {"free", "recover", "shutdown"}, stop' \in {"no", "held", "done"},
           mutex' = "recover" <=> \E t \in Sockets : hs'[t].pc = "recovering",
           LocksAgree', \A t \in Sockets : ~Starting(t)',
           conns' \in [Connections -> ConnSet(BOOLEAN)],
           \A c \in Connections : Alive(c)' => Alive(c) /\ conns'[c].key = conns[c].key,
           \A c \in Connections : Alive(c)' => stop' = "done"
    PROVE  Core'
<1>1. /\ key \in Passkeys \cup {0} /\ router \in Passkeys \cup {0}
      /\ KeysAgree /\ StartedOnce /\ TerminalKnown
  BY ControlFacts
<1>2. KeysAgree' /\ key' \in Passkeys \cup {0} /\ router' \in Passkeys \cup {0}
      /\ map' \in Connections \cup {0}
  BY <1>1 DEF KeysAgree
<1>3. StartedOnce'
  BY <1>1, Zenon DEF StartedOnce
<1>4. TerminalKnown'
  BY <1>1, Zenon DEF TerminalKnown
<1>5. Unshut'
  BY Zenon DEF Unshut
<1>6. Control'
  BY <1>2, <1>3, <1>4, Zenon DEF Control
<1> QED BY <1>5, <1>6, Zenon DEF Core

\* readProto or writeProto throws; the connection of a handler that had made
\* it is destroyed.
LEMMA HandlerThrowsKeeps ==
    ASSUME RegistryAssumption, Core, NEW s \in Sockets, HandlerThrows(s) PROVE Core'
<1>1. /\ hs[s].pc \in {"request", "created", "returning", "invalid"}
      /\ hs' = [hs EXCEPT ![s] = Idle]
      /\ key' = key /\ router' = router /\ mutex' = mutex /\ stop' = stop
  BY DEF HandlerThrows, owner
<1>2. /\ conns \in [Connections -> ConnSet(BOOLEAN)] /\ hs \in [Sockets -> HandlerSet]
      /\ mutex \in {"free", "recover", "shutdown"} /\ stop \in {"no", "held", "done"}
      /\ mutex = "recover" <=> \E t \in Sockets : hs[t].pc = "recovering"
      /\ LocksAgree /\ StartedOnce
  BY ControlFacts
<1>3. CASE hs[s].pc # "created"
  <2>1. map' = map /\ conns' = Release(s, map, conns)
    BY <1>3 DEF HandlerThrows
  <2>2. ~Starting(s) /\ mutex' = IF hs[s].pc = "recovering" THEN "free" ELSE mutex
    BY <1>1, <1>3 DEF Starting
  <2> QED BY <1>1, <1>2, <2>1, <2>2, HandlerEnds, Zenon
<1>4. CASE hs[s].pc = "created"
  <2>1. Starting(s) /\ stop # "done"
    BY <1>1, <1>4, CoreTypes DEF Starting
  <2>2. map # 0
    BY <1>2, <2>1 DEF StartedOnce
  <2>3. map' = 0 /\ conns' = Release(s, 0, ShutDown(conns, map))
    BY <1>4, <2>2 DEF HandlerThrows, DestroyPartial
  <2>4. PICK f : f = ShutDown(conns, map)
    OBVIOUS
  <2>5. /\ f \in [Connections -> ConnSet(BOOLEAN)]
        /\ \A c \in Connections : f[c].thread = conns[c].thread
    BY <1>2, <2>4, ShutDownIs
  <2>6. conns' \in [Connections -> ConnSet(BOOLEAN)]
    BY <2>3, <2>4, <2>5, ReleaseIs
  <2>7. \A c \in Connections : ~Alive(c)
    BY <2>1, NobodyServes
  <2>8. ASSUME NEW c \in Connections PROVE ~Alive(c)'
    <3>1. Release(s, 0, f)[c] = f[c] \/ Release(s, 0, f)[c] = NoConn
      BY <2>5, ReleaseIs
    <3>2. NoConn.thread = "none"
      BY DEF NoConn
    <3>3. f[c].thread \notin {"first", "run"}
      BY <2>5, <2>7, Zenon DEF Alive
    <3>4. conns'[c].thread \notin {"first", "run"}
      BY <2>3, <2>4, <3>1, <3>2, <3>3
    <3> QED BY <3>4, Zenon DEF Alive
  <2>9. /\ hs' \in [Sockets -> HandlerSet] /\ hs'[s].pc = "done"
        /\ \A t \in Sockets \ {s} : hs'[t] = hs[t]
    BY <1>1, <1>2, IdleType
  <2>10. \A t \in Sockets : ~Starting(t)'
    BY <1>2, <2>1, <2>9 DEF Starting, StartedOnce
  <2>11. LocksAgree' /\ (mutex' = "recover" <=> \E t \in Sockets : hs'[t].pc = "recovering")
    BY <1>1, <1>2, <1>4, <2>9 DEF LocksAgree
  <2> QED BY <1>1, <1>2, <2>3, <2>6, <2>8, <2>9, <2>10, <2>11, MapEmptied, Zenon
<1> QED BY <1>3, <1>4

\* Steps that only change the state of a thread that serves.
LEMMA ThreadGoesOn ==
    ASSUME RegistryAssumption, Core, NEW c \in Connections, Alive(c), NEW x \in {"first", "run", "refused"},
           conns' \in [Connections -> ConnSet(BOOLEAN)],
           \A d \in Connections : /\ conns'[d].key = conns[d].key
                                  /\ conns'[d].thread = (IF d = c THEN x ELSE conns[d].thread)
                                  /\ conns'[d].shut = conns[d].shut,
           UNCHANGED <<key, router, map, mutex, hs, stop>>
    PROVE  Core'
<1>1. /\ map \in Connections \cup {0} /\ LocksAgree /\ KeysAgree /\ StartedOnce /\ TerminalKnown
      /\ map # 0 => key # 0
      /\ (map # 0 => \/ conns[map].thread \in {"first", "run", "refused"}
                     \/ \E s \in Sockets : hs[s].conn = map /\ Starting(s))
  BY ControlFacts
<1>2. \A d \in Connections : Alive(d)' => Alive(d)
  BY DEF Alive
<1>3. Unshut'
  BY <1>1, ControlFacts, Zenon DEF Unshut
<1>4. \A s \in Sockets : ~Starting(s)
  BY CoreTypes, NobodyServes DEF Starting
<1>5. \A s \in Sockets : Starting(s)' <=> Starting(s)
  BY Zenon DEF Starting
<1>6. map # 0 => conns'[map].key = conns[map].key /\ conns'[map].thread \in {"first", "run", "refused"}
  BY <1>1, <1>4
<1>7. KeysAgree'
  BY <1>1, <1>6 DEF KeysAgree
<1>8. LocksAgree'
  BY <1>1, Zenon DEF LocksAgree
<1>9. StartedOnce'
  BY <1>1, <1>2, <1>4, <1>5, Zenon DEF StartedOnce
<1>10. TerminalKnown'
  BY <1>1, <1>2, Zenon DEF TerminalKnown
<1>11. Control'
  BY <1>1, <1>6, <1>7, <1>8, <1>9, <1>10, ControlFacts, Zenon DEF Control
<1> QED BY <1>3, <1>11, Zenon DEF Core

LEMMA FirstPacketKeeps ==
    ASSUME RegistryAssumption, Core, NEW c \in Connections, FirstPacket(c) PROVE Core'
<1>1. PICK p \in BOOLEAN : p = FALSE
  OBVIOUS
<1>2. PICK x \in {"first", "run", "refused"} : conns' = WithFirst(conns, c, p, x)
  BY <1>1 DEF FirstPacket, WithFirst
<1>3. /\ conns[c].thread = "first" /\ UNCHANGED <<key, router, map, mutex, hs, stop>>
  BY DEF FirstPacket, owner
<1>4. Alive(c) /\ x \in Stages
  BY <1>3 DEF Alive, Stages
<1>5. conns \in [Connections -> ConnSet(BOOLEAN)]
  BY ControlFacts
<1>6. /\ conns' \in [Connections -> ConnSet(BOOLEAN)]
      /\ \A d \in Connections : /\ conns'[d].key = conns[d].key
                                /\ conns'[d].thread = (IF d = c THEN x ELSE conns[d].thread)
                                /\ conns'[d].shut = conns[d].shut
  <2>1. p \in BOOLEAN
    OBVIOUS
  <2>2. /\ WithFirst(conns, c, p, x) \in [Connections -> ConnSet(BOOLEAN)]
        /\ \A d \in Connections :
              /\ WithFirst(conns, c, p, x)[d].key = conns[d].key
              /\ WithFirst(conns, c, p, x)[d].thread = (IF d = c THEN x ELSE conns[d].thread)
              /\ WithFirst(conns, c, p, x)[d].shut = conns[d].shut
    BY <2>1, <1>4, <1>5, FirstSet
  <2> QED BY <1>2, <2>2, Zenon
<1> QED BY <1>3, <1>4, <1>6, ThreadGoesOn, Zenon

LEMMA ServerEofKeeps ==
    ASSUME RegistryAssumption, Core, NEW c \in Connections, ServerEof(c) PROVE Core'
<1>1. /\ Alive(c) /\ conns' = WithSock(conns, c, 0)
      /\ UNCHANGED <<key, router, map, mutex, hs, stop>>
  BY DEF ServerEof, owner, WithSock
<1>2. PICK x \in {"first", "run", "refused"} : x = conns[c].thread
  BY <1>1 DEF Alive
<1>3. conns \in [Connections -> ConnSet(BOOLEAN)]
  BY ControlFacts
<1>4. /\ conns' \in [Connections -> ConnSet(BOOLEAN)]
      /\ \A d \in Connections : /\ conns'[d].key = conns[d].key /\ conns'[d].thread = conns[d].thread
                                /\ conns'[d].shut = conns[d].shut
  BY <1>1, <1>3, SockSet
<1>5. \A d \in Connections : conns'[d].thread = (IF d = c THEN x ELSE conns[d].thread)
  BY <1>2, <1>4
<1> QED BY <1>1, <1>4, <1>5, ThreadGoesOn, Zenon

\* removeClient: the key goes with the connection.
LEMMA SessionEndsKeeps ==
    ASSUME RegistryAssumption, Core, NEW c \in Connections, SessionEnds(c) PROVE Core'
<1>1. PICK f : f = WithThread(conns, c, "ended")
  OBVIOUS
<1>2. /\ conns[c].thread = "run" /\ router' = router /\ mutex' = mutex /\ hs' = hs /\ stop' = stop
      /\ key' = RemoveClient(f)[1] /\ map' = RemoveClient(f)[2] /\ conns' = RemoveClient(f)[3]
  BY <1>1 DEF SessionEnds, owner, WithThread
<1>3. /\ conns \in [Connections -> ConnSet(BOOLEAN)] /\ hs \in [Sockets -> HandlerSet]
      /\ mutex \in {"free", "recover", "shutdown"} /\ stop \in {"no", "held", "done"}
      /\ mutex = "recover" <=> \E t \in Sockets : hs[t].pc = "recovering"
      /\ LocksAgree /\ StartedOnce /\ (map # 0 => key # 0)
  BY ControlFacts
<1>4. "ended" \in Stages
  BY DEF Stages
<1>5. /\ f \in [Connections -> ConnSet(BOOLEAN)]
      /\ \A d \in Connections : /\ f[d].key = conns[d].key
                                /\ f[d].thread = IF d = c THEN "ended" ELSE conns[d].thread
  BY <1>1, <1>3, <1>4, ThreadSet
<1>6. key' = 0 /\ map' = 0 /\ (conns' = f \/ conns' = ShutDown(f, map))
  BY <1>2, <1>3 DEF RemoveClient
<1>7. /\ conns' \in [Connections -> ConnSet(BOOLEAN)]
      /\ \A d \in Connections : conns'[d].key = f[d].key /\ conns'[d].thread = f[d].thread
  <2>1. CASE conns' = f
    BY <1>5, <2>1
  <2>2. CASE conns' = ShutDown(f, map)
    BY <1>5, <2>2, ShutDownIs
  <2> QED BY <1>6, <2>1, <2>2
<1>8. Alive(c)
  BY <1>2 DEF Alive
<1>9. \A d \in Connections : ~Alive(d)'
  <2>1. \A d \in Connections : Alive(d) => d = c
    BY <1>3, <1>8 DEF StartedOnce
  <2> QED BY <1>5, <1>7, <2>1 DEF Alive
<1>10. \A t \in Sockets : ~Starting(t)
  BY <1>8, CoreTypes, NobodyServes DEF Starting
<1>11. LocksAgree' /\ \A t \in Sockets : ~Starting(t)'
  BY <1>2, <1>3, <1>10, Zenon DEF LocksAgree, Starting
<1> QED BY <1>2, <1>3, <1>6, <1>7, <1>9, <1>11, MapEmptied, Zenon

\* An id is registered once, and nobody serves it before.
LEMMA RegisterKeeps ==
    ASSUME RegistryAssumption, Core, NEW pk \in Passkeys, Register(pk) PROVE Core'
<1>1. /\ router = 0 /\ router' = pk /\ key' = pk /\ stop = "no"
      /\ UNCHANGED <<map, mutex, conns, hs, stop>>
  BY DEF Register, owner
<1>2. LocksAgree /\ KeysAgree /\ StartedOnce /\ (map # 0 => key # 0)
  BY ControlFacts
<1>3. map = 0
  BY <1>1, <1>2 DEF KeysAgree
<1>4. \A c \in Connections : ~Alive(c)
  BY <1>1, <1>3, NobodyServes
<1>5. TerminalKnown'
  BY <1>1, <1>4, Zenon DEF TerminalKnown, Alive
<1>6. KeysAgree' /\ pk \in Passkeys \cup {0}
  BY <1>1, <1>3 DEF KeysAgree
<1>7. LocksAgree' /\ StartedOnce' /\ Unshut'
  BY <1>1, <1>2, <1>3, Zenon DEF LocksAgree, StartedOnce, Unshut, Starting, Alive
<1>8. map' = 0 /\ map' \in Connections \cup {0}
  BY <1>1, <1>3
<1>9. Control'
  BY <1>1, <1>5, <1>6, <1>7, <1>8, ControlFacts, Zenon DEF Control
<1> QED BY <1>1, <1>7, <1>9, ControlFacts, Zenon DEF Core

LEMMA ShutdownBeginsKeeps == ASSUME Core, ShutdownBegins PROVE Core'
<1>1. /\ stop = "no" /\ mutex = "free" /\ stop' = "held" /\ mutex' = "shutdown"
      /\ UNCHANGED <<key, router, map, conns, hs>>
  BY DEF ShutdownBegins
<1>2. /\ LocksAgree /\ KeysAgree /\ StartedOnce /\ TerminalKnown
      /\ (mutex = "recover" <=> \E s \in Sockets : hs[s].pc = "recovering")
  BY ControlFacts
<1>3. LocksAgree' /\ (mutex' = "recover" <=> \E s \in Sockets : hs'[s].pc = "recovering")
  BY <1>1, <1>2 DEF LocksAgree
<1>4. \A c \in Connections : Alive(c) => map = c
  BY <1>1, <1>2 DEF StartedOnce
<1>5. StartedOnce'
  BY <1>1, <1>2, <1>4, Zenon DEF StartedOnce, Starting, Alive
<1>6. mutex' \in {"free", "recover", "shutdown"} /\ stop' \in {"no", "held", "done"}
  BY <1>1
<1>7. Control'
  BY <1>1, <1>2, <1>3, <1>5, <1>6, ControlFacts, Zenon
     DEF Control, KeysAgree, TerminalKnown, Starting, Alive
<1> QED BY <1>1, <1>7, ControlFacts, Zenon DEF Core, Unshut

LEMMA ShutdownEndsKeeps == ASSUME Core, ShutdownEnds PROVE Core'
<1>1. /\ stop' = "done" /\ mutex' = "free" /\ map' = 0 /\ key' = key /\ router' = router
      /\ hs' = hs /\ \A s \in Sockets : hs[s].pc = "done"
      /\ conns' = conns \/ conns' = ShutDown(conns, map)
  BY DEF ShutdownEnds
<1>2. conns \in [Connections -> ConnSet(BOOLEAN)] /\ hs \in [Sockets -> HandlerSet]
  BY ControlFacts
<1>3. /\ conns' \in [Connections -> ConnSet(BOOLEAN)]
      /\ \A d \in Connections : conns'[d].key = conns[d].key /\ conns'[d].thread = conns[d].thread
  <2>1. CASE conns' = conns
    BY <1>2, <2>1
  <2>2. CASE conns' = ShutDown(conns, map)
    BY <1>2, <2>2, ShutDownIs
  <2> QED BY <1>1, <2>1, <2>2
<1>4. \A d \in Connections : Alive(d)' => Alive(d) /\ conns'[d].key = conns[d].key
  BY <1>3 DEF Alive
<1>5. /\ LocksAgree' /\ \A t \in Sockets : ~Starting(t)'
      /\ (mutex' = "recover" <=> \E s \in Sockets : hs'[s].pc = "recovering")
  BY <1>1 DEF LocksAgree, Starting
<1>6. mutex' \in {"free", "recover", "shutdown"} /\ stop' \in {"no", "held", "done"}
  BY <1>1
<1> QED BY <1>1, <1>2, <1>3, <1>4, <1>5, <1>6, MapEmptied, Zenon

-----------------------------------------------------------------------------
(* The types of the client, the links and the owner.                       *)

ClientPlaces == {"none", "connect", "stuck", "ended"} \cup Established

ClientAt(x, p) == [x EXCEPT !.pc = p]
ClientOn(x, p, v) == [x EXCEPT !.pc = p, !.sock = v]
Answered(l, s, r) == [l EXCEPT ![s].resp = r]

LEMMA ClientMoves ==
    ASSUME NEW x \in ClientSet, NEW p \in ClientPlaces, NEW v \in Sockets \cup {0}
    PROVE  ClientAt(x, p) \in ClientSet /\ ClientOn(x, p, v) \in ClientSet
  BY DEF ClientSet, ClientPlaces, ClientAt, ClientOn

LEMMA ClientStarts ==
    ASSUME NEW p \in ClientPlaces, NEW v \in Sockets \cup {0}
    PROVE  [pc |-> p, sock |-> v] \in ClientSet
  BY DEF ClientSet, ClientPlaces

LEMMA LinkAnswered ==
    ASSUME NEW B, NEW l \in [Sockets -> LinkSet(B)], NEW s, NEW r \in Answers
    PROVE  Answered(l, s, r) \in [Sockets -> LinkSet(B)]
  BY DEF LinkSet, Answered

LEMMA LinkReplaced ==
    ASSUME NEW L, NEW l \in [Sockets -> L], NEW s, NEW x \in L
    PROVE  [l EXCEPT ![s] = x] \in [Sockets -> L]
  OBVIOUS

LEMMA LinkStarts ==
    /\ Closed \in LinkSet(BOOLEAN) /\ [open |-> TRUE, resp |-> "none"] \in LinkSet(BOOLEAN)
  BY DEF Closed, LinkSet, Answers

LEMMA LinkClosed ==
    ASSUME NEW ss, NEW l \in [Sockets -> LinkSet(BOOLEAN)]
    PROVE  Close(l, ss) \in [Sockets -> LinkSet(BOOLEAN)]
  BY LinkStarts, Zenon DEF Close

LinkMoves ==
    \/ link' = link
    \/ \E ss : link' = Close(link, ss)
    \/ \E s \in Sockets, r \in Answers : link' = Answered(link, s, r)
    \/ \E s \in Sockets : link' = [link EXCEPT ![s] = [open |-> TRUE, resp |-> "none"]]

ClientChanges ==
    \/ client' = client
    \/ client' = NoClient
    \/ \E p \in ClientPlaces : client' = ClientAt(client, p)
    \/ \E p \in ClientPlaces, v \in Sockets \cup {0} : client' = ClientOn(client, p, v)
    \/ \E s \in Sockets : client' = [pc |-> "connect", sock |-> s]

OwnerMoves ==
    /\ run' = run \/ run' \in {"join", "returned"}
    /\ halt' = halt \/ halt' = TRUE
    /\ joins' = joins \/ joins' \subseteq Connections
    /\ procs' = procs \/ (procs < MaxProcs /\ procs' = procs + 1)
    /\ faults' = faults \/ (faults < MaxFaults /\ faults' = faults + 1)

LEMMA SidesKept ==
    ASSUME RegistryAssumption, Sides, LinkMoves, ClientChanges, OwnerMoves
    PROVE  Sides'
<1>1. /\ link \in [Sockets -> LinkSet(BOOLEAN)] /\ client \in ClientSet
      /\ run \in {"loop", "join", "returned"} /\ halt \in BOOLEAN
      /\ joins \subseteq Connections
      /\ procs \in 0..MaxProcs /\ faults \in 0..MaxFaults
  BY Zenon DEF Sides
<1>2. link' \in [Sockets -> LinkSet(BOOLEAN)]
  <2>1. CASE link' = link
    BY <1>1, <2>1
  <2>2. CASE \E ss : link' = Close(link, ss)
    BY <1>1, <2>2, LinkClosed
  <2>3. CASE \E s \in Sockets, r \in Answers : link' = Answered(link, s, r)
    BY <1>1, <2>3, LinkAnswered
  <2>4. CASE \E s \in Sockets : link' = [link EXCEPT ![s] = [open |-> TRUE, resp |-> "none"]]
    BY <1>1, <2>4, LinkReplaced, LinkStarts
  <2> QED BY <2>1, <2>2, <2>3, <2>4, Zenon DEF LinkMoves
<1>3. client' \in ClientSet
  <2>1. CASE client' = client
    BY <1>1, <2>1
  <2>2. CASE client' = NoClient
    <3>1. "none" \in ClientPlaces /\ 0 \in Sockets \cup {0}
      BY DEF ClientPlaces
    <3>2. NoClient \in ClientSet
      BY <3>1, ClientStarts, Zenon DEF NoClient
    <3> QED BY <2>2, <3>2
  <2>3. CASE \E p \in ClientPlaces : client' = ClientAt(client, p)
    <3>1. PICK p \in ClientPlaces : client' = ClientAt(client, p)
      BY <2>3
    <3>2. 0 \in Sockets \cup {0}
      OBVIOUS
    <3> QED BY <1>1, <3>1, <3>2, ClientMoves
  <2>4. CASE \E p \in ClientPlaces, v \in Sockets \cup {0} : client' = ClientOn(client, p, v)
    BY <1>1, <2>4, ClientMoves
  <2>5. CASE \E s \in Sockets : client' = [pc |-> "connect", sock |-> s]
    <3>1. PICK s \in Sockets : client' = [pc |-> "connect", sock |-> s]
      BY <2>5
    <3>2. "connect" \in ClientPlaces /\ s \in Sockets \cup {0}
      BY DEF ClientPlaces
    <3> QED BY <3>1, <3>2, ClientStarts, Zenon
  <2> QED BY <2>1, <2>2, <2>3, <2>4, <2>5, Zenon DEF ClientChanges
<1>4. halt' \in BOOLEAN
  BY <1>1, Zenon DEF OwnerMoves
<1>5. run' \in {"loop", "join", "returned"} /\ joins' \subseteq Connections
  BY <1>1 DEF OwnerMoves
<1>6. procs' \in 0..MaxProcs /\ faults' \in 0..MaxFaults
  BY <1>1 DEF OwnerMoves, RegistryAssumption
<1> QED BY <1>2, <1>3, <1>4, <1>5, <1>6, Zenon DEF Sides

LEMMA InitParts == ASSUME RegistryAssumption, Init PROVE Core /\ Sides
<1>1. /\ key = 0 /\ router = 0 /\ map = 0 /\ mutex = "free"
      /\ conns = [c \in Connections |-> NoConn] /\ hs = [s \in Sockets |-> Idle]
      /\ link = [s \in Sockets |-> Closed] /\ client = NoClient
      /\ run = "loop" /\ halt = FALSE /\ joins = {} /\ stop = "no"
      /\ procs = 0 /\ faults = 0
  BY DEF Init
<1>2. conns \in [Connections -> ConnSet(BOOLEAN)]
  BY <1>1, NoConnType
<1>3. hs \in [Sockets -> HandlerSet] /\ \A s \in Sockets : hs[s].pc = "done"
  BY <1>1, IdleType
<1>4. \A c \in Connections : ~Alive(c)
  BY <1>1 DEF Alive, NoConn
<1>5. \A s \in Sockets : ~Starting(s)
  BY <1>3 DEF Starting
<1>6. LocksAgree /\ KeysAgree /\ StartedOnce /\ TerminalKnown
  BY <1>1, <1>3, <1>4, <1>5 DEF LocksAgree, KeysAgree, StartedOnce, TerminalKnown
<1>7. Control
  BY <1>1, <1>3, <1>6 DEF Control
<1>8. Unshut
  BY <1>1, Zenon DEF Unshut
<1>9. link \in [Sockets -> LinkSet(BOOLEAN)]
  BY <1>1, LinkStarts
<1>10. "none" \in ClientPlaces /\ 0 \in Sockets \cup {0}
  BY DEF ClientPlaces
<1>11. client \in ClientSet
  BY <1>1, <1>10, ClientStarts, Zenon DEF NoClient
<1>12. halt \in BOOLEAN
  BY <1>1, Zenon
<1>13. /\ run \in {"loop", "join", "returned"} /\ joins \subseteq Connections
       /\ procs \in 0..MaxProcs /\ faults \in 0..MaxFaults
  BY <1>1 DEF RegistryAssumption
<1> QED BY <1>2, <1>7, <1>8, <1>9, <1>11, <1>12, <1>13, Zenon DEF Core, Sides

\* Steps of the owner, of the client and of the network.
LEMMA ClientMovesSides ==
    ASSUME RegistryAssumption, Sides, ClientSteps \/ ClientDies
    PROVE  Sides'
<1>1. OwnerMoves
  BY Zenon DEF OwnerMoves, ClientSteps, ClientDies, ClientConnected, ClientLosesSocket, ClientReconnected,
     ClientRecoverFails, owner
<1>2. LinkMoves
  BY Zenon DEF LinkMoves, ClientSteps, ClientDies, ClientConnected, ClientLosesSocket, ClientReconnected,
     ClientRecoverFails
<1>3. /\ {"up", "stuck", "down", "recover", "ended"} \subseteq ClientPlaces
      /\ 0 \in Sockets \cup {0}
  BY DEF ClientPlaces, Established
<1>4. \/ client' = NoClient
      \/ \E p \in {"up", "stuck", "down", "recover", "ended"} :
            client' = ClientAt(client, p) \/ client' = ClientOn(client, p, 0)
  <2>1. CASE ClientDies
    BY <2>1 DEF ClientDies
  <2>2. CASE ClientConnected
    BY <2>2 DEF ClientConnected, ClientAt, ClientOn
  <2>3. CASE ClientLosesSocket
    BY <2>3 DEF ClientLosesSocket, ClientAt, ClientOn
  <2>4. CASE ClientReconnected
    BY <2>4 DEF ClientReconnected, ClientAt, ClientOn
  <2>5. CASE ClientRecoverFails
    BY <2>5 DEF ClientRecoverFails, ClientAt, ClientOn
  <2> QED BY <2>1, <2>2, <2>3, <2>4, <2>5 DEF ClientSteps
<1>5. ClientChanges
  BY <1>3, <1>4, Zenon DEF ClientChanges
<1> QED BY <1>1, <1>2, <1>5, SidesKept

LEMMA AcceptedMovesSides ==
    ASSUME RegistryAssumption, Sides, NEW s \in Sockets,
           ClientReconnects(s) \/ \E match \in BOOLEAN : ClientConnect(s, match)
    PROVE  Sides'
<1>1. OwnerMoves
  BY Zenon DEF OwnerMoves, ClientReconnects, ClientConnect, owner
<1>2. LinkMoves
  BY Zenon DEF LinkMoves, ClientReconnects, ClientConnect, Accepted
<1>3. "reconnect" \in ClientPlaces /\ s \in Sockets \cup {0}
  BY DEF ClientPlaces, Established
<1>4. \/ client' = ClientOn(client, "reconnect", s)
      \/ client' = [pc |-> "connect", sock |-> s]
  BY DEF ClientReconnects, ClientConnect, ClientOn
<1>5. ClientChanges
  BY <1>3, <1>4, Zenon DEF ClientChanges
<1> QED BY <1>1, <1>2, <1>5, SidesKept

LEMMA OthersMoveSides ==
    ASSUME RegistryAssumption, Sides,
           \/ \E pk \in Passkeys : Register(pk)
           \/ \E s \in Sockets : LinkFails(s)
           \/ \E c \in Connections : Thread(c) \/ SessionEnds(c)
           \/ Halt \/ ShutdownBegins \/ OwnerSteps
           \/ UNCHANGED vars
    PROVE  Sides'
<1>1. OwnerMoves
  BY Zenon DEF OwnerMoves, Register, LinkFails, Thread, FirstPacket, ServerEof, SessionEnds, Halt,
     ShutdownBegins, OwnerSteps, LoopEnds, JoinThreads, ShutdownEnds, owner, vars
<1>2. LinkMoves
  BY Zenon DEF LinkMoves, Register, LinkFails, Thread, FirstPacket, ServerEof, SessionEnds, Halt,
     ShutdownBegins, OwnerSteps, LoopEnds, JoinThreads, ShutdownEnds, vars
<1>3. ClientChanges
  BY Zenon DEF ClientChanges, Register, LinkFails, Thread, FirstPacket, ServerEof, SessionEnds, Halt,
     ShutdownBegins, OwnerSteps, LoopEnds, JoinThreads, ShutdownEnds, vars
<1> QED BY <1>1, <1>2, <1>3, SidesKept

LEMMA HandlerMovesSides ==
    ASSUME RegistryAssumption, Sides, NEW s \in Sockets, Handler(s)
    PROVE  Sides'
<1>1. OwnerMoves
  BY Zenon DEF OwnerMoves, Handler, HandlerStart, HandlerRequest, HandlerMismatch, HandlerInvalid,
     HandlerRespond, NewClient, HandlerRecover, Recovered, RecoverFails, HandlerThrows, owner
<1>2. LinkMoves
  <2>1. CASE HandlerStart(s) \/ HandlerRequest(s) \/ NewClient(s)
    BY <2>1, Zenon DEF LinkMoves, HandlerStart, HandlerRequest, NewClient
  <2>2. CASE HandlerRecover(s) \/ Recovered(s) \/ RecoverFails(s)
    BY <2>2, Zenon DEF LinkMoves, HandlerRecover, Recovered, RecoverFails
  <2>3. CASE HandlerThrows(s)
    BY <2>3, Zenon DEF LinkMoves, HandlerThrows
  <2>4. CASE HandlerMismatch(s) \/ HandlerInvalid(s) \/ HandlerRespond(s)
    <3>1. {"mismatch", "invalid", "new", "returning"} \subseteq Answers
      BY DEF Answers
    <3>2. \E r \in {"mismatch", "invalid", "new", "returning"} : Respond(s, r)
      BY <2>4, SMT DEF HandlerMismatch, HandlerInvalid, HandlerRespond
    <3>3. \A r : Respond(s, r) => link' = link \/ link' = Answered(link, s, r)
      BY DEF Respond, Answered
    <3> QED BY <3>1, <3>2, <3>3 DEF LinkMoves
  <2> QED BY <2>1, <2>2, <2>3, <2>4 DEF Handler
<1>3. ClientChanges
  <2>1. CASE Recovered(s)
    <3>1. client' = ClientAt(client, "up") /\ "up" \in ClientPlaces
      BY <2>1 DEF Recovered, ClientAt, ClientPlaces, Established
    <3> QED BY <3>1, Zenon DEF ClientChanges
  <2>2. CASE client' = client
    BY <2>2 DEF ClientChanges
  <2>3. Recovered(s) \/ client' = client
    BY Zenon DEF Handler, HandlerStart, HandlerRequest, HandlerMismatch, HandlerInvalid,
       HandlerRespond, NewClient, HandlerRecover, RecoverFails, HandlerThrows
  <2> QED BY <2>1, <2>2, <2>3
<1> QED BY <1>1, <1>2, <1>3, SidesKept

-----------------------------------------------------------------------------
LEMMA CoreSteps == ASSUME RegistryAssumption, Core, [Next]_vars PROVE Core'
<1>1. ASSUME NEW pk \in Passkeys, Register(pk) PROVE Core'
  BY <1>1, RegisterKeeps
<1>2. ASSUME NEW s \in Sockets, Handler(s) PROVE Core'
  BY <1>2, HandlerStartKeeps, HandlerRequestKeeps, HandlerMismatchKeeps, HandlerInvalidKeeps,
     HandlerRespondKeeps, NewClientKeeps, HandlerRecoverKeeps, RecoveredKeeps, RecoverFailsKeeps,
     HandlerThrowsKeeps, Zenon DEF Handler
<1>3. ASSUME NEW s \in Sockets, NEW match \in BOOLEAN, ClientConnect(s, match) PROVE Core'
  BY <1>3, AcceptedKeeps, Zenon DEF ClientConnect, Versions
<1>4. ASSUME NEW s \in Sockets, ClientReconnects(s) PROVE Core'
  BY <1>4, AcceptedKeeps, Zenon DEF ClientReconnects, Versions
<1>5. ASSUME NEW c \in Connections, Thread(c) \/ SessionEnds(c) PROVE Core'
  BY <1>5, FirstPacketKeeps, ServerEofKeeps, SessionEndsKeeps, Zenon DEF Thread
<1>6. CASE ShutdownBegins \/ ShutdownEnds
  BY <1>6, ShutdownBeginsKeeps, ShutdownEndsKeeps, Zenon
<1>7. CASE \/ \E s \in Sockets : LinkFails(s)
           \/ ClientSteps \/ ClientDies \/ Halt \/ LoopEnds \/ JoinThreads \/ UNCHANGED vars
  <2>1. UNCHANGED server /\ stop' = stop
    BY <1>7, Zenon DEF LinkFails, ClientSteps, ClientDies, ClientConnected, ClientLosesSocket,
       ClientReconnected, ClientRecoverFails, Halt, LoopEnds, JoinThreads, vars, owner, server
  <2> QED BY <2>1, CoreStutters, Zenon
<1> QED BY <1>1, <1>2, <1>3, <1>4, <1>5, <1>6, <1>7, Zenon DEF Next, OwnerSteps

LEMMA SidesSteps == ASSUME RegistryAssumption, Sides, [Next]_vars PROVE Sides'
  BY ClientMovesSides, AcceptedMovesSides, OthersMoveSides, HandlerMovesSides, Zenon DEF Next

\* However the handlers of the sockets a client opens, the threads of its
\* sessions, removeClient and shutdown() interleave, and for any numbers of
\* them: classMutex is held across steps by one handler in recoverClient or by
\* shutdown(); clientKeys, the router and the connection in the map agree on
\* the passkey; newClient starts one thread per connection, at most one
\* terminal thread serves the id, and it finds its terminal; a connection in
\* clientConnections is not shut down and has its thread, or the handler that
\* will start it.
THEOREM RegistryCorrect == ASSUME RegistryAssumption PROVE Spec => []RegistryInv
<1>1. Init => RegistryInv
  BY InitParts, InvFromParts
<1>2. RegistryInv /\ [Next]_vars => RegistryInv'
  BY InvParts, CoreSteps, SidesSteps, InvFromPartsNext, Zenon
<1> QED BY <1>1, <1>2, PTL DEF Spec

-----------------------------------------------------------------------------
(* The descriptors, whose proofs are in SocketTableProofs, as MCServer     *)
(* puts them side by side with the registry.                               *)

TableRuns == part = "table"
OwnedRuns == part = "owned"

\* A part runs from its initial state and no other part disturbs it.
LEMMA TableApart ==
    /\ ServerInit /\ TableRuns => Table!Init
    /\ [ServerNext]_serverVars =>
          /\ TableRuns' <=> TableRuns
          /\ TableRuns => [Table!Next]_(Table!vars)
BY DEF ServerInit, ServerNext, RegistryNext, TableNext, OwnedNext, LogNext, serverVars,
       tableVars, Table!vars, TableRuns

LEMMA OwnedApart ==
    /\ ServerInit /\ OwnedRuns => Owned!Init
    /\ [ServerNext]_serverVars =>
          /\ OwnedRuns' <=> OwnedRuns
          /\ OwnedRuns => [Owned!Next]_(Owned!vars)
BY DEF ServerInit, ServerNext, RegistryNext, TableNext, OwnedNext, LogNext, serverVars,
       tableVars, Owned!vars, OwnedRuns

\* The table of descriptors is sound in every state of the server, for any
\* numbers of threads, descriptors, connections, ports and addresses, whether
\* clients come back during their handshake or not (UnixSocketHandler,
\* TcpSocketHandler).
THEOREM DescriptorsSound == ServerSpec => []TableInv
<1>1. Table!Spec => []Table!TableInv
  BY ServerAssumption, Table!TableCorrect
<1>2. Owned!Spec => []Owned!TableInv
  BY ServerAssumption, Owned!TableCorrect
<1>3. TableInv <=> /\ (TableRuns => Table!TableInv)
                   /\ (OwnedRuns => Owned!TableInv)
  BY DEF TableInv, TableRuns, OwnedRuns
<1> QED
  BY <1>1, <1>2, <1>3, TableApart, OwnedApart, PTL DEF ServerSpec, Table!Spec, Owned!Spec

\* Where no client comes back during its own handshake, every byte a thread of
\* the server reads or writes is on the descriptor of the connection it is for,
\* and every close closes that one, for any numbers of threads, descriptors
\* and connections.
THEOREM BytesReachPeer == ServerSpec => []RightPeer
<1>1. Owned!Spec => []Owned!PeerInv
  BY ServerAssumption, Owned!PeerCorrect
<1>2. RightPeer <=> (OwnedRuns => Owned!PeerInv)
  BY DEF RightPeer, OwnedRuns
<1> QED BY <1>1, <1>2, OwnedApart, PTL DEF ServerSpec, Owned!Spec

-----------------------------------------------------------------------------
(* The log buffer (Telemetry).                                             *)

LEMMA BufferGrows ==
    ASSUME NEW M, NEW a \in Seq(M), NEW b \in Seq(M), NEW c \in Seq(M), NEW x \in M
    PROVE  a \o b \o Append(c, x) = Append(a \o b \o c, x)
  OBVIOUS

LEMMA BufferTaken ==
    ASSUME NEW M, NEW a \in Seq(M), NEW b \in Seq(M), b = <<>>, NEW c \in Seq(M)
    PROVE  a \o c \o <<>> = a \o b \o c
<1>1. a \o <<>> = a /\ (a \o c) \o <<>> = a \o c
  OBVIOUS
<1> QED BY <1>1

LEMMA BufferPosted ==
    ASSUME NEW M, NEW a \in Seq(M), NEW b \in Seq(M), NEW c \in Seq(M)
    PROVE  /\ (a \o b) \o <<>> \o c = a \o b \o c
           /\ a \o b \in Seq(M) /\ Len(a \o b) = Len(a) + Len(b)
  OBVIOUS

LEMMA BufferLengths ==
    ASSUME NEW M, NEW a \in Seq(M), NEW b \in Seq(M), NEW c \in Seq(M), NEW d,
           a \o b \o c = d
    PROVE  Len(a) + Len(b) + Len(c) = Len(d)
  OBVIOUS

Labels == {"idle", "get", "lock", "append", "abort", "exists", "shutdown", "join", "die"}

\* The types, the Boolean ones apart.
LogFlags == instance \in BOOLEAN /\ shuttingDown \in BOOLEAN /\ sender.lastRun \in BOOLEAN

LogTypes ==
    /\ logBuffer \in Seq(Nat) /\ Len(logBuffer) <= BufferSize + 1
    /\ logMutex \in Log!Threads \cup {Log!Nobody}
    /\ pc \in [Log!Threads -> Labels]
    /\ level \in [Log!Threads -> {"error", "fatal", "exit"}]
    /\ posted \in Seq(Nat) /\ accepted \in Seq(Nat)
    /\ due \in Nat /\ logged \in 0..MaxLogs /\ ends \in 0..MaxEnds
    /\ process \in {"runs", "exit", "abort", "late get"}

SenderTypes ==
    /\ sender = [pc |-> sender.pc, lastRun |-> sender.lastRun, size |-> sender.size,
                 payload |-> sender.payload]
    /\ sender.pc \in {"read", "decide", "take", "post", "ended"}
    /\ sender.size \in Nat /\ sender.payload \in Seq(Nat)

LEMMA LogTypesAre == Log!TypeOK <=> LogFlags /\ LogTypes /\ SenderTypes
<1>1. Log!TypeOK => LogFlags
  BY DEF Log!TypeOK, LogFlags
<1>2. Log!TypeOK => LogTypes
  BY Zenon DEF Log!TypeOK, LogTypes, Labels
<1>3. Log!TypeOK => SenderTypes
  BY DEF Log!TypeOK, SenderTypes
<1>4. LogFlags /\ LogTypes /\ SenderTypes => Log!TypeOK
  <2> SUFFICES ASSUME LogFlags, LogTypes, SenderTypes PROVE Log!TypeOK
    OBVIOUS
  <2>1. sender \in [pc : {"read", "decide", "take", "post", "ended"},
                   lastRun : BOOLEAN, size : Nat, payload : Seq(Nat)]
    BY Zenon DEF LogFlags, SenderTypes
  <2> QED BY <2>1, Zenon DEF Log!TypeOK, LogFlags, LogTypes, Labels
<1> QED BY <1>1, <1>2, <1>3, <1>4

LEMMA LengthIs == ASSUME NEW M, NEW a \in Seq(M) PROVE Len(a) \in Nat
  OBVIOUS

LEMMA Numbers ==
    ASSUME Log!TelemetryAssumption, LogTypes
    PROVE  /\ MaxLogs \in Nat /\ MaxEnds \in Nat /\ BufferSize \in Nat
           /\ logged \in Nat /\ logged <= MaxLogs
           /\ due \in Nat
           /\ ends \in 0..MaxEnds
           /\ accepted \in Seq(Nat) /\ Len(accepted) \in Nat
<1>1. /\ logged \in 0..MaxLogs /\ due \in Nat /\ ends \in 0..MaxEnds
      /\ accepted \in Seq(Nat)
  BY Zenon DEF LogTypes
<1>2. MaxLogs \in Nat /\ MaxEnds \in Nat /\ BufferSize \in Nat
  BY DEF Log!TelemetryAssumption
<1>3. Len(accepted) \in Nat
  BY <1>1, LengthIs
<1>4. logged \in Nat /\ logged <= MaxLogs
  BY <1>1, <1>2
<1> QED BY <1>1, <1>2, <1>3, <1>4

LogCore == LogFlags /\ LogTypes /\ SenderTypes /\ Log!PostedInOrder /\ Log!SenderInv

\* The steps of a thread that leave the buffer and the flag alone.
Away(t) ==
    \/ Log!Get(t) \/ Log!Lock(t) \/ Log!Abort(t) \/ Log!Exists(t) \/ Log!Join(t) \/ Log!Die(t)
    \/ Log!Signal(t) \/ (t = Main /\ Log!MainReturns)
    \/ \E l \in {"error", "fatal"} : Log!Log(t, l)

LEMMA AwayKeeps ==
    ASSUME Log!TelemetryAssumption, LogCore, NEW t \in Log!Threads, Away(t)
    PROVE  LogCore'
<1> USE DEF LogCore
<1>1. UNCHANGED <<shuttingDown, logBuffer, sender, posted, accepted, due>>
  BY DEF Away, Log!Get, Log!Lock, Log!Abort, Log!Exists, Log!Join, Log!Die, Log!Signal, Log!MainReturns,
         Log!Log, Log!service, Log!history
<1>2. LogFlags'
  <2>1. instance' = instance \/ instance' = FALSE
    BY DEF Away, Log!Get, Log!Lock, Log!Abort, Log!Exists, Log!Join, Log!Die, Log!Signal, Log!MainReturns,
           Log!Log, Log!service
  <2> QED BY <1>1, <2>1, Zenon DEF LogFlags
<1>3. SenderTypes' /\ Log!PostedInOrder' /\ Log!SenderInv'
  BY <1>1 DEF SenderTypes, Log!PostedInOrder, Log!SenderInv
<1>4. PICK q \in Labels :
        /\ pc' = [pc EXCEPT ![t] = q]
        /\ \/ logged' = logged
           \/ logged' = logged + 1 /\ logged < MaxLogs
  <2>1. pc = [pc EXCEPT ![t] = pc[t]] /\ pc[t] \in Labels
    BY DEF LogTypes
  <2> USE DEF Labels, Log!Goto
  <2>2. CASE Log!Get(t)
    BY <2>1, <2>2 DEF Log!Get, Log!history
  <2>3. CASE Log!Die(t)
    BY <2>1, <2>3 DEF Log!Die, Log!history
  <2>4. CASE Log!Lock(t) \/ Log!Abort(t) \/ Log!Exists(t) \/ Log!Join(t) \/ Log!Signal(t)
    BY <2>4 DEF Log!Lock, Log!Abort, Log!Exists, Log!Join, Log!Signal, Log!history
  <2>5. CASE t = Main /\ Log!MainReturns
    BY <2>5 DEF Log!MainReturns, Log!history
  <2>6. CASE \E l \in {"error", "fatal"} : Log!Log(t, l)
    BY <2>6 DEF Log!Log
  <2> QED BY <2>2, <2>3, <2>4, <2>5, <2>6 DEF Away
<1>5. logged' \in 0..MaxLogs
  BY <1>4, Numbers
<1>6. ends' \in 0..MaxEnds
  <2>1. ends \in 0..MaxEnds /\ MaxEnds \in Nat
    BY Numbers
  <2>2. ends' = ends \/ (ends' = ends + 1 /\ ends < MaxEnds)
    BY DEF Away, Log!Get, Log!Lock, Log!Abort, Log!Exists, Log!Join, Log!Die, Log!Signal, Log!MainReturns, Log!Log
  <2> QED BY <2>1, <2>2
<1>7. level' \in [Log!Threads -> {"error", "fatal", "exit"}]
  <2>1. \E l \in {"error", "fatal", "exit"} : level' = level \/ level' = [level EXCEPT ![t] = l]
    BY DEF Away, Log!Get, Log!Lock, Log!Abort, Log!Exists, Log!Join, Log!Die, Log!Signal, Log!MainReturns, Log!Log
  <2> QED BY <2>1 DEF LogTypes
<1>8. logMutex' \in Log!Threads \cup {Log!Nobody}
  BY DEF LogTypes, Away, Log!Get, Log!Lock, Log!Abort, Log!Exists, Log!Join, Log!Die, Log!Signal,
         Log!MainReturns, Log!Log
<1>9. process' \in {"runs", "exit", "abort", "late get"}
  BY DEF LogTypes, Away, Log!Get, Log!Lock, Log!Abort, Log!Exists, Log!Join, Log!Die, Log!Signal,
         Log!MainReturns, Log!Log
<1>10. LogTypes'
  BY <1>1, <1>4, <1>5, <1>6, <1>7, <1>8, <1>9 DEF LogTypes
<1> QED BY <1>2, <1>3, <1>10

\* shutdown() fixes what is due.
LEMMA ShutdownKeeps ==
    ASSUME Log!TelemetryAssumption, LogCore, NEW t \in Log!Threads, Log!Shutdown(t)
    PROVE  LogCore'
<1> USE DEF LogCore
<1>1. /\ UNCHANGED <<instance, logBuffer, logMutex, level, sender, posted, accepted, logged,
                     ends, process>>
      /\ pc[t] = "shutdown" /\ shuttingDown'
  BY DEF Log!Shutdown
<1>2. PICK q \in {"die", "join"} : pc' = [pc EXCEPT ![t] = q]
  BY DEF Log!Shutdown, Log!Goto
<1>3. LogFlags'
  <2>1. shuttingDown' \in BOOLEAN
    BY Zenon DEF Log!Shutdown
  <2> QED BY <1>1, <2>1, Zenon DEF LogFlags
<1>4. PICK k \in Nat : k = Len(accepted)
  BY Numbers
<1>5. due \in Nat /\ due <= k /\ due' = IF shuttingDown THEN due ELSE k
  BY <1>4, Numbers DEF Log!SenderInv, Log!Shutdown
<1>6. due' \in Nat /\ due' <= k
  <2>1. due' = due \/ due' = k
    BY <1>5
  <2> QED BY <1>4, <1>5, <2>1
<1>7. LogTypes'
  BY <1>1, <1>2, <1>6 DEF LogTypes, Labels
<1>8. SenderTypes' /\ Log!PostedInOrder'
  BY <1>1 DEF SenderTypes, Log!PostedInOrder
<1>9. Log!SenderInv'
  <2>1. sender.lastRun => due' = due
    BY <1>5 DEF Log!SenderInv
  <2>2. due' <= Len(accepted')
    BY <1>1, <1>4, <1>6
  <2> QED BY <1>1, <2>1, <2>2 DEF Log!SenderInv
<1> QED BY <1>3, <1>7, <1>8, <1>9

\* A thread that appends: the message is the next one, and the buffer keeps its bound.
LEMMA AppendKeeps ==
    ASSUME Log!TelemetryAssumption, LogCore, NEW t \in Log!Threads, Log!AppendLog(t)
    PROVE  LogCore'
<1> USE DEF LogCore
<1>1. /\ UNCHANGED <<instance, shuttingDown, level, sender, posted, due, logged, ends, process>>
      /\ pc[t] = "append" /\ logMutex' = Log!Nobody
  BY DEF Log!AppendLog, Log!AppendAt, Log!service
<1>2. PICK q \in {"abort", "idle"} : pc' = [pc EXCEPT ![t] = q]
  BY DEF Log!AppendLog, Log!AppendAt, Log!Goto
<1>3. q \in Labels
  BY <1>2 DEF Labels
<1>4. PICK x \in Nat : x = Len(accepted) + 1
  BY Numbers
<1>5. PICK b, c \in Seq(Nat) :
        /\ b = logBuffer /\ c = accepted /\ Len(b) <= BufferSize + 1
        /\ posted \o sender.payload \o b = c
  BY Zenon DEF LogTypes, Log!PostedInOrder
<1>6. posted \in Seq(Nat) /\ sender.payload \in Seq(Nat)
  BY Zenon DEF LogTypes, SenderTypes
<1>7. \/ logBuffer' = b /\ accepted' = c
      \/ Len(b) <= BufferSize /\ logBuffer' = Append(b, x) /\ accepted' = Append(c, x)
  <2>1. \/ logBuffer' = b /\ accepted' = c
        \/ ~(Len(b) > BufferSize) /\ logBuffer' = Append(b, x) /\ accepted' = Append(c, x)
    BY <1>4, <1>5 DEF Log!AppendLog, Log!AppendAt
  <2>2. Len(b) \in Nat /\ BufferSize \in Nat
    BY Numbers, LengthIs
  <2> QED BY <2>1, <2>2
<1>8. /\ Append(b, x) \in Seq(Nat) /\ Len(Append(b, x)) = Len(b) + 1
      /\ Append(c, x) \in Seq(Nat) /\ Len(Append(c, x)) = Len(c) + 1
      /\ Len(b) \in Nat /\ Len(c) \in Nat
  OBVIOUS
<1>9. /\ logBuffer' \in Seq(Nat) /\ Len(logBuffer') <= BufferSize + 1
      /\ accepted' \in Seq(Nat) /\ Len(accepted') <= Len(c) + 1 /\ Len(c) <= Len(accepted')
  <2>1. BufferSize \in Nat /\ Len(b) <= BufferSize + 1
    BY <1>5, Numbers
  <2>2. CASE logBuffer' = b /\ accepted' = c
    BY <1>8, <2>1, <2>2
  <2>3. CASE Len(b) <= BufferSize /\ logBuffer' = Append(b, x) /\ accepted' = Append(c, x)
    <3>1. Len(Append(b, x)) <= BufferSize + 1 /\ Len(Append(c, x)) <= Len(c) + 1
          /\ Len(c) <= Len(Append(c, x))
      BY <1>8, <2>1, <2>3
    <3> QED BY <1>8, <2>3, <3>1
  <2> QED BY <1>7, <2>2, <2>3
<1>10. LogFlags' /\ SenderTypes'
  <2>1. UNCHANGED <<instance, shuttingDown, sender>>
    BY <1>1
  <2> QED BY <2>1, Zenon DEF LogFlags, SenderTypes
<1>11. LogTypes'
  BY <1>1, <1>2, <1>3, <1>9 DEF LogTypes
<1>12. Log!PostedInOrder'
  <2>1. posted \o sender.payload \o Append(b, x) = Append(posted \o sender.payload \o b, x)
    <3>1. PICK o, y \in Seq(Nat) : o = posted /\ y = sender.payload
      BY <1>6
    <3>2. o \o y \o Append(b, x) = Append(o \o y \o b, x)
      BY BufferGrows
    <3> QED BY <3>1, <3>2
  <2>2. posted' = posted /\ sender' = sender
    BY <1>1
  <2> QED BY <1>5, <1>7, <2>1, <2>2 DEF Log!PostedInOrder
<1>13. Log!SenderInv'
  <2>1. due' <= Len(accepted')
    <3>1. due <= Len(c) /\ due' = due /\ due \in Nat
      BY <1>1, <1>5, Numbers DEF Log!SenderInv
    <3>2. Len(accepted') \in Nat
      BY <1>9, LengthIs
    <3> QED BY <1>8, <1>9, <3>1, <3>2
  <2> QED BY <1>1, <2>1 DEF Log!SenderInv
<1> QED BY <1>10, <1>11, <1>12, <1>13

\* What a step of the sender leaves alone.
LEMMA SenderFrame ==
    ASSUME Log!Sender
    PROVE  UNCHANGED <<instance, shuttingDown, logMutex, pc, level, accepted, due, logged,
                       ends, process>>
  BY DEF Log!Sender, Log!SenderReads, Log!SenderFlushes, Log!SenderWaits, Log!SenderTakes, Log!SenderPosts,
         Log!service, Log!history

\* What LogCore says of the sender [pc |-> p, lastRun |-> l, size |-> n, payload |-> y]
\* when the buffer is b and o has been posted.
SenderAt(p, l, n, y, b, o) ==
    /\ p \in {"read", "decide", "take", "post", "ended"} /\ l \in BOOLEAN /\ n \in Nat
    /\ y \in Seq(Nat) /\ b \in Seq(Nat) /\ o \in Seq(Nat)
    /\ Len(b) <= BufferSize + 1
    /\ o \o y \o b = accepted
    /\ p # "post" => y = <<>>
    /\ p = "ended" => l
    /\ l => shuttingDown
    /\ l => /\ p = "decide" => Len(o) + n >= due
            /\ p \in {"post", "ended"} => Len(o) + Len(y) >= due

LEMMA SenderIs ==
    ASSUME LogCore
    PROVE  \E p, l, n, y : /\ sender = [pc |-> p, lastRun |-> l, size |-> n, payload |-> y]
                           /\ SenderAt(p, l, n, y, logBuffer, posted)
<1>1. /\ sender = [pc |-> sender.pc, lastRun |-> sender.lastRun, size |-> sender.size,
                   payload |-> sender.payload]
      /\ SenderAt(sender.pc, sender.lastRun, sender.size, sender.payload, logBuffer, posted)
  BY Zenon DEF LogCore, LogFlags, LogTypes, SenderTypes, Log!PostedInOrder, Log!SenderInv, SenderAt
<1> QED BY <1>1, Zenon

LEMMA SenderBecomes ==
    ASSUME LogCore,
           UNCHANGED <<instance, shuttingDown, logMutex, pc, level, accepted, due, logged,
                       ends, process>>,
           NEW p, NEW l, NEW n, NEW y, NEW b, NEW o, SenderAt(p, l, n, y, b, o),
           sender' = [pc |-> p, lastRun |-> l, size |-> n, payload |-> y],
           logBuffer' = b, posted' = o
    PROVE  LogCore'
<1>1. sender'.pc = p /\ sender'.lastRun = l /\ sender'.size = n /\ sender'.payload = y
  OBVIOUS
<1>2. LogFlags'
  BY <1>1, Zenon DEF LogCore, LogFlags, SenderAt
<1>3. LogTypes'
  BY Zenon DEF LogCore, LogTypes, SenderAt
<1>4. SenderTypes'
  BY <1>1, Zenon DEF SenderTypes, SenderAt
<1>5. Log!PostedInOrder'
  BY <1>1, Zenon DEF Log!PostedInOrder, SenderAt
<1>6. Log!SenderInv'
  <2>1. due' <= Len(accepted')
    BY DEF LogCore, Log!SenderInv
  <2> QED BY <1>1, <2>1, Zenon DEF Log!SenderInv, SenderAt
<1> QED BY <1>2, <1>3, <1>4, <1>5, <1>6 DEF LogCore

\* A run that reads the flag after shutdown() sees all that is due in the buffer,
\* whatever is appended until it is taken.
LEMMA SenderKeeps ==
    ASSUME Log!TelemetryAssumption, LogCore, Log!Sender
    PROVE  LogCore'
<1>1. UNCHANGED <<instance, shuttingDown, logMutex, pc, level, accepted, due, logged, ends,
                  process>>
  BY SenderFrame
<1>2. PICK p, l, n, y : /\ sender = [pc |-> p, lastRun |-> l, size |-> n, payload |-> y]
                        /\ SenderAt(p, l, n, y, logBuffer, posted)
  BY SenderIs
<1>3. PICK b, o, d, f : b = logBuffer /\ o = posted /\ d = due /\ f = shuttingDown
  OBVIOUS
<1>4. SenderAt(p, l, n, y, b, o)
  BY <1>2, <1>3, Zenon
<1>5. d \in Nat /\ BatchSize \in Nat /\ BufferSize \in Nat /\ f \in BOOLEAN
  <2>1. LogTypes /\ f \in BOOLEAN
    BY <1>3, Zenon DEF LogCore, LogFlags
  <2> QED BY <1>3, <2>1, Numbers DEF Log!TelemetryAssumption
<1>6. d <= Len(accepted)
  BY <1>3 DEF LogCore, Log!SenderInv
<1>7. /\ y \in Seq(Nat) /\ b \in Seq(Nat) /\ o \in Seq(Nat)
      /\ o \o y \o b = accepted /\ Len(b) <= BufferSize + 1
      /\ l \in BOOLEAN /\ n \in Nat
  BY <1>4, Zenon DEF SenderAt
<1>8. /\ Len(o) + Len(y) + Len(b) = Len(accepted)
      /\ Len(o) \in Nat /\ Len(y) \in Nat /\ Len(b) \in Nat
  BY <1>7, BufferLengths, LengthIs
<1>9. SenderAt(p, l, n, y, b, o) <=>
        /\ p \in {"read", "decide", "take", "post", "ended"} /\ l \in BOOLEAN /\ n \in Nat
        /\ y \in Seq(Nat) /\ b \in Seq(Nat) /\ o \in Seq(Nat)
        /\ Len(b) <= BufferSize + 1
        /\ o \o y \o b = accepted
        /\ p # "post" => y = <<>>
        /\ p = "ended" => l
        /\ l => f
        /\ l => /\ p = "decide" => Len(o) + n >= d
                /\ p \in {"post", "ended"} => Len(o) + Len(y) >= d
  BY <1>3, Zenon DEF SenderAt
<1>10. CASE Log!SenderReads
  <2>1. p = "read" /\ UNCHANGED <<logBuffer, posted>>
    BY <1>2, <1>10 DEF Log!SenderReads, Log!history
  <2>2. sender' = [pc |-> "decide", lastRun |-> f, size |-> Len(b), payload |-> y]
    BY <1>2, <1>3, <1>10 DEF Log!SenderReads
  <2>3. y = <<>> /\ Len(y) = 0
    BY <1>4, <1>9, <2>1
  <2>4. Len(o) + Len(b) >= d
    BY <1>5, <1>6, <1>8, <2>3
  <2>5. SenderAt("decide", f, Len(b), y, b, o)
    BY <1>3, <1>5, <1>7, <1>8, <2>3, <2>4, Zenon DEF SenderAt
  <2> QED BY <1>1, <1>3, <2>1, <2>2, <2>5, SenderBecomes
<1>11. CASE Log!SenderFlushes
  <2>1. p = "decide" /\ UNCHANGED <<logBuffer, posted>>
    BY <1>2, <1>11 DEF Log!SenderFlushes, Log!history
  <2>2. sender' = [pc |-> "take", lastRun |-> l, size |-> n, payload |-> y]
    BY <1>2, <1>11 DEF Log!SenderFlushes
  <2>3. SenderAt("take", l, n, y, b, o)
    BY <1>4, <2>1, Zenon DEF SenderAt
  <2> QED BY <1>1, <1>3, <2>1, <2>2, <2>3, SenderBecomes
<1>12. CASE Log!SenderWaits
  <2>1. p = "decide" /\ UNCHANGED <<logBuffer, posted>>
    BY <1>2, <1>12 DEF Log!SenderWaits, Log!history
  <2>2. ~(n > 0 /\ (n >= BatchSize \/ l))
    BY <1>2, <1>12 DEF Log!SenderWaits, Log!MustSend
  <2>3. PICK q \in {"ended", "read"} :
          /\ sender' = [pc |-> q, lastRun |-> l, size |-> n, payload |-> y]
          /\ q = IF l THEN "ended" ELSE "read"
    BY <1>2, <1>12 DEF Log!SenderWaits
  <2>4. y = <<>> /\ Len(y) = 0
    BY <1>4, <1>9, <2>1
  <2>5. l => n = 0
    BY <1>7, <2>2
  <2>6. l => Len(o) + n >= d
    BY <1>4, <1>9, <2>1, Zenon
  <2>7. l => Len(o) + Len(y) >= d
    BY <1>5, <1>8, <2>4, <2>5, <2>6
  <2>8. SenderAt(q, l, n, y, b, o)
    BY <1>4, <2>3, <2>4, <2>7, <1>3, Zenon DEF SenderAt
  <2> QED BY <1>1, <1>3, <2>1, <2>3, <2>8, SenderBecomes
<1>13. CASE Log!SenderTakes
  <2>1. p = "take" /\ posted' = o /\ logBuffer' = <<>>
    BY <1>2, <1>3, <1>13 DEF Log!SenderTakes, Log!history
  <2>2. sender' = [pc |-> "post", lastRun |-> l, size |-> n, payload |-> b]
    BY <1>2, <1>3, <1>13 DEF Log!SenderTakes
  <2>3. y = <<>> /\ Len(y) = 0
    BY <1>4, <1>9, <2>1
  <2>4. o \o b \o <<>> = accepted
    BY <1>7, <2>3, BufferTaken
  <2>5. Len(o) + Len(b) >= d /\ Len(<<>>) <= BufferSize + 1 /\ <<>> \in Seq(Nat)
    BY <1>5, <1>6, <1>8, <2>3
  <2>6. SenderAt("post", l, n, b, <<>>, o)
    BY <1>3, <1>4, <2>4, <2>5, Zenon DEF SenderAt
  <2> QED BY <1>1, <2>1, <2>2, <2>6, SenderBecomes
<1>14. CASE Log!SenderPosts
  <2>1. p = "post" /\ posted' = o \o y /\ logBuffer' = b
    BY <1>2, <1>3, <1>14 DEF Log!SenderPosts
  <2>2. PICK q \in {"ended", "read"} :
          /\ sender' = [pc |-> q, lastRun |-> l, size |-> n, payload |-> <<>>]
          /\ q = IF l THEN "ended" ELSE "read"
    BY <1>2, <1>14 DEF Log!SenderPosts
  <2>3. /\ (o \o y) \o <<>> \o b = accepted /\ o \o y \in Seq(Nat)
        /\ Len(o \o y) = Len(o) + Len(y)
    BY <1>7, BufferPosted
  <2>4. l => Len(o) + Len(y) >= d
    BY <1>4, <1>9, <2>1, Zenon
  <2>5. (l => Len(o \o y) + Len(<<>>) >= d) /\ <<>> \in Seq(Nat)
    BY <1>5, <1>8, <2>3, <2>4
  <2>6. SenderAt(q, l, n, <<>>, b, o \o y)
    BY <1>3, <1>4, <2>2, <2>3, <2>5, Zenon DEF SenderAt
  <2> QED BY <1>1, <2>1, <2>2, <2>6, SenderBecomes
<1> QED BY <1>10, <1>11, <1>12, <1>13, <1>14 DEF Log!Sender

-----------------------------------------------------------------------------
(* With one thread at most that sets out to end the process.               *)

Live == instance /\ ~shuttingDown

\* As long as none has set out, the service is up.
LEMMA NoneEnding ==
    ASSUME Log!OneEnder, MaxEnds <= 1, LogTypes, Log!TelemetryAssumption, ends < MaxEnds
    PROVE  Log!Ending = {} /\ Live
<1>1. ends = 0
  BY Numbers
<1>2. Log!Ending = {}
  BY <1>1 DEF Log!OneEnder
<1>3. \A t \in Log!Threads : pc[t] \notin {"abort", "exists", "shutdown", "join", "die"}
  BY <1>2 DEF Log!OneEnder
<1> QED BY <1>2, <1>3 DEF Log!OneEnder, Live

LEMMA EnderLogs ==
    ASSUME LogTypes, Log!TelemetryAssumption, Log!OneEnder, MaxEnds <= 1, NEW t \in Log!Threads,
           NEW l \in {"error", "fatal"}, Log!Log(t, l)
    PROVE  Log!OneEnder'
<1>1. /\ pc[t] = "idle" /\ level[t] = "error" /\ pc \in [Log!Threads -> Labels]
      /\ level \in [Log!Threads -> {"error", "fatal", "exit"}]
  BY DEF Log!Log, LogTypes, Log!OneEnder, Log!Ending
<1>2. UNCHANGED <<instance, shuttingDown, sender>> /\ level' = [level EXCEPT ![t] = l]
  BY DEF Log!Log, Log!service
<1>3. CASE l = "error"
  <2>1. PICK q \in {"get", "idle"} : pc' = [pc EXCEPT ![t] = q]
    BY <1>3 DEF Log!Log, Log!Goto
  <2>2. level' = level /\ ends' = ends
    BY <1>1, <1>2, <1>3 DEF Log!Log
  <2> QED BY <1>1, <1>2, <2>1, <2>2 DEF Log!OneEnder, Log!Ending
<1>4. CASE l = "fatal"
  <2>1. ends < MaxEnds /\ ends' = ends + 1
    BY <1>4 DEF Log!Log
  <2>2. Log!Ending = {} /\ Live
    BY <2>1, NoneEnding
  <2>3. pc' = [pc EXCEPT ![t] = "get"]
    BY <2>2 DEF Live, Log!Log, Log!Goto
  <2>4. ends' > 0
    BY <2>1, Numbers
  <2> QED BY <1>1, <1>2, <1>4, <2>2, <2>3, <2>4 DEF Log!OneEnder, Log!Ending, Live
<1> QED BY <1>3, <1>4

\* A signal, or main, sets out.
LEMMA EnderSetsOut ==
    ASSUME LogTypes, Log!TelemetryAssumption, Log!OneEnder, MaxEnds <= 1, NEW t \in Log!Threads,
           Log!Signal(t) \/ (t = Main /\ Log!MainReturns)
    PROVE  Log!OneEnder'
<1>1. /\ pc \in [Log!Threads -> Labels] /\ level \in [Log!Threads -> {"error", "fatal", "exit"}]
  BY DEF LogTypes
<1>2. /\ UNCHANGED <<instance, shuttingDown, sender>> /\ level' = [level EXCEPT ![t] = "exit"]
      /\ ends < MaxEnds /\ ends' = ends + 1
  BY DEF Log!Signal, Log!MainReturns, Log!service
<1>3. PICK q \in {"exists", "shutdown"} : pc' = [pc EXCEPT ![t] = q]
  BY DEF Log!Signal, Log!MainReturns, Log!Goto
<1>4. Log!Ending = {} /\ Live /\ ends' > 0
  BY <1>2, NoneEnding, Numbers
<1> QED BY <1>1, <1>2, <1>3, <1>4 DEF Log!OneEnder, Log!Ending, Live

\* The other steps of a thread: neither the levels nor the count change.
LEMMA EnderSteps ==
    ASSUME LogTypes, Log!TelemetryAssumption, Log!OneEnder, NEW t \in Log!Threads, Log!Step(t)
    PROVE  Log!OneEnder'
<1>1. /\ pc \in [Log!Threads -> Labels] /\ level \in [Log!Threads -> {"error", "fatal", "exit"}]
  BY DEF LogTypes
<1>2. UNCHANGED <<level, sender, ends>>
  BY DEF Log!Step, Log!Get, Log!Lock, Log!AppendLog, Log!AppendAt, Log!Abort, Log!Exists, Log!Shutdown, Log!Join, Log!Die
<1>3. CASE Log!Get(t) \/ Log!Lock(t)
  <2>1. UNCHANGED <<instance, shuttingDown>>
    BY <1>3 DEF Log!Get, Log!Lock, Log!service
  <2>2. pc' = pc \/ (pc[t] \in {"get", "lock"} /\ \E q \in {"lock", "append"} : pc' = [pc EXCEPT ![t] = q])
    BY <1>3 DEF Log!Get, Log!Lock, Log!Goto
  <2> QED BY <1>1, <1>2, <2>1, <2>2 DEF Log!OneEnder, Log!Ending
<1>4. CASE Log!AppendLog(t)
  <2>1. UNCHANGED <<instance, shuttingDown>>
    BY <1>4 DEF Log!AppendLog, Log!AppendAt, Log!service
  <2>2. /\ pc[t] = "append" /\ level[t] # "exit"
        /\ pc' = [pc EXCEPT ![t] = IF level[t] = "fatal" THEN "abort" ELSE "idle"]
    BY <1>4 DEF Log!AppendLog, Log!AppendAt, Log!Goto, Log!OneEnder
  <2> QED BY <1>1, <1>2, <2>1, <2>2 DEF Log!OneEnder, Log!Ending
<1>5. CASE Log!Abort(t)
  <2>1. /\ UNCHANGED <<instance, shuttingDown>> /\ pc[t] = "abort"
        /\ pc' = [pc EXCEPT ![t] = "exists"]
    BY <1>5 DEF Log!Abort, Log!service, Log!Goto
  <2> QED BY <1>1, <1>2, <2>1 DEF Log!OneEnder, Log!Ending
<1>6. CASE Log!Exists(t)
  <2>1. pc[t] = "exists" /\ t \in Log!Ending
    BY <1>6 DEF Log!Exists, Log!OneEnder
  <2>2. \A u \in Log!Threads : pc[u] \notin {"shutdown", "join", "die"}
    BY <2>1 DEF Log!OneEnder
  <2>3. instance /\ ~shuttingDown
    BY <2>2 DEF Log!OneEnder
  <2>4. pc' = [pc EXCEPT ![t] = "shutdown"] /\ UNCHANGED shuttingDown
    BY <1>6, <2>3 DEF Log!Exists, Log!Goto
  <2> QED BY <1>1, <1>2, <2>1, <2>3, <2>4 DEF Log!OneEnder, Log!Ending
<1>7. CASE Log!Shutdown(t)
  <2>1. pc[t] = "shutdown" /\ t \in Log!Ending
    BY <1>7 DEF Log!Shutdown, Log!OneEnder
  <2>2. \A u \in Log!Threads : pc[u] \notin {"join", "die"}
    BY <2>1 DEF Log!OneEnder
  <2>3. ~shuttingDown
    BY <2>2 DEF Log!OneEnder
  <2>4. pc' = [pc EXCEPT ![t] = "join"] /\ shuttingDown' /\ UNCHANGED instance
    BY <1>7, <2>3 DEF Log!Shutdown, Log!Goto
  <2> QED BY <1>1, <1>2, <2>1, <2>4 DEF Log!OneEnder, Log!Ending
<1>8. CASE Log!Join(t)
  <2>1. /\ pc[t] = "join" /\ shuttingDown /\ sender.pc = "ended"
        /\ pc' = [pc EXCEPT ![t] = "die"] /\ UNCHANGED <<instance, shuttingDown>>
    BY <1>8 DEF Log!Join, Log!OneEnder, Log!Goto, Log!service
  <2> QED BY <1>1, <1>2, <2>1 DEF Log!OneEnder, Log!Ending
<1>9. CASE Log!Die(t)
  <2>1. pc[t] = "die" /\ UNCHANGED <<pc, shuttingDown>>
    BY <1>9 DEF Log!Die
  <2> QED BY <1>1, <1>2, <2>1 DEF Log!OneEnder, Log!Ending
<1> QED BY <1>3, <1>4, <1>5, <1>6, <1>7, <1>8, <1>9 DEF Log!Step

\* A sender that has ended does nothing more.
LEMMA EnderSends ==
    ASSUME Log!OneEnder, Log!Sender
    PROVE  Log!OneEnder'
<1>1. UNCHANGED <<instance, shuttingDown, pc, level, ends>>
  BY SenderFrame
<1>2. sender.pc # "ended"
  BY DEF Log!Sender, Log!SenderReads, Log!SenderFlushes, Log!SenderWaits, Log!SenderTakes, Log!SenderPosts
<1> QED BY <1>1, <1>2 DEF Log!OneEnder, Log!Ending

\* Only Die ends the process in order, and it comes after the join.
LEMMA FlushedAtEnd ==
    ASSUME Log!TelemetryAssumption, LogCore, Log!OneEnder, Log!Next
    PROVE  Log!Flushed'
<1>1. CASE \E t \in Log!Threads : Log!Die(t)
  <2>1. PICK t \in Log!Threads : Log!Die(t)
    BY <1>1
  <2>2. shuttingDown /\ sender.pc = "ended"
    BY <2>1 DEF Log!Die, Log!OneEnder
  <2>3. sender.payload = <<>> /\ Len(posted) + Len(sender.payload) >= due
    BY <2>2, Zenon DEF LogCore, Log!SenderInv
  <2>4. Len(posted) \in Nat /\ due \in Nat
    <3>1. LogTypes /\ posted \in Seq(Nat)
      BY Zenon DEF LogCore, LogTypes
    <3> QED BY <3>1, Numbers, LengthIs
  <2>5. Len(posted) >= due
    BY <2>3, <2>4
  <2>6. UNCHANGED <<posted, due, shuttingDown>>
    BY <2>1 DEF Log!Die, Log!history
  <2> QED BY <2>2, <2>5, <2>6 DEF Log!Flushed
<1>2. CASE ~ \E t \in Log!Threads : Log!Die(t)
  <2>1. process' \notin {"exit", "abort"}
    BY <1>2 DEF Log!Next, Log!Step, Log!Get, Log!Lock, Log!AppendLog, Log!AppendAt, Log!Abort, Log!Exists, Log!Shutdown, Log!Join,
           Log!Signal, Log!Log, Log!MainReturns, Log!Sender, Log!SenderReads, Log!SenderFlushes, Log!SenderWaits,
           Log!SenderTakes, Log!SenderPosts
  <2> QED BY <2>1 DEF Log!Flushed
<1> QED BY <1>1, <1>2

-----------------------------------------------------------------------------
LEMMA CoreStarts ==
    ASSUME Log!TelemetryAssumption, Log!Init
    PROVE  LogCore /\ Log!OneEnder /\ Log!Flushed
<1>1. LogFlags /\ SenderTypes /\ Log!SenderInv
  <2>1. /\ sender.pc = "read" /\ sender.lastRun = FALSE /\ sender.size = 0
        /\ sender.payload = <<>> /\ due = 0 /\ accepted = <<>>
    BY DEF Log!Init
  <2>2. LogFlags
    BY <2>1 DEF Log!Init, LogFlags
  <2>3. SenderTypes
    BY <2>1 DEF Log!Init, SenderTypes
  <2>4. Log!SenderInv
    BY <2>1 DEF Log!SenderInv
  <2> QED BY <2>2, <2>3, <2>4
<1>2. LogTypes
  BY DEF Log!Init, LogTypes, Labels, Log!TelemetryAssumption
<1>3. Log!PostedInOrder
  <2>1. posted = <<>> /\ sender.payload = <<>> /\ logBuffer = <<>> /\ accepted = <<>>
    BY DEF Log!Init
  <2> QED BY <2>1 DEF Log!PostedInOrder
<1>4. Log!OneEnder /\ Log!Flushed
  BY DEF Log!Init, Log!OneEnder, Log!Ending, Log!Flushed
<1> QED BY <1>1, <1>2, <1>3, <1>4 DEF LogCore

LEMMA CoreKept ==
    ASSUME Log!TelemetryAssumption, LogCore, [Log!Next]_(Log!vars)
    PROVE  LogCore'
<1>1. CASE UNCHANGED Log!vars
  BY <1>1 DEF Log!vars, LogCore, LogFlags, LogTypes, SenderTypes, Log!PostedInOrder,
              Log!SenderInv
<1>2. ASSUME NEW t \in Log!Threads, Log!Step(t) \/ Log!Signal(t) PROVE LogCore'
  BY <1>2, AwayKeeps, ShutdownKeeps, AppendKeeps DEF Log!Step, Away
<1>3. ASSUME NEW t \in Log!Threads, NEW l \in {"error", "fatal"}, Log!Log(t, l) PROVE LogCore'
  BY <1>3, AwayKeeps DEF Away, Log!Threads
<1>4. CASE Log!MainReturns
  BY <1>4, AwayKeeps DEF Away, Log!Threads
<1>5. CASE Log!Sender
  BY <1>5, SenderKeeps
<1> QED BY <1>1, <1>2, <1>3, <1>4, <1>5 DEF Log!Next

LEMMA EnderKept ==
    ASSUME Log!TelemetryAssumption, LogTypes, MaxEnds <= 1, Log!OneEnder, [Log!Next]_(Log!vars)
    PROVE  Log!OneEnder'
<1>1. CASE UNCHANGED Log!vars
  BY <1>1 DEF Log!vars, Log!OneEnder, Log!Ending
<1>2. ASSUME NEW t \in Log!Threads, Log!Step(t) \/ Log!Signal(t) PROVE Log!OneEnder'
  BY <1>2, EnderSteps, EnderSetsOut
<1>3. ASSUME NEW t \in Log!Threads, NEW l \in {"error", "fatal"}, Log!Log(t, l) PROVE Log!OneEnder'
  BY <1>3, EnderLogs DEF Log!Threads
<1>4. CASE Log!MainReturns
  BY <1>4, EnderSetsOut DEF Log!Threads
<1>5. CASE Log!Sender
  BY <1>5, EnderSends
<1> QED BY <1>1, <1>2, <1>3, <1>4, <1>5 DEF Log!Next

\* TelemetryService: nothing that logToDatadog appends is lost or posted twice,
\* messages are posted in the order they were appended, and the buffer keeps its
\* bound, whatever threads log, end the process or are interrupted by a signal;
\* and when one thread at most sets out to end the process, shutdown() has posted
\* all that was appended before its flag by the time the process ends.
LEMMA LogCorrect ==
    ASSUME Log!TelemetryAssumption
    PROVE  Log!Spec => []Log!LogInv
<1> DEFINE Inv == LogCore /\ (MaxEnds <= 1 => Log!OneEnder /\ Log!Flushed)
<1>1. Log!Init => Inv
  BY CoreStarts
<1>2. Inv /\ [Log!Next]_(Log!vars) => Inv'
  <2> SUFFICES ASSUME Inv, [Log!Next]_(Log!vars) PROVE Inv'
    OBVIOUS
  <2>1. LogCore'
    BY CoreKept
  <2>2. ASSUME MaxEnds <= 1 PROVE Log!OneEnder' /\ Log!Flushed'
    <3>1. Log!OneEnder'
      BY <2>2, EnderKept DEF LogCore
    <3>2. CASE Log!Next
      BY <2>2, <3>1, <3>2, FlushedAtEnd
    <3>3. CASE UNCHANGED Log!vars
      BY <2>2, <3>1, <3>3 DEF Log!vars, Log!Flushed
    <3> QED BY <3>1, <3>2, <3>3
  <2> QED BY <2>1, <2>2
<1>3. Inv => Log!LogInv
  BY LogTypesAre DEF Log!LogInv, LogCore
<1> QED BY <1>1, <1>2, <1>3, PTL DEF Log!Spec

\* Whatever thread logs and whichever way the server ends, the log buffer
\* neither loses nor repeats a message, for any numbers of threads and messages
\* and all sizes (TelemetryService).
THEOREM LogsKept == Log!Spec => []LogInv
<1>1. Log!Spec => []Log!LogInv
  BY ServerAssumption, LogCorrect
<1>2. LogInv <=> Log!LogInv
  BY DEF LogInv
<1> QED BY <1>1, <1>2, PTL

=============================================================================
