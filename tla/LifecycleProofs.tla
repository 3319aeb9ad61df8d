--------------------------- MODULE LifecycleProofs ---------------------------
(***************************************************************************)
(* How a session begins and recovers: the invariant of ClientReconnect for *)
(* every outage budget and any number of failures, that of CatchupExchange *)
(* for all catchup buffers, links and timeouts, and that of SessionSetup,  *)
(* with and without a jumphost, for all daemons and options of both hosts  *)
(* and every id.                                                           *)
(***************************************************************************)
EXTENDS MCLifecycle, SequenceTheorems, TLAPS

-----------------------------------------------------------------------------
(* The threads of the client.                                              *)

\* The environment and the stages of the loop leave the threads alone.
LEMMA LoopKeeps ==
    ASSUME ReconnectAssumption, ReconnectInv,
           LinkFails \/ SessionEnds \/ Quit \/ ConsoleEof \/ Top \/ LoopDone \/ Work
    PROVE  ReconnectInv'
<1> USE DEF ReconnectInv, TypeOK, ThreadInv, NeverTerminates, ReconnectOwnsSocket,
            AlwaysReconnecting, main, ReconnectAssumption
<1>1. CASE LinkFails
  BY <1>1 DEF LinkFails
<1>2. CASE SessionEnds
  BY <1>2 DEF SessionEnds
<1>3. CASE Quit
  BY <1>3 DEF Quit
<1>4. CASE ConsoleEof
  BY <1>4 DEF ConsoleEof
<1>5. CASE Top
  BY <1>5 DEF Top
<1>6. CASE LoopDone
  BY <1>6 DEF LoopDone, Skip
<1>7. CASE Work
  <2>1. CASE StartWrite("console", "read") \/ StartWrite("rest", "rest")
    BY <2>1 DEF StartWrite
  <2>2. CASE KeepaliveSent
    BY <2>2 DEF KeepaliveSent
  <2>3. CASE ReadPacket
    <3>1. waiting' \in BOOLEAN
      <4>1. waiting \in BOOLEAN
        BY Zenon
      <4>2. CASE waiting' = waiting
        BY <4>1, <4>2
      <4>3. CASE waiting' = FALSE
        BY <4>3
      <4> QED BY <2>3, <4>2, <4>3 DEF ReadPacket
    <3> QED BY <2>3, <3>1 DEF ReadPacket
  <2> QED BY <1>7, <2>1, <2>2, <2>3 DEF Work
<1> QED BY <1>1, <1>2, <1>3, <1>4, <1>5, <1>6, <1>7

\* So do writes, and the main thread takes the mutex only when it is free.
LEMMA WritesKeep ==
    ASSUME ReconnectAssumption, ReconnectInv, DeadSocketNoticed \/ WriteReturns
    PROVE  ReconnectInv'
<1> USE DEF ReconnectInv, TypeOK, ThreadInv, NeverTerminates, ReconnectOwnsSocket,
            AlwaysReconnecting, ReconnectAssumption
<1>1. CASE KeepaliveMissed
  BY <1>1 DEF KeepaliveMissed
<1>2. CASE ReadFails
  BY <1>2 DEF ReadFails
<1>3. CASE WriteFails
  BY <1>3 DEF WriteFails
<1>4. CASE WriteAborted
  BY <1>4 DEF WriteAborted
<1>5. CASE WriteSent
  BY <1>5 DEF WriteSent
<1>6. CASE WriteBuffers
  BY <1>6 DEF WriteBuffers
<1> QED BY <1>1, <1>2, <1>3, <1>4, <1>5, <1>6 DEF DeadSocketNoticed, WriteReturns

\* Closing joins the old thread before it starts the new one.
LEMMA ClosingKeeps ==
    ASSUME ReconnectAssumption, ReconnectInv, Closing
    PROVE  ReconnectInv'
<1> USE DEF ReconnectInv, TypeOK, ThreadInv, NeverTerminates, ReconnectOwnsSocket,
            AlwaysReconnecting, ReconnectAssumption
<1>1. CASE WaitReconnect
  BY <1>1 DEF WaitReconnect
<1>2. CASE CloseAndReconnect
  BY <1>2 DEF CloseAndReconnect
<1>3. CASE Shutdown
  BY <1>3 DEF Shutdown
<1>4. CASE Destroy
  BY <1>4 DEF Destroy
<1> QED BY <1>1, <1>2, <1>3, <1>4 DEF Closing

\* The reconnect thread has the mutex from its test of socketFd to the end of
\* the attempt.
LEMMA ReconnectThreadKeeps ==
    ASSUME ReconnectAssumption, ReconnectInv, ReconnectThread
    PROVE  ReconnectInv'
<1> USE DEF ReconnectInv, TypeOK, ThreadInv, NeverTerminates, ReconnectOwnsSocket,
            AlwaysReconnecting, main, ReconnectAssumption
<1>1. CASE ReconnectTop
  BY <1>1 DEF ReconnectTop
<1>2. CASE ReconnectSucceeds
  BY <1>2 DEF ReconnectSucceeds
<1>3. CASE ReconnectFails
  BY <1>3 DEF ReconnectFails
<1>4. CASE ReconnectRefused
  BY <1>4 DEF ReconnectRefused
<1>5. CASE ReconnectCheck
  BY <1>5 DEF ReconnectCheck
<1>6. CASE ReconnectSleep
  BY <1>6 DEF ReconnectSleep
<1> QED BY <1>1, <1>2, <1>3, <1>4, <1>5, <1>6 DEF ReconnectThread

\* pollReconnect and TerminalClient::run: only one of them has the socket, a
\* client without a socket has a thread that is trying to get one, and no
\* joinable thread is dropped.
THEOREM ReconnectCorrect ==
    ASSUME ReconnectAssumption
    PROVE  Spec => []ReconnectInv
<1>1. Init => ReconnectInv
  <2> SUFFICES ASSUME Init PROVE ReconnectInv
    OBVIOUS
  <2>1. buffered \in 0..Budget /\ faults \in 0..MaxFaults
    BY DEF Init, ReconnectAssumption
  <2>2. {sawFd, waiting, quit, shuttingDown, session, terminated} \subseteq BOOLEAN
    BY Zenon DEF Init
  <2>3. TypeOK
    BY <2>1, <2>2 DEF Init, TypeOK
  <2> QED BY <2>3 DEF Init, ReconnectInv, ThreadInv, NeverTerminates,
                      ReconnectOwnsSocket, AlwaysReconnecting
<1>2. ReconnectInv /\ [Next]_vars => ReconnectInv'
  <2>1. CASE UNCHANGED vars
    BY <2>1 DEF vars, ReconnectInv, TypeOK, ThreadInv, NeverTerminates,
                ReconnectOwnsSocket, AlwaysReconnecting
  <2>2. CASE Next
    BY <2>2, LoopKeeps, WritesKeep, ClosingKeeps, ReconnectThreadKeeps DEF Next
  <2> QED BY <2>1, <2>2
<1> QED BY <1>1, <1>2, PTL DEF Spec

-----------------------------------------------------------------------------
(* Sequences of units.                                                     *)

Upto(n) == [i \in 1..n |-> i]

LEMMA UptoGrows ==
    ASSUME NEW n \in Nat, NEW a \in Seq(Nat), NEW b \in Seq(Nat), a \o b = Upto(n)
    PROVE  a \o Append(b, n + 1) = Upto(n + 1)
<1>1. a \o Append(b, n + 1) = Append(a \o b, n + 1)
  OBVIOUS
<1>2. Append(Upto(n), n + 1) = Upto(n + 1)
  BY DEF Upto
<1> QED BY <1>1, <1>2

LEMMA UnitMoves ==
    ASSUME NEW a \in Seq(Nat), NEW b \in Seq(Nat), b # <<>>
    PROVE  /\ Append(a, Head(b)) \o Tail(b) = a \o b
           /\ Append(a, Head(b)) \in Seq(Nat) /\ Tail(b) \in Seq(Nat)
           /\ Len(Append(a, Head(b))) = Len(a) + 1 /\ Len(Tail(b)) = Len(b) - 1
  OBVIOUS

LEMMA UptoParts ==
    ASSUME NEW n \in Nat, NEW a \in Seq(Nat), NEW b \in Seq(Nat), a \o b = Upto(n)
    PROVE  /\ Len(a) + Len(b) = n /\ E!InOrder(a)
           /\ Len(a) = n => b = <<>>
<1>1. Len(a \o b) = Len(a) + Len(b) /\ Len(Upto(n)) = n
  BY DEF Upto
<1>2. Len(a) + Len(b) = n
  BY <1>1
<1>3. \A i \in 1..Len(a) : a[i] = i
  <2>1. \A i \in 1..Len(a) : a[i] = (a \o b)[i]
    OBVIOUS
  <2>2. \A i \in 1..n : Upto(n)[i] = i
    BY DEF Upto
  <2>3. \A i \in 1..Len(a) : i \in 1..n
    BY <1>2
  <2> QED BY <2>1, <2>2, <2>3
<1>4. a = [i \in 1..Len(a) |-> i]
  BY <1>3
<1>5. Len(b) = 0 => b = <<>>
  BY EmptySeq
<1>6. Len(a) \in Nat /\ Len(b) \in Nat
  OBVIOUS
<1>7. Len(a) = n => Len(b) = 0
  BY <1>2, <1>6
<1>8. E!InOrder(a)
  BY <1>4 DEF E!InOrder
<1> QED BY <1>2, <1>5, <1>7, <1>8

-----------------------------------------------------------------------------
(* The exchange of the catchup buffers.                                    *)

Places == {"start", "header", "send", "recv", "up", "failed"}

LEMMA Peers ==
    ASSUME NEW s \in E!Sides
    PROVE  /\ E!Peer(s) \in E!Sides /\ E!Peer(s) # s /\ E!Peer(E!Peer(s)) = s
           /\ \A u \in E!Sides : u = s \/ u = E!Peer(s)
  BY DEF E!Sides, E!Peer

Flags == {header, revived} \subseteq [E!Sides -> BOOLEAN]

Counts ==
    /\ side \in [E!Sides -> Places]
    /\ {todo, sent, tries} \subseteq [E!Sides -> Nat]
    /\ {stream, got} \subseteq [E!Sides -> Seq(Nat)]
    /\ linkFaults \in 0..MaxLinkFaults

Side(s) ==
    /\ sent[s] <= todo[s] /\ tries[s] <= MaxTries
    /\ Len(stream[s]) <= Capacity /\ Len(got[s]) <= todo[E!Peer(s)]
    /\ side[s] \in {"start", "header"} => sent[s] = 0
    /\ side[s] = "send" => sent[s] < todo[s]
    /\ side[s] \in {"recv", "up"} => sent[s] = todo[s]
    /\ side[s] = "up" => Len(got[s]) = todo[E!Peer(s)]

Exchanging == Counts /\ \A s \in E!Sides : Side(s)

Ordered == E!Fits(todo) /\ E!WireOrdered

LEMMA ExchangeParts == E!ExchangeInv => Flags /\ Exchanging
<1> SUFFICES ASSUME E!ExchangeInv PROVE Flags /\ Exchanging
  OBVIOUS
<1>1. E!TypeOK /\ E!SentSoFar
  BY DEF E!ExchangeInv
<1>2. Flags
  BY <1>1, Zenon DEF E!TypeOK, Flags
<1>3. Counts
  BY <1>1, Zenon DEF E!TypeOK, Counts, Places
<1>4. \A s \in E!Sides : Side(s)
  BY <1>1, Zenon DEF E!TypeOK, E!SentSoFar, Side
<1> QED BY <1>2, <1>3, <1>4 DEF Exchanging

\* What is read is in order, and a side that is up has left nothing.
LEMMA OrderedIntact == Exchanging /\ Ordered => E!StreamIntact
<1> SUFFICES ASSUME Exchanging, Ordered PROVE E!StreamIntact
  OBVIOUS
<1>1. ASSUME NEW s \in E!Sides
      PROVE  E!InOrder(got[s]) /\ (side[s] = "up" => stream[s] = <<>>)
  <2>1. /\ got[s] \in Seq(Nat) /\ stream[s] \in Seq(Nat) /\ sent[E!Peer(s)] \in Nat
        /\ todo[E!Peer(s)] \in Nat
        /\ sent[E!Peer(s)] <= todo[E!Peer(s)] /\ Side(s)
        /\ got[s] \o stream[s] = Upto(sent[E!Peer(s)])
    BY Peers DEF Exchanging, Counts, Ordered, E!WireOrdered, Upto, Side
  <2>2. E!InOrder(got[s]) /\ Len(got[s]) + Len(stream[s]) = sent[E!Peer(s)]
        /\ (Len(got[s]) = sent[E!Peer(s)] => stream[s] = <<>>)
    BY <2>1, UptoParts
  <2>3. side[s] = "up" => Len(got[s]) = sent[E!Peer(s)]
    <3> SUFFICES ASSUME side[s] = "up" PROVE Len(got[s]) = sent[E!Peer(s)]
      OBVIOUS
    <3>1. Len(got[s]) = todo[E!Peer(s)]
      BY <2>1, Zenon DEF Side
    <3>2. Len(got[s]) \in Nat /\ Len(stream[s]) \in Nat
      BY <2>1
    <3> QED BY <2>1, <2>2, <3>1, <3>2
  <2> QED BY <2>2, <2>3
<1>2. E!Up => \A s \in E!Sides : side[s] = "up"
  BY DEF E!Up
<1> QED BY <1>1, <1>2 DEF E!StreamIntact

LEMMA ExchangeFromParts ==
    Flags /\ Exchanging /\ (E!Fits(todo) => Ordered) => E!ExchangeInv
<1> SUFFICES ASSUME Flags, Exchanging, E!Fits(todo) => Ordered
             PROVE  E!ExchangeInv
  OBVIOUS
<1>1. E!TypeOK
  BY Zenon DEF E!TypeOK, Flags, Exchanging, Counts, Side, Places
<1>2. E!SentSoFar
  BY Zenon DEF E!SentSoFar, Exchanging, Side
<1>3. E!Fits(todo) => E!WireOrdered /\ E!StreamIntact
  BY OrderedIntact, Zenon DEF Ordered
<1> QED BY <1>1, <1>2, <1>3, Zenon DEF E!ExchangeInv

LEMMA ExchangeFromPartsNext ==
    Flags' /\ Exchanging' /\ (E!Fits(todo) => Ordered)' => E!ExchangeInv'
<1>1. (Flags /\ Exchanging /\ (E!Fits(todo) => Ordered) => E!ExchangeInv)'
  BY ExchangeFromParts, PTL
<1> QED BY <1>1

LEMMA BeginOrdered ==
    ASSUME E!ExchangeAssumption
    PROVE  E!Init => Flags /\ Exchanging /\ (E!Fits(todo) => Ordered)
<1> SUFFICES ASSUME E!Init
             PROVE  Flags /\ Exchanging /\ (E!Fits(todo) => Ordered)
  OBVIOUS
<1>1. Flags
  BY Zenon DEF E!Init, Flags
<1>2. Counts
  BY DEF E!Init, E!ExchangeAssumption, Counts, Places
<1>3. \A s \in E!Sides : Side(s)
  BY <1>2, Peers DEF E!Init, E!ExchangeAssumption, Counts, Side
<1>4. E!WireOrdered
  BY Peers DEF E!Init, E!WireOrdered
<1> QED BY <1>1, <1>2, <1>3, <1>4 DEF Exchanging, Ordered

\* The flags are Boolean whatever happens.
LEMMA FlagsKept == Flags /\ [E!Next]_(E!vars) => Flags'
<1> SUFFICES ASSUME Flags, [E!Next]_(E!vars) PROVE Flags'
  OBVIOUS
<1>1. CASE UNCHANGED E!vars
  BY <1>1, Zenon DEF Flags, E!vars
<1>2. CASE E!LinkFails
  BY <1>2, Zenon DEF Flags, E!LinkFails
<1>3. CASE E!Retry
  BY <1>3, Zenon DEF Flags, E!Retry, E!Begin
<1>4. ASSUME NEW s \in E!Sides, E!Side(s) PROVE Flags'
  <2>1. CASE E!SendHeader(s)
    BY <2>1, Peers DEF Flags, E!SendHeader
  <2>2. CASE E!RecvHeader(s)
    BY <2>2 DEF Flags, E!RecvHeader
  <2>3. CASE E!RecvDone(s)
    BY <2>3 DEF Flags, E!RecvDone
  <2>4. CASE UNCHANGED <<header, revived>>
    BY <2>4, Zenon DEF Flags
  <2> QED BY <1>4, <2>1, <2>2, <2>3, <2>4, Zenon
        DEF E!Side, E!SendUnit, E!GiveUp, E!Timeout, E!RecvUnit, E!ReadRest, E!PeerFailed
<1> QED BY <1>1, <1>2, <1>3, <1>4 DEF E!Next

Kept == Exchanging' /\ (Ordered => Ordered')

\* Steps that move no unit.
LEMMA QuietKeeps ==
    ASSUME E!ExchangeAssumption, Exchanging, NEW s \in E!Sides,
           \/ E!SendHeader(s) \/ E!RecvHeader(s) \/ E!Timeout(s)
           \/ E!RecvDone(s) \/ E!ReadRest(s) \/ E!PeerFailed(s)
    PROVE  Kept
<1>1. UNCHANGED <<todo, sent, tries, stream, got, linkFaults>>
  BY DEF E!SendHeader, E!RecvHeader, E!Timeout, E!RecvDone, E!ReadRest, E!PeerFailed
<1>2. PICK p \in Places :
        /\ side' = [side EXCEPT ![s] = p]
        /\ p \in {"start", "header"} => sent[s] = 0
        /\ p = "send" => sent[s] < todo[s]
        /\ p \in {"recv", "up"} => sent[s] = todo[s]
        /\ p = "up" => Len(got[s]) = todo[E!Peer(s)]
  <2>1. side[s] \in Places /\ sent[s] \in Nat /\ todo[s] \in Nat /\ Side(s)
    BY DEF Exchanging, Counts
  <2>2. CASE E!SendHeader(s)
    BY <2>1, <2>2 DEF E!SendHeader, E!Go, Places, Side
  <2>3. CASE E!RecvHeader(s)
    <3>1. /\ side' = [side EXCEPT ![s] = IF todo[s] = 0 THEN "recv" ELSE "send"]
          /\ side[s] = "header"
      BY <2>3 DEF E!RecvHeader, E!Go
    <3>2. sent[s] = 0
      BY <2>1, <3>1 DEF Side
    <3>3. CASE todo[s] = 0
      BY <3>1, <3>2, <3>3 DEF Places
    <3>4. CASE todo[s] # 0
      BY <2>1, <3>1, <3>2, <3>4 DEF Places
    <3> QED BY <3>3, <3>4
  <2>4. CASE E!Timeout(s) \/ E!ReadRest(s) \/ E!PeerFailed(s)
    BY <2>1, <2>4 DEF E!Timeout, E!ReadRest, E!PeerFailed, E!Go, Places
  <2>5. CASE E!RecvDone(s)
    BY <2>1, <2>5 DEF E!RecvDone, E!Go, Places, Side
  <2> QED BY <2>2, <2>3, <2>4, <2>5
<1>3. Counts'
  BY <1>1, <1>2 DEF Exchanging, Counts
<1>4. ASSUME NEW u \in E!Sides PROVE Side(u)'
  <2>1. Side(u) /\ side'[u] = IF u = s THEN p ELSE side[u]
    BY <1>2 DEF Exchanging, Counts
  <2> QED BY <1>1, <1>2, <2>1 DEF Side
<1>5. Ordered => Ordered'
  BY <1>1 DEF Ordered, E!Fits, E!WireOrdered
<1> QED BY <1>3, <1>4, <1>5 DEF Kept, Exchanging

LEMMA SendUnitKeeps ==
    ASSUME E!ExchangeAssumption, Exchanging, NEW s \in E!Sides, E!SendUnit(s)
    PROVE  Kept
<1> DEFINE r == E!Peer(s)
<1>1. /\ r \in E!Sides /\ r # s /\ E!Peer(r) = s
      /\ \A u \in E!Sides : u = s \/ u = r
  BY Peers
<1>2. PICK n \in Nat, w \in Seq(Nat), k \in Nat :
        n = sent[s] /\ w = stream[r] /\ k = todo[s]
  BY <1>1 DEF Exchanging, Counts
<1>3. n < k /\ Len(w) < Capacity /\ Side(s) /\ Side(r)
  BY <1>1, <1>2 DEF E!SendUnit, E!Full, Exchanging, Side, Counts, E!ExchangeAssumption
<1>4. /\ stream' = [stream EXCEPT ![r] = Append(w, n + 1)]
      /\ sent' = [sent EXCEPT ![s] = n + 1]
      /\ UNCHANGED <<todo, tries, got, linkFaults>>
  BY <1>1, <1>2 DEF E!SendUnit, Exchanging, Counts
<1>5. PICK p \in {"send", "recv"} :
        /\ side' = [side EXCEPT ![s] = p]
        /\ p = "recv" <=> n + 1 = k
  <2>1. CASE n + 1 = k
    BY <1>2, <2>1 DEF E!SendUnit, E!Go
  <2>2. CASE n + 1 # k
    <3>1. side' = [side EXCEPT ![s] = "send"]
      BY <1>2, <2>2 DEF E!SendUnit, Exchanging, Counts
    <3> QED BY <2>2, <3>1
  <2> QED BY <2>1, <2>2
<1>6. Append(w, n + 1) \in Seq(Nat) /\ Len(Append(w, n + 1)) = Len(w) + 1
  OBVIOUS
<1>7. Counts'
  BY <1>1, <1>4, <1>5, <1>6 DEF Exchanging, Counts, Places
<1>8. Side(s)'
  <2>1. /\ sent'[s] = n + 1 /\ todo'[s] = k /\ side'[s] = p
        /\ tries'[s] = tries[s] /\ stream'[s] = stream[s] /\ got'[s] = got[s]
        /\ todo'[E!Peer(s)] = todo[E!Peer(s)]
    BY <1>1, <1>2, <1>4, <1>5 DEF Exchanging, Counts
  <2> QED BY <1>3, <1>5, <2>1 DEF Side
<1>9. Side(r)'
  <2>1. /\ sent'[r] = sent[r] /\ todo'[r] = todo[r] /\ side'[r] = side[r]
        /\ tries'[r] = tries[r] /\ stream'[r] = Append(w, n + 1) /\ got'[r] = got[r]
        /\ todo'[E!Peer(r)] = todo[E!Peer(r)]
    BY <1>1, <1>2, <1>4, <1>5 DEF Exchanging, Counts
  <2>2. Len(Append(w, n + 1)) <= Capacity
    BY <1>3, <1>6 DEF E!ExchangeAssumption
  <2> QED BY <1>3, <2>1, <2>2 DEF Side
<1>10. Ordered => Ordered'
  <2> SUFFICES ASSUME Ordered PROVE Ordered'
    OBVIOUS
  <2>1. got[r] \o w = Upto(n) /\ got[r] \in Seq(Nat)
    BY <1>1, <1>2 DEF Ordered, E!WireOrdered, Upto, Exchanging, Counts
  <2>2. got[r] \o Append(w, n + 1) = Upto(n + 1)
    BY <2>1, UptoGrows
  <2>3. got'[r] \o stream'[r] = Upto(sent'[E!Peer(r)])
    BY <1>1, <1>2, <1>4, <2>2 DEF Exchanging, Counts
  <2>4. got'[s] \o stream'[s] = Upto(sent'[E!Peer(s)])
    BY <1>1, <1>4 DEF Exchanging, Counts, Ordered, E!WireOrdered, Upto
  <2>5. \A u \in E!Sides : got'[u] \o stream'[u] = Upto(sent'[E!Peer(u)])
    BY <1>1, <2>3, <2>4
  <2> QED BY <1>4, <2>5 DEF Ordered, E!Fits, E!WireOrdered, Upto
<1> QED BY <1>1, <1>7, <1>8, <1>9, <1>10 DEF Kept, Exchanging

LEMMA RecvUnitKeeps ==
    ASSUME E!ExchangeAssumption, Exchanging, NEW s \in E!Sides, E!RecvUnit(s)
    PROVE  Kept
<1> DEFINE r == E!Peer(s)
<1>1. /\ r \in E!Sides /\ r # s /\ E!Peer(r) = s
      /\ \A u \in E!Sides : u = s \/ u = r
  BY Peers
<1>2. PICK a \in Seq(Nat), b \in Seq(Nat), k \in Nat :
        a = got[s] /\ b = stream[s] /\ k = todo[r]
  BY <1>1 DEF Exchanging, Counts
<1>3. b # <<>> /\ Len(a) < k /\ Len(b) <= Capacity /\ side[s] = "recv" /\ Side(s) /\ Side(r)
  BY <1>1, <1>2 DEF E!RecvUnit, Exchanging, Side
<1>4. /\ got' = [got EXCEPT ![s] = Append(a, Head(b))]
      /\ stream' = [stream EXCEPT ![s] = Tail(b)]
      /\ UNCHANGED <<side, todo, sent, tries, linkFaults>>
  BY <1>2 DEF E!RecvUnit, Exchanging, Counts
<1>5. /\ Append(a, Head(b)) \o Tail(b) = a \o b
      /\ Append(a, Head(b)) \in Seq(Nat) /\ Tail(b) \in Seq(Nat)
      /\ Len(Append(a, Head(b))) = Len(a) + 1 /\ Len(Tail(b)) = Len(b) - 1
  BY <1>3, UnitMoves
<1>6. Counts'
  BY <1>4, <1>5 DEF Exchanging, Counts
<1>7. Side(s)'
  <2>1. got'[s] = Append(a, Head(b)) /\ stream'[s] = Tail(b)
    BY <1>4 DEF Exchanging, Counts
  <2>2. Len(a) \in Nat /\ Len(b) \in Nat
    OBVIOUS
  <2>3. Len(Tail(b)) <= Capacity /\ Len(Append(a, Head(b))) <= k
    BY <1>3, <1>5, <2>2 DEF E!ExchangeAssumption
  <2> QED BY <1>2, <1>3, <1>4, <2>1, <2>3 DEF Side
<1>8. Side(r)'
  <2>1. got'[r] = got[r] /\ stream'[r] = stream[r]
    BY <1>1, <1>4 DEF Exchanging, Counts
  <2> QED BY <1>3, <1>4, <2>1 DEF Side
<1>9. Ordered => Ordered'
  <2> SUFFICES ASSUME Ordered PROVE Ordered'
    OBVIOUS
  <2>1. ASSUME NEW u \in E!Sides PROVE got'[u] \o stream'[u] = got[u] \o stream[u]
    BY <1>2, <1>4, <1>5 DEF Exchanging, Counts
  <2> QED BY <1>4, <2>1 DEF Ordered, E!Fits, E!WireOrdered
<1> QED BY <1>1, <1>6, <1>7, <1>8, <1>9 DEF Kept, Exchanging

\* A write that gives up forgets what it has sent; none does while the buffers
\* fit the link and the 5 s.
LEMMA GiveUpKeeps ==
    ASSUME E!ExchangeAssumption, Exchanging, NEW s \in E!Sides, E!GiveUp(s)
    PROVE  Kept
<1> DEFINE r == E!Peer(s)
<1>1. /\ r \in E!Sides /\ r # s /\ E!Peer(r) = s
      /\ \A u \in E!Sides : u = s \/ u = r
  BY Peers
<1>2. PICK n \in Nat : n = tries[s]
  BY DEF Exchanging, Counts
<1>3. /\ sent' = [sent EXCEPT ![s] = 0] /\ tries' = [tries EXCEPT ![s] = n + 1]
      /\ n < MaxTries /\ side[s] = "send"
      /\ UNCHANGED <<side, todo, stream, got, linkFaults>>
  BY <1>2 DEF E!GiveUp, Exchanging, Counts
<1>4. Counts'
  BY <1>3 DEF Exchanging, Counts
<1>5. ASSUME NEW u \in E!Sides PROVE Side(u)'
  <2>1. Side(u) /\ todo[u] \in Nat /\ sent[u] \in Nat /\ MaxTries \in Nat
    BY DEF Exchanging, Counts, E!ExchangeAssumption
  <2>2. CASE u = s
    <3>1. sent'[s] = 0 /\ tries'[s] = n + 1
      BY <1>3 DEF Exchanging, Counts
    <3>2. n + 1 <= MaxTries /\ 0 < todo[s]
      BY <1>3, <2>1, <2>2 DEF Side
    <3> QED BY <1>3, <2>1, <2>2, <3>1, <3>2 DEF Side
  <2>3. CASE u # s
    <3>1. sent'[u] = sent[u] /\ tries'[u] = tries[u]
      BY <1>3, <2>3 DEF Exchanging, Counts
    <3> QED BY <1>3, <2>1, <3>1 DEF Side
  <2> QED BY <2>2, <2>3
<1>6. Ordered => FALSE
  <2> SUFFICES ASSUME Ordered PROVE FALSE
    OBVIOUS
  <2>1. ASSUME NEW u \in E!Sides, E!Full(u), side[u] = "send" PROVE todo[u] > Capacity
    <3>1. E!Peer(u) \in E!Sides /\ E!Peer(E!Peer(u)) = u
      BY Peers
    <3>2. PICK a \in Seq(Nat), b \in Seq(Nat), m \in Nat, k \in Nat :
            a = got[E!Peer(u)] /\ b = stream[E!Peer(u)] /\ m = sent[u] /\ k = todo[u]
      BY <3>1 DEF Exchanging, Counts
    <3>3. a \o b = Upto(m)
      BY <3>1, <3>2 DEF Ordered, E!WireOrdered, Upto
    <3>4. Len(a) + Len(b) = m
      BY <3>3, UptoParts
    <3>5. Len(a) \in Nat /\ Len(b) \in Nat
      OBVIOUS
    <3>6. Len(b) >= Capacity /\ m < k /\ Capacity \in Nat
      BY <2>1, <3>2 DEF E!Full, Exchanging, Side, E!ExchangeAssumption
    <3>7. k > Capacity
      BY <3>4, <3>5, <3>6
    <3> QED BY <3>2, <3>7
  <2>2. todo[s] > Capacity
    BY <2>1 DEF E!GiveUp, E!GivesUp
  <2>3. ~(sent[s] > UnitsIn5s)
    BY DEF Exchanging, Counts, Side, Ordered, E!Fits, E!ExchangeAssumption
  <2>4. E!Full(r) /\ side[r] = "send"
    BY <2>3 DEF E!GiveUp, E!GivesUp, E!Stuck
  <2>5. todo[r] > Capacity
    BY <1>1, <2>1, <2>4
  <2>6. todo[s] \in Nat /\ todo[r] \in Nat /\ Capacity \in Nat
    BY <1>1 DEF Exchanging, Counts, E!ExchangeAssumption
  <2> QED BY <1>1, <2>2, <2>5, <2>6 DEF Ordered, E!Fits
<1> QED BY <1>4, <1>5, <1>6 DEF Kept, Exchanging

LEMMA LinkFailureKeeps ==
    ASSUME E!ExchangeAssumption, Exchanging, E!LinkFails
    PROVE  Kept
<1>1. /\ side' = [s \in E!Sides |-> "failed"] /\ linkFaults' \in 0..MaxLinkFaults
      /\ UNCHANGED <<todo, sent, tries, stream, got>>
  BY DEF E!LinkFails, Exchanging, Counts, E!ExchangeAssumption
<1>2. Counts'
  BY <1>1 DEF Exchanging, Counts, Places
<1>3. \A s \in E!Sides : Side(s)'
  BY <1>1 DEF Exchanging, Side
<1>4. Ordered => Ordered'
  BY <1>1 DEF Ordered, E!Fits, E!WireOrdered
<1> QED BY <1>2, <1>3, <1>4 DEF Kept, Exchanging

LEMMA RetryKeeps ==
    ASSUME E!ExchangeAssumption, Exchanging, E!Retry
    PROVE  Kept
<1>1. /\ side' = [s \in E!Sides |-> "start"] /\ sent' = [s \in E!Sides |-> 0]
      /\ tries' = [s \in E!Sides |-> 0] /\ stream' = [s \in E!Sides |-> <<>>]
      /\ got' = [s \in E!Sides |-> <<>>] /\ linkFaults' = linkFaults
  BY DEF E!Retry, E!Begin
<1>2. /\ todo' \in [E!Sides -> Nat]
      /\ \A s \in E!Sides : todo'[s] \in Nat /\ todo'[s] <= todo[s]
  <2>1. todo' = [s \in E!Sides |-> IF revived[E!Peer(s)] THEN 0 ELSE todo[s]]
    BY DEF E!Retry
  <2>2. todo \in [E!Sides -> Nat]
    BY DEF Exchanging, Counts
  <2>3. ASSUME NEW s \in E!Sides PROVE todo'[s] \in Nat /\ todo'[s] <= todo[s]
    <3>1. todo'[s] = 0 \/ todo'[s] = todo[s]
      BY <2>1, Zenon
    <3>2. todo[s] \in Nat
      BY <2>2
    <3> QED BY <3>1, <3>2
  <2>4. DOMAIN todo' = E!Sides /\ todo' = [s \in E!Sides |-> todo'[s]]
    BY <2>1, Zenon
  <2> QED BY <2>3, <2>4
<1>3. Counts'
  BY <1>1, <1>2 DEF Exchanging, Counts, Places
<1>4. \A s \in E!Sides : Side(s)'
  BY <1>1, <1>2, Peers DEF Side, E!ExchangeAssumption
<1>5. Ordered => Ordered'
  <2>1. E!Fits(todo) => E!Fits(todo')
    BY <1>2 DEF E!Fits, Exchanging, Counts, E!ExchangeAssumption
  <2>2. E!WireOrdered'
    BY <1>1, Peers DEF E!WireOrdered
  <2> QED BY <2>1, <2>2 DEF Ordered, E!Fits
<1> QED BY <1>3, <1>4, <1>5 DEF Kept, Exchanging

\* Connection::recover over a bounded link, for all catchup buffers, links and
\* timeouts: where a side is says how much of its buffer it has sent, whatever
\* fails and however often recover() is called again.  When the network carries
\* the buffers in the 5 s of a write and one of the two fits the link, what is
\* read is what was written, in order and once, and nothing of it is left for
\* the first packets to be taken from.
THEOREM StreamCorrect == E!Spec => []StreamIntact
<1>1. E!Init => E!ExchangeInv
  BY LifecycleAssumption, BeginOrdered, ExchangeFromParts
<1>2. E!ExchangeInv /\ [E!Next]_(E!vars) => E!ExchangeInv'
  <2> SUFFICES ASSUME E!ExchangeInv, [E!Next]_(E!vars) PROVE E!ExchangeInv'
    OBVIOUS
  <2> USE LifecycleAssumption
  <2>1. Flags /\ Exchanging /\ (E!Fits(todo) => Ordered)
    BY ExchangeParts, Zenon DEF E!ExchangeInv, Ordered
  <2>2. Flags'
    BY <2>1, FlagsKept
  <2>3. Kept
    <3>1. CASE UNCHANGED E!vars
      BY <2>1, <3>1 DEF E!vars, Kept, Exchanging, Counts, Side, Ordered, E!Fits, E!WireOrdered
    <3>2. CASE E!LinkFails
      BY <2>1, <3>2, LinkFailureKeeps
    <3>3. CASE E!Retry
      BY <2>1, <3>3, RetryKeeps
    <3>4. ASSUME NEW s \in E!Sides, E!Side(s) PROVE Kept
      BY <2>1, <3>4, QuietKeeps, SendUnitKeeps, RecvUnitKeeps, GiveUpKeeps DEF E!Side
    <3> QED BY <3>1, <3>2, <3>3, <3>4 DEF E!Next
  <2>4. (E!Fits(todo) => Ordered)'
    <3>1. CASE E!Retry
      <4>1. E!WireOrdered'
        BY <3>1, Peers DEF E!Retry, E!Begin, E!WireOrdered
      <4> QED BY <4>1 DEF Ordered
    <3>2. CASE todo' = todo
      BY <2>1, <2>3, <3>2 DEF Kept, E!Fits
    <3> QED
      BY <3>1, <3>2
         DEF E!vars, E!Next, E!LinkFails, E!Side, E!SendHeader, E!RecvHeader, E!SendUnit,
             E!GiveUp, E!Timeout, E!RecvUnit, E!RecvDone, E!ReadRest, E!PeerFailed
  <2> QED BY <2>2, <2>3, <2>4, ExchangeFromPartsNext DEF Kept
<1>3. StreamIntact <=> E!ExchangeInv
  BY DEF StreamIntact
<1> QED BY <1>1, <1>2, <1>3, PTL DEF E!Spec

-----------------------------------------------------------------------------
(* The setup of a session.                                                 *)

LEMMA OneKey ==
    ASSUME NEW K, NEW k \in K
    PROVE  /\ Append(<<>>, k) = <<k>> /\ Head(<<k>>) = k /\ Tail(<<k>>) = <<>>
           /\ <<k>> # <<>> /\ <<k>> \in Seq(K) /\ <<>> \in Seq(K)
  OBVIOUS

Stage == {"none", "read", "print", "connect", "register", "serve", "dead", "unread",
          "undefined"}

\* The parts of SetupInv that every step preserves, and what it concludes.
Handed == Setup!TypeOK /\ Setup!RegisteredOnce /\ Setup!OutputTells /\ Setup!KeyHandedOn

Concludes ==
    /\ ~useJump /\ RouterTimely => Setup!KeyKnown
    /\ useJump \notin Collide /\ RouterTimely => Setup!SameKeyOnBothHosts

\* The sole etserver is the one that etterminal finds and the client asks.
LEMMA SoleDaemon == Handed /\ Setup!KeyKnown => Setup!SoleDaemonServes
<1> SUFFICES ASSUME Handed, Setup!KeyKnown, ~useJump, cpc = "refused",
                    term["dst"].pc \notin {"none", "unread"},
                    NEW p \in Setup!Paths, daemons["dst"] = {p},
                    ("override" \in option["dst"]) <=> ("override" \in daemons["dst"]),
                    ~("root" \in option["dst"] /\ daemons["dst"] = {"user"})
             PROVE  FALSE
  BY DEF Setup!SoleDaemonServes
<1>1. "dst" \in Setup!Hosts
  BY DEF Setup!Hosts
<1>2. p # "none" /\ Setup!FifoUsed("dst") = p
  BY DEF Setup!FifoUsed, Setup!Paths
<1>3. port["dst"] = p
  BY <1>1 DEF Handed, Setup!TypeOK
<1>4. term["dst"].pc # "dead"
  BY <1>1, <1>2 DEF Handed, Setup!RegisteredOnce
<1>5. term["dst"].out = "key"
  BY <1>4 DEF Handed, Setup!KeyHandedOn, Setup!OutputTells
<1> QED BY <1>2, <1>3, <1>5 DEF Setup!KeyKnown, Setup!FirstHost

LEMMA SetupFromParts == Handed /\ Concludes => Setup!SetupInv
  BY SoleDaemon DEF Handed, Concludes, Setup!SetupInv

LEMMA SetupFromPartsNext == Handed' /\ Concludes' => Setup!SetupInv'
<1>1. (Handed /\ Concludes => Setup!SetupInv)'
  BY SetupFromParts, PTL
<1> QED BY <1>1

LEMMA SetupBegins == Setup!Init => Handed /\ Concludes
<1> SUFFICES ASSUME Setup!Init PROVE Handed /\ Concludes
  OBVIOUS
<1>1. /\ Setup!ClientKey \in Setup!Key /\ Setup!NoKey \in Setup!Key /\ Setup!NoKey.begins = "other"
      /\ Setup!ClientKey.from # "option" /\ Setup!NoKey.from # "option"
  BY DEF Setup!ClientKey, Setup!NoKey, Setup!Key
<1>2. Setup!TypeOK
  <2>1. \A h \in Setup!Hosts : fifo[h] \in Seq(Setup!Key)
    BY DEF Setup!Init
  <2>2. \A h \in Setup!Hosts : daemons[h] # {} => port[h] \in daemons[h]
    BY DEF Setup!Init
  <2> QED BY <1>1, <2>1, <2>2 DEF Setup!Init, Setup!TypeOK
<1>3. Setup!RegisteredOnce
  BY DEF Setup!Init, Setup!RegisteredOnce
<1>4. Setup!OutputTells /\ Setup!KeyHandedOn
  BY <1>1 DEF Setup!Init, Setup!OutputTells, Setup!KeyHandedOn, Setup!Hosts
<1> QED
  BY <1>2, <1>3, <1>4
     DEF Setup!Init, Handed, Concludes, Setup!KeyKnown, Setup!SameKeyOnBothHosts

Terms == [pc : Stage, key : Setup!Key, out : {"nothing", "key"}]

\* The etterminal of h is where t says and its key is registered as it should.
Placed(h, t, keys, known) ==
    /\ IF t.pc = "serve" \/ (h = "dst" /\ t.pc = "print")
       THEN (keys = <<t.key>> /\ known = {}) \/ (keys = <<>> /\ known = {t.key})
       ELSE keys = <<>> /\ known = {}
    /\ t.pc = "dead" => Setup!FifoUsed(h) = "none"
    /\ h = "dst" => (t.out = "key" <=> t.pc = "serve")
    /\ h = "jump" => (t.out = "key" <=> t.pc \in {"connect", "register", "serve", "dead"})
    /\ useJump \notin Collide /\ t.pc # "read" => t.key.begins = "other"

LEMMA PlacedIs ==
    ASSUME NEW h, NEW t, NEW q, NEW ks,
           t.pc = "serve" \/ (h = "dst" /\ t.pc = "print") =>
               (q = <<t.key>> /\ ks = {}) \/ (q = <<>> /\ ks = {t.key}),
           ~(t.pc = "serve" \/ (h = "dst" /\ t.pc = "print")) => q = <<>> /\ ks = {},
           t.pc = "dead" => Setup!FifoUsed(h) = "none",
           h = "dst" => (t.out = "key" <=> t.pc = "serve"),
           h = "jump" => (t.out = "key" <=> t.pc \in {"connect", "register", "serve", "dead"}),
           useJump \notin Collide /\ t.pc # "read" => t.key.begins = "other"
    PROVE  Placed(h, t, q, ks)
  BY Zenon DEF Placed

LEMMA HandedPlaces ==
    ASSUME Handed, NEW h \in Setup!Hosts
    PROVE  /\ term[h] \in Terms /\ term \in [Setup!Hosts -> Terms]
           /\ fifo[h] \in Seq(Setup!Key) /\ clientKeys[h] \in SUBSET Setup!Key
           /\ Placed(h, term[h], fifo[h], clientKeys[h])
<1>1. /\ term[h] \in Terms /\ term \in [Setup!Hosts -> Terms]
      /\ fifo[h] \in Seq(Setup!Key) /\ clientKeys[h] \in SUBSET Setup!Key
  BY DEF Handed, Setup!TypeOK, Terms, Stage
<1>2. Placed(h, term[h], fifo[h], clientKeys[h])
  <2>1. h \in {"dst", "jump"}
    BY DEF Setup!Hosts
  <2>2. /\ term[h].pc = "serve" \/ (h = "dst" /\ term[h].pc = "print") =>
               \/ fifo[h] = <<term[h].key>> /\ clientKeys[h] = {}
               \/ fifo[h] = <<>> /\ clientKeys[h] = {term[h].key}
        /\ ~(term[h].pc = "serve" \/ (h = "dst" /\ term[h].pc = "print")) =>
               fifo[h] = <<>> /\ clientKeys[h] = {}
        /\ term[h].pc = "dead" => Setup!FifoUsed(h) = "none"
    BY DEF Handed, Setup!RegisteredOnce
  <2>3. /\ h = "dst" => (term[h].out = "key" <=> term[h].pc = "serve")
        /\ h = "jump" => (term[h].out = "key" <=>
                            term[h].pc \in {"connect", "register", "serve", "dead"})
    BY DEF Handed, Setup!OutputTells
  <2>4. useJump \notin Collide /\ term[h].pc # "read" => term[h].key.begins = "other"
    BY DEF Handed, Setup!KeyHandedOn
  <2> QED BY <2>2, <2>3, <2>4, PlacedIs
<1> QED BY <1>1, <1>2

\* A step of an etterminal that has not come to its end keeps the invariant if
\* it leaves this one in place and does not change a key that was told.
LEMMA TermKeeps ==
    ASSUME Handed, Concludes, NEW h \in Setup!Hosts, NEW t \in Terms,
           NEW q \in Seq(Setup!Key), NEW ks \in SUBSET Setup!Key,
           term' = [term EXCEPT ![h] = t],
           fifo' = [fifo EXCEPT ![h] = q], clientKeys' = [clientKeys EXCEPT ![h] = ks],
           UNCHANGED <<cpc, key, jumpLink, Setup!site>>,
           term[h].pc \notin {"none", "serve", "dead", "unread"}, t.pc # "none",
           Placed(h, t, q, ks),
           term[h].out = "key" => t.out = "key",
           t.key = term[h].key \/ (term[h].pc = "read" /\ term[h].key.begins = "XXX")
                               \/ cpc = "by hand" \/ t.pc = "unread",
           cpc = "by hand" \/ t.key.from # "option"
    PROVE  Handed' /\ Concludes'
<1>1. Setup!Hosts = {"dst", "jump"} /\ h \in {"dst", "jump"}
  BY DEF Setup!Hosts
<1>2. UNCHANGED <<cpc, key, jumpLink, daemons, port, option, useJump>>
  BY DEF Setup!site
<1>3. /\ term \in [Setup!Hosts -> Terms] /\ fifo \in [Setup!Hosts -> Seq(Setup!Key)]
      /\ clientKeys \in [Setup!Hosts -> SUBSET Setup!Key]
  BY DEF Handed, Setup!TypeOK, Terms, Stage
<1>4. \A g \in Setup!Hosts : Setup!FifoUsed(g)' = Setup!FifoUsed(g)
  BY <1>2 DEF Setup!FifoUsed
<1>5. \A g \in Setup!Hosts : Placed(g, term'[g], fifo'[g], clientKeys'[g])
  BY <1>3, HandedPlaces
<1>6. /\ \A g \in Setup!Hosts : term'[g] = IF g = h THEN t ELSE term[g]
      /\ \A g \in Setup!Hosts : fifo'[g] = IF g = h THEN q ELSE fifo[g]
  BY <1>3
<1>7. Setup!TypeOK'
  <2>1. /\ term' \in [Setup!Hosts -> Terms] /\ fifo' \in [Setup!Hosts -> Seq(Setup!Key)]
        /\ clientKeys' \in [Setup!Hosts -> SUBSET Setup!Key]
    BY <1>3
  <2> QED BY <1>2, <2>1 DEF Handed, Setup!TypeOK, Terms, Stage
<1>8. Setup!RegisteredOnce' /\ Setup!OutputTells'
  <2>1. Setup!RegisteredOnce'
    BY <1>4, <1>5 DEF Setup!RegisteredOnce, Placed
  <2>2. Setup!OutputTells'
    BY <1>1, <1>5 DEF Setup!OutputTells, Placed
  <2> QED BY <2>1, <2>2
<1>9. h = "dst" => cpc \in {"dst", "by hand"} /\ term["jump"].pc = "none"
  BY DEF Handed, Setup!KeyHandedOn, Setup!TypeOK
<1>10. h = "jump" => useJump /\ cpc \in {"jump", "connect", "connected", "refused"}
  BY DEF Handed, Setup!KeyHandedOn
<1>11. Setup!KeyHandedOn'
  <2> USE <1>1, <1>2
  <2>1. \A g \in Setup!Hosts :
            useJump \notin Collide /\ term'[g].pc # "read" => term'[g].key.begins = "other"
    BY <1>5 DEF Placed
  <2>2. CASE h = "dst"
    <3>1. term'["dst"] = t /\ term'["jump"] = term["jump"]
      BY <1>6, <2>2
    <3> QED BY <1>9, <2>1, <2>2, <3>1 DEF Handed, Setup!KeyHandedOn
  <2>3. CASE h = "jump"
    <3>1. term'["jump"] = t /\ term'["dst"] = term["dst"]
      BY <1>6, <2>3
    <3>2. term["dst"].out = "key" => term["dst"].pc = "serve"
      BY DEF Handed, Setup!OutputTells
    <3>3. term["jump"].pc = "read" => term["jump"].out # "key"
      BY DEF Handed, Setup!OutputTells
    <3>4. useJump \notin Collide /\ term["dst"].out = "key" => t.key = term["dst"].key \/ t.pc = "unread"
      BY <1>10, <2>3, <3>2 DEF Handed, Setup!KeyHandedOn
    <3>5. term["jump"].out = "key" => t.key = term["jump"].key
      BY <1>10, <2>3, <3>3 DEF Placed
    <3>6. Setup!KeyHandedOn
      BY DEF Handed
    <3>7. useJump' \notin Collide =>
            /\ \A g \in Setup!Hosts : term'[g].pc # "read" => term'[g].key.begins = "other"
            /\ term'["dst"].out = "key" /\ term'["jump"].pc \notin {"none", "unread"} =>
                  term'["jump"].key = term'["dst"].key
      BY <2>1, <3>1, <3>4
    <3>8. useJump' /\ cpc \in {"jump", "connect", "connected", "refused"}
      BY <1>10, <2>3
    <3>9. /\ term["dst"].pc \in {"none", "dead", "unread", "serve"}
          /\ term["dst"].out = "key" /\ cpc = "jump" => key = term["dst"].key
          /\ cpc \in {"connect", "connected", "refused"} =>
                term["jump"].out = "key" /\ key = term["jump"].key
          /\ jumpLink # "none" => cpc = "connected"
          /\ "option" \notin {key.from, term["dst"].key.from}
      BY <1>10, <2>3, <3>6 DEF Setup!KeyHandedOn
    <3> QED BY <2>3, <3>1, <3>5, <3>7, <3>8, <3>9 DEF Setup!KeyHandedOn
  <2> QED BY <2>2, <2>3
<1>12. Concludes'
  <2>1. CASE h = "dst"
    BY <1>1, <1>2, <1>4, <1>6, <1>9, <2>1
      DEF Handed, Setup!KeyHandedOn, Concludes, Setup!KeyKnown,
          Setup!SameKeyOnBothHosts, Setup!FirstHost
  <2>2. CASE h = "jump"
    <3>1. term'["jump"] = t /\ term'["dst"] = term["dst"]
      BY <1>1, <1>6, <2>2
    <3>2. jumpLink = "up" => t.key = term["jump"].key
      BY <1>10, <2>2 DEF Handed, Setup!KeyHandedOn, Setup!OutputTells, Placed
    <3>3. Setup!FifoUsed("dst")' = Setup!FifoUsed("dst")
      BY <1>1, <1>4
    <3> QED BY <1>2, <1>10, <2>2, <3>1, <3>2, <3>3 DEF Concludes, Setup!SameKeyOnBothHosts
  <2> QED BY <1>1, <2>1, <2>2
<1> QED BY <1>7, <1>8, <1>11, <1>12 DEF Handed

LEMMA Stages ==
    ASSUME NEW h
    PROVE  /\ Setup!After(h).read = IF h = "jump" THEN "print" ELSE "connect"
           /\ Setup!After(h).connect = "register"
           /\ Setup!After(h).register = IF h = "jump" THEN "serve" ELSE "print"
           /\ Setup!After(h).print = IF h = "jump" THEN "connect" ELSE "serve"
  BY DEF Setup!After

LEMMA ReadingKeeps ==
    ASSUME Handed, Concludes, NEW h \in Setup!Hosts,
           Setup!TermReads(h) \/ Setup!TermReadsNoKey(h) \/ Setup!TermReadsOption(h)
    PROVE  Handed' /\ Concludes'
<1> USE HandedPlaces
<1>1. term[h] \in Terms /\ term[h].pc = "read" /\ term[h].key \in Setup!Key
  BY DEF Setup!TermReads, Setup!TermReadsNoKey, Setup!TermReadsOption, Terms
<1>2. UNCHANGED <<cpc, key, fifo, clientKeys, jumpLink, Setup!site>>
  BY DEF Setup!TermReads, Setup!TermReadsNoKey, Setup!TermReadsOption
<1>3. /\ fifo' = [fifo EXCEPT ![h] = fifo[h]]
      /\ clientKeys' = [clientKeys EXCEPT ![h] = clientKeys[h]]
      /\ fifo[h] = <<>> /\ clientKeys[h] = {} /\ term[h].out # "key"
  <2>1. fifo \in [Setup!Hosts -> Seq(Setup!Key)] /\ clientKeys \in [Setup!Hosts -> SUBSET Setup!Key]
    BY DEF Handed, Setup!TypeOK
  <2>2. h \in {"dst", "jump"}
    BY DEF Setup!Hosts
  <2> QED BY <1>1, <1>2, <2>1, <2>2 DEF Placed
<1>4. CASE Setup!TermReads(h)
  <2>1. PICK k \in Setup!KeysDrawn(h, term[h].key) :
            term' = [term EXCEPT ![h] = [term[h] EXCEPT !.pc = Setup!After(h).read, !.key = k]]
    BY <1>4 DEF Setup!TermReads, Setup!Go
  <2>2. /\ k \in Setup!Key /\ k.from # "option"
        /\ k = term[h].key \/ term[h].key.begins = "XXX"
        /\ useJump \notin Collide => k.begins = "other"
    BY <1>1, <1>4 DEF Setup!KeysDrawn, Setup!Key, Setup!TermReads, Setup!Hosts
  <2>3. PICK r, p, t : /\ r = term[h] /\ p = Setup!After(h).read
                       /\ t = [r EXCEPT !.pc = p, !.key = k]
    OBVIOUS
  <2>4. r \in Terms /\ p \in Stage /\ p = IF h = "jump" THEN "print" ELSE "connect"
    BY <1>1, <2>3, Stages DEF Stage
  <2>5. t \in Terms /\ t.pc = p /\ t.key = k /\ t.out = r.out
    BY <2>2, <2>3, <2>4 DEF Terms
  <2>6. Placed(h, t, fifo[h], clientKeys[h]) /\ t.pc # "none" /\ t.out # "key"
    BY <1>3, <2>2, <2>3, <2>4, <2>5 DEF Placed
  <2>7. term' = [term EXCEPT ![h] = t]
    BY <2>1, <2>3
  <2>8. t.key = term[h].key \/ term[h].key.begins = "XXX"
    BY <2>2, <2>5
  <2>9. t.key.from # "option"
    BY <2>2, <2>5
  <2> QED BY <1>1, <1>2, <1>3, <2>5, <2>6, <2>7, <2>8, <2>9, TermKeeps
<1>5. CASE Setup!TermReadsOption(h)
  <2>1. PICK r, k, t : /\ r = term[h] /\ k = Setup!NoKey
                       /\ t = [r EXCEPT !.pc = "undefined", !.key = k]
    OBVIOUS
  <2>2. r \in Terms /\ "undefined" \in Stage /\ k \in Setup!Key /\ k.begins = "other"
    BY <1>1, <2>1 DEF Stage, Setup!NoKey, Setup!Key
  <2>3. t \in Terms /\ t.pc = "undefined" /\ t.key = k /\ t.out = r.out
    BY <2>1, <2>2 DEF Terms
  <2>4. term' = [term EXCEPT ![h] = t]
    BY <1>5, <2>1 DEF Setup!TermReadsOption, Setup!Go
  <2>5. Placed(h, t, fifo[h], clientKeys[h]) /\ t.out # "key"
    BY <1>3, <2>1, <2>2, <2>3 DEF Placed
  <2>6. cpc = "by hand"
    BY <1>5 DEF Setup!TermReadsOption, Handed, Setup!KeyHandedOn, Setup!Hosts
  <2> QED BY <1>1, <1>2, <1>3, <2>3, <2>4, <2>5, <2>6, TermKeeps
<1>6. CASE Setup!TermReadsNoKey(h)
  <2>1. PICK r, k, t : /\ r = term[h] /\ k = Setup!NoKey
                       /\ t = [r EXCEPT !.pc = "unread", !.key = k]
    OBVIOUS
  <2>2. /\ r \in Terms /\ "unread" \in Stage /\ k \in Setup!Key /\ k.begins = "other"
        /\ k.from # "option"
    BY <1>1, <2>1 DEF Stage, Setup!NoKey, Setup!Key
  <2>3. t \in Terms /\ t.pc = "unread" /\ t.key = k /\ t.out = r.out
    BY <2>1, <2>2 DEF Terms
  <2>4. term' = [term EXCEPT ![h] = t]
    BY <1>6, <2>1 DEF Setup!TermReadsNoKey, Setup!Go
  <2>5. Placed(h, t, fifo[h], clientKeys[h]) /\ t.out # "key"
    BY <1>3, <2>1, <2>2, <2>3 DEF Placed
  <2> QED BY <1>1, <1>2, <1>3, <2>2, <2>3, <2>4, <2>5, TermKeeps
<1> QED BY <1>4, <1>5, <1>6

\* A step that leaves the key of an etterminal alone.
LEMMA RegisteringKeeps ==
    ASSUME Handed, Concludes, NEW h \in Setup!Hosts,
           Setup!TermConnects(h) \/ Setup!TermRegisters(h) \/ Setup!TermPrints(h)
    PROVE  Handed' /\ Concludes'
<1> USE HandedPlaces
<1>1. /\ term[h] \in Terms /\ term[h].pc \in {"connect", "register", "print"}
      /\ term[h].key \in Setup!Key
  BY DEF Setup!TermConnects, Setup!TermRegisters, Setup!TermPrints, Terms
<1>2. UNCHANGED <<cpc, key, clientKeys, jumpLink, Setup!site>>
  BY DEF Setup!TermConnects, Setup!TermRegisters, Setup!TermPrints
<1>3. /\ fifo \in [Setup!Hosts -> Seq(Setup!Key)] /\ clientKeys \in [Setup!Hosts -> SUBSET Setup!Key]
      /\ clientKeys' = [clientKeys EXCEPT ![h] = clientKeys[h]]
  BY <1>2 DEF Handed, Setup!TypeOK
<1>4. h \in {"dst", "jump"}
  BY DEF Setup!Hosts
<1>5. cpc = "by hand" \/ term[h].key.from # "option"
  BY <1>4 DEF Handed, Setup!KeyHandedOn
<1>6. CASE Setup!TermConnects(h)
  <2>1. PICK t \in Terms :
          /\ term' = [term EXCEPT ![h] = t]
          /\ t.pc = IF Setup!FifoUsed(h) = "none" THEN "dead" ELSE "register"
          /\ t.key = term[h].key /\ t.out = term[h].out
    <3>1. PICK r, p, t : /\ r = term[h] /\ t = [r EXCEPT !.pc = p]
                         /\ p = IF Setup!FifoUsed(h) = "none" THEN "dead" ELSE "register"
      OBVIOUS
    <3>2. r \in Terms /\ p \in Stage /\ r.key \in Setup!Key
      BY <1>1, <3>1 DEF Stage
    <3>3. t \in Terms /\ t.pc = p /\ t.key = r.key /\ t.out = r.out
      BY <3>1, <3>2 DEF Terms
    <3>4. term' = [term EXCEPT ![h] = t]
      BY <1>6, <3>1, Stages DEF Setup!TermConnects, Setup!Go
    <3> QED BY <3>1, <3>3, <3>4
  <2>2. fifo' = [fifo EXCEPT ![h] = fifo[h]] /\ term[h].pc = "connect"
    BY <1>3, <1>6 DEF Setup!TermConnects
  <2>3. Placed(h, t, fifo[h], clientKeys[h])
    BY <1>4, <2>1, <2>2 DEF Placed
  <2> QED BY <1>1, <1>2, <1>3, <1>5, <2>1, <2>2, <2>3, TermKeeps
<1>7. CASE Setup!TermRegisters(h)
  <2>1. PICK t \in Terms :
          /\ term' = [term EXCEPT ![h] = t]
          /\ t.pc = IF h = "jump" THEN "serve" ELSE "print"
          /\ t.key = term[h].key /\ t.out = term[h].out
    <3>1. PICK r, p, t : r = term[h] /\ p = Setup!After(h).register /\ t = [r EXCEPT !.pc = p]
      OBVIOUS
    <3>2. /\ r \in Terms /\ p \in Stage /\ r.key \in Setup!Key
          /\ p = IF h = "jump" THEN "serve" ELSE "print"
      BY <1>1, <3>1, Stages DEF Stage
    <3>3. t \in Terms /\ t.pc = p /\ t.key = r.key /\ t.out = r.out
      BY <3>1, <3>2 DEF Terms
    <3>4. term' = [term EXCEPT ![h] = t]
      BY <1>7, <3>1 DEF Setup!TermRegisters, Setup!Go
    <3> QED BY <3>1, <3>2, <3>3, <3>4
  <2>2. fifo[h] = <<>> /\ clientKeys[h] = {} /\ term[h].pc = "register"
    BY <1>7 DEF Setup!TermRegisters, Placed
  <2>3. fifo' = [fifo EXCEPT ![h] = <<t.key>>] /\ <<t.key>> \in Seq(Setup!Key)
    BY <1>1, <1>3, <1>7, <2>1, <2>2, OneKey DEF Setup!TermRegisters
  <2>4. Placed(h, t, <<t.key>>, clientKeys[h])
    BY <1>4, <2>1, <2>2 DEF Placed
  <2> QED BY <1>1, <1>2, <1>3, <1>5, <2>1, <2>2, <2>3, <2>4, TermKeeps
<1>8. CASE Setup!TermPrints(h)
  <2>1. PICK t \in Terms :
          /\ term' = [term EXCEPT ![h] = t]
          /\ t.pc = IF h = "jump" THEN "connect" ELSE "serve"
          /\ t.key = term[h].key /\ t.out = "key"
    <3>1. PICK r, p, t : /\ r = term[h] /\ p = Setup!After(h).print
                         /\ t = [r EXCEPT !.pc = p, !.out = "key"]
      OBVIOUS
    <3>2. /\ r \in Terms /\ p \in Stage /\ r.key \in Setup!Key
          /\ p = IF h = "jump" THEN "connect" ELSE "serve"
      BY <1>1, <3>1, Stages DEF Stage
    <3>3. t \in Terms /\ t.pc = p /\ t.key = r.key /\ t.out = "key"
      BY <3>1, <3>2 DEF Terms
    <3>4. term' = [term EXCEPT ![h] = t]
      BY <1>8, <3>1 DEF Setup!TermPrints, Setup!Go
    <3> QED BY <3>1, <3>2, <3>3, <3>4
  <2>2. fifo' = [fifo EXCEPT ![h] = fifo[h]] /\ term[h].pc = "print"
    BY <1>3, <1>8 DEF Setup!TermPrints
  <2>3. Placed(h, t, fifo[h], clientKeys[h])
    BY <1>4, <2>1, <2>2 DEF Placed
  <2> QED BY <1>1, <1>2, <1>3, <1>5, <2>1, <2>2, <2>3, TermKeeps
<1> QED BY <1>6, <1>7, <1>8

\* UserTerminalRouter takes the key from the fifo to clientKeys.
LEMMA RouterKeeps ==
    ASSUME Handed, Concludes, NEW h \in Setup!Hosts, Setup!RouterAccepts(h)
    PROVE  Handed' /\ Concludes'
<1>1. /\ UNCHANGED <<cpc, key, term, jumpLink, daemons, port, option, useJump>>
      /\ fifo \in [Setup!Hosts -> Seq(Setup!Key)] /\ clientKeys \in [Setup!Hosts -> SUBSET Setup!Key]
      /\ term[h].key \in Setup!Key
  BY DEF Setup!RouterAccepts, Setup!site, Handed, Setup!TypeOK
<1>2. fifo[h] = <<term[h].key>> /\ clientKeys[h] = {}
  BY DEF Setup!RouterAccepts, Handed, Setup!RegisteredOnce
<1>3. fifo' = [fifo EXCEPT ![h] = <<>>] /\ clientKeys' = [clientKeys EXCEPT ![h] = {term[h].key}]
  BY <1>1, <1>2, OneKey DEF Setup!RouterAccepts
<1>4. \A g \in Setup!Hosts : Setup!FifoUsed(g)' = Setup!FifoUsed(g)
  BY <1>1 DEF Setup!FifoUsed
<1>5. Setup!TypeOK'
  <2>1. fifo' \in [Setup!Hosts -> Seq(Setup!Key)] /\ clientKeys' \in [Setup!Hosts -> SUBSET Setup!Key]
    BY <1>1, <1>3, OneKey
  <2> QED BY <1>1, <2>1 DEF Handed, Setup!TypeOK
<1>6. Setup!RegisteredOnce'
  <2>1. ASSUME NEW g \in Setup!Hosts, g # h PROVE fifo'[g] = fifo[g] /\ clientKeys'[g] = clientKeys[g]
    BY <1>1, <1>3, <2>1
  <2>2. fifo'[h] = <<>> /\ clientKeys'[h] = {term[h].key}
    BY <1>1, <1>3
  <2>3. term[h].pc = "serve" \/ (h = "dst" /\ term[h].pc = "print")
    BY DEF Setup!RouterAccepts, Handed, Setup!RegisteredOnce
  <2> QED BY <1>1, <1>4, <2>1, <2>2, <2>3 DEF Handed, Setup!RegisteredOnce
<1>7. Setup!OutputTells' /\ Setup!KeyHandedOn'
  BY <1>1 DEF Handed, Setup!OutputTells, Setup!KeyHandedOn
<1>8. Concludes'
  BY <1>1, <1>4 DEF Concludes, Setup!KeyKnown, Setup!SameKeyOnBothHosts, Setup!FirstHost, Setup!Hosts
<1> QED BY <1>5, <1>6, <1>7, <1>8 DEF Handed

\* The start of an etterminal.
LEMMA StartPlaces ==
    ASSUME Handed, NEW h \in Setup!Hosts, NEW k \in Setup!Key, Setup!Start(h, k), term[h].pc = "none",
           UNCHANGED <<key, fifo, clientKeys, jumpLink, Setup!site>>,
           cpc' \in {"dst", "jump", "by hand"}
    PROVE  /\ Setup!TypeOK' /\ Setup!RegisteredOnce' /\ Setup!OutputTells'
           /\ term'[h].pc = "read" /\ term'[h].key = k /\ term'[h].out = "nothing"
           /\ \A g \in Setup!Hosts : g # h => term'[g] = term[g]
           /\ \A g \in Setup!Hosts : Setup!FifoUsed(g)' = Setup!FifoUsed(g)
<1> DEFINE t == [pc |-> "read", key |-> k, out |-> "nothing"]
<1>1. t \in Terms /\ t.pc = "read" /\ t.key = k /\ t.out = "nothing"
  BY DEF Terms, Stage
<1>2. /\ term \in [Setup!Hosts -> Terms] /\ term' = [term EXCEPT ![h] = t]
      /\ UNCHANGED <<key, fifo, clientKeys, jumpLink, daemons, port, option, useJump>>
  BY DEF Handed, Setup!TypeOK, Terms, Stage, Setup!Start, Setup!Go, Setup!site
<1> HIDE DEF t
<1>3. term'[h] = t /\ (\A g \in Setup!Hosts : g # h => term'[g] = term[g])
      /\ term' \in [Setup!Hosts -> Terms]
  BY <1>1, <1>2
<1>4. \A g \in Setup!Hosts : Setup!FifoUsed(g)' = Setup!FifoUsed(g)
  BY <1>2 DEF Setup!FifoUsed
<1>5. Setup!TypeOK'
  BY <1>2, <1>3 DEF Handed, Setup!TypeOK, Terms, Stage
<1>6. Setup!RegisteredOnce'
  BY <1>1, <1>2, <1>3, <1>4 DEF Handed, Setup!RegisteredOnce
<1>7. Setup!OutputTells'
  BY <1>1, <1>3 DEF Handed, Setup!OutputTells, Setup!Hosts
<1> QED BY <1>1, <1>3, <1>4, <1>5, <1>6, <1>7

LEMMA StartKeeps ==
    ASSUME Handed, Concludes, Setup!SshToDestination \/ Setup!SshToJumphost \/ Setup!StartByHand
    PROVE  Handed' /\ Concludes'
<1>1. Setup!Hosts = {"dst", "jump"} /\ key \in Setup!Key
  BY DEF Setup!Hosts, Handed, Setup!TypeOK
<1>2. UNCHANGED <<key, jumpLink, port, useJump>>
  BY DEF Setup!SshToDestination, Setup!SshToJumphost, Setup!StartByHand, Setup!site
<1>3. CASE Setup!SshToDestination
  <2>1. /\ Setup!TypeOK' /\ Setup!RegisteredOnce' /\ Setup!OutputTells'
        /\ term'["dst"].pc = "read" /\ term'["dst"].key = key /\ term'["dst"].out = "nothing"
        /\ term'["jump"] = term["jump"]
    BY <1>1, <1>3, StartPlaces DEF Setup!SshToDestination, Handed, Setup!KeyHandedOn
  <2>2. cpc = "start" /\ cpc' = "dst"
    BY <1>3 DEF Setup!SshToDestination
  <2>3. Setup!KeyHandedOn'
    BY <1>1, <1>2, <2>1, <2>2 DEF Handed, Setup!KeyHandedOn
  <2>4. Concludes'
    BY <1>2, <2>2 DEF Handed, Setup!KeyHandedOn, Concludes, Setup!KeyKnown, Setup!SameKeyOnBothHosts
  <2> QED BY <2>1, <2>3, <2>4 DEF Handed
<1>4. CASE Setup!SshToJumphost
  <2>1. /\ Setup!TypeOK' /\ Setup!RegisteredOnce' /\ Setup!OutputTells'
        /\ term'["jump"].pc = "read" /\ term'["jump"].key = key /\ term'["jump"].out = "nothing"
        /\ term'["dst"] = term["dst"]
    BY <1>1, <1>4, StartPlaces DEF Setup!SshToJumphost, Handed, Setup!KeyHandedOn
  <2>2. cpc = "next" /\ cpc' = "jump" /\ useJump
    BY <1>4 DEF Setup!SshToJumphost
  <2>3. Setup!KeyHandedOn'
    <3>1. /\ term["dst"].pc \in {"none", "dead", "unread", "serve"} /\ jumpLink = "none"
          /\ term["dst"].out = "key" => key = term["dst"].key
          /\ useJump \notin Collide /\ term["dst"].pc # "read" => term["dst"].key.begins = "other"
          /\ key.from # "option" /\ term["dst"].key.from # "option"
      BY <1>1, <2>2 DEF Handed, Setup!KeyHandedOn
    <3>2. \A h \in Setup!Hosts : h = "dst" \/ h = "jump"
      BY <1>1
    <3> QED BY <1>2, <2>1, <2>2, <3>1, <3>2 DEF Setup!KeyHandedOn
  <2>4. Concludes'
    BY <1>2, <2>2 DEF Handed, Setup!KeyHandedOn, Concludes, Setup!KeyKnown, Setup!SameKeyOnBothHosts
  <2> QED BY <2>1, <2>3, <2>4 DEF Handed
<1>5. CASE Setup!StartByHand
  <2>1. [from |-> "option", begins |-> "other"] \in Setup!Key
    BY DEF Setup!Key
  <2>2. /\ Setup!TypeOK' /\ Setup!RegisteredOnce' /\ Setup!OutputTells'
        /\ term'["dst"].pc = "read" /\ term'["dst"].out = "nothing"
        /\ term'["jump"] = term["jump"]
    BY <1>1, <1>5, <2>1, StartPlaces DEF Setup!StartByHand, Handed, Setup!KeyHandedOn
  <2>3. cpc = "start" /\ cpc' = "by hand"
    BY <1>5 DEF Setup!StartByHand
  <2>4. Setup!KeyHandedOn'
    BY <1>1, <1>2, <2>2, <2>3 DEF Handed, Setup!KeyHandedOn
  <2>5. Concludes'
    BY <1>2, <2>3 DEF Handed, Setup!KeyHandedOn, Concludes, Setup!KeyKnown, Setup!SameKeyOnBothHosts
  <2> QED BY <2>2, <2>4, <2>5 DEF Handed
<1> QED BY <1>3, <1>4, <1>5

\* The steps of the client that start nothing.
LEMMA ClientKeeps ==
    ASSUME Handed, Concludes,
           \/ Setup!SshFails \/ Setup!DestinationTold \/ Setup!JumpSshFails \/ Setup!JumphostTold
           \/ Setup!JumphostUntold \/ Setup!NoJumphost \/ Setup!Connect \/ Setup!JumpConnects
    PROVE  Handed' /\ Concludes'
<1>1. Setup!Hosts = {"dst", "jump"}
      /\ UNCHANGED <<term, fifo, clientKeys, daemons, port, option, useJump>>
  BY DEF Setup!Hosts, Setup!SshFails, Setup!DestinationTold, Setup!JumpSshFails, Setup!JumphostTold, Setup!JumphostUntold,
         Setup!NoJumphost, Setup!Connect, Setup!JumpConnects, Setup!site
<1>2. \A g \in Setup!Hosts : Setup!FifoUsed(g)' = Setup!FifoUsed(g)
  BY <1>1 DEF Setup!FifoUsed
<1>3. Setup!RegisteredOnce' /\ Setup!OutputTells'
  BY <1>1, <1>2 DEF Handed, Setup!RegisteredOnce, Setup!OutputTells
<1>4. Setup!TypeOK'
  <2>1. key' \in Setup!Key
    <3>1. term["dst"].key \in Setup!Key /\ term["jump"].key \in Setup!Key /\ key \in Setup!Key
          /\ Setup!NoKey \in Setup!Key
      BY <1>1 DEF Handed, Setup!TypeOK, Setup!NoKey, Setup!Key
    <3> QED BY <3>1 DEF Setup!SshFails, Setup!DestinationTold, Setup!JumpSshFails,
                        Setup!JumphostTold, Setup!JumphostUntold, Setup!NoJumphost, Setup!Connect,
                        Setup!JumpConnects
  <2>2. /\ cpc' \in {"start", "dst", "next", "jump", "connect", "connected", "refused",
                     "fatal", "by hand"}
        /\ jumpLink' \in {"none", "up", "refused"}
    BY DEF Handed, Setup!TypeOK, Setup!SshFails, Setup!DestinationTold, Setup!JumpSshFails,
           Setup!JumphostTold, Setup!JumphostUntold, Setup!NoJumphost, Setup!Connect, Setup!JumpConnects
  <2> QED BY <1>1, <2>1, <2>2 DEF Handed, Setup!TypeOK
<1>5. Setup!KeyHandedOn'
  <2> USE <1>1 DEF Handed, Setup!KeyHandedOn, Setup!OutputTells
  <2>1. CASE Setup!SshFails
    BY <2>1 DEF Setup!SshFails
  <2>2. CASE Setup!DestinationTold
    BY <2>2 DEF Setup!DestinationTold
  <2>3. CASE Setup!JumpSshFails
    BY <2>3 DEF Setup!JumpSshFails
  <2>4. CASE Setup!JumphostTold
    BY <2>4 DEF Setup!JumphostTold
  <2>5. CASE Setup!NoJumphost
    BY <2>5 DEF Setup!NoJumphost
  <2>6. CASE Setup!Connect
    BY <2>6 DEF Setup!Connect
  <2>7. CASE Setup!JumpConnects
    BY <2>7 DEF Setup!JumpConnects
  <2>8. CASE Setup!JumphostUntold
    <3> USE DEF Setup!JumphostUntold
    <3>1. /\ cpc = "jump" /\ term["jump"].pc = "unread" /\ cpc' \in {"fatal", "connect"}
          /\ key' = key \/ key' = Setup!NoKey
          /\ jumpLink' = jumpLink
      BY <2>8
    <3>2. Setup!NoKey.from # "option"
      BY DEF Setup!NoKey
    <3>3. key'.from # "option"
      BY <3>1, <3>2
    <3> QED BY <3>1, <3>3
  <2> QED BY <2>1, <2>2, <2>3, <2>4, <2>5, <2>6, <2>7, <2>8
<1>6. ~useJump /\ RouterTimely => Setup!KeyKnown'
  <2> SUFFICES ASSUME ~useJump, RouterTimely, cpc' = "refused", term["dst"].out = "key"
               PROVE  Setup!FifoUsed("dst") # port["dst"]
    BY <1>1, <1>2 DEF Setup!KeyKnown, Setup!FirstHost
  <2>1. CASE cpc = "refused"
    BY <2>1 DEF Concludes, Setup!KeyKnown, Setup!FirstHost
  <2>2. CASE cpc # "refused"
    <3>1. Setup!Connect
      BY <2>2 DEF Setup!SshFails, Setup!DestinationTold, Setup!JumpSshFails, Setup!JumphostTold, Setup!JumphostUntold,
                  Setup!NoJumphost, Setup!JumpConnects
    <3>2. fifo["dst"] = <<>> /\ ~Setup!Accepts("dst", key) /\ key = term["dst"].key
      BY <3>1 DEF Setup!Connect, Setup!FirstHost, Handed, Setup!KeyHandedOn
    <3>3. clientKeys["dst"] = {term["dst"].key}
      <4>1. term["dst"].pc = "serve" /\ term["dst"].key \in Setup!Key
        BY <1>1 DEF Handed, Setup!OutputTells, Setup!TypeOK
      <4>2. fifo["dst"] # <<term["dst"].key>>
        BY <3>2, <4>1, OneKey
      <4> QED BY <1>1, <4>1, <4>2 DEF Handed, Setup!RegisteredOnce
    <3> QED BY <3>2, <3>3 DEF Setup!Accepts
  <2> QED BY <2>1, <2>2
<1>7. useJump \notin Collide /\ RouterTimely => Setup!SameKeyOnBothHosts'
  <2> SUFFICES ASSUME useJump \notin Collide, RouterTimely PROVE Setup!SameKeyOnBothHosts'
    OBVIOUS
  <2>1. CASE Setup!JumpConnects
    <3>1. /\ useJump /\ cpc = "connected" /\ fifo["dst"] = <<>> /\ key' = key
          /\ term["jump"].pc = "serve"
          /\ jumpLink' = IF Setup!Accepts("dst", term["jump"].key) THEN "up" ELSE "refused"
      BY <2>1 DEF Setup!JumpConnects
    <3>2. key = term["jump"].key
      BY <3>1 DEF Handed, Setup!KeyHandedOn
    <3>3. Setup!Accepts("dst", term["jump"].key) => term["jump"].key = term["dst"].key
      BY <1>1 DEF Setup!Accepts, Handed, Setup!RegisteredOnce
    <3>4. term["dst"].out = "key" /\ Setup!FifoUsed("dst") = port["dst"] =>
              Setup!Accepts("dst", term["jump"].key)
      <4> SUFFICES ASSUME term["dst"].out = "key", Setup!FifoUsed("dst") = port["dst"]
                   PROVE  Setup!Accepts("dst", term["jump"].key)
        OBVIOUS
      <4>1. term["dst"].pc = "serve" /\ term["dst"].key \in Setup!Key
        BY <1>1 DEF Handed, Setup!OutputTells, Setup!TypeOK
      <4>2. fifo["dst"] # <<term["dst"].key>>
        BY <3>1, <4>1, OneKey
      <4>3. clientKeys["dst"] = {term["dst"].key}
        BY <1>1, <4>1, <4>2 DEF Handed, Setup!RegisteredOnce
      <4>4. term["jump"].key = term["dst"].key
        BY <3>1 DEF Handed, Setup!KeyHandedOn
      <4> QED BY <4>3, <4>4 DEF Setup!Accepts
    <3> QED BY <1>1, <1>2, <3>1, <3>2, <3>3, <3>4 DEF Setup!SameKeyOnBothHosts
  <2>2. CASE ~Setup!JumpConnects
    <3>1. jumpLink' = jumpLink
      BY <2>2 DEF Setup!SshFails, Setup!DestinationTold, Setup!JumpSshFails, Setup!JumphostTold, Setup!JumphostUntold,
                  Setup!NoJumphost, Setup!Connect
    <3>2. jumpLink # "none" => FALSE
      BY <2>2 DEF Handed, Setup!KeyHandedOn, Setup!SshFails, Setup!DestinationTold, Setup!JumpSshFails,
                  Setup!JumphostTold, Setup!JumphostUntold, Setup!NoJumphost, Setup!Connect
    <3> QED BY <3>1, <3>2 DEF Setup!SameKeyOnBothHosts
  <2> QED BY <2>1, <2>2
<1> QED BY <1>1, <1>3, <1>4, <1>5, <1>6, <1>7 DEF Handed, Concludes

\* SshSetupHandler, etterminal and the routers of both hosts, wherever etservers
\* run and whatever ssh does: a key is registered once, a client that was told
\* one is not refused by the etserver etterminal has found, one etserver is
\* enough, and without an id that begins with XXX jumphost and destination know
\* one key.
THEOREM SetupKeysAgree == Setup!Spec => []SetupInv
<1>1. Setup!Init => Setup!SetupInv
  BY SetupBegins, SetupFromParts
<1>2. Setup!SetupInv /\ [Setup!Next]_(Setup!vars) => Setup!SetupInv'
  <2> SUFFICES ASSUME Setup!SetupInv, [Setup!Next]_(Setup!vars) PROVE Setup!SetupInv'
    OBVIOUS
  <2>1. Handed /\ Concludes
    BY DEF Setup!SetupInv, Handed, Concludes
  <2>2. CASE UNCHANGED Setup!vars
    <3> USE <2>2 DEF Setup!vars
    <3>1. \A h : Setup!FifoUsed(h)' = Setup!FifoUsed(h)
      BY DEF Setup!FifoUsed
    <3>2. Setup!TypeOK' /\ Setup!RegisteredOnce' /\ Setup!OutputTells'
      BY <2>1, <3>1 DEF Handed, Setup!TypeOK, Setup!RegisteredOnce, Setup!OutputTells
    <3>3. Setup!KeyHandedOn'
      BY <2>1 DEF Handed, Setup!KeyHandedOn
    <3>4. Concludes'
      BY <2>1, <3>1 DEF Concludes, Setup!KeyKnown, Setup!SameKeyOnBothHosts, Setup!FirstHost
    <3> QED BY <3>2, <3>3, <3>4, SetupFromPartsNext DEF Handed
  <2>3. CASE Setup!Client
    BY <2>1, <2>3, StartKeeps, ClientKeeps, SetupFromPartsNext DEF Setup!Client
  <2>4. CASE Setup!StartByHand
    BY <2>1, <2>4, StartKeeps, SetupFromPartsNext
  <2>5. ASSUME NEW h \in Setup!Hosts, Setup!Term(h) PROVE Setup!SetupInv'
    BY <2>1, <2>5, ReadingKeeps, RegisteringKeeps, RouterKeeps, SetupFromPartsNext
      DEF Setup!Term
  <2> QED BY <2>2, <2>3, <2>4, <2>5 DEF Setup!Next
<1>3. SetupInv <=> Setup!SetupInv
  BY DEF SetupInv
<1> QED BY <1>1, <1>2, <1>3, PTL DEF Setup!Spec

=============================================================================
