---------------------------- MODULE SessionProofs ----------------------------
(***************************************************************************)
(* The invariant of a session of BackedConnection, for every value of the  *)
(* constants, and what follows from it: no packet is lost, repeated or out *)
(* of order, and only a catchup buffer over the limit ends a process.      *)
(***************************************************************************)
EXTENDS BackedConnection, SequenceTheorems, TLAPS

Net == [Links -> [Sides -> Seq(Message)]]

\* The messages the code puts on a link are messages.
LEMMA MessageTypes ==
    /\ Request \in Message
    /\ Response \in Message
    /\ \A n \in Int : Header(n) \in Message
    /\ \A q \in Seq(Nat) : Catchup(q) \in Message
    /\ \A n \in Nat : Part("first", n) \in Message /\ Part("last", n) \in Message
BY DEF Message, Request, Response, Header, Catchup, Part

\* What can be read from a message of each type.
LEMMA MessageFields ==
    ASSUME NEW m \in Message
    PROVE  /\ m.type \in {"request", "response", "header", "catchup", "first", "last"}
           /\ m.type = "header" => m.num \in Int
           /\ m.type = "catchup" => m.packets \in Seq(Nat)
           /\ m.type \in {"first", "last"} => m.num \in Nat
<1>1. CASE m \in [type : {"request", "response"}]
  BY <1>1
<1>2. CASE m \in [type : {"header"}, num : Int]
  BY <1>2
<1>3. CASE m \in [type : {"catchup"}, packets : Seq(Nat)]
  BY <1>3
<1>4. CASE m \in [type : {"first", "last"}, num : Nat]
  BY <1>4
<1> QED BY <1>1, <1>2, <1>3, <1>4 DEF Message

\* Replacing what is under way in one direction of a link.
LEMMA NetUpdate ==
    ASSUME NEW n \in Net, NEW l \in Links, NEW s \in Sides,
           NEW q \in Seq(Message)
    PROVE  [n EXCEPT ![l][s] = q] \in Net
BY DEF Net

\* Updating one of the counters.
LEMMA CounterUpdate ==
    ASSUME NEW f \in [Sides -> Nat], NEW s \in Sides, NEW v \in Nat
    PROVE  [f EXCEPT ![s] = v] \in [Sides -> Nat]
OBVIOUS

\* The peer of a side is the other one.
LEMMA PeerType ==
    ASSUME NEW s \in Sides
    PROVE  Peer(s) \in Sides /\ Peer(s) # s /\ Peer(Peer(s)) = s
BY DEF Peer, Sides

\* The read position that SequenceHeader carries is a number.
LEMMA Int32Type ==
    ASSUME NEW n \in Nat
    PROVE  Int32(n) \in Int
<1> DEFINE w == 2 * HalfRange
<1>1. w \in Nat \ {0}
  BY ConnectionAssumption
<1>2. (n + HalfRange) % w \in Int
  BY <1>1, ConnectionAssumption
<1> QED BY <1>2, ConnectionAssumption DEF Int32

-----------------------------------------------------------------------------
(* Type correctness.                                                       *)

\* A session starts with well-typed state and no thread in recovery.
LEMMA InitTypes == Init => TypeOK /\ PhaseInv
BY ConnectionAssumption DEF Init, TypeOK, PhaseInv, Links, Sides

\* No operation leaves the types.  PhaseInv is needed for the steps of the
\* handshake and of recover(): the link they read from is a real one.
LEMMA NextTypeOK == TypeOK /\ PhaseInv /\ [Next]_vars => TypeOK'
<1> SUFFICES ASSUME TypeOK, PhaseInv PROVE [Next]_vars => TypeOK'
  OBVIOUS
<1>n. net \in Net
  BY DEF TypeOK, Net
<1>p. \A n \in Nat : <<Part("first", n)>> \in Seq(Message)
                     /\ <<Part("first", n), Part("last", n)>> \in Seq(Message)
  BY MessageTypes
<1>q. \A l \in Links, s \in Sides : net[l][s] \in Seq(Message)
  BY DEF TypeOK
<1>r. \A s \in Sides : phase[s] # "idle" => rlink[s] \in Links
  BY ConnectionAssumption DEF TypeOK, PhaseInv, Links
<1>f. \A s \in Sides : fd[s] # 0 => fd[s] \in Links
  BY ConnectionAssumption DEF TypeOK, Links
<1>v. \A s \in Sides : /\ wseq[s] \in Nat /\ low[s] \in Nat
                         /\ outage[s] \in Nat /\ sunk[s] \in Nat
                         /\ rseq[s] \in Nat /\ nonce[s] \in Nat
  BY DEF TypeOK
<1>t. \A s \in Sides : Trimmed(s) \in Nat
  <2>1. MaxBackup \in Nat
    BY ConnectionAssumption
  <2> QED BY <1>v, <2>1 DEF Trimmed
<1>c. ASSUME NEW l \in Links, Charge(l) PROVE faults' \in 0..MaxFaults
  BY <1>c, ConnectionAssumption DEF TypeOK, Charge
<1>w. \A s \in Sides : /\ wseq[s] + 1 \in Nat
                         /\ outage[s] + 1 \in Nat
                         /\ sunk[s] + 2 \in Nat
                         /\ rseq[s] + 1 \in Nat
                         /\ nonce[s] + 1 \in Nat
  BY <1>v
<1>z. 0 \in 0..MaxLinks /\ \A l \in Links : l \in 0..MaxLinks
  BY ConnectionAssumption DEF Links
<1>s. "client" \in Sides /\ "server" \in Sides
  BY DEF Sides
<1>1. ASSUME NEW s \in Sides, WriteBuffered(s) PROVE TypeOK'
  <2>1. wseq' \in [Sides -> Nat] /\ outage' \in [Sides -> Nat]
    BY <1>1, <1>w, CounterUpdate DEF WriteBuffered, TypeOK
  <2> QED BY <1>1, <2>1 DEF TypeOK, WriteBuffered, readers, network, bounds
<1>2. ASSUME NEW s \in Sides, WriteSent(s) PROVE TypeOK'
  <2> DEFINE parts == <<Part("first", wseq[s] + 1), Part("last", wseq[s] + 1)>>
  <2>1. fd[s] \in Links
    BY <1>2, <1>f DEF WriteSent
  <2>2. parts \in Seq(Message)
    BY <1>p DEF TypeOK
  <2>3. net' \in Net
    <3> HIDE DEF parts
    <3>1. net[fd[s]][Peer(s)] \o parts \in Seq(Message)
      BY <2>1, <2>2, <1>q, PeerType, ConcatProperties
    <3>2. net' = Put(fd[s], s, parts)
      BY <1>2 DEF WriteSent, parts
    <3> QED BY <2>1, <3>1, <3>2, <1>n, PeerType, NetUpdate DEF Put
  <2>4. wseq' \in [Sides -> Nat]
    BY <1>2, <1>w, CounterUpdate DEF WriteSent, TypeOK
  <2>5. low' \in [Sides -> Nat]
    BY <1>2, <1>t DEF WriteSent, TypeOK
  <2>6. sunk' \in [Sides -> Nat]
    <3>1. (IF up[fd[s]] THEN sunk[s] ELSE sunk[s] + 2) \in Nat
      BY <1>w DEF TypeOK
    <3> QED BY <1>2, <3>1, CounterUpdate DEF WriteSent, TypeOK
  <2> QED BY <1>2, <2>3, <2>4, <2>5, <2>6
          DEF TypeOK, WriteSent, Net, readers, bounds
<1>3. ASSUME NEW s \in Sides, WriteFailed(s) PROVE TypeOK'
  <2>1. fd[s] \in Links
    BY <1>3, <1>f DEF WriteFailed
  <2>2. net' \in Net
    <3>1. PICK taken \in {<<>>, <<Part("first", wseq[s] + 1)>>} :
             net' = Discard(Put(fd[s], s, taken), fd[s], s)
      BY <1>3 DEF WriteFailed
    <3>2. taken \in Seq(Message)
      <4>1. <<Part("first", wseq[s] + 1)>> \in Seq(Message)
        BY <1>p, <1>w
      <4> QED BY <3>1, <4>1, EmptySeq
    <3>3. net[fd[s]][Peer(s)] \o taken \in Seq(Message)
      BY <2>1, <3>2, <1>q, PeerType, ConcatProperties
    <3>4. Put(fd[s], s, taken) \in Net
      BY <2>1, <3>3, <1>n, PeerType, NetUpdate DEF Put
    <3> QED BY <3>1, <3>4, <2>1, NetUpdate, EmptySeq DEF Discard
  <2>3. up' \in [Links -> BOOLEAN]
    BY <1>3 DEF WriteFailed, TypeOK
  <2>4. fd' \in [Sides -> 0..MaxLinks]
    BY <1>3, ConnectionAssumption DEF WriteFailed, TypeOK
  <2>5. wseq' \in [Sides -> Nat]
    BY <1>3, <1>w, CounterUpdate DEF WriteFailed, TypeOK
  <2>6. low' \in [Sides -> Nat]
    BY <1>3, <1>t DEF WriteFailed, TypeOK
  <2>7. faults' \in 0..MaxFaults
    BY <1>3, <1>c, <2>1 DEF WriteFailed
  <2> QED BY <1>3, <2>2, <2>3, <2>4, <2>5, <2>6, <2>7
          DEF TypeOK, WriteFailed, Net, readers
<1>4. ASSUME NEW s \in Sides, ReadLocal(s) PROVE TypeOK'
  <2>1. localBuffer' \in [Sides -> Seq(Nat)]
    BY <1>4 DEF ReadLocal, TypeOK
  <2>2. nonce' \in [Sides -> Nat]
    <3> DEFINE n == Head(localBuffer[s])
    <3>1. nonce' = [nonce EXCEPT ![s] = IF n = nonce[s] + 1 THEN nonce[s] + 1
                                                            ELSE nonce[s]]
      BY <1>4 DEF ReadLocal, Decrypt
    <3> HIDE DEF n
    <3>2. (IF n = nonce[s] + 1 THEN nonce[s] + 1 ELSE nonce[s]) \in Nat
      BY <1>v, <1>w
    <3> QED BY <3>1, <3>2, CounterUpdate DEF TypeOK
  <2>3. process' \in {"running", "fatal"}
    BY <1>4 DEF ReadLocal, Decrypt, TypeOK
  <2> QED BY <1>4, <2>1, <2>2, <2>3
          DEF ReadLocal, TypeOK, writers, network, bounds
<1>5. ASSUME NEW s \in Sides, ReadSocket(s) PROVE TypeOK'
  <2> DEFINE m == Head(net[fd[s]][s])
  <2>1. fd[s] \in Links /\ net[fd[s]][s] \in Seq(Message) /\ net[fd[s]][s] # <<>>
    BY <1>5, <1>f, <1>q DEF ReadSocket, Arrived
  <2>2. m \in Message /\ Tail(net[fd[s]][s]) \in Seq(Message)
    BY <2>1, HeadTailProperties
  <2>3. net' \in Net
    BY <1>5, <1>n, <2>1, <2>2, NetUpdate DEF ReadSocket
  <2>4. m.type = "first" => m.num \in Nat
    BY <2>2, MessageFields
  <2>5. CASE m.type = "last" /\ partial[s] = m.num
    <3>1. /\ partial' = [partial EXCEPT ![s] = 0]
          /\ rseq' = [rseq EXCEPT ![s] = @ + 1]
          /\ Decrypt(s, m.num)
      BY <1>5, <2>5 DEF ReadSocket
    <3>2. partial' \in [Sides -> Nat] /\ rseq' \in [Sides -> Nat]
      BY <3>1, <1>w, CounterUpdate DEF TypeOK
    <3>3. nonce' \in [Sides -> Nat]
      <4>1. nonce' = [nonce EXCEPT ![s] = nonce[s] + 1] \/ nonce' = nonce
        BY <3>1 DEF Decrypt, TypeOK
      <4>2. nonce \in [Sides -> Nat] /\ nonce[s] + 1 \in Nat
        BY <1>w DEF TypeOK
      <4> QED BY <4>1, <4>2, CounterUpdate
    <3>4. process' \in {"running", "fatal"}
      BY <3>1 DEF Decrypt, TypeOK
    <3> QED BY <1>5, <2>3, <3>2, <3>3, <3>4
            DEF ReadSocket, TypeOK, Net, writers, bounds
  <2>6. CASE ~(m.type = "last" /\ partial[s] = m.num)
    <3>1. /\ partial' = [partial EXCEPT ![s] =
                            IF m.type = "first" THEN m.num ELSE @]
          /\ process' = IF m.type = "first" /\ partial[s] = 0
                        THEN process ELSE "fatal"
          /\ UNCHANGED <<rseq, nonce>>
      BY <1>5, <2>6 DEF ReadSocket
    <3> HIDE DEF m
    <3>2. partial' \in [Sides -> Nat]
      BY <3>1, <2>4 DEF TypeOK
    <3>3. process' \in {"running", "fatal"}
      BY <3>1 DEF TypeOK
    <3> QED BY <1>5, <2>3, <3>1, <3>2, <3>3
            DEF ReadSocket, TypeOK, Net, writers, bounds
  <2> QED BY <2>5, <2>6
<1>6. ASSUME NEW s \in Sides, ReadFailed(s) PROVE TypeOK'
  <2>1. up' \in [Links -> BOOLEAN]
    BY <1>6 DEF ReadFailed, TypeOK
  <2>2. fd' \in [Sides -> 0..MaxLinks]
    BY <1>6, ConnectionAssumption DEF ReadFailed, TypeOK
  <2>3. faults' \in 0..MaxFaults
    BY <1>6, <1>c, <1>f DEF ReadFailed
  <2> QED BY <1>6, <2>1, <2>2, <2>3 DEF ReadFailed, TypeOK, writers, readers
<1>7. ASSUME NEW s \in Sides, RecvHeader(s) PROVE TypeOK'
  <2> DEFINE l == rlink[s]
             m == Head(net[l][s])
             popped == [net EXCEPT ![l][s] = Tail(net[l][s])]
  <2>1. l \in Links /\ net[l][s] \in Seq(Message) /\ net[l][s] # <<>>
    BY <1>7, <1>q, <1>r DEF RecvHeader, Arrived
  <2>2. m \in Message /\ Tail(net[l][s]) \in Seq(Message)
    BY <2>1, HeadTailProperties
  <2>3. m.type = "header"
    BY <1>7 DEF RecvHeader
  <2>4. m.num \in Int
    BY <2>2, <2>3, MessageFields
  <2>5. popped \in Net
    BY <1>n, <2>1, <2>2, NetUpdate
  <2>6. Discard(net, l, s) \in Net
    <3> HIDE DEF l
    <3> QED BY <1>n, <2>1, NetUpdate, EmptySeq DEF Discard
  <2>7. m.num >= low[s] => Catchup(Recovered(s, m.num)) \in Message
    <3> SUFFICES ASSUME m.num >= low[s]
                 PROVE  Catchup(Recovered(s, m.num)) \in Message
      OBVIOUS
    <3> HIDE DEF m
    <3>1. m.num \in Nat /\ wseq[s] - m.num \in Int
      BY <2>4 DEF TypeOK
    <3>2. Recovered(s, m.num) \in Seq(Nat)
      <4>1. CASE wseq[s] - m.num \in Nat
        BY <3>1, <4>1 DEF Recovered
      <4>2. CASE wseq[s] - m.num \notin Nat
        <5>1. Recovered(s, m.num) = << >>
          BY <3>1, <4>2 DEF Recovered
        <5> QED BY <5>1
      <4> QED BY <4>1, <4>2
    <3> QED BY <3>2, MessageTypes
  <2>8. m.num >= low[s] =>
          [popped EXCEPT ![l][Peer(s)] =
              Append(popped[l][Peer(s)], Catchup(Recovered(s, m.num)))] \in Net
    <3> SUFFICES ASSUME m.num >= low[s] PROVE
          [popped EXCEPT ![l][Peer(s)] =
              Append(popped[l][Peer(s)], Catchup(Recovered(s, m.num)))] \in Net
      OBVIOUS
    <3> HIDE DEF popped, m
    <3>1. Peer(s) \in Sides
      BY PeerType
    <3>2. popped[l][Peer(s)] \in Seq(Message)
      BY <2>1, <2>5, <3>1 DEF Net
    <3>3. Append(popped[l][Peer(s)], Catchup(Recovered(s, m.num))) \in Seq(Message)
      BY <3>2, <2>7, AppendProperties
    <3> QED BY <2>1, <2>5, <3>1, <3>3, NetUpdate
  <2>9. /\ net' \in Net
        /\ phase' \in [Sides -> {"idle", "response", "header", "catchup"}]
        /\ rlink' \in [Sides -> 0..MaxLinks]
        /\ up' \in [Links -> BOOLEAN]
    <3>1. CASE m.num < low[s] \/ (~up[l] /\ 2 * (wseq[s] - m.num) > SocketBuffer)
      <4>1. Abandon(s, l)
        BY <1>7, <3>1 DEF RecvHeader
      <4> HIDE DEF l
      <4> QED BY <4>1, <2>1, <2>6, ConnectionAssumption DEF Abandon, TypeOK
    <3>2. CASE ~(m.num < low[s] \/ (~up[l] /\ 2 * (wseq[s] - m.num) > SocketBuffer))
      <4>1. m.num >= low[s]
        <5> HIDE DEF m, l
        <5> QED BY <3>2, <2>4, <1>v
      <4>2. /\ net' = IF up[l]
                      THEN [popped EXCEPT ![l][Peer(s)] =
                              Append(popped[l][Peer(s)], Catchup(Recovered(s, m.num)))]
                      ELSE popped
            /\ phase' = [phase EXCEPT ![s] = "catchup"]
            /\ UNCHANGED <<up, rlink>>
        BY <1>7, <3>2 DEF RecvHeader
      <4>3. net' \in Net
        BY <4>1, <4>2, <2>5, <2>8
      <4> QED BY <4>2, <4>3 DEF TypeOK
    <3> QED BY <3>1, <3>2
  <2>10. process' \in {"running", "fatal"}
    BY <1>7 DEF RecvHeader, TypeOK
  <2> QED BY <1>7, <2>9, <2>10
          DEF RecvHeader, TypeOK, Net, writers, readers, bounds
<1>8. ASSUME NEW s \in Sides, RecvCatchup(s) PROVE TypeOK'
  <2> DEFINE l == rlink[s]
             m == Head(net[l][s])
  <2>1. l \in Links /\ net[l][s] \in Seq(Message) /\ net[l][s] # <<>>
    BY <1>8, <1>q, <1>r DEF RecvCatchup, Arrived
  <2>2. m \in Message /\ Tail(net[l][s]) \in Seq(Message)
    BY <2>1, HeadTailProperties
  <2>3. m.packets \in Seq(Nat)
    BY <1>8, <2>2, MessageFields DEF RecvCatchup
  <2>4. net' \in Net
    BY <1>8, <1>n, <2>1, <2>2, NetUpdate DEF RecvCatchup
  <2>5. localBuffer' \in [Sides -> Seq(Nat)]
    <3>1. localBuffer' = [localBuffer EXCEPT ![s] = @ \o m.packets]
      BY <1>8 DEF RecvCatchup
    <3> HIDE DEF m
    <3> QED BY <3>1, <2>3, ConcatProperties DEF TypeOK
  <2>6. rseq' \in [Sides -> Nat]
    <3>1. rseq' = [rseq EXCEPT ![s] = @ + Len(m.packets)]
      BY <1>8 DEF RecvCatchup
    <3> HIDE DEF m
    <3>2. rseq[s] + Len(m.packets) \in Nat
      BY <2>3, <1>v, LenProperties
    <3> QED BY <3>1, <3>2, CounterUpdate DEF TypeOK
  <2>7. /\ fd' \in [Sides -> 0..MaxLinks]
        /\ rlink' \in [Sides -> 0..MaxLinks]
        /\ phase' \in [Sides -> {"idle", "response", "header", "catchup"}]
    <3>1. fd' \in [Sides -> 0..MaxLinks]
      BY <1>8, <2>1, <1>z DEF RecvCatchup, TypeOK
    <3>2. rlink' \in [Sides -> 0..MaxLinks]
      BY <1>8, <1>z DEF RecvCatchup, TypeOK
    <3>3. phase' \in [Sides -> {"idle", "response", "header", "catchup"}]
      BY <1>8 DEF RecvCatchup, TypeOK
    <3> QED BY <3>1, <3>2, <3>3
  <2>8. /\ partial' \in [Sides -> Nat]
        /\ outage' \in [Sides -> Nat]
        /\ sunk' \in [Sides -> Nat]
    BY <1>8, CounterUpdate DEF RecvCatchup, TypeOK
  <2> QED BY <1>8, <2>4, <2>5, <2>6, <2>7, <2>8
          DEF RecvCatchup, TypeOK, Net, bounds
<1>9. ASSUME NEW s \in Sides, RecoverFailed(s) PROVE TypeOK'
  <2> DEFINE l == rlink[s]
  <2>1. l \in Links
    BY <1>9, <1>r DEF RecoverFailed
  <2>2. Abandon(s, l) /\ Charge(l)
    BY <1>9 DEF RecoverFailed
  <2> HIDE DEF l
  <2>3. net' \in Net
    BY <1>n, <2>1, <2>2, NetUpdate, EmptySeq DEF Abandon, Discard
  <2>4. /\ up' \in [Links -> BOOLEAN]
        /\ phase' \in [Sides -> {"idle", "response", "header", "catchup"}]
        /\ rlink' \in [Sides -> 0..MaxLinks]
    <3>1. up' \in [Links -> BOOLEAN]
      BY <2>2 DEF Abandon, TypeOK
    <3>2. phase' \in [Sides -> {"idle", "response", "header", "catchup"}]
      BY <2>2 DEF Abandon, TypeOK
    <3>3. rlink' \in [Sides -> 0..MaxLinks]
      BY <2>2, <1>z DEF Abandon, TypeOK
    <3> QED BY <3>1, <3>2, <3>3
  <2>5. faults' \in 0..MaxFaults
    BY <1>c, <2>1, <2>2
  <2> QED BY <1>9, <2>3, <2>4, <2>5
          DEF RecoverFailed, TypeOK, Net, writers, readers
<1>10. ASSUME NEW l \in Links, Break(l) PROVE TypeOK'
  <2>1. up' \in [Links -> BOOLEAN]
    BY <1>10 DEF Break, TypeOK
  <2>2. faults' \in 0..MaxFaults
    BY <1>10, <1>c DEF Break
  <2> QED BY <1>10, <2>1, <2>2 DEF Break, TypeOK, writers, readers
<1>11. ASSUME NEW l \in Links, NEW s \in Sides, Lose(l, s) PROVE TypeOK'
  <2>1. SubSeq(net[l][s], 1, Len(net[l][s]) - 1) \in Seq(Message)
    BY <1>q, <1>11, EmptySeq, LenProperties, SubSeqProperties DEF Lose, Arrived
  <2>2. net' \in Net
    BY <1>11, <1>n, <2>1, NetUpdate DEF Lose
  <2> QED BY <1>11, <2>2 DEF Lose, TypeOK, Net, writers, readers, bounds
<1>12. ASSUME NEW l \in Links, HandlerRequest(l) PROVE TypeOK'
  <2> DEFINE popped == [net EXCEPT ![l]["server"] = Tail(net[l]["server"])]
  <2>1. popped \in Net
    BY <1>12, <1>n, <1>q, NetUpdate, HeadTailProperties
       DEF HandlerRequest, Arrived, Sides
  <2>2. net' \in Net
    <3> HIDE DEF popped
    <3>1. popped[l]["client"] \in Seq(Message)
      BY <2>1 DEF Net, Sides
    <3>2. Append(popped[l]["client"], Response) \in Seq(Message)
      BY <3>1, MessageTypes, AppendProperties
    <3>3. [popped EXCEPT ![l]["client"] = Append(popped[l]["client"], Response)] \in Net
      BY <2>1, <3>2, NetUpdate DEF Sides
    <3> QED BY <1>12, <2>1, <3>3 DEF HandlerRequest, popped
  <2> QED BY <1>12, <2>2
          DEF HandlerRequest, TypeOK, Net, writers, readers, bounds
<1>13. ASSUME NEW l \in Links, HandlerRecover(l) PROVE TypeOK'
  <2> DEFINE old == fd["server"]
             closed == IF old = 0 THEN net ELSE Discard(net, old, "server")
             h == Header(Int32(rseq["server"]))
  <2>1. old = 0 \/ old \in Links
    BY <1>f, <1>s
  <2>2. closed \in Net
    <3> HIDE DEF old
    <3> QED BY <1>n, <1>s, <2>1, NetUpdate, EmptySeq DEF Discard
  <2>3. h \in Message
    BY Int32Type, MessageTypes DEF TypeOK, Sides
  <2>4. net' \in Net
    <3> HIDE DEF closed, h
    <3>1. Append(closed[l]["client"], h) \in Seq(Message)
      BY <2>2, <2>3, AppendProperties DEF Net, Sides
    <3>2. [closed EXCEPT ![l]["client"] = Append(closed[l]["client"], h)] \in Net
      BY <2>2, <3>1, NetUpdate DEF Sides
    <3> QED BY <1>13, <2>2, <3>2 DEF HandlerRecover, closed, h
  <2>5. up' \in [Links -> BOOLEAN]
    <3>1. up' = IF old = 0 THEN up ELSE [up EXCEPT ![old] = FALSE]
      BY <1>13 DEF HandlerRecover
    <3> HIDE DEF old
    <3>2. up \in [Links -> BOOLEAN]
      BY DEF TypeOK
    <3>3. CASE old = 0
      BY <3>1, <3>2, <3>3
    <3>4. CASE old # 0
      BY <3>1, <3>2, <3>4
    <3> QED BY <3>3, <3>4
  <2>6. fd' \in [Sides -> 0..MaxLinks]
    BY <1>13, <1>z DEF HandlerRecover, TypeOK
  <2>7. phase' \in [Sides -> {"idle", "response", "header", "catchup"}]
    BY <1>13 DEF HandlerRecover, TypeOK
  <2>8. rlink' \in [Sides -> 0..MaxLinks]
    BY <1>13, <1>z DEF HandlerRecover, TypeOK
  <2>9. handler' \in [Links -> {"none", "request", "recover", "done"}]
    BY <1>13 DEF HandlerRecover, TypeOK
  <2> QED BY <1>13, <2>4, <2>5, <2>6, <2>7, <2>8, <2>9
          DEF HandlerRecover, TypeOK, Net, writers, readers, bounds
<1>14. ASSUME NEW l \in Links, HandlerFailed(l) PROVE TypeOK'
  <2>1. net' \in Net
    BY <1>14, <1>n, NetUpdate, EmptySeq DEF HandlerFailed, Discard, Sides
  <2>2. /\ up' \in [Links -> BOOLEAN]
        /\ handler' \in [Links -> {"none", "request", "recover", "done"}]
    BY <1>14 DEF HandlerFailed, TypeOK
  <2>3. faults' \in 0..MaxFaults
    BY <1>14, <1>c DEF HandlerFailed
  <2> QED BY <1>14, <2>1, <2>2, <2>3
          DEF HandlerFailed, TypeOK, Net, writers, readers
<1>15. CASE ClientClose
  <2>1. fd["client"] \in Links
    BY <1>15, <1>f DEF ClientClose, Sides
  <2>2. net' \in Net
    BY <1>15, <1>n, <2>1, NetUpdate, EmptySeq DEF ClientClose, Discard, Sides
  <2>3. up' \in [Links -> BOOLEAN]
    BY <1>15 DEF ClientClose, TypeOK
  <2>4. fd' \in [Sides -> 0..MaxLinks]
    BY <1>15, <1>z DEF ClientClose, TypeOK
  <2>5. faults' \in 0..MaxFaults
    BY <1>15, <1>c, <2>1 DEF ClientClose
  <2> QED BY <1>15, <2>2, <2>3, <2>4, <2>5
          DEF ClientClose, TypeOK, Net, writers, readers
<1>16. CASE ClientConnect
  <2>1. links' \in Links
    BY <1>16, ConnectionAssumption DEF ClientConnect, TypeOK, Links
  <2>2. <<Request>> \in Seq(Message)
    BY MessageTypes
  <2>3. net' \in Net
    BY <1>16, <1>n, <2>1, <2>2, NetUpdate DEF ClientConnect, Sides
  <2>4. /\ up' \in [Links -> BOOLEAN]
        /\ handler' \in [Links -> {"none", "request", "recover", "done"}]
    BY <1>16 DEF ClientConnect, TypeOK
  <2>5. phase' \in [Sides -> {"idle", "response", "header", "catchup"}]
    BY <1>16 DEF ClientConnect, TypeOK
  <2>6. rlink' \in [Sides -> 0..MaxLinks]
    BY <1>16, <2>1, <1>z DEF ClientConnect, TypeOK
  <2> QED BY <1>16, <2>1, <2>3, <2>4, <2>5, <2>6
          DEF ClientConnect, TypeOK, Net, Links, writers, readers
<1>17. CASE ClientResponse
  <2> DEFINE l == rlink["client"]
             popped == [net EXCEPT ![l]["client"] = Tail(net[l]["client"])]
             h == Header(Int32(rseq["client"]))
  <2>1. l \in Links
    BY <1>17, <1>r DEF ClientResponse, Sides
  <2>2. popped \in Net
    BY <1>17, <1>n, <1>q, <2>1, NetUpdate, HeadTailProperties
       DEF ClientResponse, Arrived, Sides
  <2>3. h \in Message
    BY Int32Type, MessageTypes DEF TypeOK, Sides
  <2>4. net' \in Net
    <3> HIDE DEF popped, h
    <3>1. Append(popped[l]["server"], h) \in Seq(Message)
      BY <2>1, <2>2, <2>3, AppendProperties DEF Net, Sides
    <3>2. [popped EXCEPT ![l]["server"] = Append(popped[l]["server"], h)] \in Net
      BY <2>1, <2>2, <3>1, NetUpdate DEF Sides
    <3> QED BY <1>17, <2>2, <3>2 DEF ClientResponse, popped, h
  <2> QED BY <1>17, <2>4
          DEF ClientResponse, TypeOK, Net, Sides, writers, readers, bounds
<1>18. CASE UNCHANGED vars
  BY <1>18 DEF TypeOK, vars
<1> QED
  BY <1>1, <1>2, <1>3, <1>4, <1>5, <1>6, <1>7, <1>8, <1>9, <1>10, <1>11, <1>12,
     <1>13, <1>14, <1>15, <1>16, <1>17, <1>18 DEF Next, SideStep, LinkStep

\* No operation disturbs the order of threads: recover() runs on a link of its
\* own and on a connection without a socket, and only the client waits for the
\* response to a connection request.
LEMMA NextPhaseInv == TypeOK /\ PhaseInv /\ [Next]_vars => PhaseInv'
<1> SUFFICES ASSUME TypeOK, PhaseInv PROVE [Next]_vars => PhaseInv'
  OBVIOUS
<1>t. /\ fd \in [Sides -> 0..MaxLinks]
      /\ rlink \in [Sides -> 0..MaxLinks]
      /\ phase \in [Sides -> {"idle", "response", "header", "catchup"}]
  BY DEF TypeOK
<1>z. \A l \in Links : l # 0
  BY ConnectionAssumption DEF Links
<1>s. "client" \in Sides /\ "server" \in Sides
  BY DEF Sides
<1>1. ASSUME UNCHANGED <<fd, phase, rlink>> PROVE PhaseInv'
  BY <1>1 DEF PhaseInv
<1>2. ASSUME NEW s \in Sides, phase[s] = "idle",
             fd' = [fd EXCEPT ![s] = 0], UNCHANGED <<phase, rlink>>
      PROVE  PhaseInv'
  BY <1>2, <1>t DEF PhaseInv
<1>3. ASSUME NEW s \in Sides, NEW l, Abandon(s, l), UNCHANGED fd
      PROVE  PhaseInv'
  BY <1>3, <1>t, <1>s DEF Abandon, PhaseInv
<1>4. ASSUME NEW s \in Sides, RecvHeader(s) PROVE PhaseInv'
  <2>1. Abandon(s, rlink[s]) \/ (phase' = [phase EXCEPT ![s] = "catchup"]
                                   /\ UNCHANGED rlink)
    BY <1>4 DEF RecvHeader
  <2>2. CASE phase' = [phase EXCEPT ![s] = "catchup"] /\ UNCHANGED rlink
    <3>1. phase[s] = "header" /\ UNCHANGED fd
      BY <1>4 DEF RecvHeader
    <3> QED BY <2>2, <3>1, <1>t, <1>s DEF PhaseInv
  <2> QED BY <1>3, <1>4, <2>1, <2>2 DEF RecvHeader
<1>5. ASSUME NEW s \in Sides, RecvCatchup(s) PROVE PhaseInv'
  <2>1. /\ fd' = [fd EXCEPT ![s] = rlink[s]]
        /\ phase' = [phase EXCEPT ![s] = "idle"]
        /\ rlink' = [rlink EXCEPT ![s] = 0]
    BY <1>5 DEF RecvCatchup
  <2> QED BY <2>1, <1>t, <1>s DEF PhaseInv
<1>6. ASSUME NEW l \in Links, HandlerRecover(l) PROVE PhaseInv'
  <2>1. /\ fd' = [fd EXCEPT !["server"] = 0]
        /\ phase' = [phase EXCEPT !["server"] = "header"]
        /\ rlink' = [rlink EXCEPT !["server"] = l]
    BY <1>6 DEF HandlerRecover
  <2> QED BY <2>1, <1>t, <1>s, <1>z DEF PhaseInv
<1>7. CASE ClientConnect
  <2>1. links' \in Links
    BY <1>7, ConnectionAssumption DEF ClientConnect, TypeOK, Links
  <2>2. /\ fd["client"] = 0 /\ UNCHANGED fd
        /\ phase' = [phase EXCEPT !["client"] = "response"]
        /\ rlink' = [rlink EXCEPT !["client"] = links']
    BY <1>7 DEF ClientConnect
  <2>3. links' # 0 /\ phase'["server"] = phase["server"]
    BY <2>1, <2>2, <1>t, <1>s, <1>z
  <2> QED BY <2>2, <2>3, <1>t, <1>s DEF PhaseInv
<1>8. CASE ClientResponse
  <2>1. /\ phase["client"] = "response" /\ UNCHANGED <<fd, rlink>>
        /\ phase' = [phase EXCEPT !["client"] = "header"]
    BY <1>8 DEF ClientResponse
  <2> QED BY <2>1, <1>t, <1>s DEF PhaseInv
<1>9. ASSUME NEW s \in Sides, SideStep(s) PROVE PhaseInv'
  <2>1. CASE WriteFailed(s)
    BY <2>1, <1>2 DEF WriteFailed, Unlocked
  <2>2. CASE ReadFailed(s)
    BY <2>2, <1>2 DEF ReadFailed, Unlocked
  <2>3. CASE RecoverFailed(s)
    BY <2>3, <1>3 DEF RecoverFailed
  <2>4. CASE WriteBuffered(s) \/ WriteSent(s)
    BY <2>4, <1>1 DEF WriteBuffered, WriteSent
  <2>5. CASE ReadLocal(s) \/ ReadSocket(s)
    BY <2>5, <1>1 DEF ReadLocal, ReadSocket
  <2> QED BY <1>4, <1>5, <1>9, <2>1, <2>2, <2>3, <2>4, <2>5 DEF SideStep
<1>10. ASSUME NEW l \in Links, LinkStep(l) PROVE PhaseInv'
  <2>1. CASE Break(l) \/ \E s \in Sides : Lose(l, s)
    BY <2>1, <1>1 DEF Break, Lose
  <2>2. CASE HandlerRequest(l) \/ HandlerFailed(l)
    BY <2>2, <1>1 DEF HandlerRequest, HandlerFailed
  <2> QED BY <1>6, <1>10, <2>1, <2>2 DEF LinkStep
<1>11. CASE ClientClose
  BY <1>11, <1>2, <1>s DEF ClientClose, Unlocked
<1>12. CASE UNCHANGED vars
  BY <1>12, <1>1 DEF vars
<1> QED BY <1>7, <1>8, <1>9, <1>10, <1>11, <1>12 DEF Next

\* A thread inside connect() or recover() works on a link that exists, on a
\* connection that has no socket; two threads are never in recover() of one
\* side: what connectionMutex is for.
THEOREM RecoverExclusive == Spec => [](TypeOK /\ PhaseInv)
<1>1. TypeOK /\ PhaseInv /\ [Next]_vars => (TypeOK /\ PhaseInv)'
  BY NextTypeOK, NextPhaseInv
<1> QED BY InitTypes, <1>1, PTL DEF Spec

\* The state of a session keeps its types, with any number of packets, links
\* and failures.
THEOREM TypeCorrect == Spec => []TypeOK
<1>1. TypeOK /\ PhaseInv => TypeOK
  OBVIOUS
<1> QED BY RecoverExclusive, <1>1, PTL

-----------------------------------------------------------------------------
(* Links.                                                                  *)

\* What a network holds after one direction of a link was replaced.
LEMMA NetAt ==
    ASSUME NEW n \in Net, NEW l \in Links, NEW s \in Sides, NEW q,
           NEW k \in Links, NEW t \in Sides
    PROVE  [n EXCEPT ![l][s] = q][k][t] = IF k = l /\ t = s THEN q ELSE n[k][t]
BY DEF Net

\* LinkInv survives every step that opens no link and starts no recovery, if
\* the step writes only to links that are up, and a side that lets go of a link
\* takes it down and drops what it had not read.
LEMMA LinkInvKept ==
    ASSUME TypeOK, TypeOK', LinkInv,
           UNCHANGED <<handler, links>>,
           \A l \in Links : up'[l] => up[l],
           \A l \in Links, s \in Sides : Listens(s, l)' => Listens(s, l),
           \A l \in Links, s \in Sides : Listens(s, l) /\ ~Listens(s, l)' =>
                ~up'[l] /\ net'[l][s] = <<>>,
           \A l \in Links, s \in Sides : net[l][s] = <<>> /\ ~up[l] =>
                net'[l][s] = <<>>
    PROVE  LinkInv'
<1>s. "client" \in Sides /\ "server" \in Sides
  BY DEF Sides
<1>1. ASSUME NEW l \in Links, up'[l]
      PROVE  /\ l = links'
             /\ Listens("client", l)'
             /\ Listens("server", l)' \/ handler'[l] \in {"request", "recover"}
  BY <1>1, <1>s DEF LinkInv
<1>2. \A l \in Links : l > links' => handler'[l] = "none"
  BY DEF LinkInv
<1>3. \A l \in Links : handler'[l] # "done" => ~Listens("server", l)'
  BY <1>s DEF LinkInv
<1>4. ASSUME NEW s \in Sides PROVE fd'[s] <= links' /\ rlink'[s] <= links'
  <2>0. /\ fd'[s] \in 0..MaxLinks /\ rlink'[s] \in 0..MaxLinks
        /\ links \in 1..MaxLinks
    BY DEF TypeOK
  <2>1. ASSUME NEW l \in Links, Listens(s, l) PROVE l <= links
    BY <2>1 DEF Listens, LinkInv
  <2>2. ASSUME NEW l \in Links, l = fd'[s] \/ l = rlink'[s] PROVE l <= links
    <3>1. Listens(s, l)'
      BY <2>2, ConnectionAssumption DEF Listens, Links
    <3> QED BY <2>1, <3>1
  <2>3. /\ fd'[s] = 0 \/ fd'[s] \in Links
        /\ rlink'[s] = 0 \/ rlink'[s] \in Links
    BY <2>0, ConnectionAssumption DEF Links
  <2> QED BY <2>0, <2>1, <2>2, <2>3
<1>5. ASSUME NEW l \in Links, ~Listens("client", l)' PROVE net'[l]["client"] = <<>>
  BY <1>5, <1>s DEF LinkInv
<1>6. ASSUME NEW l \in Links, ~Listens("server", l)', handler'[l] \in {"none", "done"}
      PROVE  net'[l]["server"] = <<>>
  BY <1>6, <1>s DEF LinkInv
<1> QED BY <1>1, <1>2, <1>3, <1>4, <1>5, <1>6 DEF LinkInv

\* No operation disturbs LinkInv.
LEMMA NextLinkInv ==
    TypeOK /\ TypeOK' /\ PhaseInv /\ LinkInv /\ [Next]_vars => LinkInv'
<1> SUFFICES ASSUME TypeOK, TypeOK', PhaseInv, LinkInv PROVE [Next]_vars => LinkInv'
  OBVIOUS
<1>n. net \in Net
  BY DEF TypeOK, Net
<1>q. \A l \in Links, s \in Sides : net[l][s] \in Seq(Message)
  BY DEF TypeOK
<1>s. "client" \in Sides /\ "server" \in Sides
  BY DEF Sides
<1>t. /\ fd \in [Sides -> 0..MaxLinks]
      /\ rlink \in [Sides -> 0..MaxLinks]
  BY DEF TypeOK
<1>r. \A s \in Sides : phase[s] # "idle" => rlink[s] \in Links /\ fd[s] = 0
  BY <1>t, ConnectionAssumption DEF PhaseInv, Links
<1>f. \A s \in Sides : fd[s] # 0 => fd[s] \in Links /\ rlink[s] = 0
  BY <1>t, ConnectionAssumption DEF PhaseInv, Links
<1>u. up \in [Links -> BOOLEAN]
  BY DEF TypeOK
<1>z. \A l \in Links : l # 0
  BY ConnectionAssumption DEF Links
<1> DEFINE Quiet == \A l \in Links, s \in Sides :
                       net[l][s] = <<>> /\ ~up[l] => net'[l][s] = <<>>
<1>1. ASSUME UNCHANGED <<fd, rlink, handler, links>>,
             \A l \in Links : up'[l] => up[l], Quiet
      PROVE  LinkInv'
  <2>1. \A l \in Links, s \in Sides : Listens(s, l)' <=> Listens(s, l)
    BY <1>1 DEF Listens
  <2> QED BY <1>1, <2>1, LinkInvKept
<1>2. ASSUME NEW s \in Sides, fd[s] # 0,
             fd' = [fd EXCEPT ![s] = 0], up' = [up EXCEPT ![fd[s]] = FALSE],
             net'[fd[s]][s] = <<>>, Quiet, UNCHANGED <<rlink, handler, links>>
      PROVE  LinkInv'
  <2>1. \A l \in Links, p \in Sides : Listens(p, l)' => Listens(p, l)
    BY <1>2, <1>t DEF Listens
  <2>2. \A l \in Links, p \in Sides : Listens(p, l) /\ ~Listens(p, l)' =>
           p = s /\ l = fd[s]
    BY <1>2, <1>t DEF Listens
  <2>3. \A l \in Links : up'[l] => up[l] /\ l # fd[s]
    BY <1>2, <1>f, <1>u
  <2> QED BY <1>2, <2>1, <2>2, <2>3, LinkInvKept
<1>3. ASSUME NEW s \in Sides, phase[s] # "idle", Abandon(s, rlink[s]),
             UNCHANGED <<fd, handler, links>>
      PROVE  LinkInv'
  <2> DEFINE l == rlink[s]
  <2>0. l \in Links
    BY <1>3, <1>r
  <2>1. /\ up' = [up EXCEPT ![l] = FALSE]
        /\ rlink' = [rlink EXCEPT ![s] = 0]
        /\ net' = [net EXCEPT ![l][s] = <<>>]
    BY <1>3 DEF Abandon, Discard
  <2> HIDE DEF l
  <2>2. \A k \in Links, p \in Sides : Listens(p, k)' => Listens(p, k)
    BY <1>3, <2>1, <1>t DEF Listens
  <2>3. \A k \in Links, p \in Sides : Listens(p, k) /\ ~Listens(p, k)' =>
           p = s /\ k = l
    BY <1>3, <2>1, <1>t DEF Listens, l
  <2>4. \A k \in Links : up'[k] => up[k] /\ k # l
    BY <2>0, <2>1, <1>u
  <2>5. \A k \in Links, p \in Sides :
           net'[k][p] = IF k = l /\ p = s THEN <<>> ELSE net[k][p]
    BY <2>0, <2>1, <1>n DEF Net
  <2> QED BY <1>3, <2>2, <2>3, <2>4, <2>5, LinkInvKept
<1>p. ASSUME NEW s \in Sides, NEW l \in Links, NEW msgs, NEW n \in Net,
             n = Put(l, s, msgs), NEW k \in Links, NEW t \in Sides,
             net[k][t] = <<>>, ~up[k]
      PROVE  n[k][t] = <<>>
  BY <1>p, <1>n, PeerType, NetAt DEF Put
<1>4. ASSUME NEW s \in Sides, WriteBuffered(s) PROVE LinkInv'
  BY <1>4, <1>1 DEF WriteBuffered, network, bounds
<1>5. ASSUME NEW s \in Sides, WriteSent(s) PROVE LinkInv'
  <2>1. fd[s] \in Links /\ net' \in Net
    BY <1>5, <1>f DEF WriteSent, TypeOK, Net
  <2>2. Quiet
    BY <1>5, <1>p, <2>1 DEF WriteSent
  <2> QED BY <1>5, <1>1, <2>2 DEF WriteSent, bounds
<1>6. ASSUME NEW s \in Sides, WriteFailed(s) PROVE LinkInv'
  <2>1. fd[s] \in Links
    BY <1>6, <1>f DEF WriteFailed
  <2>2. PICK taken : net' = [Put(fd[s], s, taken) EXCEPT ![fd[s]][s] = <<>>]
    BY <1>6 DEF WriteFailed, Discard
  <2>3. Quiet /\ net'[fd[s]][s] = <<>>
    <3>1. CASE up[fd[s]]
      <4> DEFINE q == net[fd[s]][Peer(s)] \o taken
      <4>1. net' = [[net EXCEPT ![fd[s]][Peer(s)] = q] EXCEPT ![fd[s]][s] = <<>>]
        BY <2>2, <3>1 DEF Put
      <4> HIDE DEF q
      <4>2. \A k \in Links, t \in Sides : net'[k][t] =
               IF k = fd[s] /\ t = s THEN <<>>
               ELSE IF k = fd[s] /\ t = Peer(s) THEN q ELSE net[k][t]
        BY <4>1, <2>1, <1>n, PeerType DEF Net
      <4> QED BY <4>2, <3>1, <2>1
    <3>2. CASE ~up[fd[s]]
      BY <2>1, <2>2, <3>2, <1>n, NetAt DEF Put
    <3> QED BY <3>1, <3>2
  <2> QED BY <1>6, <1>2, <2>3 DEF WriteFailed
<1>7. ASSUME NEW s \in Sides, ReadLocal(s) PROVE LinkInv'
  BY <1>7, <1>1 DEF ReadLocal, network, bounds
<1>8. ASSUME NEW s \in Sides, ReadSocket(s) PROVE LinkInv'
  <2>1. /\ fd[s] \in Links /\ net[fd[s]][s] # <<>>
        /\ net' = [net EXCEPT ![fd[s]][s] = Tail(net[fd[s]][s])]
    BY <1>8, <1>f DEF ReadSocket, Arrived
  <2>2. Quiet
    BY <2>1, <1>n, NetAt
  <2> QED BY <1>8, <1>1, <2>2 DEF ReadSocket, bounds
<1>9. ASSUME NEW s \in Sides, ReadFailed(s) PROVE LinkInv'
  BY <1>9, <1>2 DEF ReadFailed, Arrived
<1>10. ASSUME NEW s \in Sides, RecvHeader(s) PROVE LinkInv'
  <2> DEFINE l == rlink[s]
             m == Head(net[l][s])
             q == Tail(net[l][s])
             popped == [net EXCEPT ![l][s] = q]
  <2>1. CASE Abandon(s, l)
    BY <1>10, <1>3, <2>1 DEF RecvHeader, bounds
  <2>2. CASE ~Abandon(s, l)
    <3>1. /\ l \in Links /\ net[l][s] # <<>>
          /\ UNCHANGED <<up, rlink>>
          /\ net' = IF up[l]
                    THEN [popped EXCEPT ![l][Peer(s)] =
                            Append(popped[l][Peer(s)], Catchup(Recovered(s, m.num)))]
                    ELSE popped
      BY <1>10, <1>r, <2>2 DEF RecvHeader, Arrived
    <3>2. Quiet
      <4> DEFINE c == Append(popped[l][Peer(s)], Catchup(Recovered(s, m.num)))
      <4>1. net' = IF up[l] THEN [popped EXCEPT ![l][Peer(s)] = c] ELSE popped
        BY <3>1
      <4> HIDE DEF c, q, l
      <4>2. \A k \in Links, t \in Sides : k # l => net'[k][t] = net[k][t]
        BY <4>1, <3>1, <1>n, PeerType DEF Net
      <4>3. ~up[l] => net'[l][Peer(s)] = net[l][Peer(s)]
        BY <4>1, <3>1, <1>n, PeerType DEF Net
      <4> QED BY <3>1, <4>2, <4>3 DEF Sides, Peer
    <3> QED BY <1>10, <1>1, <3>1, <3>2 DEF RecvHeader, bounds
  <2> QED BY <2>1, <2>2
<1>11. ASSUME NEW s \in Sides, RecvCatchup(s) PROVE LinkInv'
  <2> DEFINE l == rlink[s]
             q == Tail(net[l][s])
  <2>1. /\ l \in Links /\ fd[s] = 0 /\ net[l][s] # <<>>
        /\ fd' = [fd EXCEPT ![s] = l]
        /\ rlink' = [rlink EXCEPT ![s] = 0]
        /\ net' = [net EXCEPT ![l][s] = q]
        /\ UNCHANGED <<up, handler, links>>
    BY <1>11, <1>r DEF RecvCatchup, Arrived, bounds
  <2>2. \A k \in Links, p \in Sides : Listens(p, k)' <=> Listens(p, k)
    BY <2>1, <1>t DEF Listens
  <2>3. Quiet
    BY <2>1, <1>n, NetAt
  <2> QED BY <2>1, <2>2, <2>3, LinkInvKept
<1>12. ASSUME NEW s \in Sides, RecoverFailed(s) PROVE LinkInv'
  BY <1>12, <1>3 DEF RecoverFailed
<1>13. ASSUME NEW l \in Links, Break(l) PROVE LinkInv'
  BY <1>13, <1>1, <1>u DEF Break
<1>14. ASSUME NEW l \in Links, NEW s \in Sides, Lose(l, s) PROVE LinkInv'
  <2> DEFINE q == SubSeq(net[l][s], 1, Len(net[l][s]) - 1)
  <2>1. /\ net[l][s] # <<>>
        /\ net' = [net EXCEPT ![l][s] = q]
        /\ UNCHANGED <<fd, rlink, handler, up, links>>
    BY <1>14 DEF Lose, Arrived, bounds
  <2> HIDE DEF q
  <2>2. Quiet
    BY <2>1, <1>n, NetAt
  <2> QED BY <1>1, <2>1, <2>2
<1>15. CASE ClientClose
  <2>1. /\ fd["client"] \in Links
        /\ net' = [net EXCEPT ![fd["client"]]["client"] = <<>>]
    BY <1>15, <1>f, <1>s DEF ClientClose, Discard
  <2>2. Quiet /\ net'[fd["client"]]["client"] = <<>>
    BY <2>1, <1>n, <1>s DEF Net
  <2> QED BY <1>15, <1>2, <1>s, <2>2 DEF ClientClose
<1>16. CASE ClientResponse
  <2> DEFINE l == rlink["client"]
             q == Tail(net[l]["client"])
             popped == [net EXCEPT ![l]["client"] = q]
             c == Append(popped[l]["server"], Header(Int32(rseq["client"])))
  <2>1. /\ l \in Links /\ net[l]["client"] # <<>>
        /\ net' = IF up[l] THEN [popped EXCEPT ![l]["server"] = c] ELSE popped
        /\ UNCHANGED <<fd, rlink, handler, up, links>>
    BY <1>16, <1>r, <1>s DEF ClientResponse, Arrived, bounds
  <2>2. Quiet
    <3> HIDE DEF c, q, l
    <3>1. \A k \in Links, t \in Sides : k # l => net'[k][t] = net[k][t]
      BY <2>1, <1>n, <1>s DEF Net
    <3>2. ~up[l] => net'[l]["server"] = net[l]["server"]
      BY <2>1, <1>n, <1>s DEF Net
    <3> QED BY <2>1, <3>1, <3>2 DEF Sides
  <2> QED BY <1>1, <2>1, <2>2
<1>17. ASSUME NEW l \in Links, HandlerRequest(l) PROVE LinkInv'
  <2> DEFINE q == Tail(net[l]["server"])
             popped == [net EXCEPT ![l]["server"] = q]
             c == Append(popped[l]["client"], Response)
  <2>1. /\ handler[l] = "request" /\ net[l]["server"] # <<>>
        /\ net' = IF up[l] THEN [popped EXCEPT ![l]["client"] = c] ELSE popped
        /\ handler' = [handler EXCEPT ![l] = "recover"]
        /\ UNCHANGED <<fd, rlink, up, links>>
    BY <1>17 DEF HandlerRequest, Arrived, bounds
  <2> HIDE DEF c, q
  <2>2. \A k \in Links, t \in Sides : k # l => net'[k][t] = net[k][t]
    BY <2>1, <1>n, <1>s DEF Net
  <2>3. ~up[l] => net'[l]["client"] = net[l]["client"]
    BY <2>1, <1>n, <1>s DEF Net
  <2>4. \A k \in Links, s \in Sides : Listens(s, k)' <=> Listens(s, k)
    BY <2>1 DEF Listens
  <2>5. handler \in [Links -> {"none", "request", "recover", "done"}]
    BY DEF TypeOK
  <2>6. \A k \in Links : handler'[k] = IF k = l THEN "recover" ELSE handler[k]
    BY <2>1, <2>5
  <2>7. ASSUME NEW k \in Links, up'[k]
        PROVE  /\ k = links'
               /\ Listens("client", k)'
               /\ Listens("server", k)' \/ handler'[k] \in {"request", "recover"}
    BY <2>1, <2>4, <2>6, <2>7, <1>s DEF LinkInv
  <2>8. \A k \in Links : k > links' => handler'[k] = "none"
    BY <2>1, <2>6 DEF LinkInv
  <2>9. \A k \in Links : handler'[k] # "done" => ~Listens("server", k)'
    BY <2>1, <2>4, <2>6, <1>s DEF LinkInv
  <2>10. \A s \in Sides : fd'[s] <= links' /\ rlink'[s] <= links'
    BY <2>1 DEF LinkInv
  <2>11. \A k \in Links : ~Listens("client", k)' => net'[k]["client"] = <<>>
    BY <2>2, <2>3, <2>4, <1>s DEF LinkInv
  <2>12. \A k \in Links : ~Listens("server", k)' /\ handler'[k] \in {"none", "done"}
                            => net'[k]["server"] = <<>>
    BY <2>2, <2>4, <2>6, <1>s DEF LinkInv
  <2> QED BY <2>7, <2>8, <2>9, <2>10, <2>11, <2>12 DEF LinkInv
<1>18. ASSUME NEW l \in Links, HandlerFailed(l) PROVE LinkInv'
  <2>1. /\ handler[l] = "request"
        /\ up' = [up EXCEPT ![l] = FALSE]
        /\ net' = [net EXCEPT ![l]["server"] = <<>>]
        /\ handler' = [handler EXCEPT ![l] = "done"]
        /\ UNCHANGED <<fd, rlink, links>>
    BY <1>18 DEF HandlerFailed, Discard
  <2>2. \A k \in Links, t \in Sides :
           net'[k][t] = IF k = l /\ t = "server" THEN <<>> ELSE net[k][t]
    BY <2>1, <1>n, <1>s DEF Net
  <2>3. \A k \in Links : up'[k] => up[k] /\ k # l
    BY <2>1, <1>u
  <2>4. \A k \in Links, s \in Sides : Listens(s, k)' <=> Listens(s, k)
    BY <2>1 DEF Listens
  <2>5. handler \in [Links -> {"none", "request", "recover", "done"}]
    BY DEF TypeOK
  <2>6. \A k \in Links : handler'[k] = IF k = l THEN "done" ELSE handler[k]
    BY <2>1, <2>5
  <2>7. ASSUME NEW k \in Links, up'[k]
        PROVE  /\ k = links'
               /\ Listens("client", k)'
               /\ Listens("server", k)' \/ handler'[k] \in {"request", "recover"}
    BY <2>1, <2>3, <2>4, <2>6, <2>7, <1>s DEF LinkInv
  <2>8. \A k \in Links : k > links' => handler'[k] = "none"
    BY <2>1, <2>6 DEF LinkInv
  <2>9. \A k \in Links : handler'[k] # "done" => ~Listens("server", k)'
    BY <2>4, <2>6, <1>s DEF LinkInv
  <2>10. \A s \in Sides : fd'[s] <= links' /\ rlink'[s] <= links'
    BY <2>1 DEF LinkInv
  <2>11. \A k \in Links : ~Listens("client", k)' => net'[k]["client"] = <<>>
    BY <2>2, <2>4, <1>s DEF LinkInv
  <2>12. \A k \in Links : ~Listens("server", k)' /\ handler'[k] \in {"none", "done"}
                            => net'[k]["server"] = <<>>
    BY <2>2, <2>4, <2>6, <1>s DEF LinkInv
  <2> QED BY <2>7, <2>8, <2>9, <2>10, <2>11, <2>12 DEF LinkInv
<1>19. ASSUME NEW l \in Links, HandlerRecover(l) PROVE LinkInv'
  <2> DEFINE old == fd["server"]
             closed == IF old = 0 THEN net ELSE [net EXCEPT ![old]["server"] = <<>>]
             c == Append(closed[l]["client"], Header(Int32(rseq["server"])))
  <2>1. /\ handler[l] = "recover"
        /\ up' = IF old = 0 THEN up ELSE [up EXCEPT ![old] = FALSE]
        /\ net' = IF up[l] THEN [closed EXCEPT ![l]["client"] = c] ELSE closed
        /\ fd' = [fd EXCEPT !["server"] = 0]
        /\ rlink' = [rlink EXCEPT !["server"] = l]
        /\ handler' = [handler EXCEPT ![l] = "done"]
        /\ rlink["server"] = 0
        /\ UNCHANGED links
    BY <1>19, <1>s DEF HandlerRecover, Discard, bounds, Unlocked, PhaseInv
  <2>2. old = 0 \/ old \in Links
    BY <1>f, <1>s
  <2>3. old # l
    BY <2>1, <1>z DEF LinkInv, Listens
  <2>4. \A k \in Links : Listens("client", k)' <=> Listens("client", k)
    BY <2>1, <1>t, <1>s DEF Listens
  <2>5. \A k \in Links : Listens("server", k)' <=> k = l
    BY <2>1, <1>t, <1>s, <1>z DEF Listens
  <2>6. \A k \in Links : Listens("server", k) <=> k = old
    BY <2>1, <1>z DEF Listens
  <2>h. handler \in [Links -> {"none", "request", "recover", "done"}]
    BY DEF TypeOK
  <2>o. links \in Nat /\ \A k \in Links : k \in Nat
    BY DEF TypeOK, Links
  <2> HIDE DEF c, old
  <2>7. \A k \in Links : /\ k # l => net'[k]["client"] = net[k]["client"]
                         /\ ~up[k] => net'[k]["client"] = net[k]["client"]
    BY <2>1, <2>2, <1>n, <1>s DEF Net
  <2>8. \A k \in Links : net'[k]["server"] = IF k = old THEN <<>> ELSE net[k]["server"]
    BY <2>1, <2>2, <1>n, <1>s, <1>z DEF Net
  <2>9. \A k \in Links : up'[k] => up[k] /\ k # old
    BY <2>1, <2>2, <1>u, <1>z
  <2>10. \A k \in Links : handler'[k] = IF k = l THEN "done" ELSE handler[k]
    BY <2>1, <2>h
  <2>11. ASSUME NEW k \in Links, up'[k]
         PROVE  /\ k = links'
                /\ Listens("client", k)'
                /\ Listens("server", k)' \/ handler'[k] \in {"request", "recover"}
    BY <2>1, <2>4, <2>5, <2>6, <2>9, <2>10, <2>11 DEF LinkInv
  <2>12. \A k \in Links : k > links' => handler'[k] = "none"
    BY <2>1, <2>10 DEF LinkInv
  <2>13. \A k \in Links : handler'[k] # "done" => ~Listens("server", k)'
    BY <2>5, <2>10
  <2>14. \A s \in Sides : fd'[s] <= links' /\ rlink'[s] <= links'
    <3>1. l <= links
      BY <2>1, <2>o DEF LinkInv
    <3> QED BY <2>1, <2>o, <3>1, <1>t DEF LinkInv
  <2>15. \A k \in Links : ~Listens("client", k)' => net'[k]["client"] = <<>>
    BY <2>4, <2>7 DEF LinkInv
  <2>16. \A k \in Links : ~Listens("server", k)' /\ handler'[k] \in {"none", "done"}
                            => net'[k]["server"] = <<>>
    BY <2>5, <2>6, <2>8, <2>10 DEF LinkInv
  <2> QED BY <2>11, <2>12, <2>13, <2>14, <2>15, <2>16 DEF LinkInv
<1>20. CASE ClientConnect
  <2> DEFINE l == links + 1
  <2>1. /\ fd["client"] = 0 /\ rlink["client"] = 0
        /\ links' = l
        /\ up' = [up EXCEPT ![l] = TRUE]
        /\ net' = [net EXCEPT ![l]["server"] = <<Request>>]
        /\ handler' = [handler EXCEPT ![l] = "request"]
        /\ rlink' = [rlink EXCEPT !["client"] = l]
        /\ UNCHANGED fd
    BY <1>20, <1>s DEF ClientConnect, Unlocked, PhaseInv
  <2>2. l \in Links /\ links \in Nat /\ \A k \in Links : k \in Nat
    BY <1>20, ConnectionAssumption DEF ClientConnect, TypeOK, Links
  <2>3. \A k \in Links : /\ ~Listens("client", k)
                         /\ Listens("client", k)' <=> k = l
    BY <2>1, <2>2, <1>t, <1>s, <1>z DEF Listens
  <2>4. \A k \in Links : Listens("server", k)' <=> Listens("server", k)
    BY <2>1, <1>t, <1>s DEF Listens
  <2>5. ~Listens("server", l)
    BY <2>1, <2>2, <1>s, <1>t DEF Listens, LinkInv
  <2>h. handler \in [Links -> {"none", "request", "recover", "done"}]
    BY DEF TypeOK
  <2>6. \A k \in Links : handler'[k] = IF k = l THEN "request" ELSE handler[k]
    BY <2>1, <2>2, <2>h
  <2>7. \A k \in Links : up'[k] => k = l
    BY <2>1, <2>2, <2>3, <1>u DEF LinkInv
  <2>8. \A k \in Links, t \in Sides : ~(k = l /\ t = "server") => net'[k][t] = net[k][t]
    BY <2>1, <2>2, <1>n, <1>s DEF Net
  <2>9. ASSUME NEW k \in Links, up'[k]
        PROVE  /\ k = links'
               /\ Listens("client", k)'
               /\ Listens("server", k)' \/ handler'[k] \in {"request", "recover"}
    BY <2>1, <2>3, <2>6, <2>7, <2>9
  <2>10. \A k \in Links : k > links' => handler'[k] = "none"
    BY <2>1, <2>2, <2>6 DEF LinkInv
  <2>11. \A k \in Links : handler'[k] # "done" => ~Listens("server", k)'
    BY <2>4, <2>5, <2>6 DEF LinkInv
  <2>12. \A s \in Sides : fd'[s] <= links' /\ rlink'[s] <= links'
    BY <2>1, <2>2, <1>t DEF LinkInv
  <2>13. \A k \in Links : ~Listens("client", k)' => net'[k]["client"] = <<>>
    BY <2>3, <2>8, <1>s DEF LinkInv
  <2>14. \A k \in Links : ~Listens("server", k)' /\ handler'[k] \in {"none", "done"}
                            => net'[k]["server"] = <<>>
    BY <2>4, <2>6, <2>8, <1>s DEF LinkInv
  <2> QED BY <2>9, <2>10, <2>11, <2>12, <2>13, <2>14 DEF LinkInv
<1>21. CASE UNCHANGED vars
  BY <1>21, <1>1 DEF vars
<1> QED
  BY <1>4, <1>5, <1>6, <1>7, <1>8, <1>9, <1>10, <1>11, <1>12, <1>13, <1>14,
     <1>15, <1>16, <1>17, <1>18, <1>19, <1>20, <1>21 DEF Next, SideStep, LinkStep

\* A session starts on its one link.
LEMMA InitLinkInv == Init => LinkInv
<1> SUFFICES ASSUME Init PROVE LinkInv
  OBVIOUS
<1>1. /\ links = 1
      /\ \A l \in Links : /\ up[l] => l = 1
                          /\ handler[l] = IF l = 1 THEN "done" ELSE "none"
                          /\ \A s \in Sides : net[l][s] = <<>>
      /\ \A s \in Sides : fd[s] = 1 /\ rlink[s] = 0
  BY DEF Init
<1>2. \A s \in Sides, l \in Links : Listens(s, l) <=> l = 1
  BY <1>1, ConnectionAssumption DEF Listens, Links
<1>3. "client" \in Sides /\ "server" \in Sides
  BY DEF Sides
<1>4. \A l \in Links : l > links => handler[l] = "none"
  BY <1>1, ConnectionAssumption DEF Links
<1> QED BY <1>1, <1>2, <1>3, <1>4 DEF LinkInv

\* However the network fails, and however many handlers of dead links are
\* still on their way into recoverClient, at most one link is up, the client
\* uses it, and bytes are under way only to a side that reads them or to the
\* handler that will: no recovery ever reads what was left of another one.
THEOREM OneLiveLink == Spec => []LinkInv
<1>1. Init => TypeOK /\ PhaseInv /\ LinkInv
  BY InitTypes, InitLinkInv
<1>2. TypeOK /\ PhaseInv /\ LinkInv /\ [Next]_vars => (TypeOK /\ PhaseInv /\ LinkInv)'
  BY NextTypeOK, NextPhaseInv, NextLinkInv
<1>3. TypeOK /\ PhaseInv /\ LinkInv => LinkInv
  OBVIOUS
<1> QED BY <1>1, <1>2, <1>3, PTL DEF Spec


-----------------------------------------------------------------------------
(* Messages and streams.                                                   *)

\* The stage of a message is given by its type, and the other way round.
LEMMA StageOf ==
    ASSUME NEW m \in Message
    PROVE  /\ Stage(m) \in 0..4
           /\ Stage(m) = 0 <=> m.type = "request"
           /\ Stage(m) = 1 <=> m.type = "response"
           /\ Stage(m) = 2 <=> m.type = "header"
           /\ Stage(m) = 3 <=> m.type = "catchup"
           /\ Stage(m) = 4 <=> m.type \in {"first", "last"}
BY MessageFields DEF Stage

\* What a link carries is told apart by its type.
LEMMA MessageKinds ==
    /\ Request.type = "request"
    /\ Response.type = "response"
    /\ \A n : Header(n).type = "header" /\ Header(n).num = n
    /\ \A c : Catchup(c).type = "catchup" /\ Catchup(c).packets = c
    /\ \A n : Part("first", n).type = "first" /\ Part("first", n).num = n
    /\ \A n : Part("last", n).type = "last" /\ Part("last", n).num = n
BY DEF Request, Response, Header, Catchup, Part

\* What is left of a queue of messages after its head was read.
LEMMA Popped ==
    ASSUME NEW q \in Seq(Message), q # <<>>
    PROVE  /\ Len(q) \in Nat \ {0}
           /\ Head(q) = q[1] /\ q[1] \in Message /\ q[Len(q)] \in Message
           /\ Tail(q) \in Seq(Message)
           /\ Len(Tail(q)) = Len(q) - 1
           /\ \A i \in 1..(Len(q) - 1) : Tail(q)[i] = q[i + 1] /\ q[i + 1] \in Message
           /\ Tail(q) = <<>> <=> Len(q) = 1
<1>1. Len(q) \in Nat \ {0} /\ \A i \in 1..Len(q) : q[i] \in Message
  BY EmptySeq, LenProperties
<1>2. /\ Tail(q) \in Seq(Message) /\ Len(Tail(q)) = Len(q) - 1
      /\ \A i \in 1..Len(Tail(q)) : Tail(q)[i] = q[i + 1]
      /\ Head(q) = q[1]
  BY HeadTailProperties
<1>3. Tail(q) = <<>> <=> Len(Tail(q)) = 0
  BY <1>2, EmptySeq
<1> QED BY <1>1, <1>2, <1>3

\* An empty queue continues at any position.
LEMMA EmptyStream == \A r, w : Stream(<<>>, r, w)
BY DEF Stream

\* A stream stays one when its head is read and the position stays.
LEMMA StreamTail ==
    ASSUME NEW q \in Seq(Message), q # <<>>, NEW r, NEW w, Stream(q, r, w)
    PROVE  /\ Stream(Tail(q), r, w)
           /\ Tail(q) # <<>> => Follows(r, q[1], Tail(q)[1])
<1>1. /\ Len(q) \in Nat \ {0} /\ Len(Tail(q)) = Len(q) - 1
      /\ \A i \in 1..(Len(q) - 1) : Tail(q)[i] = q[i + 1]
      /\ Tail(q) = <<>> <=> Len(q) = 1
  BY Popped
<1>2. \A i \in 1..(Len(Tail(q)) - 1) : Follows(r, Tail(q)[i], Tail(q)[i + 1])
  BY <1>1 DEF Stream
<1>3. \A i, j \in 1..Len(Tail(q)) : i < j => Later(Tail(q)[i], Tail(q)[j])
  BY <1>1 DEF Stream
<1>4. \A i \in 1..Len(Tail(q)) : Brings(Tail(q)[i], r, w)
  BY <1>1 DEF Stream
<1>5. Tail(q) # <<>> => Follows(r, q[1], Tail(q)[1])
  BY <1>1 DEF Stream
<1> QED BY <1>2, <1>3, <1>4, <1>5 DEF Stream

\* Behind a catchup buffer or a part there are only parts, and a stream of
\* parts does not depend on the position of its reader.
LEMMA StreamOfParts ==
    ASSUME NEW q \in Seq(Message), q # <<>>, NEW r, NEW w, Stream(q, r, w),
           Stage(q[1]) >= 3, NEW v
    PROVE  /\ \A i \in 1..Len(Tail(q)) : Stage(Tail(q)[i]) = 4
           /\ Stream(Tail(q), v, w)
           /\ Len(q) > 1 => Stage(q[Len(q)]) = 4
<1> DEFINE t == Tail(q)
<1>1. /\ Len(q) \in Nat \ {0} /\ Len(t) = Len(q) - 1 /\ q[1] \in Message
      /\ \A i \in 1..(Len(q) - 1) : t[i] = q[i + 1] /\ t[i] \in Message
  BY Popped
<1>2. ASSUME NEW i \in 1..Len(t) PROVE Stage(t[i]) = 4
  <2>1. Later(q[1], q[i + 1])
    BY <1>1 DEF Stream
  <2>2. Stage(q[1]) \in 0..4 /\ Stage(t[i]) \in 0..4 /\ t[i] = q[i + 1]
    BY <1>1, StageOf
  <2> QED BY <2>1, <2>2 DEF Later
<1>3. Stream(t, r, w)
  BY StreamTail
<1> HIDE DEF t
<1>4. \A i \in 1..Len(t) : t[i].type \in {"first", "last"}
  BY <1>1, <1>2, StageOf
<1>5. \A i \in 1..(Len(t) - 1) : Follows(v, t[i], t[i + 1])
  <2>1. ASSUME NEW i \in 1..(Len(t) - 1) PROVE Follows(v, t[i], t[i + 1])
    <3>1. Follows(r, t[i], t[i + 1]) /\ t[i].type \in {"first", "last"}
      BY <1>1, <1>3, <1>4 DEF Stream
    <3> QED BY <3>1 DEF Follows
  <2> QED BY <2>1
<1>6. \A i \in 1..Len(t) : Brings(t[i], v, w)
  BY <1>3, <1>4 DEF Stream, Brings
<1>7. Stream(t, v, w)
  BY <1>3, <1>5, <1>6 DEF Stream
<1>8. Len(q) > 1 => Stage(q[Len(q)]) = 4
  BY <1>1, <1>2
<1> QED BY <1>2, <1>7, <1>8 DEF t

\* A message may be written at the end of a stream when it follows the last
\* one there and belongs to a later stage.
LEMMA StreamAppend ==
    ASSUME NEW q \in Seq(Message), NEW m \in Message, NEW r, NEW w,
           Stream(q, r, w), Brings(m, r, w),
           q # <<>> => Follows(r, q[Len(q)], m),
           \A i \in 1..Len(q) : Later(q[i], m)
    PROVE  /\ Stream(Append(q, m), r, w)
           /\ Append(q, m) # <<>>
           /\ Append(q, m)[Len(Append(q, m))] = m
           /\ Append(q, m)[1] = IF q = <<>> THEN m ELSE q[1]
<1> DEFINE t == Append(q, m)
<1>1. /\ t \in Seq(Message) /\ Len(q) \in Nat /\ Len(t) = Len(q) + 1
      /\ \A i \in 1..Len(q) : t[i] = q[i]
      /\ t[Len(q) + 1] = m
      /\ q = <<>> <=> Len(q) = 0
  BY AppendProperties, EmptySeq, LenProperties
<1> HIDE DEF t
<1>2. \A i \in 1..(Len(t) - 1) : Follows(r, t[i], t[i + 1])
  <2>1. ASSUME NEW i \in 1..(Len(t) - 1) PROVE Follows(r, t[i], t[i + 1])
    <3>1. CASE i = Len(q)
      BY <1>1, <3>1
    <3>2. CASE i # Len(q)
      <4>1. i \in 1..(Len(q) - 1) /\ t[i] = q[i] /\ t[i + 1] = q[i + 1]
        BY <1>1, <3>2
      <4> QED BY <4>1 DEF Stream
    <3> QED BY <3>1, <3>2
  <2> QED BY <2>1
<1>3. \A i, j \in 1..Len(t) : i < j => Later(t[i], t[j])
  BY <1>1 DEF Stream
<1>4. \A i \in 1..Len(t) : Brings(t[i], r, w)
  BY <1>1 DEF Stream
<1> QED BY <1>1, <1>2, <1>3, <1>4 DEF Stream, t

\* A stream stays one when more packets are written.
LEMMA StreamGrows ==
    ASSUME NEW q \in Seq(Message), NEW r \in Nat, NEW w \in Nat, NEW v \in Nat,
           w <= v, Stream(q, r, w)
    PROVE  Stream(q, r, v)
<1>1. ASSUME NEW i \in 1..Len(q) PROVE Brings(q[i], r, v)
  <2>1. q[i] \in Message /\ Brings(q[i], r, w)
    BY LenProperties DEF Stream
  <2>2. /\ q[i].type = "catchup" => Len(q[i].packets) \in Nat
        /\ q[i].type \in {"first", "last"} => q[i].num \in Nat
    BY <2>1, MessageFields, LenProperties
  <2> QED BY <2>1, <2>2 DEF Brings
<1> QED BY <1>1 DEF Stream

\* What is left of a queue that lost its last message.
LEMMA Cut ==
    ASSUME NEW q \in Seq(Message), q # <<>>
    PROVE  LET t == SubSeq(q, 1, Len(q) - 1) IN
           /\ t \in Seq(Message) /\ Len(q) \in Nat \ {0} /\ Len(t) = Len(q) - 1
           /\ \A i \in 1..Len(t) : t[i] = q[i]
           /\ t = <<>> <=> Len(q) = 1
<1>1. Len(q) \in Nat \ {0}
  BY EmptySeq, LenProperties
<1> DEFINE n == Len(q) - 1
           t == SubSeq(q, 1, n)
<1>2. n \in Nat /\ (n = 0 <=> Len(q) = 1)
  BY <1>1
<1>3. t \in Seq(Message) /\ Len(t) = n /\ \A i \in 1..n : t[i] = q[i]
  <2> HIDE DEF n
  <2>1. n <= Len(q)
    BY <1>1 DEF n
  <2>2. 1 \in 1..(Len(q) + 1) /\ n \in 0..Len(q) /\ \A i \in 1..n : 1 + i - 1 = i
    BY <1>1, <1>2, <2>1
  <2> QED BY <1>1, <1>2, <2>2, SubSeqProperties
<1>4. t = <<>> <=> Len(t) = 0
  <2> HIDE DEF t
  <2> QED BY <1>3, EmptySeq
<1> QED BY <1>1, <1>2, <1>3, <1>4

\* A stream stays one when its last message is lost.
LEMMA StreamCut ==
    ASSUME NEW q \in Seq(Message), q # <<>>, NEW r, NEW w, Stream(q, r, w)
    PROVE  LET t == SubSeq(q, 1, Len(q) - 1) IN
           Stream(t, r, w) /\ (t # <<>> => t[1] = q[1])
<1> DEFINE t == SubSeq(q, 1, Len(q) - 1)
<1>1. /\ t \in Seq(Message) /\ Len(q) \in Nat \ {0} /\ Len(t) = Len(q) - 1
      /\ \A i \in 1..Len(t) : t[i] = q[i]
      /\ t = <<>> <=> Len(q) = 1
  BY Cut
<1> HIDE DEF t
<1>2. \A i \in 1..(Len(t) - 1) : Follows(r, t[i], t[i + 1])
  BY <1>1 DEF Stream
<1>3. \A i, j \in 1..Len(t) : i < j => Later(t[i], t[j])
  BY <1>1 DEF Stream
<1>4. \A i \in 1..Len(t) : Brings(t[i], r, w)
  BY <1>1 DEF Stream
<1>5. t # <<>> => t[1] = q[1]
  BY <1>1
<1> QED BY <1>2, <1>3, <1>4, <1>5 DEF Stream, t

-----------------------------------------------------------------------------
(* The invariant, link by link.                                            *)

StreamAt(s, l) ==
    Listens(s, l) =>
        /\ Stream(net[l][s], rseq[s], wseq[Peer(s)])
        /\ net[l][s] # <<>> => Awaited(phase[s], partial[s], rseq[s], net[l][s][1])

HeaderAt(s, l) ==
    \A i \in 1..Len(net[l][s]) : net[l][s][i].type = "header" =>
        /\ net[l][s][i].num \in 0..rseq[Peer(s)]
        /\ rlink[Peer(s)] = l => net[l][s][i].num = rseq[Peer(s)]

HandlerAt(l) ==
    /\ handler[l] = "request" =>
          /\ net[l]["server"] \in {<<>>, <<Request>>}
          /\ net[l]["client"] = <<>>
          /\ rlink["client"] = l => phase["client"] = "response"
    /\ handler[l] = "recover" =>
          /\ Len(net[l]["server"]) <= 1
          /\ \A i \in 1..Len(net[l]["server"]) : net[l]["server"][i].type = "header"
          /\ net[l]["client"] \in {<<>>, <<Response>>}
          /\ rlink["client"] = l => phase["client"] \in {"response", "header"}

HandshakeAt(l) ==
    rlink["client"] = l /\ phase["client"] = "response" =>
        /\ handler[l] # "request" => net[l]["server"] = <<>>
        /\ Listens("server", l) => rlink["server"] = l /\ phase["server"] = "header"
        /\ up[l] /\ handler[l] = "recover" => net[l]["client"] = <<Response>>

\* The conjuncts of SentInv for the stream to s, whose writer has a socket,
\* waits for the catchup buffer, waits for the header, and is there at all.
WroteAt(s, l) ==
    fd[Peer(s)] = l =>
        /\ net[l][s] = <<>> => ReadAll(s, l)
        /\ net[l][s] # <<>> =>
              \/ net[l][s][Len(net[l][s])] = Part("last", wseq[Peer(s)])
              \/ CaughtUp(s, net[l][s][Len(net[l][s])])

CaughtUpAt(s, l) ==
    rlink[Peer(s)] = l /\ phase[Peer(s)] = "catchup" =>
        /\ net[l][s] = <<>> => ReadAll(s, l)
        /\ net[l][s] # <<>> => CaughtUp(s, net[l][s][Len(net[l][s])])

AskedAt(s, l) ==
    rlink[Peer(s)] = l /\ phase[Peer(s)] = "header" =>
        /\ net[l][s] = <<>> => rlink[s] = l /\ phase[s] = "catchup"
        /\ net[l][s] # <<>> => net[l][s][Len(net[l][s])].type = "header"

HeardAt(s, l) ==
    fd[Peer(s)] = l \/ (rlink[Peer(s)] = l /\ phase[Peer(s)] \in {"header", "catchup"}) =>
        Listens(s, l) \/ (s = "server" /\ handler[l] = "recover")

SentAt(s, l) ==
    up[l] => WroteAt(s, l) /\ CaughtUpAt(s, l) /\ AskedAt(s, l) /\ HeardAt(s, l)

LinkOK(l) ==
    /\ \A s \in Sides : StreamAt(s, l) /\ HeaderAt(s, l) /\ SentAt(s, l)
    /\ HandlerAt(l)
    /\ HandshakeAt(l)

\* The five parts of SessionInv about what is under way speak of one link each.
LEMMA LinkByLink ==
    StreamInv /\ HeaderInv /\ HandlerInv /\ HandshakeInv /\ SentInv
        <=> \A l \in Links : LinkOK(l)
<1>1. StreamInv <=> \A l \in Links, s \in Sides : StreamAt(s, l)
  BY DEF StreamInv, StreamAt, Arrived
<1>2. HeaderInv <=> \A l \in Links, s \in Sides : HeaderAt(s, l)
  BY DEF HeaderInv, HeaderAt
<1>3. HandlerInv <=> \A l \in Links : HandlerAt(l)
  BY DEF HandlerInv, HandlerAt
<1>4. HandshakeInv <=> \A l \in Links : HandshakeAt(l)
  BY DEF HandshakeInv, HandshakeAt
<1>5. SentInv <=> \A l \in Links, s \in Sides : SentAt(s, l)
  BY DEF SentInv, SentAt, WroteAt, CaughtUpAt, AskedAt, HeardAt, Recovering
<1> QED BY <1>1, <1>2, <1>3, <1>4, <1>5 DEF LinkOK

\* The part of the invariant that is not about streams.
BaseInv == TypeOK /\ PhaseInv /\ LinkInv /\ ReaderInv

LEMMA SessionParts == SessionInv <=> BaseInv /\ \A l \in Links : LinkOK(l)
BY LinkByLink DEF SessionInv, BaseInv

\* The same after a step.
LEMMA SessionPartsNext == BaseInv' /\ (\A l \in Links : LinkOK(l)') => SessionInv'
<1>1. BaseInv' /\ (\A l \in Links : LinkOK(l))' => SessionInv'
  BY SessionParts, PTL
<1> QED BY <1>1

\* On a link that is up and whose server end is still with a handler the
\* client has not got past its header.
LEMMA HandlerPending ==
    ASSUME BaseInv, NEW l \in Links, LinkOK(l), up[l], ~Listens("server", l)
    PROVE  /\ fd["client"] # l
           /\ ~(rlink["client"] = l /\ phase["client"] = "catchup")
           /\ rlink["client"] = l /\ phase["client"] = "header" =>
                 handler[l] = "recover" /\ net[l]["server"] # <<>>
<1>s. "server" \in Sides /\ Peer("server") = "client"
  BY DEF Sides, Peer
<1>z. l # 0
  BY ConnectionAssumption DEF Links
<1>1. /\ WroteAt("server", l) /\ CaughtUpAt("server", l)
      /\ AskedAt("server", l) /\ HeardAt("server", l)
  BY <1>s DEF LinkOK, SentAt
<1>2. ASSUME fd["client"] = l \/ (rlink["client"] = l
                                   /\ phase["client"] \in {"header", "catchup"})
      PROVE  handler[l] = "recover"
  BY <1>1, <1>2, <1>s DEF HeardAt
<1>3. ~ReadAll("server", l)
  BY <1>z DEF ReadAll, Listens
<1>4. ASSUME handler[l] = "recover", net[l]["server"] # <<>>
      PROVE  LET m == net[l]["server"][Len(net[l]["server"])]
             IN  m.type = "header"
  <2>1. net[l]["server"] \in Seq(Message)
    BY <1>s DEF BaseInv, TypeOK
  <2>2. Len(net[l]["server"]) \in 1..Len(net[l]["server"])
    BY <1>4, <2>1, Popped
  <2> QED BY <1>4, <2>2 DEF LinkOK, HandlerAt
<1>5. fd["client"] # l
  BY <1>1, <1>2, <1>3, <1>4, <1>s, MessageKinds DEF WroteAt, CaughtUp
<1>6. ~(rlink["client"] = l /\ phase["client"] = "catchup")
  BY <1>1, <1>2, <1>3, <1>4, <1>s DEF CaughtUpAt, CaughtUp
<1>7. rlink["client"] = l /\ phase["client"] = "header" =>
         handler[l] = "recover" /\ net[l]["server"] # <<>>
  BY <1>1, <1>2, <1>s, <1>z DEF AskedAt, Listens
<1> QED BY <1>5, <1>6, <1>7

\* What a step leaves alone of side t.
SameSide(t) ==
    /\ rseq'[t] = rseq[t] /\ partial'[t] = partial[t]
    /\ phase'[t] = phase[t] /\ fd'[t] = fd[t] /\ rlink'[t] = rlink[t]

\* Positions only grow.
Growing ==
    \A t \in Sides : rseq[t] <= rseq'[t] /\ wseq[t] <= wseq'[t]

\* A link stays in order when a step neither puts anything on it nor takes
\* from it, but may take it down and drop what is under way; sides that go on
\* listening on it stay where they are, and a side that writes is not on it.
LEMMA LinkKept ==
    ASSUME BaseInv, BaseInv', Growing, NEW l \in Links, LinkOK(l),
           handler'[l] = handler[l],
           up'[l] => up[l],
           \A t \in Sides : net'[l][t] = net[l][t] \/ (net'[l][t] = <<>> /\ ~up'[l]),
           \A t \in Sides : SameSide(t) \/ (~Listens(t, l)' /\ (Listens(t, l) => ~up'[l])),
           \A t \in Sides : wseq'[t] = wseq[t] \/ ~(up'[l] /\ Listens(t, l))
    PROVE  LinkOK(l)'
<1>s. "client" \in Sides /\ "server" \in Sides
  BY DEF Sides
<1>z. l # 0
  BY ConnectionAssumption DEF Links
<1>q. \A t \in Sides : net[l][t] \in Seq(Message) /\ net'[l][t] \in Seq(Message)
  BY DEF BaseInv, TypeOK
<1>e. Len(<<>>) = 0
  OBVIOUS
<1>v. \A t \in Sides : /\ rseq[t] \in Nat /\ wseq[t] \in Nat
                       /\ rseq'[t] \in Nat /\ wseq'[t] \in Nat
  BY DEF BaseInv, TypeOK
<1>k. \A t \in Sides : Listens(t, l)' => Listens(t, l) /\ SameSide(t)
  BY DEF SameSide, Listens
<1>r. \A t \in Sides : (rlink'[t] = l \/ fd'[t] = l) => Listens(t, l)'
  BY <1>z DEF Listens
<1>1. ASSUME NEW s \in Sides PROVE StreamAt(s, l)'
  <2> SUFFICES ASSUME Listens(s, l)'
               PROVE  /\ Stream(net'[l][s], rseq'[s], wseq'[Peer(s)])
                      /\ net'[l][s] # <<>> =>
                           Awaited(phase'[s], partial'[s], rseq'[s], net'[l][s][1])
    BY DEF StreamAt
  <2>1. Listens(s, l) /\ SameSide(s)
    BY <1>k
  <2>2. /\ Stream(net[l][s], rseq[s], wseq[Peer(s)])
        /\ net[l][s] # <<>> => Awaited(phase[s], partial[s], rseq[s], net[l][s][1])
    BY <2>1 DEF LinkOK, StreamAt
  <2>3. Stream(net[l][s], rseq[s], wseq'[Peer(s)])
    BY <2>2, <1>q, <1>v, PeerType, StreamGrows DEF Growing
  <2> QED BY <2>1, <2>2, <2>3, EmptyStream DEF SameSide
<1>2. ASSUME NEW s \in Sides PROVE HeaderAt(s, l)'
  <2> DEFINE p == Peer(s)
  <2>1. p \in Sides
    BY PeerType
  <2>2. ASSUME NEW i \in 1..Len(net[l][s]), net[l][s][i].type = "header"
        PROVE  /\ net[l][s][i].num \in 0..rseq'[p]
               /\ rlink'[p] = l => net[l][s][i].num = rseq'[p]
    <3>1. /\ net[l][s][i].num \in 0..rseq[p]
          /\ rlink[p] = l => net[l][s][i].num = rseq[p]
      BY <2>2 DEF LinkOK, HeaderAt
    <3>2. rseq[p] <= rseq'[p] /\ rseq[p] \in Nat /\ rseq'[p] \in Nat
      BY <2>1, <1>v DEF Growing
    <3>3. rlink'[p] = l => rlink[p] = l /\ rseq'[p] = rseq[p]
      BY <2>1, <1>k, <1>r DEF SameSide
    <3> HIDE DEF p
    <3> QED BY <3>1, <3>2, <3>3
  <2>3. CASE net'[l][s] = net[l][s]
    BY <2>2, <2>3 DEF HeaderAt
  <2>4. CASE net'[l][s] = <<>>
    BY <2>4, <1>e DEF HeaderAt
  <2> QED BY <2>3, <2>4
<1>3. HandlerAt(l)'
  <2>1. HandlerAt(l)
    BY DEF LinkOK
  <2>2. rlink'["client"] = l => rlink["client"] = l /\ phase'["client"] = phase["client"]
    BY <1>k, <1>r, <1>s DEF SameSide
  <2>3. CASE handler[l] = "request"
    <3>1. /\ net[l]["server"] \in {<<>>, <<Request>>}
          /\ net[l]["client"] = <<>>
          /\ rlink["client"] = l => phase["client"] = "response"
      BY <2>1, <2>3 DEF HandlerAt
    <3>2. net'[l]["server"] \in {<<>>, <<Request>>} /\ net'[l]["client"] = <<>>
      BY <3>1, <1>s
    <3> QED BY <2>2, <2>3, <3>1, <3>2 DEF HandlerAt
  <2>4. CASE handler[l] = "recover"
    <3>1. /\ Len(net[l]["server"]) <= 1
          /\ \A i \in 1..Len(net[l]["server"]) : net[l]["server"][i].type = "header"
          /\ net[l]["client"] \in {<<>>, <<Response>>}
          /\ rlink["client"] = l => phase["client"] \in {"response", "header"}
      BY <2>1, <2>4 DEF HandlerAt
    <3>2. /\ Len(net'[l]["server"]) <= 1
          /\ \A i \in 1..Len(net'[l]["server"]) : net'[l]["server"][i].type = "header"
      BY <3>1, <1>s, <1>e
    <3>3. net'[l]["client"] \in {<<>>, <<Response>>}
      BY <3>1, <1>s
    <3> QED BY <2>2, <2>4, <3>1, <3>2, <3>3 DEF HandlerAt
  <2> QED BY <2>3, <2>4 DEF HandlerAt
<1>4. HandshakeAt(l)'
  <2> SUFFICES ASSUME rlink'["client"] = l, phase'["client"] = "response"
               PROVE  /\ handler'[l] # "request" => net'[l]["server"] = <<>>
                      /\ Listens("server", l)' =>
                            rlink'["server"] = l /\ phase'["server"] = "header"
                      /\ up'[l] /\ handler'[l] = "recover" =>
                            net'[l]["client"] = <<Response>>
    BY DEF HandshakeAt
  <2>1. rlink["client"] = l /\ phase["client"] = "response"
    BY <1>k, <1>r, <1>s DEF SameSide
  <2>2. /\ handler[l] # "request" => net[l]["server"] = <<>>
        /\ Listens("server", l) => rlink["server"] = l /\ phase["server"] = "header"
        /\ up[l] /\ handler[l] = "recover" => net[l]["client"] = <<Response>>
    BY <2>1 DEF LinkOK, HandshakeAt
  <2> QED BY <2>2, <1>k, <1>s DEF SameSide
<1>5. ASSUME NEW s \in Sides PROVE SentAt(s, l)'
  <2> DEFINE p == Peer(s)
  <2> SUFFICES ASSUME up'[l]
               PROVE  (WroteAt(s, l) /\ CaughtUpAt(s, l) /\ AskedAt(s, l) /\ HeardAt(s, l))'
    BY DEF SentAt
  <2>1. WroteAt(s, l) /\ CaughtUpAt(s, l) /\ AskedAt(s, l) /\ HeardAt(s, l)
    BY DEF LinkOK, SentAt
  <2>2. p \in Sides /\ net'[l][s] = net[l][s]
    BY PeerType
  <2>3. ASSUME NEW t \in Sides, Listens(t, l) \/ Listens(t, l)'
        PROVE  SameSide(t) /\ wseq'[t] = wseq[t] /\ Listens(t, l) /\ Listens(t, l)'
    BY <2>3 DEF SameSide, Listens
  <2>4. ASSUME NEW t \in Sides, fd'[t] = l \/ rlink'[t] = l
        PROVE  SameSide(t) /\ wseq'[t] = wseq[t]
    BY <2>3, <2>4, <1>z DEF Listens
  <2>5. CASE Listens(s, l)
    <3>1. SameSide(s) /\ Listens(s, l)'
      BY <2>3, <2>5
    <3>2. WroteAt(s, l)'
      <4> SUFFICES ASSUME fd'[p] = l
                   PROVE  /\ net'[l][s] = <<>> => ReadAll(s, l)'
                          /\ net'[l][s] # <<>> =>
                               \/ net'[l][s][Len(net'[l][s])] = Part("last", wseq'[p])
                               \/ CaughtUp(s, net[l][s][Len(net[l][s])])'
        BY DEF WroteAt
      <4>1. fd[p] = l /\ wseq'[p] = wseq[p]
        BY <2>2, <2>4 DEF SameSide
      <4> QED BY <2>1, <2>2, <3>1, <4>1 DEF WroteAt, ReadAll, CaughtUp, SameSide
    <3>3. CaughtUpAt(s, l)'
      <4> SUFFICES ASSUME rlink'[p] = l, phase'[p] = "catchup"
                   PROVE  /\ net'[l][s] = <<>> => ReadAll(s, l)'
                          /\ net'[l][s] # <<>> => CaughtUp(s, net[l][s][Len(net[l][s])])'
        BY DEF CaughtUpAt
      <4>1. rlink[p] = l /\ phase[p] = "catchup" /\ wseq'[p] = wseq[p]
        BY <2>2, <2>4 DEF SameSide
      <4> QED BY <2>1, <2>2, <3>1, <4>1 DEF CaughtUpAt, ReadAll, CaughtUp, SameSide
    <3>4. AskedAt(s, l)'
      BY <2>1, <2>2, <2>4, <3>1 DEF AskedAt, SameSide
    <3> QED BY <3>1, <3>2, <3>3, <3>4 DEF HeardAt
  <2>6. CASE ~Listens(s, l)
    <3>1. s = "server" /\ p = "client"
      BY <2>6 DEF BaseInv, LinkInv, Sides, Peer
    <3>2. /\ fd["client"] # l
          /\ ~(rlink["client"] = l /\ phase["client"] = "catchup")
          /\ rlink["client"] = l /\ phase["client"] = "header" =>
                handler[l] = "recover" /\ net[l]["server"] # <<>>
      BY <2>6, <3>1, HandlerPending
    <3>3. SameSide("client")
      BY <1>s, <2>3 DEF BaseInv, LinkInv
    <3>4. fd'["client"] # l /\ ~(rlink'["client"] = l /\ phase'["client"] = "catchup")
      BY <3>2, <3>3 DEF SameSide
    <3>5. WroteAt(s, l)' /\ CaughtUpAt(s, l)'
      BY <3>1, <3>4 DEF WroteAt, CaughtUpAt
    <3>6. rlink'["client"] = l /\ phase'["client"] = "header" =>
             /\ handler'[l] = "recover" /\ net'[l]["server"] # <<>>
             /\ net'[l]["server"][Len(net'[l]["server"])].type = "header"
      BY <2>1, <2>2, <3>1, <3>2, <3>3 DEF SameSide, AskedAt
    <3> QED BY <3>1, <3>4, <3>5, <3>6 DEF AskedAt, HeardAt
  <2> QED BY <2>5, <2>6
<1> QED BY <1>1, <1>2, <1>3, <1>4, <1>5 DEF LinkOK

\* What the types say of the queues, positions and threads.
LEMMA Basics ==
    ASSUME BaseInv
    PROVE  /\ net \in Net
           /\ \A l \in Links, t \in Sides : net[l][t] \in Seq(Message)
           /\ \A t \in Sides : phase[t] # "idle" => rlink[t] \in Links /\ fd[t] = 0
           /\ \A t \in Sides : fd[t] # 0 =>
                 fd[t] \in Links /\ rlink[t] = 0 /\ phase[t] = "idle"
           /\ \A t \in Sides : phase[t] = "idle" => rlink[t] = 0
           /\ \A t \in Sides : /\ rseq[t] \in Nat /\ wseq[t] \in Nat
                               /\ low[t] \in Nat /\ nonce[t] \in Nat
                               /\ partial[t] \in Nat
                               /\ localBuffer[t] \in Seq(Nat)
           /\ "client" \in Sides /\ "server" \in Sides
           /\ \A l \in Links : l # 0
<1>1. /\ net \in Net
      /\ \A l \in Links, t \in Sides : net[l][t] \in Seq(Message)
  BY DEF BaseInv, TypeOK, Net
<1>2. \A t \in Sides : phase[t] # "idle" => rlink[t] \in Links /\ fd[t] = 0
  BY ConnectionAssumption DEF BaseInv, TypeOK, PhaseInv, Links
<1>3. \A t \in Sides : fd[t] # 0 => fd[t] \in Links /\ rlink[t] = 0 /\ phase[t] = "idle"
  BY ConnectionAssumption DEF BaseInv, TypeOK, PhaseInv, Links
<1>4. \A t \in Sides : phase[t] = "idle" => rlink[t] = 0
  BY DEF BaseInv, PhaseInv
<1>5. \A t \in Sides : /\ rseq[t] \in Nat /\ wseq[t] \in Nat
                       /\ low[t] \in Nat /\ nonce[t] \in Nat
                       /\ partial[t] \in Nat
                       /\ localBuffer[t] \in Seq(Nat)
  BY DEF BaseInv, TypeOK
<1>6. "client" \in Sides /\ "server" \in Sides /\ \A l \in Links : l # 0
  BY ConnectionAssumption DEF Sides, Links
<1> QED BY <1>1, <1>2, <1>3, <1>4, <1>5, <1>6

\* Readers that a step leaves alone stay in order, whatever is written.
LEMMA ReaderKept ==
    ASSUME BaseInv, TypeOK', UNCHANGED readers,
           \A t \in Sides : /\ wseq[t] <= wseq'[t] /\ wseq'[t] <= MaxPackets[t]
                            /\ low'[t] <= wseq'[t]
                            /\ fd'[t] # 0 => fd[t] # 0
    PROVE  ReaderInv' /\ Growing
<1>1. \A t \in Sides : rseq[t] \in Nat /\ wseq[t] \in Nat /\ wseq'[t] \in Nat
  BY DEF BaseInv, TypeOK
<1>2. /\ nonce' = nonce /\ localBuffer' = localBuffer
      /\ rseq' = rseq /\ partial' = partial
  BY DEF readers
<1>3. Growing
  BY <1>1, <1>2 DEF Growing
<1>4. ASSUME NEW t \in Sides
      PROVE  /\ nonce'[t] + Len(localBuffer'[t]) = rseq'[t]
             /\ \A i \in 1..Len(localBuffer'[t]) : localBuffer'[t][i] = nonce'[t] + i
             /\ fd'[t] # 0 => partial'[t] \in {0, rseq'[t] + 1}
  BY <1>2 DEF BaseInv, ReaderInv
<1>5. ASSUME NEW t \in Sides PROVE rseq'[t] <= wseq'[Peer(t)]
  <2>1. Peer(t) \in Sides /\ rseq[t] <= wseq[Peer(t)]
    BY PeerType DEF BaseInv, ReaderInv
  <2>2. wseq[Peer(t)] <= wseq'[Peer(t)]
    BY <2>1
  <2> QED BY <1>1, <1>2, <2>1, <2>2
<1> QED BY <1>3, <1>4, <1>5 DEF ReaderInv

\* A step that touches no link but to take it down or drop what is under way
\* keeps the invariant.
LEMMA QuietStep ==
    ASSUME SessionInv, TypeOK', PhaseInv', LinkInv', ReaderInv', Growing,
           UNCHANGED handler,
           \A l \in Links : up'[l] => up[l],
           \A l \in Links, t \in Sides :
              net'[l][t] = net[l][t] \/ (net'[l][t] = <<>> /\ ~up'[l]),
           \A l \in Links, t \in Sides :
              SameSide(t) \/ (~Listens(t, l)' /\ (Listens(t, l) => ~up'[l])),
           \A l \in Links, t \in Sides :
              wseq'[t] = wseq[t] \/ ~(up'[l] /\ Listens(t, l))
    PROVE  SessionInv'
<1>1. BaseInv /\ \A l \in Links : LinkOK(l)
  BY SessionParts
<1>2. BaseInv'
  BY DEF BaseInv
<1>3. ASSUME NEW l \in Links PROVE LinkOK(l)'
  BY <1>1, <1>2, <1>3, LinkKept
<1> QED BY <1>2, <1>3, SessionPartsNext

-----------------------------------------------------------------------------
(* Steps of one side that leave the links alone or give one up.            *)

\* The connection backs up a packet.
LEMMA WriteBufferedKeeps ==
    ASSUME SessionInv, TypeOK', PhaseInv', LinkInv', NEW s \in Sides, WriteBuffered(s)
    PROVE  SessionInv'
<1>b. BaseInv
  BY SessionParts
<1>1. /\ fd[s] = 0 /\ phase[s] = "idle" /\ wseq[s] < MaxPackets[s]
      /\ wseq' = [wseq EXCEPT ![s] = @ + 1]
      /\ UNCHANGED <<low, readers, fd, phase, rlink, handler, up, net>>
  BY DEF WriteBuffered, Unlocked, network
<1>2. \A t \in Sides : wseq'[t] = IF t = s THEN wseq[t] + 1 ELSE wseq[t]
  BY <1>1, <1>b DEF BaseInv, TypeOK
<1>3. ReaderInv' /\ Growing
  <2>1. \A t \in Sides : /\ wseq[t] \in Nat /\ low[t] \in Nat /\ MaxPackets[t] \in Nat
                         /\ low[t] <= wseq[t] /\ wseq[t] <= MaxPackets[t]
    BY <1>b, ConnectionAssumption DEF BaseInv, TypeOK, ReaderInv
  <2>2. \A t \in Sides : /\ wseq[t] <= wseq'[t] /\ wseq'[t] <= MaxPackets[t]
                         /\ low'[t] <= wseq'[t]
    BY <1>1, <1>2, <2>1
  <2> QED BY <1>1, <1>b, <2>2, ReaderKept
<1>4. \A t \in Sides : SameSide(t)
  BY <1>1 DEF SameSide, readers
<1>5. \A l \in Links : ~Listens(s, l)
  BY <1>1, <1>b, Basics DEF Listens
<1> QED BY <1>1, <1>2, <1>3, <1>4, <1>5, QuietStep

\* A step of side s that closes its socket, drops what it had not read, and
\* writes nothing.
LEMMA CloseKeeps ==
    ASSUME SessionInv, TypeOK', PhaseInv', LinkInv', NEW s \in Sides, fd[s] # 0,
           fd' = [fd EXCEPT ![s] = 0], up' = [up EXCEPT ![fd[s]] = FALSE],
           net' = net \/ net' = [net EXCEPT ![fd[s]][s] = <<>>],
           UNCHANGED <<wseq, low, readers, phase, rlink, handler>>
    PROVE  SessionInv'
<1>b. BaseInv
  BY SessionParts
<1>1. fd[s] \in Links /\ rlink[s] = 0
  BY <1>b, Basics
<1>2. /\ \A t \in Sides : fd'[t] = IF t = s THEN 0 ELSE fd[t]
      /\ \A l \in Links : up'[l] = IF l = fd[s] THEN FALSE ELSE up[l]
  BY <1>b DEF BaseInv, TypeOK
<1>3. ReaderInv' /\ Growing
  <2>1. \A t \in Sides : /\ wseq[t] \in Nat
                         /\ low[t] <= wseq[t] /\ wseq[t] <= MaxPackets[t]
    BY <1>b DEF BaseInv, TypeOK, ReaderInv
  <2>2. \A t \in Sides : wseq[t] <= wseq'[t]
    BY <2>1
  <2> QED BY <1>2, <1>b, <2>1, <2>2, ReaderKept
<1>4. \A t \in Sides : t # s => SameSide(t)
  BY <1>2 DEF SameSide, readers
<1>5. \A l \in Links : ~Listens(s, l)' /\ (Listens(s, l) => ~up'[l])
  BY <1>1, <1>2, <1>b, Basics DEF Listens
<1>6. \A l \in Links, t \in Sides :
         net'[l][t] = net[l][t] \/ (net'[l][t] = <<>> /\ ~up'[l])
  <2>1. net \in Net
    BY <1>b, Basics
  <2>2. \A l \in Links, t \in Sides :
           net'[l][t] = net[l][t] \/ (net'[l][t] = <<>> /\ l = fd[s])
    BY <1>1, <2>1 DEF Net
  <2> QED BY <2>2, <1>2
<1>7. \A l \in Links : up'[l] => up[l]
  BY <1>2
<1>8. \A l \in Links, t \in Sides :
         SameSide(t) \/ (~Listens(t, l)' /\ (Listens(t, l) => ~up'[l]))
  BY <1>4, <1>5
<1> QED BY <1>3, <1>6, <1>7, <1>8, QuietStep

\* A read that fails closes the socket.
LEMMA ReadFailedKeeps ==
    ASSUME SessionInv, TypeOK', PhaseInv', LinkInv', NEW s \in Sides, ReadFailed(s)
    PROVE  SessionInv'
BY CloseKeeps DEF ReadFailed, writers

\* A missed keepalive closes the socket of the client.
LEMMA ClientCloseKeeps ==
    ASSUME SessionInv, TypeOK', PhaseInv', LinkInv', ClientClose
    PROVE  SessionInv'
<1>1. "client" \in Sides
  BY DEF Sides
<1> QED BY <1>1, CloseKeeps DEF ClientClose, Discard, writers

\* A thread that gives up its new link leaves the rest as it was.
LEMMA AbandonKeeps ==
    ASSUME SessionInv, TypeOK', PhaseInv', LinkInv', NEW s \in Sides,
           phase[s] # "idle", Abandon(s, rlink[s]),
           UNCHANGED <<wseq, low, readers, fd, handler>>
    PROVE  SessionInv'
<1>b. BaseInv
  BY SessionParts
<1> DEFINE a == rlink[s]
<1>1. a \in Links /\ fd[s] = 0
  BY <1>b, Basics
<1>2. /\ up' = [up EXCEPT ![a] = FALSE]
      /\ net' = [net EXCEPT ![a][s] = <<>>]
      /\ phase' = [phase EXCEPT ![s] = "idle"]
      /\ rlink' = [rlink EXCEPT ![s] = 0]
  BY DEF Abandon, Discard
<1>a. \A l \in Links : Listens(s, l) => l = a
  BY <1>1, <1>b, Basics DEF Listens
<1> HIDE DEF a
<1>3. /\ \A t \in Sides : /\ rlink'[t] = IF t = s THEN 0 ELSE rlink[t]
                          /\ t # s => phase'[t] = phase[t]
      /\ \A l \in Links : up'[l] = IF l = a THEN FALSE ELSE up[l]
  BY <1>2, <1>b DEF BaseInv, TypeOK
<1>4. ReaderInv' /\ Growing
  <2>1. \A t \in Sides : /\ wseq[t] \in Nat
                         /\ low[t] <= wseq[t] /\ wseq[t] <= MaxPackets[t]
    BY <1>b DEF BaseInv, TypeOK, ReaderInv
  <2>2. \A t \in Sides : wseq[t] <= wseq'[t]
    BY <2>1
  <2> QED BY <1>b, <2>1, <2>2, ReaderKept
<1>5. \A t \in Sides : t # s => SameSide(t)
  BY <1>3 DEF SameSide, readers
<1>6. \A l \in Links : ~Listens(s, l)' /\ (Listens(s, l) => ~up'[l])
  BY <1>1, <1>3, <1>a DEF Listens
<1>7. \A l \in Links, t \in Sides :
         net'[l][t] = net[l][t] \/ (net'[l][t] = <<>> /\ ~up'[l])
  <2>1. net \in Net
    BY <1>b, Basics
  <2>2. \A l \in Links, t \in Sides :
           net'[l][t] = net[l][t] \/ (net'[l][t] = <<>> /\ l = a)
    BY <1>1, <1>2, <2>1 DEF Net
  <2> QED BY <2>2, <1>3
<1>8. \A l \in Links : up'[l] => up[l]
  BY <1>3
<1>9. \A l \in Links, t \in Sides :
         SameSide(t) \/ (~Listens(t, l)' /\ (Listens(t, l) => ~up'[l]))
  BY <1>5, <1>6
<1> QED BY <1>4, <1>7, <1>8, <1>9, QuietStep

\* The handshake or recover() throws.
LEMMA RecoverFailedKeeps ==
    ASSUME SessionInv, TypeOK', PhaseInv', LinkInv', NEW s \in Sides, RecoverFailed(s)
    PROVE  SessionInv'
BY AbandonKeeps DEF RecoverFailed, writers

\* The network fails.
LEMMA BreakKeeps ==
    ASSUME SessionInv, TypeOK', PhaseInv', LinkInv', NEW l \in Links, Break(l)
    PROVE  SessionInv'
<1>b. BaseInv
  BY SessionParts
<1>1. /\ UNCHANGED <<wseq, low, readers, fd, phase, rlink, handler, net>>
      /\ \A k \in Links : up'[k] => up[k]
  BY <1>b DEF Break, writers, BaseInv, TypeOK
<1>2. ReaderInv' /\ Growing
  <2>1. \A t \in Sides : /\ wseq[t] \in Nat
                         /\ low[t] <= wseq[t] /\ wseq[t] <= MaxPackets[t]
    BY <1>b DEF BaseInv, TypeOK, ReaderInv
  <2>2. \A t \in Sides : wseq[t] <= wseq'[t]
    BY <2>1, <1>1
  <2> QED BY <1>1, <1>b, <2>1, <2>2, ReaderKept
<1>3. \A t \in Sides : SameSide(t)
  BY <1>1 DEF SameSide, readers
<1> QED BY <1>1, <1>2, <1>3, QuietStep

-----------------------------------------------------------------------------
(* Writes on a socket.                                                     *)

\* One direction of a link stays in order when its reader stays where it is,
\* and its writer too, or reads on.
LEMMA DirectionKept ==
    ASSUME BaseInv, BaseInv', NEW s \in Sides, NEW l \in Links,
           StreamAt(s, l), HeaderAt(s, l), SentAt(s, l),
           net'[l][s] = net[l][s], SameSide(s),
           wseq'[Peer(s)] = wseq[Peer(s)],
           fd'[Peer(s)] = fd[Peer(s)], rlink'[Peer(s)] = rlink[Peer(s)],
           phase'[Peer(s)] = phase[Peer(s)],
           rseq[Peer(s)] <= rseq'[Peer(s)],
           rlink[Peer(s)] = l => rseq'[Peer(s)] = rseq[Peer(s)],
           up'[l] => up[l], handler'[l] = handler[l]
    PROVE  StreamAt(s, l)' /\ HeaderAt(s, l)' /\ SentAt(s, l)'
<1>1. StreamAt(s, l)'
  BY DEF StreamAt, SameSide, Listens
<1>2. HeaderAt(s, l)'
  <2>1. rseq[Peer(s)] \in Nat /\ rseq'[Peer(s)] \in Nat
    BY PeerType DEF BaseInv, TypeOK
  <2> QED BY <2>1 DEF HeaderAt
<1>3. SentAt(s, l)'
  <2> SUFFICES ASSUME up'[l]
               PROVE  (WroteAt(s, l) /\ CaughtUpAt(s, l) /\ AskedAt(s, l) /\ HeardAt(s, l))'
    BY DEF SentAt
  <2>1. WroteAt(s, l) /\ CaughtUpAt(s, l) /\ AskedAt(s, l) /\ HeardAt(s, l)
    BY DEF SentAt
  <2>2. WroteAt(s, l)'
    BY <2>1 DEF WroteAt, ReadAll, CaughtUp, SameSide
  <2>3. CaughtUpAt(s, l)'
    BY <2>1 DEF CaughtUpAt, ReadAll, CaughtUp, SameSide
  <2>4. AskedAt(s, l)'
    BY <2>1 DEF AskedAt, SameSide
  <2>5. HeardAt(s, l)'
    BY <2>1 DEF HeardAt, SameSide, Listens
  <2> QED BY <2>2, <2>3, <2>4, <2>5
<1> QED BY <1>1, <1>2, <1>3

\* A side that writes on a link that is up writes to its peer, which is past
\* the handshake.
LEMMA WriterHeard ==
    ASSUME BaseInv, NEW s \in Sides, NEW l \in Links, LinkOK(l), fd[s] = l, up[l]
    PROVE  /\ Listens(Peer(s), l)
           /\ handler[l] = "done"
           /\ ~(rlink["client"] = l /\ phase["client"] = "response")
<1>b. /\ Peer(s) \in Sides /\ s \in {"client", "server"} /\ l # 0
      /\ Peer(s) = IF s = "client" THEN "server" ELSE "client"
  BY PeerType, ConnectionAssumption DEF Links, Sides, Peer
<1>1. Listens(Peer(s), l)
  BY <1>b, HandlerPending DEF BaseInv, LinkInv
<1>2. Listens("server", l)
  BY <1>1, <1>b DEF Listens
<1>3. handler[l] = "done"
  BY <1>2 DEF BaseInv, LinkInv
<1>4. ~(rlink["client"] = l /\ phase["client"] = "response")
  BY <1>b, <1>2 DEF BaseInv, PhaseInv, LinkOK, HandshakeAt
<1> QED BY <1>1, <1>3, <1>4

\* The parts of the next packet continue the stream to the peer.
LEMMA NextParts ==
    ASSUME BaseInv, NEW s \in Sides, NEW l \in Links, LinkOK(l), fd[s] = l, up[l]
    PROVE  LET p == Peer(s)
               w == wseq[s] + 1
               f == Part("first", w)
               g == Part("last", w)
               q1 == Append(net[l][p], f)
               q2 == Append(q1, g)
           IN  /\ f \in Message /\ g \in Message
               /\ q1 \in Seq(Message) /\ q2 \in Seq(Message)
               /\ Stream(q1, rseq[p], w)
               /\ Awaited(phase[p], partial[p], rseq[p], q1[1])
               /\ Stream(q2, rseq[p], w)
               /\ Awaited(phase[p], partial[p], rseq[p], q2[1])
               /\ q2 # <<>> /\ q2[Len(q2)] = g
<1> DEFINE p == Peer(s)
           w == wseq[s] + 1
           f == Part("first", w)
           g == Part("last", w)
           q == net[l][p]
           q1 == Append(q, f)
           q2 == Append(q1, g)
           r == rseq[p]
<1>1. p \in Sides /\ Peer(p) = s /\ Listens(p, l) /\ l # 0
  BY PeerType, WriterHeard, Basics
<1>2. q \in Seq(Message) /\ wseq[s] \in Nat /\ w \in Nat /\ r \in Nat
  BY <1>1, Basics
<1>3. /\ f \in Message /\ f.type = "first" /\ f.num = w
      /\ g \in Message /\ g.type = "last" /\ g.num = w
  BY <1>2, MessageTypes, MessageKinds
<1>4. Stage(f) = 4 /\ Stage(g) = 4
  BY <1>3, StageOf
<1>5. /\ Stream(q, r, wseq[s])
      /\ q # <<>> => Awaited(phase[p], partial[p], r, q[1])
  BY <1>1 DEF LinkOK, StreamAt
<1>6. /\ q = <<>> => ReadAll(p, l)
      /\ q # <<>> => q[Len(q)] = Part("last", wseq[s]) \/ CaughtUp(p, q[Len(q)])
  BY <1>1 DEF LinkOK, SentAt, WroteAt
<1>7. Stream(q, r, w)
  <2>1. wseq[s] <= w
    BY <1>2
  <2> HIDE DEF q, r, w
  <2> QED BY <1>2, <1>5, <2>1, StreamGrows
<1>8. q # <<>> => Follows(r, q[Len(q)], f)
  <2> DEFINE m == q[Len(q)]
  <2> SUFFICES ASSUME q # <<>> PROVE Follows(r, m, f)
    OBVIOUS
  <2>1. CASE m = Part("last", wseq[s])
    <3>1. m.type = "last" /\ m.num = wseq[s]
      BY <2>1, MessageKinds
    <3> HIDE DEF m
    <3> QED BY <3>1 DEF Follows
  <2>2. CASE CaughtUp(p, m)
    <3>1. m.type = "catchup" /\ r + Len(m.packets) = wseq[s]
      BY <2>2, <1>1 DEF CaughtUp
    <3> HIDE DEF m
    <3> QED BY <3>1 DEF Follows
  <2> QED BY <1>6, <2>1, <2>2
<1>9. \A m \in Message : Later(m, f) /\ Later(m, g)
  BY <1>4, StageOf DEF Later
<1>10. Brings(f, r, w) /\ Brings(g, r, w)
  <2> HIDE DEF f, g, w
  <2> QED BY <1>2, <1>3 DEF Brings
<1>11. Follows(r, f, g)
  <2>1. g = Part("last", f.num)
    BY <1>3
  <2> HIDE DEF f, g
  <2> QED BY <1>3, <2>1 DEF Follows
<1>12. Awaited(phase[p], partial[p], r, IF q = <<>> THEN f ELSE q[1])
  <2>1. CASE q = <<>>
    <3>1. fd[p] = l /\ r = wseq[s] /\ partial[p] = 0
      BY <1>6, <2>1, <1>1 DEF ReadAll
    <3>2. phase[p] = "idle"
      BY <1>1, <3>1, Basics
    <3> QED BY <2>1, <3>1, <3>2 DEF Awaited
  <2>2. CASE q # <<>>
    BY <1>5, <2>2
  <2> QED BY <2>1, <2>2
<1> HIDE DEF f, g, q, r, w, p
<1>13. \A i \in 1..Len(q) : Later(q[i], f)
  BY <1>2, <1>9, LenProperties
<1>14. /\ q1 \in Seq(Message) /\ Stream(q1, r, w) /\ q1 # <<>> /\ q1[Len(q1)] = f
       /\ q1[1] = IF q = <<>> THEN f ELSE q[1]
  BY <1>2, <1>3, <1>7, <1>8, <1>10, <1>13, StreamAppend, AppendProperties
<1> HIDE DEF q1
<1>15. \A i \in 1..Len(q1) : Later(q1[i], g)
  BY <1>14, <1>9, LenProperties
<1>16. /\ q2 \in Seq(Message) /\ Stream(q2, r, w) /\ q2 # <<>> /\ q2[Len(q2)] = g
       /\ q2[1] = q1[1]
  BY <1>3, <1>10, <1>11, <1>14, <1>15, StreamAppend, AppendProperties
<1> HIDE DEF q2
<1>17. /\ f \in Message /\ g \in Message
       /\ q1 \in Seq(Message) /\ q2 \in Seq(Message)
       /\ Stream(q1, r, w) /\ Awaited(phase[p], partial[p], r, q1[1])
       /\ Stream(q2, r, w) /\ Awaited(phase[p], partial[p], r, q2[1])
       /\ q2 # <<>> /\ q2[Len(q2)] = g
  BY <1>3, <1>12, <1>14, <1>16
<1> QED BY <1>17 DEF p, w, f, g, q, q1, q2, r

\* What stays of the readers and of the writers' bounds in a write on a socket.
LEMMA WriteReaders ==
    ASSUME BaseInv, TypeOK', NEW s \in Sides, wseq[s] < MaxPackets[s],
           wseq' = [wseq EXCEPT ![s] = @ + 1],
           low' = [low EXCEPT ![s] = Trimmed(s)],
           UNCHANGED readers, \A t \in Sides : fd'[t] # 0 => fd[t] # 0
    PROVE  /\ ReaderInv' /\ Growing
           /\ \A t \in Sides : wseq'[t] = IF t = s THEN wseq[t] + 1 ELSE wseq[t]
<1>1. \A t \in Sides : /\ wseq'[t] = IF t = s THEN wseq[t] + 1 ELSE wseq[t]
                       /\ low'[t] = IF t = s THEN Trimmed(s) ELSE low[t]
  BY DEF BaseInv, TypeOK
<1>2. \A t \in Sides : /\ wseq[t] \in Nat /\ low[t] \in Nat /\ MaxPackets[t] \in Nat
                       /\ low[t] <= wseq[t] /\ wseq[t] <= MaxPackets[t]
  BY ConnectionAssumption DEF BaseInv, TypeOK, ReaderInv
<1>3. Trimmed(s) \in Nat /\ Trimmed(s) <= wseq[s] + 1
  BY <1>2, ConnectionAssumption DEF Trimmed
<1>4. \A t \in Sides : /\ wseq[t] <= wseq'[t] /\ wseq'[t] <= MaxPackets[t]
                       /\ low'[t] <= wseq'[t]
  BY <1>1, <1>2, <1>3
<1> QED BY <1>1, <1>4, ReaderKept

\* Two messages at the end of a queue.
LEMMA AppendTwo ==
    ASSUME NEW q \in Seq(Message), NEW a \in Message, NEW b \in Message
    PROVE  LET t == Append(Append(q, a), b) IN
           /\ t \in Seq(Message) /\ Len(q) \in Nat /\ Len(t) = Len(q) + 2
           /\ \A i \in 1..Len(q) : t[i] = q[i]
           /\ t[Len(q) + 1] = a /\ t[Len(q) + 2] = b
           /\ q \o <<a, b>> = t
<1> DEFINE u == Append(q, a)
           t == Append(u, b)
           v == q \o <<a, b>>
<1>1. /\ u \in Seq(Message) /\ Len(q) \in Nat /\ Len(u) = Len(q) + 1
      /\ \A i \in 1..Len(q) : u[i] = q[i]
      /\ u[Len(q) + 1] = a
  BY AppendProperties, LenProperties
<1>2. /\ t \in Seq(Message) /\ Len(t) = Len(u) + 1
      /\ \A i \in 1..Len(u) : t[i] = u[i]
      /\ t[Len(u) + 1] = b
  <2> HIDE DEF u
  <2> QED BY <1>1, AppendProperties
<1>3. <<a, b>> \in Seq(Message) /\ Len(<<a, b>>) = 2 /\ <<a, b>>[1] = a /\ <<a, b>>[2] = b
  OBVIOUS
<1>4. /\ v \in Seq(Message) /\ Len(v) = Len(q) + 2
      /\ \A i \in 1..(Len(q) + 2) : v[i] = IF i <= Len(q) THEN q[i] ELSE <<a, b>>[i - Len(q)]
  <2> DEFINE c == <<a, b>>
  <2> HIDE DEF c
  <2>1. c \in Seq(Message) /\ Len(c) = 2
    BY <1>3 DEF c
  <2>2. /\ q \o c \in Seq(Message) /\ Len(q \o c) = Len(q) + Len(c)
        /\ \A i \in 1..(Len(q) + Len(c)) :
              (q \o c)[i] = IF i <= Len(q) THEN q[i] ELSE c[i - Len(q)]
    BY <2>1, ConcatProperties
  <2> QED BY <2>1, <2>2 DEF c
<1> HIDE DEF u, t, v
<1>5. /\ Len(t) = Len(q) + 2
      /\ \A i \in 1..Len(q) : t[i] = q[i]
      /\ t[Len(q) + 1] = a /\ t[Len(q) + 2] = b
  BY <1>1, <1>2
<1>6. v[Len(q) + 1] = a /\ v[Len(q) + 2] = b
  <2>1. Len(q) + 1 \in 1..(Len(q) + 2) /\ Len(q) + 2 \in 1..(Len(q) + 2)
    BY <1>1
  <2>2. (Len(q) + 1) - Len(q) = 1 /\ (Len(q) + 2) - Len(q) = 2
    BY <1>1
  <2>3. ~(Len(q) + 1 <= Len(q)) /\ ~(Len(q) + 2 <= Len(q))
    BY <1>1
  <2> QED BY <1>3, <1>4, <2>1, <2>2, <2>3
<1>7. ASSUME NEW i \in 1..Len(v) PROVE v[i] = t[i]
  <2>1. CASE i \in 1..Len(q)
    BY <1>1, <1>4, <1>5, <2>1
  <2>2. CASE i = Len(q) + 1 \/ i = Len(q) + 2
    BY <1>5, <1>6, <2>2
  <2> QED BY <1>1, <1>4, <2>1, <2>2
<1>8. v = t
  BY <1>2, <1>4, <1>5, <1>7, SeqEqual
<1> QED BY <1>1, <1>2, <1>5, <1>8 DEF t, u, v

\* A write that the socket takes keeps the invariant.
LEMMA WriteSentKeeps ==
    ASSUME SessionInv, TypeOK', PhaseInv', LinkInv', NEW s \in Sides, WriteSent(s)
    PROVE  SessionInv'
<1>b. BaseInv /\ \A k \in Links : LinkOK(k)
  BY SessionParts
<1>l. PICK l \in Links : fd[s] = l
  BY <1>b, Basics DEF WriteSent
<1> DEFINE p == Peer(s)
           f == Part("first", wseq[s] + 1)
           g == Part("last", wseq[s] + 1)
           q2 == Append(Append(net[l][p], f), g)
<1>1. /\ phase[s] = "idle" /\ fd[s] # 0 /\ wseq[s] < MaxPackets[s]
      /\ net' = Put(l, s, <<f, g>>)
      /\ wseq' = [wseq EXCEPT ![s] = @ + 1]
      /\ low' = [low EXCEPT ![s] = Trimmed(s)]
      /\ UNCHANGED <<readers, fd, phase, rlink, handler, up>>
  BY <1>l DEF WriteSent, Unlocked
<1>2. l # 0 /\ p \in Sides /\ p # s /\ Peer(p) = s
  BY <1>1, <1>b, Basics, PeerType
<1>3. /\ ReaderInv' /\ Growing
      /\ \A t \in Sides : wseq'[t] = IF t = s THEN wseq[t] + 1 ELSE wseq[t]
  BY <1>1, <1>b, WriteReaders
<1>4. \A t \in Sides : SameSide(t)
  BY <1>1 DEF SameSide, readers
<1>5. \A k \in Links : Listens(s, k) => k = l
  BY <1>1, <1>b, <1>l, Basics DEF Listens
<1>6. CASE ~up[l]
  <2>1. net' = net
    BY <1>1, <1>6 DEF Put
  <2>2. \A k \in Links, t \in Sides : wseq'[t] = wseq[t] \/ ~(up'[k] /\ Listens(t, k))
    BY <1>1, <1>3, <1>5, <1>6
  <2> QED BY <1>1, <1>3, <1>4, <2>1, <2>2, QuietStep
<1>7. CASE up[l]
  <2>1. BaseInv'
    BY <1>3 DEF BaseInv
  <2>2. /\ f \in Message /\ g \in Message /\ q2 \in Seq(Message)
        /\ Stream(q2, rseq[p], wseq[s] + 1)
        /\ Awaited(phase[p], partial[p], rseq[p], q2[1])
        /\ q2 # <<>> /\ q2[Len(q2)] = g
    BY <1>b, <1>2, <1>7, <1>l, NextParts
  <2>3. net[l][p] \in Seq(Message) /\ net \in Net
    BY <1>b, <1>2, Basics
  <2>4. net' = [net EXCEPT ![l][p] = q2]
    <3>1. net[l][p] \o <<f, g>> = q2
      <4> DEFINE c == net[l][p]
      <4>1. c \in Seq(Message) /\ f \in Message /\ g \in Message
        BY <2>2, <2>3
      <4>2. q2 = Append(Append(c, f), g)
        OBVIOUS
      <4> HIDE DEF c, f, g, q2
      <4>3. c \o <<f, g>> = Append(Append(c, f), g)
        BY <4>1, AppendTwo
      <4> QED BY <4>2, <4>3 DEF c
    <3>2. net' = [net EXCEPT ![l][p] = net[l][p] \o <<f, g>>]
      BY <1>1, <1>7 DEF Put
    <3> QED BY <3>1, <3>2
  <2>q. \A i \in 1..Len(q2) : q2[i].type = "header" =>
           i \in 1..Len(net[l][p]) /\ net[l][p][i] = q2[i]
    <3>1. /\ Len(net[l][p]) \in Nat /\ Len(q2) = Len(net[l][p]) + 2
          /\ \A i \in 1..Len(net[l][p]) : q2[i] = net[l][p][i]
          /\ q2[Len(net[l][p]) + 1] = f /\ q2[Len(net[l][p]) + 2] = g
      BY <2>2, <2>3, AppendTwo
    <3>2. f.type # "header" /\ g.type # "header"
      BY MessageKinds
    <3> HIDE DEF q2, f, g
    <3>3. ASSUME NEW i \in 1..Len(q2), q2[i].type = "header"
          PROVE  i \in 1..Len(net[l][p])
      <4>1. i \in 1..Len(net[l][p]) \/ i = Len(net[l][p]) + 1 \/ i = Len(net[l][p]) + 2
        BY ONLY <3>1, i \in 1..Len(q2)
      <4> QED BY <3>1, <3>2, <3>3, <4>1, Zenon
    <3> QED BY <3>1, <3>3, Zenon
  <2>g. g = Part("last", wseq'[s])
    BY <1>2, <1>3
  <2> HIDE DEF q2, p
  <2>5. \A k \in Links, t \in Sides :
           net'[k][t] = IF k = l /\ t = p THEN q2 ELSE net[k][t]
    BY <1>2, <2>3, <2>4 DEF Net
  <2>6. ASSUME NEW k \in Links, k # l PROVE LinkOK(k)'
    <3>1. \A t \in Sides : wseq'[t] = wseq[t] \/ ~Listens(t, k)
      BY <1>3, <1>5, <2>6
    <3> QED BY <1>1, <1>3, <1>4, <1>b, <2>1, <2>5, <2>6, <3>1, LinkKept
  <2>7. LinkOK(l)'
    <3>1. /\ Listens(p, l) /\ handler[l] = "done"
          /\ ~(rlink["client"] = l /\ phase["client"] = "response")
      BY <1>2, <1>7, <1>b, <1>l, WriterHeard DEF p
    <3>2. StreamAt(s, l)' /\ HeaderAt(s, l)' /\ SentAt(s, l)'
      <4>1. StreamAt(s, l) /\ HeaderAt(s, l) /\ SentAt(s, l)
        BY <1>2, <1>b DEF LinkOK
      <4>2. net'[l][s] = net[l][s] /\ SameSide(s) /\ wseq'[p] = wseq[p]
        BY <1>2, <1>3, <1>4, <2>5
      <4>3. rseq'[p] = rseq[p] /\ rseq[p] <= rseq'[p]
        BY <1>2, <1>3, <1>4 DEF SameSide, Growing
      <4> QED BY <1>1, <1>2, <1>b, <2>1, <4>1, <4>2, <4>3, DirectionKept DEF p
    <3>3. StreamAt(p, l)'
      BY <1>1, <1>2, <1>3, <2>2, <2>5 DEF StreamAt, readers
    <3>4. HeaderAt(p, l)'
      <4>1. HeaderAt(p, l)
        BY <1>2, <1>b DEF LinkOK
      <4>2. net'[l][p] = q2 /\ rseq' = rseq /\ rlink' = rlink
        BY <1>1, <1>2, <2>5 DEF readers
      <4>3. ASSUME NEW i \in 1..Len(q2), q2[i].type = "header"
            PROVE  /\ q2[i].num \in 0..rseq[Peer(p)]
                   /\ rlink[Peer(p)] = l => q2[i].num = rseq[Peer(p)]
        BY <2>q, <4>1, <4>3 DEF HeaderAt
      <4> QED BY <4>2, <4>3 DEF HeaderAt
    <3>5. SentAt(p, l)'
      <4>1. rlink'[s] # l /\ Listens(p, l)'
        BY <1>1, <1>2, <1>b, <3>1, Basics DEF Listens
      <4>2. WroteAt(p, l)'
        BY <1>2, <2>2, <2>5, <2>g DEF WroteAt
      <4> QED BY <1>2, <4>1, <4>2 DEF SentAt, CaughtUpAt, AskedAt, HeardAt
    <3>6. HandlerAt(l)' /\ HandshakeAt(l)'
      BY <1>1, <3>1 DEF HandlerAt, HandshakeAt
    <3>7. \A t \in Sides : t = s \/ t = p
      BY <1>2 DEF Sides
    <3> QED BY <3>2, <3>3, <3>4, <3>5, <3>6, <3>7 DEF LinkOK
  <2> QED BY <2>1, <2>6, <2>7, SessionPartsNext
<1> QED BY <1>6, <1>7

\* A write that fails, after none or half of the packet went out, closes the
\* socket and keeps the invariant.
LEMMA WriteFailedKeeps ==
    ASSUME SessionInv, TypeOK', PhaseInv', LinkInv', NEW s \in Sides, WriteFailed(s)
    PROVE  SessionInv'
<1>b. BaseInv /\ \A k \in Links : LinkOK(k)
  BY SessionParts
<1>l. PICK l \in Links : fd[s] = l
  BY <1>b, Basics DEF WriteFailed
<1> DEFINE p == Peer(s)
           f == Part("first", wseq[s] + 1)
           q1 == Append(net[l][p], f)
<1>1. /\ phase[s] = "idle" /\ fd[s] # 0 /\ wseq[s] < MaxPackets[s]
      /\ wseq' = [wseq EXCEPT ![s] = @ + 1]
      /\ low' = [low EXCEPT ![s] = Trimmed(s)]
      /\ up' = [up EXCEPT ![l] = FALSE]
      /\ fd' = [fd EXCEPT ![s] = 0]
      /\ UNCHANGED <<readers, phase, rlink, handler>>
  BY <1>l DEF WriteFailed, Unlocked
<1>2. l # 0 /\ p \in Sides /\ p # s /\ Peer(p) = s /\ net \in Net /\ rlink[s] = 0
  BY <1>1, <1>b, Basics, PeerType
<1>3. /\ \A t \in Sides : fd'[t] = IF t = s THEN 0 ELSE fd[t]
      /\ \A k \in Links : up'[k] = IF k = l THEN FALSE ELSE up[k]
  BY <1>1, <1>b DEF BaseInv, TypeOK
<1>4. /\ ReaderInv' /\ Growing
      /\ \A t \in Sides : wseq'[t] = IF t = s THEN wseq[t] + 1 ELSE wseq[t]
  BY <1>1, <1>3, <1>b, WriteReaders
<1>5. \A t \in Sides : t # s => SameSide(t)
  BY <1>1, <1>3 DEF SameSide, readers
<1>6. \A k \in Links : ~Listens(s, k)' /\ (Listens(s, k) => k = l)
  BY <1>1, <1>2, <1>3, <1>l DEF Listens
<1>7. \/ net' = [net EXCEPT ![l][s] = <<>>]
      \/ up[l] /\ net' = [[net EXCEPT ![l][p] = q1] EXCEPT ![l][s] = <<>>]
  <2>1. PICK taken \in {<<>>, <<f>>} : net' = Discard(Put(l, s, taken), l, s)
    BY <1>l DEF WriteFailed
  <2>2. net[l][p] \in Seq(Message)
    BY <1>2, <1>b, Basics
  <2>3. f \in Message
    BY <1>b, Basics, MessageTypes
  <2>4. /\ net[l][p] \o <<>> = net[l][p]
        /\ net[l][p] \o <<f>> = q1
    <3> HIDE DEF f
    <3> QED BY <2>2, <2>3, ConcatEmptySeq, AppendIsConcat
  <2>5. CASE ~up[l]
    BY <2>1, <2>5 DEF Put, Discard
  <2>6. CASE up[l] /\ taken = <<>>
    <3>1. net' = [[net EXCEPT ![l][p] = net[l][p]] EXCEPT ![l][s] = <<>>]
      BY <2>1, <2>4, <2>6 DEF Put, Discard
    <3>2. [net EXCEPT ![l][p] = net[l][p]] = net
      BY <1>2 DEF Net
    <3> QED BY <3>1, <3>2
  <2>7. CASE up[l] /\ taken = <<f>>
    <3>1. net' = [[net EXCEPT ![l][p] = net[l][p] \o <<f>>] EXCEPT ![l][s] = <<>>]
      BY <2>1, <2>7 DEF Put, Discard
    <3> HIDE DEF f, q1, p
    <3> QED BY <2>4, <2>7, <3>1
  <2> QED BY <2>1, <2>5, <2>6, <2>7
<1>8. \A k \in Links, t \in Sides : wseq'[t] = wseq[t] \/ ~(up'[k] /\ Listens(t, k))
  BY <1>3, <1>4, <1>6
<1>9. \A k \in Links, t \in Sides :
         SameSide(t) \/ (~Listens(t, k)' /\ (Listens(t, k) => ~up'[k]))
  BY <1>3, <1>5, <1>6
<1> HIDE DEF q1, f, p
<1>10. CASE net' = [net EXCEPT ![l][s] = <<>>]
  <2>1. \A k \in Links, t \in Sides :
           net'[k][t] = net[k][t] \/ (net'[k][t] = <<>> /\ k = l)
    BY <1>2, <1>10 DEF Net
  <2>2. \A k \in Links, t \in Sides :
           net'[k][t] = net[k][t] \/ (net'[k][t] = <<>> /\ ~up'[k])
    BY <2>1, <1>3
  <2> QED BY <1>1, <1>3, <1>4, <1>8, <1>9, <2>2, QuietStep
<1>11. CASE up[l] /\ net' = [[net EXCEPT ![l][p] = q1] EXCEPT ![l][s] = <<>>]
  <2>1. BaseInv'
    BY <1>4 DEF BaseInv
  <2>2. \A k \in Links, t \in Sides :
           net'[k][t] = IF k = l THEN IF t = s THEN <<>> ELSE q1 ELSE net[k][t]
    <3>1. \A t \in Sides : t = s \/ t = p
      BY <1>2 DEF Sides
    <3> QED BY <1>2, <1>11, <3>1 DEF Net
  <2>3. ASSUME NEW k \in Links, k # l PROVE LinkOK(k)'
    <3>1. handler'[k] = handler[k] /\ (up'[k] => up[k])
      BY <1>1, <1>3
    <3> QED BY <1>4, <1>8, <1>9, <1>b, <2>1, <2>2, <2>3, <3>1, LinkKept
  <2>4. LinkOK(l)'
    <3>1. /\ Listens(p, l) /\ handler[l] = "done"
          /\ ~(rlink["client"] = l /\ phase["client"] = "response")
      BY <1>11, <1>b, <1>l, WriterHeard DEF p
    <3>2. /\ f \in Message
          /\ Stream(q1, rseq[p], wseq[s] + 1)
          /\ Awaited(phase[p], partial[p], rseq[p], q1[1])
      BY <1>11, <1>b, <1>l, NextParts DEF p, q1, f
    <3>3. StreamAt(s, l)' /\ HeaderAt(s, l)'
      BY <1>6, <2>2 DEF StreamAt, HeaderAt
    <3>4. StreamAt(p, l)'
      BY <1>1, <1>2, <1>4, <2>2, <3>2 DEF StreamAt, readers
    <3>5. HeaderAt(p, l)'
      <4>1. HeaderAt(p, l) /\ net[l][p] \in Seq(Message)
        BY <1>2, <1>b, Basics DEF LinkOK
      <4>2. net'[l][p] = q1 /\ rseq' = rseq /\ rlink' = rlink
        BY <1>1, <1>2, <2>2 DEF readers
      <4>3. /\ Len(q1) = Len(net[l][p]) + 1 /\ Len(net[l][p]) \in Nat
            /\ \A i \in 1..Len(net[l][p]) : q1[i] = net[l][p][i]
            /\ q1[Len(net[l][p]) + 1] = f
        BY <3>2, <4>1, AppendProperties, LenProperties DEF q1
      <4>4. f.type # "header"
        BY MessageKinds DEF f
      <4>5. ASSUME NEW i \in 1..Len(q1), q1[i].type = "header"
            PROVE  /\ q1[i].num \in 0..rseq[Peer(p)]
                   /\ rlink[Peer(p)] = l => q1[i].num = rseq[Peer(p)]
        <5>1. i \in 1..Len(net[l][p]) /\ q1[i] = net[l][p][i]
          BY <4>3, <4>4, <4>5
        <5> QED BY <4>1, <4>5, <5>1 DEF HeaderAt
      <4> QED BY <4>2, <4>5 DEF HeaderAt
    <3>6. SentAt(s, l)' /\ SentAt(p, l)'
      BY <1>3 DEF SentAt
    <3>7. HandlerAt(l)' /\ HandshakeAt(l)'
      BY <1>1, <3>1 DEF HandlerAt, HandshakeAt
    <3>8. \A t \in Sides : t = s \/ t = p
      BY <1>2 DEF Sides
    <3> QED BY <3>3, <3>4, <3>5, <3>6, <3>7, <3>8 DEF LinkOK
  <2> QED BY <2>1, <2>3, <2>4, SessionPartsNext
<1> QED BY <1>7, <1>10, <1>11

-----------------------------------------------------------------------------
(* Reads.                                                                  *)

\* A step that moves the reader of side s alone keeps the readers in order when
\* it does so there.
LEMMA ReaderMoves ==
    ASSUME BaseInv, NEW s \in Sides, UNCHANGED <<wseq, low>>,
           nonce'[s] + Len(localBuffer'[s]) = rseq'[s],
           \A i \in 1..Len(localBuffer'[s]) : localBuffer'[s][i] = nonce'[s] + i,
           rseq[s] <= rseq'[s],
           rseq'[s] <= wseq[Peer(s)],
           fd'[s] # 0 => partial'[s] \in {0, rseq'[s] + 1},
           \A t \in Sides : t # s =>
              /\ nonce'[t] = nonce[t] /\ localBuffer'[t] = localBuffer[t]
              /\ rseq'[t] = rseq[t] /\ partial'[t] = partial[t]
              /\ fd'[t] # 0 => fd[t] # 0
    PROVE  ReaderInv' /\ Growing
<1>1. Growing
  <2>1. \A t \in Sides : rseq[t] \in Nat /\ wseq[t] \in Nat
    BY DEF BaseInv, TypeOK
  <2>2. \A t \in Sides : rseq[t] <= rseq'[t] /\ wseq[t] <= wseq'[t]
    BY <2>1
  <2> QED BY <2>2 DEF Growing
<1>2. ASSUME NEW t \in Sides
      PROVE  /\ nonce'[t] + Len(localBuffer'[t]) = rseq'[t]
             /\ \A i \in 1..Len(localBuffer'[t]) : localBuffer'[t][i] = nonce'[t] + i
             /\ rseq'[t] <= wseq'[Peer(t)]
             /\ fd'[t] # 0 => partial'[t] \in {0, rseq'[t] + 1}
  <2>1. CASE t = s
    BY <2>1
  <2>2. CASE t # s
    <3>1. /\ nonce[t] + Len(localBuffer[t]) = rseq[t]
          /\ \A i \in 1..Len(localBuffer[t]) : localBuffer[t][i] = nonce[t] + i
          /\ rseq[t] <= wseq[Peer(t)]
          /\ fd[t] # 0 => partial[t] \in {0, rseq[t] + 1}
      BY DEF BaseInv, ReaderInv
    <3>2. /\ nonce'[t] = nonce[t] /\ localBuffer'[t] = localBuffer[t]
          /\ rseq'[t] = rseq[t] /\ partial'[t] = partial[t]
          /\ fd'[t] # 0 => fd[t] # 0
      BY <2>2
    <3> QED BY <3>1, <3>2
  <2> QED BY <2>1, <2>2
<1>3. \A t \in Sides : low'[t] <= wseq'[t] /\ wseq'[t] <= MaxPackets[t]
  BY DEF BaseInv, ReaderInv
<1> QED BY <1>1, <1>2, <1>3 DEF ReaderInv

\* The packet that localBuffer hands out is the next one.
LEMMA ReadLocalKeeps ==
    ASSUME SessionInv, TypeOK', PhaseInv', LinkInv', NEW s \in Sides, ReadLocal(s)
    PROVE  SessionInv' /\ Head(localBuffer[s]) = nonce[s] + 1
<1>b. BaseInv /\ \A k \in Links : LinkOK(k)
  BY SessionParts
<1> DEFINE b == localBuffer[s]
<1>1. /\ b # <<>> /\ b \in Seq(Nat) /\ nonce[s] \in Nat /\ rseq[s] \in Nat
      /\ Len(b) \in Nat \ {0}
  BY <1>b, Basics, EmptySeq DEF ReadLocal
<1>2. /\ nonce[s] + Len(b) = rseq[s]
      /\ \A i \in 1..Len(b) : b[i] = nonce[s] + i
  BY <1>b DEF BaseInv, ReaderInv
<1>3. /\ Head(b) = b[1] /\ Tail(b) \in Seq(Nat) /\ Len(Tail(b)) = Len(b) - 1
      /\ \A i \in 1..Len(Tail(b)) : Tail(b)[i] = b[i + 1]
  BY <1>1, HeadTailProperties
<1>4. Head(b) = nonce[s] + 1
  BY <1>1, <1>2, <1>3
<1>5. /\ localBuffer' = [localBuffer EXCEPT ![s] = Tail(b)]
      /\ nonce' = [nonce EXCEPT ![s] = nonce[s] + 1]
      /\ UNCHANGED <<wseq, low, rseq, partial, fd, phase, rlink, handler, up, net>>
  BY <1>4 DEF ReadLocal, Decrypt, writers, network
<1>6. /\ localBuffer'[s] = Tail(b) /\ nonce'[s] = nonce[s] + 1
      /\ \A t \in Sides : t # s => localBuffer'[t] = localBuffer[t] /\ nonce'[t] = nonce[t]
  BY <1>5, <1>b DEF BaseInv, TypeOK
<1>7. /\ nonce'[s] + Len(localBuffer'[s]) = rseq'[s]
      /\ \A i \in 1..Len(localBuffer'[s]) : localBuffer'[s][i] = nonce'[s] + i
  <2> HIDE DEF b
  <2>1. /\ (nonce[s] + 1) + Len(Tail(b)) = rseq[s]
        /\ \A i \in 1..Len(Tail(b)) : Tail(b)[i] = (nonce[s] + 1) + i
    BY <1>1, <1>2, <1>3
  <2> QED BY <1>5, <1>6, <2>1
<1>8. ReaderInv' /\ Growing
  <2>1. /\ rseq[s] <= rseq'[s] /\ rseq'[s] <= wseq[Peer(s)]
        /\ fd'[s] # 0 => partial'[s] \in {0, rseq'[s] + 1}
    BY <1>1, <1>5, <1>b DEF BaseInv, ReaderInv
  <2> QED BY <1>5, <1>6, <1>7, <1>b, <2>1, ReaderMoves
<1>9. \A t \in Sides : SameSide(t)
  BY <1>5 DEF SameSide
<1> QED BY <1>4, <1>5, <1>8, <1>9, QuietStep DEF b

\* The last message of a queue whose head is read.
LEMMA PoppedLast ==
    ASSUME NEW q \in Seq(Message), q # <<>>
    PROVE  /\ Tail(q) # <<>> => Len(q) > 1 /\ Tail(q)[Len(Tail(q))] = q[Len(q)]
           /\ Tail(q) = <<>> => q[Len(q)] = q[1]
<1> DEFINE t == Tail(q)
<1>1. /\ Len(q) \in Nat \ {0} /\ Len(t) = Len(q) - 1
      /\ \A i \in 1..(Len(q) - 1) : t[i] = q[i + 1]
      /\ t = <<>> <=> Len(q) = 1
  BY Popped
<1> HIDE DEF t
<1>2. t # <<>> => Len(q) > 1 /\ t[Len(t)] = q[Len(q)]
  BY <1>1
<1>3. t = <<>> => q[Len(q)] = q[1]
  BY <1>1
<1> QED BY <1>2, <1>3 DEF t

\* Reading the head of a queue leaves the headers behind it as they are.
LEMMA HeaderPopped ==
    ASSUME BaseInv, NEW s \in Sides, NEW l \in Links, HeaderAt(s, l),
           net[l][s] # <<>>, net'[l][s] = Tail(net[l][s]),
           rseq'[Peer(s)] = rseq[Peer(s)], rlink'[Peer(s)] = rlink[Peer(s)]
    PROVE  HeaderAt(s, l)'
<1> DEFINE q == net[l][s]
           t == Tail(q)
<1>1. q \in Seq(Message)
  BY Basics
<1>2. /\ Len(q) \in Nat \ {0} /\ Len(t) = Len(q) - 1
      /\ \A i \in 1..(Len(q) - 1) : t[i] = q[i + 1]
  BY <1>1, Popped
<1>3. ASSUME NEW i \in 1..Len(q), q[i].type = "header"
      PROVE  /\ q[i].num \in 0..rseq[Peer(s)]
             /\ rlink[Peer(s)] = l => q[i].num = rseq[Peer(s)]
  BY <1>3 DEF HeaderAt
<1>4. net'[l][s] = t
  OBVIOUS
<1> HIDE DEF q, t
<1>5. ASSUME NEW i \in 1..Len(t), t[i].type = "header"
      PROVE  /\ t[i].num \in 0..rseq[Peer(s)]
             /\ rlink[Peer(s)] = l => t[i].num = rseq[Peer(s)]
  <2>1. i + 1 \in 1..Len(q) /\ t[i] = q[i + 1]
    BY <1>2
  <2> QED BY <1>3, <1>5, <2>1
<1> QED BY <1>4, <1>5 DEF HeaderAt

\* What a side with a socket reads next is the first part of the next packet,
\* or the last part when it has the first.
LEMMA SocketHead ==
    ASSUME BaseInv, NEW s \in Sides, NEW l \in Links, LinkOK(l), fd[s] = l,
           net[l][s] # <<>>
    PROVE  LET m == net[l][s][1]
               n == rseq[s] + 1
           IN  /\ \/ m.type = "first" /\ m.num = n /\ partial[s] = 0
                  \/ m.type = "last" /\ m.num = n /\ partial[s] = n
               /\ m \in Message /\ Stage(m) = 4
               /\ Stream(net[l][s], rseq[s], wseq[Peer(s)])
               /\ n <= wseq[Peer(s)]
               /\ handler[l] \notin {"request", "recover"}
<1> DEFINE m == net[l][s][1]
           n == rseq[s] + 1
           q == net[l][s]
<1>1. /\ l # 0 /\ rlink[s] = 0 /\ phase[s] = "idle" /\ q \in Seq(Message)
      /\ rseq[s] \in Nat /\ partial[s] \in {0, n}
  BY Basics DEF BaseInv, ReaderInv
<1>2. Stream(q, rseq[s], wseq[Peer(s)]) /\ Awaited("idle", partial[s], rseq[s], m)
  BY <1>1 DEF LinkOK, StreamAt, Listens
<1>3. m = IF partial[s] = 0 THEN Part("first", n) ELSE Part("last", n)
  BY <1>2 DEF Awaited
<1>4. \/ m.type = "first" /\ m.num = n /\ partial[s] = 0
      \/ m.type = "last" /\ m.num = n /\ partial[s] = n
  BY <1>1, <1>3, MessageKinds
<1>5. m \in Message /\ 1 \in 1..Len(q)
  BY <1>1, Popped
<1>6. Stage(m) = 4
  BY <1>4, <1>5, StageOf
<1>7. n <= wseq[Peer(s)]
  <2>1. Brings(m, rseq[s], wseq[Peer(s)])
    BY <1>2, <1>5 DEF Stream
  <2> HIDE DEF m, n
  <2> QED BY <1>4, <2>1 DEF Brings
<1>8. handler[l] \notin {"request", "recover"}
  <2>1. CASE s = "server"
    BY <1>1, <2>1 DEF BaseInv, LinkInv, Listens
  <2>2. CASE s = "client"
    <3>1. handler[l] # "request"
      BY <2>2 DEF LinkOK, HandlerAt
    <3>2. ASSUME handler[l] = "recover" PROVE FALSE
      <4>1. q = <<Response>>
        BY <2>2, <3>2 DEF LinkOK, HandlerAt
      <4>2. m = Response
        BY <4>1
      <4> QED BY <1>4, <4>2, MessageKinds
    <3> QED BY <3>1, <3>2
  <2> QED BY <2>1, <2>2 DEF Sides
<1> QED BY <1>2, <1>4, <1>5, <1>6, <1>7, <1>8

\* What a read takes from the socket continues the partial message or begins
\* the next one, so it decrypts, and the rest of the stream follows.
LEMMA ReadSocketKeeps ==
    ASSUME SessionInv, TypeOK', PhaseInv', LinkInv', NEW s \in Sides, ReadSocket(s)
    PROVE  /\ SessionInv' /\ process' = process
           /\ \/ nonce' = nonce
              \/ nonce' = [nonce EXCEPT ![s] = @ + 1] /\ nonce[s] < wseq[Peer(s)]
<1>b. BaseInv /\ \A k \in Links : LinkOK(k)
  BY SessionParts
<1>l. PICK l \in Links : fd[s] = l
  BY <1>b, Basics DEF ReadSocket
<1> DEFINE p == Peer(s)
           q == net[l][s]
           m == q[1]
           t == Tail(q)
           n == rseq[s] + 1
<1>1. /\ phase[s] = "idle" /\ l # 0 /\ localBuffer[s] = <<>> /\ q # <<>>
      /\ net' = [net EXCEPT ![l][s] = t]
      /\ UNCHANGED <<wseq, low, localBuffer, fd, phase, rlink, handler, up>>
  BY <1>l DEF ReadSocket, Unlocked, Arrived, writers
<1>2. /\ p \in Sides /\ p # s /\ Peer(p) = s /\ rlink[s] = 0
      /\ net \in Net /\ q \in Seq(Message) /\ rseq[s] \in Nat /\ wseq[p] \in Nat
      /\ \A k \in Links : Listens(s, k) <=> k = l
  BY <1>b, <1>l, Basics, PeerType DEF Listens
<1>3. /\ \/ m.type = "first" /\ m.num = n /\ partial[s] = 0
         \/ m.type = "last" /\ m.num = n /\ partial[s] = n
      /\ m \in Message /\ Stage(m) = 4
      /\ Stream(q, rseq[s], wseq[p])
      /\ n <= wseq[p]
      /\ handler[l] \notin {"request", "recover"}
  BY <1>1, <1>b, <1>l, SocketHead
<1>4. Head(q) = m /\ t \in Seq(Message)
  BY <1>1, <1>2, Popped
<1>t. Stream(t, n, wseq[p]) /\ (Len(q) > 1 => Stage(q[Len(q)]) = 4)
  <2> HIDE DEF q, n, p
  <2> QED BY <1>1, <1>2, <1>3, StreamOfParts
<1>5. nonce[s] = rseq[s] /\ Len(localBuffer[s]) = 0
  BY <1>1, <1>2, <1>b, Basics DEF BaseInv, ReaderInv
<1>6. \/ /\ m.type = "first" /\ partial[s] = 0
         /\ partial' = [partial EXCEPT ![s] = n]
         /\ UNCHANGED <<rseq, nonce, process>>
      \/ /\ m.type = "last" /\ partial[s] = n
         /\ partial' = [partial EXCEPT ![s] = 0]
         /\ rseq' = [rseq EXCEPT ![s] = n]
         /\ nonce' = [nonce EXCEPT ![s] = n]
         /\ process' = process
  <2>1. Head(net[fd[s]][s]) = m
    BY <1>4, <1>l
  <2>2. CASE m.type = "first" /\ m.num = n /\ partial[s] = 0
    BY <2>1, <2>2 DEF ReadSocket
  <2>3. CASE m.type = "last" /\ m.num = n /\ partial[s] = n
    <3>1. m.num = nonce[s] + 1
      BY <1>5, <2>3
    <3> QED BY <2>1, <2>3, <3>1, <1>5 DEF ReadSocket, Decrypt
  <2> QED BY <1>3, <2>2, <2>3
<1>7. /\ rseq'[s] = IF m.type = "last" THEN n ELSE rseq[s]
      /\ nonce'[s] = rseq'[s]
      /\ partial'[s] = IF m.type = "last" THEN 0 ELSE n
      /\ \A u \in Sides : u # s =>
            rseq'[u] = rseq[u] /\ nonce'[u] = nonce[u] /\ partial'[u] = partial[u]
  <2>1. rseq \in [Sides -> Nat] /\ nonce \in [Sides -> Nat] /\ partial \in [Sides -> Nat]
    BY <1>b DEF BaseInv, TypeOK
  <2> HIDE DEF n, m
  <2> QED BY <1>5, <1>6, <2>1
<1>8. rseq'[s] \in Nat /\ rseq[s] <= rseq'[s] /\ rseq'[s] <= wseq[p]
  BY <1>2, <1>3, <1>7
<1>9. ReaderInv' /\ Growing
  <2>1. /\ nonce'[s] + Len(localBuffer'[s]) = rseq'[s]
        /\ \A i \in 1..Len(localBuffer'[s]) : localBuffer'[s][i] = nonce'[s] + i
    BY <1>1, <1>5, <1>7, <1>8
  <2>2. partial'[s] \in {0, rseq'[s] + 1}
    BY <1>7
  <2> QED BY <1>1, <1>7, <1>8, <1>b, <2>1, <2>2, ReaderMoves
<1>10. BaseInv'
  BY <1>9 DEF BaseInv
<1>11. SameSide(p)
  BY <1>1, <1>2, <1>7 DEF SameSide
<1>12. \A u \in Sides : u = s \/ u = p
  BY <1>2 DEF Sides
<1>13. \A k \in Links, u \in Sides : net'[k][u] = IF k = l /\ u = s THEN t ELSE net[k][u]
  <2> HIDE DEF t, q
  <2> QED BY <1>1, <1>2 DEF Net
<1>14. ASSUME NEW k \in Links, k # l PROVE LinkOK(k)'
  <2>1. \A u \in Sides : SameSide(u) \/ (~Listens(u, k)' /\ ~Listens(u, k))
    BY <1>1, <1>2, <1>11, <1>12, <1>14 DEF Listens
  <2> QED BY <1>1, <1>9, <1>10, <1>13, <1>14, <1>b, <2>1, LinkKept
<1>15. LinkOK(l)'
  <2>1. StreamAt(p, l)' /\ HeaderAt(p, l)' /\ SentAt(p, l)'
    <3>1. StreamAt(p, l) /\ HeaderAt(p, l) /\ SentAt(p, l)
      BY <1>2, <1>b DEF LinkOK
    <3>2. net'[l][p] = net[l][p] /\ rlink[s] # l
      BY <1>1, <1>2, <1>13
    <3> HIDE DEF p
    <3> QED BY <1>1, <1>2, <1>8, <1>10, <1>11, <1>b, <3>1, <3>2, DirectionKept
  <2>2. StreamAt(s, l)'
    <3>1. /\ Stream(t, rseq[s], wseq[p])
          /\ t # <<>> => Follows(rseq[s], m, t[1])
      BY <1>1, <1>2, <1>3, StreamTail
    <3>2. Stream(t, n, wseq[p])
      BY <1>t
    <3>3. m.type = "last" => (t # <<>> => t[1] = Part("first", n + 1))
      BY <1>3, <3>1 DEF Follows
    <3>4. m.type = "first" => (t # <<>> => t[1] = Part("last", n))
      BY <1>3, <3>1 DEF Follows
    <3>5. n # 0
      BY <1>2
    <3>6. phase'[s] = "idle" /\ net'[l][s] = t /\ wseq'[p] = wseq[p]
      BY <1>1, <1>2, <1>13
    <3>7. Stream(t, rseq'[s], wseq[p])
      BY <3>1, <3>2, <1>7
    <3>8. t # <<>> => Awaited("idle", partial'[s], rseq'[s], t[1])
      <4>1. CASE m.type = "last"
        BY <1>7, <3>3, <4>1 DEF Awaited
      <4>2. CASE m.type = "first"
        BY <1>7, <3>4, <3>5, <4>2 DEF Awaited
      <4> QED BY <1>3, <4>1, <4>2
    <3> QED BY <3>6, <3>7, <3>8 DEF StreamAt
  <2>3. HeaderAt(s, l)'
    <3>1. HeaderAt(s, l)
      BY <1>b DEF LinkOK
    <3> QED BY <1>1, <1>2, <1>11, <1>13, <1>b, <3>1, HeaderPopped DEF SameSide
  <2>4. SentAt(s, l)'
    <3> SUFFICES ASSUME up'[l]
                 PROVE  (WroteAt(s, l) /\ CaughtUpAt(s, l) /\ AskedAt(s, l) /\ HeardAt(s, l))'
      BY DEF SentAt
    <3>1. WroteAt(s, l) /\ CaughtUpAt(s, l) /\ AskedAt(s, l)
      BY <1>1, <1>b DEF LinkOK, SentAt
    <3> DEFINE z == q[Len(q)]
    <3>2. /\ t # <<>> => Len(q) > 1 /\ t[Len(t)] = z
          /\ t = <<>> => z = m
      BY <1>1, <1>2, PoppedLast
    <3>3. z \in Message /\ Stage(z) = 4
      <4>2. z \in Message
        BY <1>1, <1>2, Popped
      <4> QED BY <1>3, <1>t, <3>2, <4>2
    <3>4. z.type \in {"first", "last"}
      BY <3>3, StageOf
    <3>5. fd[p] = l => z = Part("last", wseq[p])
      BY <1>1, <3>1, <3>4 DEF WroteAt, CaughtUp
    <3>6. ~(rlink[p] = l /\ phase[p] = "catchup")
      BY <1>1, <3>1, <3>4 DEF CaughtUpAt, CaughtUp
    <3>7. ~(rlink[p] = l /\ phase[p] = "header")
      BY <1>1, <3>1, <3>4 DEF AskedAt
    <3>8. fd[p] = l /\ t = <<>> => rseq'[s] = wseq[p] /\ partial'[s] = 0
      <4> SUFFICES ASSUME fd[p] = l, t = <<>> PROVE rseq'[s] = wseq[p] /\ partial'[s] = 0
        OBVIOUS
      <4>1. m = Part("last", wseq[p])
        BY <3>2, <3>5
      <4>2. m.type = "last" /\ m.num = wseq[p]
        BY <4>1, MessageKinds
      <4>3. m.num = n
        BY <1>3
      <4> QED BY <1>7, <4>2, <4>3
    <3>9. net'[l][s] = t /\ wseq'[p] = wseq[p] /\ fd'[s] = l /\ fd'[p] = fd[p]
      BY <1>1, <1>13, <1>l
    <3> HIDE DEF z, t, q, m, n
    <3>10. WroteAt(s, l)'
      BY <3>2, <3>5, <3>8, <3>9 DEF WroteAt, ReadAll
    <3>11. CaughtUpAt(s, l)' /\ AskedAt(s, l)'
      BY <1>1, <3>6, <3>7 DEF CaughtUpAt, AskedAt
    <3>12. HeardAt(s, l)'
      BY <1>1, <3>9 DEF HeardAt, Listens
    <3> QED BY <3>10, <3>11, <3>12
  <2>5. HandlerAt(l)'
    BY <1>1, <1>3 DEF HandlerAt
  <2>6. HandshakeAt(l)'
    <3>1. ~(rlink["client"] = l /\ phase["client"] = "response")
      <4>1. CASE s = "client"
        BY <1>1, <1>2, <4>1
      <4>2. CASE s = "server"
        BY <1>1, <1>2, <1>b, <4>2 DEF LinkOK, HandshakeAt
      <4> QED BY <4>1, <4>2 DEF Sides
    <3> QED BY <1>1, <3>1 DEF HandshakeAt
  <2> QED BY <1>12, <2>1, <2>2, <2>3, <2>4, <2>5, <2>6 DEF LinkOK
<1>16. SessionInv'
  BY <1>10, <1>14, <1>15, SessionPartsNext
<1>17. \/ nonce' = nonce
       \/ nonce' = [nonce EXCEPT ![s] = @ + 1] /\ nonce[s] < wseq[p]
  BY <1>2, <1>3, <1>5, <1>6
<1> QED BY <1>6, <1>16, <1>17

-----------------------------------------------------------------------------
(* The network and the handshake.                                          *)

\* Readers and writers that a step leaves alone stay in order.
LEMMA ReadersIdle ==
    ASSUME BaseInv, TypeOK', UNCHANGED <<wseq, low, readers>>,
           \A t \in Sides : fd'[t] # 0 => fd[t] # 0
    PROVE  ReaderInv' /\ Growing
<1>1. \A t \in Sides : /\ wseq[t] \in Nat
                       /\ low[t] <= wseq[t] /\ wseq[t] <= MaxPackets[t]
  BY DEF BaseInv, TypeOK, ReaderInv
<1>2. \A t \in Sides : wseq[t] <= wseq'[t]
  BY <1>1
<1> QED BY <1>1, <1>2, ReaderKept

\* Of the queue of a dead link the last message is lost.
LEMMA LoseKeeps ==
    ASSUME SessionInv, TypeOK', PhaseInv', LinkInv',
           NEW l \in Links, NEW s \in Sides, Lose(l, s)
    PROVE  SessionInv'
<1>b. BaseInv /\ \A k \in Links : LinkOK(k)
  BY SessionParts
<1> DEFINE p == Peer(s)
           q == net[l][s]
           t == SubSeq(q, 1, Len(q) - 1)
<1>1. /\ ~up[l] /\ q # <<>> /\ net' = [net EXCEPT ![l][s] = t]
      /\ UNCHANGED <<wseq, low, readers, fd, phase, rlink, handler, up>>
  BY DEF Lose, Arrived, writers
<1>2. p \in Sides /\ p # s /\ Peer(p) = s /\ net \in Net /\ q \in Seq(Message)
  BY <1>b, Basics, PeerType
<1>3. /\ t \in Seq(Message) /\ Len(q) \in Nat \ {0} /\ Len(t) = Len(q) - 1
      /\ \A i \in 1..Len(t) : t[i] = q[i]
      /\ t = <<>> <=> Len(q) = 1
  <2> HIDE DEF q
  <2> QED BY <1>1, <1>2, Cut
<1>4. ReaderInv' /\ Growing
  BY <1>1, <1>b, ReadersIdle
<1>5. BaseInv'
  BY <1>4 DEF BaseInv
<1>6. \A u \in Sides : SameSide(u) /\ \A k \in Links : Listens(u, k)' <=> Listens(u, k)
  BY <1>1 DEF SameSide, readers, Listens
<1>7. \A k \in Links, u \in Sides : net'[k][u] = IF k = l /\ u = s THEN t ELSE net[k][u]
  <2> HIDE DEF t, q
  <2> QED BY <1>1, <1>2 DEF Net
<1>8. \A u \in Sides : u = s \/ u = p
  BY <1>2 DEF Sides
<1>9. ASSUME NEW k \in Links, k # l PROVE LinkOK(k)'
  BY <1>1, <1>4, <1>5, <1>6, <1>7, <1>9, <1>b, LinkKept
<1>10. LinkOK(l)'
  <2>1. StreamAt(p, l)' /\ HeaderAt(p, l)' /\ SentAt(p, l)'
    <3>1. StreamAt(p, l) /\ HeaderAt(p, l) /\ SentAt(p, l)
      BY <1>2, <1>b DEF LinkOK
    <3>2. /\ net'[l][p] = net[l][p] /\ SameSide(p) /\ rseq'[s] = rseq[s]
          /\ rseq[s] <= rseq'[s]
      BY <1>2, <1>4, <1>6, <1>7 DEF SameSide, Growing
    <3> HIDE DEF p
    <3> QED BY <1>1, <1>2, <1>5, <1>b, <3>1, <3>2, DirectionKept
  <2>2. StreamAt(s, l)'
    <3> SUFFICES ASSUME Listens(s, l)
                 PROVE  /\ Stream(t, rseq[s], wseq[p])
                        /\ t # <<>> => Awaited(phase[s], partial[s], rseq[s], t[1])
      BY <1>1, <1>6, <1>7 DEF StreamAt, readers
    <3>1. Stream(q, rseq[s], wseq[p]) /\ Awaited(phase[s], partial[s], rseq[s], q[1])
      BY <1>1, <1>b DEF LinkOK, StreamAt
    <3>2. Stream(t, rseq[s], wseq[p]) /\ (t # <<>> => t[1] = q[1])
      <4> HIDE DEF q, p
      <4> QED BY <1>1, <1>2, <3>1, StreamCut
    <3> HIDE DEF t, q, p
    <3> QED BY <3>1, <3>2
  <2>3. HeaderAt(s, l)'
    <3>1. ASSUME NEW i \in 1..Len(t), t[i].type = "header"
          PROVE  /\ t[i].num \in 0..rseq[p]
                 /\ rlink[p] = l => t[i].num = rseq[p]
      <4>1. i \in 1..Len(q) /\ t[i] = q[i]
        BY <1>3
      <4>2. HeaderAt(s, l)
        BY <1>b DEF LinkOK
      <4> HIDE DEF t
      <4> QED BY <3>1, <4>1, <4>2 DEF HeaderAt
    <3>2. net'[l][s] = t /\ rseq' = rseq /\ rlink' = rlink
      BY <1>1, <1>7 DEF readers
    <3> HIDE DEF t
    <3> QED BY <3>1, <3>2 DEF HeaderAt
  <2>4. SentAt(s, l)'
    BY <1>1 DEF SentAt
  <2>5. HandlerAt(l)'
    <3>1. HandlerAt(l)
      BY <1>b DEF LinkOK
    <3>2. "client" \in Sides /\ "server" \in Sides
      BY DEF Sides
    <3>3. net[l][s] = <<Request>> \/ net[l][s] = <<Response>> => t = <<>>
      BY <1>3
    <3>4. CASE handler[l] = "request"
      <4>1. net'[l]["server"] \in {<<>>, <<Request>>} /\ net'[l]["client"] = <<>>
        <5> HIDE DEF t
        <5> QED BY <1>1, <1>7, <3>1, <3>2, <3>3, <3>4 DEF HandlerAt
      <4> QED BY <1>1, <3>1, <3>4, <4>1 DEF HandlerAt
    <3>5. CASE handler[l] = "recover"
      <4>1. net'[l]["client"] \in {<<>>, <<Response>>}
        <5> HIDE DEF t
        <5> QED BY <1>1, <1>7, <3>1, <3>2, <3>3, <3>5 DEF HandlerAt
      <4>2. /\ Len(net'[l]["server"]) <= 1
            /\ \A i \in 1..Len(net'[l]["server"]) : net'[l]["server"][i].type = "header"
        <5>1. CASE s = "server"
          <6>1. Len(q) <= 1
            BY <3>1, <3>5, <5>1 DEF HandlerAt
          <6>2. Len(t) = 0
            BY <1>3, <6>1
          <6> HIDE DEF t
          <6> QED BY <1>7, <3>2, <5>1, <6>2
        <5>2. CASE s # "server"
          BY <1>7, <3>1, <3>2, <3>5, <5>2 DEF HandlerAt
        <5> QED BY <5>1, <5>2
      <4> QED BY <1>1, <3>1, <3>5, <4>1, <4>2 DEF HandlerAt
    <3> QED BY <1>1, <3>4, <3>5 DEF HandlerAt
  <2>6. HandshakeAt(l)'
    <3>1. HandshakeAt(l) /\ "server" \in Sides
      BY <1>b DEF LinkOK, Sides
    <3> HIDE DEF t
    <3> QED BY <1>1, <1>6, <1>7, <3>1 DEF HandshakeAt
  <2> QED BY <1>8, <2>1, <2>2, <2>3, <2>4, <2>5, <2>6 DEF LinkOK
<1> QED BY <1>5, <1>9, <1>10, SessionPartsNext

\* The handler of a new link gives it up.
LEMMA HandlerFailedKeeps ==
    ASSUME SessionInv, TypeOK', PhaseInv', LinkInv', NEW l \in Links, HandlerFailed(l)
    PROVE  SessionInv'
<1>b. BaseInv /\ \A k \in Links : LinkOK(k)
  BY SessionParts
<1>1. /\ handler[l] = "request"
      /\ up' = [up EXCEPT ![l] = FALSE]
      /\ net' = [net EXCEPT ![l]["server"] = <<>>]
      /\ handler' = [handler EXCEPT ![l] = "done"]
      /\ UNCHANGED <<wseq, low, readers, fd, phase, rlink>>
  BY DEF HandlerFailed, Discard, writers
<1>2. /\ "client" \in Sides /\ "server" \in Sides /\ net \in Net
      /\ \A u \in Sides : u = "client" \/ u = "server"
      /\ ~Listens("server", l)
  BY <1>1, <1>b, Basics DEF BaseInv, LinkInv, Sides
<1>3. ReaderInv' /\ Growing
  BY <1>1, <1>b, ReadersIdle
<1>4. BaseInv'
  BY <1>3 DEF BaseInv
<1>5. \A u \in Sides : SameSide(u) /\ \A k \in Links : Listens(u, k)' <=> Listens(u, k)
  BY <1>1 DEF SameSide, readers, Listens
<1>n. \A k \in Links, u \in Sides :
         net'[k][u] = IF k = l /\ u = "server" THEN <<>> ELSE net[k][u]
  BY <1>1, <1>2 DEF Net
<1>6. /\ \A k \in Links : up'[k] = IF k = l THEN FALSE ELSE up[k]
      /\ \A k \in Links : handler'[k] = IF k = l THEN "done" ELSE handler[k]
  BY <1>1, <1>b DEF BaseInv, TypeOK
<1>7. ASSUME NEW k \in Links, k # l PROVE LinkOK(k)'
  BY <1>1, <1>3, <1>4, <1>5, <1>6, <1>7, <1>b, <1>n, LinkKept
<1>8. LinkOK(l)'
  <2>0. HandlerAt(l) /\ HandshakeAt(l)
    BY <1>b DEF LinkOK
  <2>1. net[l]["client"] = <<>> /\ Len(<<>>) = 0
    BY <1>1, <2>0 DEF HandlerAt
  <2>2. net'[l]["client"] = <<>> /\ net'[l]["server"] = <<>> /\ ~up'[l] /\ handler'[l] = "done"
    <3>1. net'[l]["server"] = <<>>
      BY ONLY <1>2, <1>n, l \in Links
    <3>2. net'[l]["client"] = net[l]["client"]
      BY ONLY <1>2, <1>n, l \in Links, "client" # "server"
    <3>3. ~up'[l] /\ handler'[l] = "done"
      BY ONLY <1>6, l \in Links
    <3> QED BY <2>1, <3>1, <3>2, <3>3, Zenon
  <2>3. ASSUME NEW u \in Sides PROVE StreamAt(u, l)' /\ HeaderAt(u, l)' /\ SentAt(u, l)'
    <3>1. net'[l][u] = <<>>
      BY <1>2, <2>2
    <3> QED BY <2>1, <2>2, <3>1, EmptyStream DEF StreamAt, HeaderAt, SentAt
  <2>4. HandlerAt(l)' /\ HandshakeAt(l)'
    BY <1>2, <1>5, <2>2 DEF HandlerAt, HandshakeAt
  <2> QED BY <2>3, <2>4 DEF LinkOK
<1> QED BY <1>4, <1>7, <1>8, SessionPartsNext

\* The client opens a new link.
LEMMA ClientConnectKeeps ==
    ASSUME SessionInv, TypeOK', PhaseInv', LinkInv', ClientConnect
    PROVE  SessionInv'
<1>b. BaseInv /\ \A k \in Links : LinkOK(k)
  BY SessionParts
<1>n. PICK n \in Links : n = links + 1 /\ n # 0
  BY <1>b, ConnectionAssumption DEF ClientConnect, BaseInv, TypeOK, Links
<1>1. /\ phase["client"] = "idle" /\ fd["client"] = 0 /\ links < MaxLinks
      /\ up' = [up EXCEPT ![n] = TRUE]
      /\ net' = [net EXCEPT ![n]["server"] = <<Request>>]
      /\ handler' = [handler EXCEPT ![n] = "request"]
      /\ phase' = [phase EXCEPT !["client"] = "response"]
      /\ rlink' = [rlink EXCEPT !["client"] = n]
      /\ UNCHANGED <<wseq, low, readers, fd>>
  BY <1>n DEF ClientConnect, Unlocked, writers
<1>2. /\ "client" \in Sides /\ "server" \in Sides /\ net \in Net
      /\ \A u \in Sides : u = "client" \/ u = "server"
      /\ Peer("client") = "server" /\ Peer("server") = "client"
  BY <1>b, Basics DEF Sides, Peer
<1>3. n \in Links /\ n # 0 /\ ~(n <= links)
  BY <1>b, <1>n DEF BaseInv, TypeOK
<1>4. /\ fd["server"] # n /\ rlink["server"] # n /\ fd["client"] # n
      /\ rlink["client"] = 0
  BY <1>1, <1>2, <1>3, <1>b, Basics DEF BaseInv, LinkInv
<1>q. \A k \in Links, u \in Sides :
         net'[k][u] = IF k = n /\ u = "server" THEN <<Request>> ELSE net[k][u]
  BY <1>1, <1>2, <1>3 DEF Net
<1>5. /\ \A k \in Links : up'[k] = IF k = n THEN TRUE ELSE up[k]
      /\ \A k \in Links : handler'[k] = IF k = n THEN "request" ELSE handler[k]
      /\ phase'["client"] = "response" /\ phase'["server"] = phase["server"]
      /\ rlink'["client"] = n /\ rlink'["server"] = rlink["server"]
  BY <1>1, <1>2, <1>3, <1>b DEF BaseInv, TypeOK
<1>6. ReaderInv' /\ Growing
  BY <1>1, <1>b, ReadersIdle
<1>7. BaseInv'
  BY <1>6 DEF BaseInv
<1>8. SameSide("server")
  BY <1>1, <1>5 DEF SameSide, readers
<1>9. ASSUME NEW k \in Links, k # n PROVE LinkOK(k)'
  <2>1. ~Listens("client", k) /\ ~Listens("client", k)'
    BY <1>1, <1>4, <1>5, <1>9 DEF Listens
  <2> QED BY <1>1, <1>2, <1>5, <1>6, <1>7, <1>8, <1>9, <1>b, <1>q, <2>1, LinkKept
<1>10. LinkOK(n)'
  <2>1. net[n]["client"] = <<>>
    BY <1>3, <1>4, <1>b DEF BaseInv, LinkInv, Listens
  <2>2. /\ net'[n]["client"] = <<>> /\ net'[n]["server"] = <<Request>>
        /\ handler'[n] = "request"
        /\ ~Listens("server", n)'
        /\ fd'["client"] # n /\ fd'["server"] # n /\ rlink'["server"] # n
    BY <1>1, <1>2, <1>3, <1>4, <1>5, <1>q, <2>1 DEF Listens
  <2>3. StreamAt("client", n)' /\ HeaderAt("client", n)' /\ SentAt("client", n)'
    BY <1>2, <2>2, EmptyStream
       DEF StreamAt, HeaderAt, SentAt, WroteAt, CaughtUpAt, AskedAt, HeardAt
  <2>4. StreamAt("server", n)' /\ HeaderAt("server", n)'
    <3>1. Len(<<Request>>) = 1 /\ <<Request>>[1] = Request
      OBVIOUS
    <3> QED BY <2>2, <3>1, MessageKinds DEF StreamAt, HeaderAt
  <2>5. SentAt("server", n)'
    BY <1>2, <1>5, <2>2 DEF SentAt, WroteAt, CaughtUpAt, AskedAt, HeardAt
  <2>6. HandlerAt(n)' /\ HandshakeAt(n)'
    BY <1>5, <2>2 DEF HandlerAt, HandshakeAt
  <2> QED BY <1>2, <2>3, <2>4, <2>5, <2>6 DEF LinkOK
<1> QED BY <1>3, <1>7, <1>9, <1>10, SessionPartsNext

\* The handler answers the request, and the client waits for that answer.
LEMMA HandlerRequestKeeps ==
    ASSUME SessionInv, TypeOK', PhaseInv', LinkInv', NEW l \in Links, HandlerRequest(l)
    PROVE  SessionInv'
<1>b. BaseInv /\ \A k \in Links : LinkOK(k)
  BY SessionParts
<1>2. /\ "client" \in Sides /\ "server" \in Sides /\ net \in Net
      /\ \A u \in Sides : u = "client" \/ u = "server"
      /\ Peer("client") = "server" /\ Peer("server") = "client" /\ l # 0
  BY <1>b, Basics DEF Sides, Peer
<1>1. /\ handler[l] = "request" /\ net[l]["server"] # <<>>
      /\ handler' = [handler EXCEPT ![l] = "recover"]
      /\ UNCHANGED <<wseq, low, readers, fd, phase, rlink, up>>
  BY DEF HandlerRequest, Arrived, writers
<1>3. /\ net[l]["server"] = <<Request>> /\ net[l]["client"] = <<>>
      /\ rlink["client"] = l => phase["client"] = "response"
      /\ ~Listens("server", l)
  BY <1>1, <1>b DEF LinkOK, HandlerAt, BaseInv, LinkInv
<1>4. \A k \in Links, u \in Sides :
         net'[k][u] = IF k # l THEN net[k][u]
                      ELSE IF u = "client" /\ up[l] THEN <<Response>> ELSE <<>>
  <2> DEFINE popped == [net EXCEPT ![l]["server"] = <<>>]
  <2>1. Tail(net[l]["server"]) = <<>>
    BY <1>3
  <2>2. popped[l]["client"] = <<>> /\ popped \in Net
    <3>1. <<>> \in Seq(Message)
      OBVIOUS
    <3> QED BY <1>2, <1>3, <3>1 DEF Net
  <2>3. Append(popped[l]["client"], Response) = <<Response>>
    <3>1. Append(<<>>, Response) = <<Response>>
      OBVIOUS
    <3> HIDE DEF popped
    <3> QED BY <2>2, <3>1
  <2>4. net' = IF up[l] THEN [popped EXCEPT ![l]["client"] = Append(popped[l]["client"], Response)]
               ELSE popped
    BY <2>1 DEF HandlerRequest
  <2>5. net' = IF up[l] THEN [popped EXCEPT ![l]["client"] = <<Response>>] ELSE popped
    BY <2>3, <2>4
  <2>6. \A k \in Links, u \in Sides :
           popped[k][u] = IF k = l /\ u = "server" THEN <<>> ELSE net[k][u]
    BY <1>2 DEF Net
  <2> HIDE DEF popped
  <2>7. CASE up[l]
    <3>1. \A k \in Links, u \in Sides :
             net'[k][u] = IF k = l /\ u = "client" THEN <<Response>> ELSE popped[k][u]
      BY <1>2, <2>2, <2>5, <2>7 DEF Net
    <3> QED BY <1>2, <2>6, <2>7, <3>1
  <2>8. CASE ~up[l]
    BY <1>2, <1>3, <2>5, <2>6, <2>8
  <2> QED BY <2>7, <2>8
<1>5. ReaderInv' /\ Growing
  BY <1>1, <1>b, ReadersIdle
<1>6. BaseInv'
  BY <1>5 DEF BaseInv
<1>7. \A u \in Sides : SameSide(u) /\ \A k \in Links : Listens(u, k)' <=> Listens(u, k)
  BY <1>1 DEF SameSide, readers, Listens
<1>8. \A k \in Links : handler'[k] = IF k = l THEN "recover" ELSE handler[k]
  BY <1>1, <1>b DEF BaseInv, TypeOK
<1>9. ASSUME NEW k \in Links, k # l PROVE LinkOK(k)'
  BY <1>1, <1>4, <1>5, <1>6, <1>7, <1>8, <1>9, <1>b, LinkKept
<1>10. LinkOK(l)'
  <2>1. /\ net'[l]["server"] = <<>> /\ handler'[l] = "recover"
        /\ net'[l]["client"] = IF up[l] THEN <<Response>> ELSE <<>>
        /\ ~Listens("server", l)'
        /\ fd'["server"] # l /\ rlink'["server"] # l
    BY <1>1, <1>2, <1>3, <1>4, <1>7, <1>8 DEF Listens
  <2>2. up[l] => /\ rlink["client"] = l /\ phase["client"] = "response"
                 /\ fd["client"] # l
    <3> SUFFICES ASSUME up[l]
                 PROVE  /\ rlink["client"] = l /\ phase["client"] = "response"
                        /\ fd["client"] # l
      OBVIOUS
    <3>1. fd["client"] # l
      BY <1>3, <1>b, HandlerPending
    <3>2. Listens("client", l)
      BY <1>b DEF BaseInv, LinkInv
    <3> QED BY <1>3, <3>1, <3>2 DEF Listens
  <2>3. /\ Response \in Message /\ Response.type = "response"
        /\ Len(<<Response>>) = 1 /\ <<Response>>[1] = Response /\ Len(<<>>) = 0
    BY MessageTypes, MessageKinds
  <2>4. StreamAt("client", l)'
    <3>1. CASE up[l]
      <4>1. Stream(<<Response>>, rseq["client"], wseq["server"])
        BY <2>3 DEF Stream, Brings
      <4>2. Awaited(phase["client"], partial["client"], rseq["client"], Response)
        BY <2>2, <2>3, <3>1 DEF Awaited
      <4>3. net'[l]["client"] = <<Response>>
        BY <2>1, <3>1
      <4> QED BY <1>1, <1>2, <2>3, <4>1, <4>2, <4>3 DEF StreamAt, readers
    <3>2. CASE ~up[l]
      BY <2>1, <3>2, EmptyStream DEF StreamAt
    <3> QED BY <3>1, <3>2
  <2>5. HeaderAt("client", l)'
    <3>1. \A i \in 1..Len(net'[l]["client"]) : net'[l]["client"][i].type # "header"
      BY <2>1, <2>3
    <3> QED BY <3>1 DEF HeaderAt
  <2>6. SentAt("client", l)'
    BY <1>2, <2>1 DEF SentAt, WroteAt, CaughtUpAt, AskedAt, HeardAt
  <2>7. StreamAt("server", l)' /\ HeaderAt("server", l)'
    BY <2>1, <2>3 DEF StreamAt, HeaderAt
  <2>8. SentAt("server", l)'
    BY <1>1, <1>2, <2>2 DEF SentAt, WroteAt, CaughtUpAt, AskedAt, HeardAt
  <2>9. HandlerAt(l)'
    BY <1>1, <1>3, <2>1, <2>3 DEF HandlerAt
  <2>10. HandshakeAt(l)'
    BY <1>1, <2>1 DEF HandshakeAt
  <2> QED BY <1>2, <2>4, <2>5, <2>6, <2>7, <2>8, <2>9, <2>10 DEF LinkOK
<1> QED BY <1>6, <1>9, <1>10, SessionPartsNext

-----------------------------------------------------------------------------
(* Recovery.                                                               *)

\* The catchup buffer continues localBuffer, and the stream behind it begins
\* with the packet after its last one.
LEMMA RecvCatchupKeeps ==
    ASSUME SessionInv, TypeOK', PhaseInv', LinkInv', NEW s \in Sides, RecvCatchup(s)
    PROVE  SessionInv'
<1>b. BaseInv /\ \A k \in Links : LinkOK(k)
  BY SessionParts
<1>l. PICK l \in Links : rlink[s] = l
  BY <1>b, Basics DEF RecvCatchup
<1> DEFINE p == Peer(s)
           q == net[l][s]
           m == q[1]
           c == m.packets
           t == Tail(q)
           r == rseq[s]
           n == r + Len(c)
           b == localBuffer[s]
<1>1. /\ phase[s] = "catchup" /\ l # 0 /\ q # <<>> /\ fd[s] = 0
      /\ p \in Sides /\ p # s /\ Peer(p) = s
      /\ net \in Net /\ q \in Seq(Message) /\ r \in Nat /\ wseq[p] \in Nat
      /\ nonce[s] \in Nat /\ b \in Seq(Nat)
      /\ \A k \in Links : Listens(s, k) <=> k = l
  BY <1>b, <1>l, Basics, PeerType DEF RecvCatchup, Arrived, Listens
<1>2. /\ Head(q) = m /\ t \in Seq(Message) /\ m \in Message /\ 1 \in 1..Len(q)
  BY <1>1, Popped
<1>3. /\ m.type = "catchup"
      /\ fd' = [fd EXCEPT ![s] = l]
      /\ partial' = [partial EXCEPT ![s] = 0]
      /\ localBuffer' = [localBuffer EXCEPT ![s] = b \o c]
      /\ rseq' = [rseq EXCEPT ![s] = n]
      /\ net' = [net EXCEPT ![l][s] = t]
      /\ phase' = [phase EXCEPT ![s] = "idle"]
      /\ rlink' = [rlink EXCEPT ![s] = 0]
      /\ UNCHANGED <<wseq, low, nonce, handler, up>>
  BY <1>2, <1>l DEF RecvCatchup
<1>4. /\ fd'[s] = l /\ partial'[s] = 0 /\ rseq'[s] = n /\ localBuffer'[s] = b \o c
      /\ phase'[s] = "idle" /\ rlink'[s] = 0
      /\ \A u \in Sides : u # s => SameSide(u) /\ localBuffer'[u] = localBuffer[u]
  <2>1. /\ DOMAIN fd = Sides /\ DOMAIN partial = Sides /\ DOMAIN rseq = Sides
        /\ DOMAIN localBuffer = Sides /\ DOMAIN phase = Sides /\ DOMAIN rlink = Sides
    BY <1>b DEF BaseInv, TypeOK
  <2> HIDE DEF n, c, b
  <2>2. /\ fd'[s] = l /\ partial'[s] = 0 /\ rseq'[s] = n /\ localBuffer'[s] = b \o c
        /\ phase'[s] = "idle" /\ rlink'[s] = 0
    BY ONLY <1>3, <2>1, s \in Sides
  <2>3. ASSUME NEW u \in Sides, u # s
        PROVE  SameSide(u) /\ localBuffer'[u] = localBuffer[u]
    BY ONLY <1>3, <2>1, <2>3 DEF SameSide
  <2> QED BY <2>2, <2>3
<1>5. /\ c \in Seq(Nat) /\ Len(c) \in Nat /\ Stage(m) = 3
  BY <1>2, <1>3, MessageFields, StageOf, LenProperties
<1>6. /\ Stream(q, r, wseq[p])
      /\ n <= wseq[p] /\ \A j \in 1..Len(c) : c[j] = r + j
  <2>1. Stream(q, r, wseq[p])
    BY <1>1, <1>b DEF LinkOK, StreamAt
  <2>2. Brings(m, r, wseq[p])
    BY <1>2, <2>1 DEF Stream
  <2> HIDE DEF m
  <2> QED BY <1>3, <2>1, <2>2 DEF Brings
<1>7. /\ nonce[s] + Len(b) = r /\ \A i \in 1..Len(b) : b[i] = nonce[s] + i
  BY <1>b DEF BaseInv, ReaderInv
<1>8. /\ nonce[s] + Len(b \o c) = n
      /\ \A i \in 1..Len(b \o c) : (b \o c)[i] = nonce[s] + i
  <2> HIDE DEF b, c, r
  <2>0. r \in Nat /\ nonce[s] \in Nat /\ Len(c) \in Nat
    BY <1>1, <1>5
  <2>1. /\ Len(b) \in Nat /\ Len(b \o c) = Len(b) + Len(c)
        /\ \A i \in 1..(Len(b) + Len(c)) :
              (b \o c)[i] = IF i <= Len(b) THEN b[i] ELSE c[i - Len(b)]
    BY <1>1, <1>5, ConcatProperties, LenProperties
  <2>2. ASSUME NEW i \in 1..(Len(b) + Len(c)) PROVE (b \o c)[i] = nonce[s] + i
    <3>1. CASE i <= Len(b)
      BY <1>5, <1>7, <2>1, <3>1
    <3>2. CASE ~(i <= Len(b))
      <4>1. i - Len(b) \in 1..Len(c)
        BY <1>5, <2>1, <3>2
      <4>2. c[i - Len(b)] = r + (i - Len(b))
        BY <1>6, <4>1
      <4>3. (b \o c)[i] = c[i - Len(b)]
        BY <2>1, <3>2
      <4>4. r + (i - Len(b)) = nonce[s] + i
        <5>1. i \in Nat /\ nonce[s] + Len(b) = r
          BY <1>7, <2>0, <2>1
        <5>2. Len(b) \in Nat
          BY <2>1
        <5>3. \A x, y, z \in Nat : z + (x - y) = (z - y) + x
          OBVIOUS
        <5>4. r - Len(b) = nonce[s]
          BY <2>0, <5>1, <5>2
        <5> QED BY <2>0, <5>1, <5>2, <5>3, <5>4
      <4> QED BY <4>2, <4>3, <4>4
    <3> QED BY <3>1, <3>2
  <2>3. nonce[s] + (Len(b) + Len(c)) = n
    BY <1>7, <2>0, <2>1
  <2> QED BY <2>1, <2>2, <2>3
<1>9. r <= n /\ n \in Nat
  <2> HIDE DEF r, c
  <2> QED BY <1>1, <1>5
<1>10. ReaderInv' /\ Growing
  <2>1. \A u \in Sides : u # s =>
              /\ nonce'[u] = nonce[u] /\ localBuffer'[u] = localBuffer[u]
              /\ rseq'[u] = rseq[u] /\ partial'[u] = partial[u]
              /\ fd'[u] # 0 => fd[u] # 0
    BY <1>3, <1>4 DEF SameSide
  <2>2. nonce'[s] = nonce[s]
    BY <1>3
  <2> HIDE DEF n, b, c, r
  <2>3. /\ nonce'[s] + Len(localBuffer'[s]) = rseq'[s]
        /\ \A i \in 1..Len(localBuffer'[s]) : localBuffer'[s][i] = nonce'[s] + i
    BY <1>4, <1>8, <2>2
  <2>4. rseq[s] <= rseq'[s] /\ rseq'[s] <= wseq[p]
    BY <1>4, <1>6, <1>9 DEF r
  <2> QED BY <1>3, <1>4, <1>b, <2>1, <2>3, <2>4, ReaderMoves
<1>11. BaseInv'
  BY <1>10 DEF BaseInv
<1>12. \A u \in Sides : u = s \/ u = p
  BY <1>1 DEF Sides
<1>13. SameSide(p)
  BY <1>1, <1>4
<1>14. \A k \in Links, u \in Sides : net'[k][u] = IF k = l /\ u = s THEN t ELSE net[k][u]
  <2> HIDE DEF t, q
  <2> QED BY <1>1, <1>3 DEF Net
<1>15. \A k \in Links : Listens(s, k)' <=> k = l
  BY <1>1, <1>4 DEF Listens
<1>16. ASSUME NEW k \in Links, k # l PROVE LinkOK(k)'
  <2>1. \A u \in Sides : SameSide(u) \/ (~Listens(u, k)' /\ ~Listens(u, k))
    BY <1>1, <1>12, <1>13, <1>15, <1>16
  <2> QED BY <1>3, <1>10, <1>11, <1>14, <1>16, <1>b, <2>1, LinkKept
<1>17. StreamAt(s, l)'
  <2>1. t # <<>> => Follows(r, m, t[1])
    BY <1>1, <1>6, StreamTail
  <2>2. Stream(t, n, wseq[p])
    <3> HIDE DEF q, n, p, r
    <3> QED BY <1>1, <1>5, <1>6, StreamOfParts
  <2>3. t # <<>> => t[1] = Part("first", n + 1)
    BY <1>3, <2>1 DEF Follows
  <2>4. t # <<>> => Awaited("idle", 0, n, t[1])
    <3> HIDE DEF t, n
    <3> QED BY <2>3 DEF Awaited
  <2>5. net'[l][s] = t /\ wseq'[p] = wseq[p]
    BY <1>3, <1>14
  <2> HIDE DEF t, n
  <2> QED BY <1>4, <2>2, <2>4, <2>5 DEF StreamAt
<1>18. HeaderAt(s, l)'
  <2>1. HeaderAt(s, l)
    BY <1>b DEF LinkOK
  <2> QED BY <1>1, <1>13, <1>14, <1>b, <2>1, HeaderPopped DEF SameSide
<1>19. SentAt(s, l)'
  <2> SUFFICES ASSUME up'[l]
               PROVE  (WroteAt(s, l) /\ CaughtUpAt(s, l) /\ AskedAt(s, l) /\ HeardAt(s, l))'
    BY DEF SentAt
  <2>1. WroteAt(s, l) /\ CaughtUpAt(s, l) /\ AskedAt(s, l)
    BY <1>3, <1>b DEF LinkOK, SentAt
  <2> DEFINE z == q[Len(q)]
  <2>2. /\ t # <<>> => Len(q) > 1 /\ t[Len(t)] = z
        /\ t = <<>> => z = m
    BY <1>1, PoppedLast
  <2>3. z \in Message /\ (t # <<>> => Stage(z) = 4)
    <3>1. Stream(t, n, wseq[p]) /\ (Len(q) > 1 => Stage(q[Len(q)]) = 4)
      <4> HIDE DEF q, n, p, r
      <4> QED BY <1>1, <1>5, <1>6, StreamOfParts
    <3>2. z \in Message
      BY <1>1, Popped
    <3> QED BY <2>2, <3>1, <3>2
  <2>4. t # <<>> => z.type \in {"first", "last"}
    BY <2>3, StageOf
  <2>5. CaughtUp(s, z) => t = <<>> /\ n = wseq[p]
    BY <2>2, <2>4 DEF CaughtUp
  <2>6. z.type # "header"
    BY <1>3, <2>2, <2>4
  <2>7. fd[p] = l => (t = <<>> => n = wseq[p]) /\ (t # <<>> => z = Part("last", wseq[p]))
    <3>1. Part("last", wseq[p]).type = "last"
      BY MessageKinds
    <3> QED BY <1>1, <1>3, <2>1, <2>2, <2>5, <3>1 DEF WroteAt
  <2>8. rlink[p] = l /\ phase[p] = "catchup" => t = <<>> /\ n = wseq[p]
    BY <1>1, <2>1, <2>5 DEF CaughtUpAt
  <2>9. ~(rlink[p] = l /\ phase[p] = "header")
    BY <1>1, <2>1, <2>6 DEF AskedAt
  <2>10. /\ net'[l][s] = t /\ wseq'[p] = wseq[p] /\ fd'[s] = l /\ rseq'[s] = n
         /\ partial'[s] = 0
         /\ fd'[p] = fd[p] /\ rlink'[p] = rlink[p] /\ phase'[p] = phase[p]
    BY <1>3, <1>4, <1>13, <1>14 DEF SameSide
  <2> HIDE DEF z, t, q, m, n, p
  <2>11. WroteAt(s, l)'
    BY <2>2, <2>7, <2>10 DEF WroteAt, ReadAll, p
  <2>12. CaughtUpAt(s, l)' /\ AskedAt(s, l)'
    BY <2>8, <2>9, <2>10 DEF CaughtUpAt, AskedAt, ReadAll, p
  <2>13. HeardAt(s, l)'
    BY <1>15 DEF HeardAt
  <2> QED BY <2>11, <2>12, <2>13
<1>20. StreamAt(p, l)' /\ HeaderAt(p, l)' /\ SentAt(p, l)'
  <2>1. StreamAt(p, l) /\ HeaderAt(p, l) /\ SentAt(p, l)
    BY <1>1, <1>b DEF LinkOK
  <2>2. /\ net'[l][p] = net[l][p] /\ wseq'[s] = wseq[s] /\ fd'[s] = l /\ rlink'[s] # l
        /\ rseq[s] <= rseq'[s] /\ rseq[s] \in Nat /\ rseq'[s] \in Nat
        /\ rlink[s] = l /\ phase[s] = "catchup" /\ up' = up /\ handler' = handler
    BY <1>1, <1>3, <1>4, <1>9, <1>14, <1>l
  <2> HIDE DEF p
  <2>3. StreamAt(p, l)'
    BY <1>1, <1>13, <2>1, <2>2 DEF StreamAt, SameSide, Listens
  <2>4. HeaderAt(p, l)'
    BY <1>1, <2>1, <2>2 DEF HeaderAt
  <2>5. WroteAt(p, l) /\ CaughtUpAt(p, l) /\ HeardAt(p, l) => WroteAt(p, l)' /\ HeardAt(p, l)'
    <3>1. CaughtUpAt(p, l) => WroteAt(p, l)'
      BY <1>1, <1>13, <2>2 DEF CaughtUpAt, WroteAt, ReadAll, CaughtUp, SameSide
    <3>2. HeardAt(p, l) => HeardAt(p, l)'
      BY <1>1, <1>13, <2>2 DEF HeardAt, Listens, SameSide
    <3> QED BY <3>1, <3>2
  <2>6. CaughtUpAt(p, l)' /\ AskedAt(p, l)'
    BY <1>1, <2>2 DEF CaughtUpAt, AskedAt
  <2> QED BY <2>1, <2>2, <2>3, <2>4, <2>5, <2>6 DEF SentAt
<1>21. HandlerAt(l)' /\ HandshakeAt(l)'
  <2>1. HandlerAt(l) /\ HandshakeAt(l)
    BY <1>b DEF LinkOK
  <2>2. CASE s = "server"
    <3>1. handler[l] = "done"
      BY <1>1, <1>b, <2>2 DEF BaseInv, LinkInv
    <3>2. ~(rlink["client"] = l /\ phase["client"] = "response")
      BY <1>1, <2>1, <2>2 DEF HandshakeAt
    <3>3. rlink'["client"] = rlink["client"] /\ phase'["client"] = phase["client"]
      BY <1>13, <2>2 DEF SameSide, Peer
    <3> QED BY <1>3, <3>1, <3>2, <3>3 DEF HandlerAt, HandshakeAt
  <2>3. CASE s = "client"
    <3>1. handler[l] \notin {"request", "recover"}
      BY <1>1, <1>l, <2>1, <2>3 DEF HandlerAt
    <3> QED BY <1>1, <1>3, <1>4, <2>3, <3>1 DEF HandlerAt, HandshakeAt
  <2> QED BY <2>2, <2>3 DEF Sides
<1>22. LinkOK(l)'
  BY <1>12, <1>17, <1>18, <1>19, <1>20, <1>21 DEF LinkOK
<1> QED BY <1>11, <1>16, <1>22, SessionPartsNext

\* No side writes 2^31 packets, so that positions fit the int32 of the header.
PacketsNumbered == \A s \in Sides : MaxPackets[s] < HalfRange

LEMMA HeaderNumber ==
    ASSUME PacketsNumbered, BaseInv, NEW s \in Sides
    PROVE  Int32(rseq[s]) = rseq[s] /\ Header(rseq[s]) \in Message
<1>1. /\ Peer(s) \in Sides /\ rseq[s] \in Nat /\ wseq[Peer(s)] \in Nat
      /\ MaxPackets[Peer(s)] \in Nat /\ HalfRange \in Nat
  BY PeerType, Basics, ConnectionAssumption
<1>2. /\ rseq[s] <= wseq[Peer(s)] /\ wseq[Peer(s)] <= MaxPackets[Peer(s)]
      /\ MaxPackets[Peer(s)] < HalfRange
  BY <1>1 DEF BaseInv, ReaderInv, PacketsNumbered
<1>3. rseq[s] < HalfRange
  BY <1>1, <1>2
<1> QED BY <1>1, <1>3, MessageTypes DEF Int32

\* A message written on an empty queue.
LEMMA Singleton ==
    ASSUME NEW m \in Message
    PROVE  /\ Append(<<>>, m) = <<m>> /\ <<m>> # <<>> /\ <<m>> \in Seq(Message)
           /\ Len(<<m>>) = 1 /\ <<m>>[1] = m
OBVIOUS

\* A header alone on a link is a stream.
LEMMA HeaderStream ==
    ASSUME NEW q \in Seq(Message), Len(q) <= 1,
           \A i \in 1..Len(q) : q[i].type = "header", NEW r, NEW w
    PROVE  /\ Stream(q, r, w)
           /\ q # <<>> => q[1].type = "header" /\ q[Len(q)].type = "header"
<1>1. Len(q) \in Nat /\ (q # <<>> => Len(q) = 1)
  <2>1. Len(q) \in Nat
    BY LenProperties
  <2>2. q # <<>> => Len(q) # 0
    BY EmptySeq
  <2>3. \A n \in Nat : n <= 1 /\ n # 0 => n = 1
    OBVIOUS
  <2> QED BY <2>1, <2>2, <2>3
<1>2. \A i \in 1..Len(q) : Brings(q[i], r, w)
  BY DEF Brings
<1>3. Stream(q, r, w)
  BY <1>1, <1>2 DEF Stream
<1>4. q # <<>> => q[1].type = "header" /\ q[Len(q)].type = "header"
  BY <1>1
<1> QED BY <1>3, <1>4

\* The client reads the response and sends its position.
LEMMA ClientResponseKeeps ==
    ASSUME PacketsNumbered,
           SessionInv, TypeOK', PhaseInv', LinkInv', ClientResponse
    PROVE  SessionInv'
<1>b. BaseInv /\ \A k \in Links : LinkOK(k)
  BY SessionParts
<1>l. PICK l \in Links : rlink["client"] = l
  BY <1>b, Basics DEF ClientResponse
<1> DEFINE q == net[l]["client"]
           t == Tail(q)
           h == Header(rseq["client"])
<1>1. /\ "client" \in Sides /\ "server" \in Sides /\ net \in Net /\ l # 0
      /\ \A u \in Sides : u = "client" \/ u = "server"
      /\ Peer("client") = "server" /\ Peer("server") = "client"
      /\ q \in Seq(Message) /\ rseq["client"] \in Nat
  BY <1>b, Basics DEF Sides, Peer
<1>2. /\ phase["client"] = "response" /\ fd["client"] = 0 /\ q # <<>>
      /\ Head(q) = Response
      /\ phase' = [phase EXCEPT !["client"] = "header"]
      /\ UNCHANGED <<wseq, low, readers, fd, rlink, handler, up>>
  BY <1>1, <1>b, <1>l, Basics DEF ClientResponse, Arrived, writers
<1>3. /\ Int32(rseq["client"]) = rseq["client"] /\ h \in Message /\ h.type = "header"
      /\ h.num = rseq["client"] /\ Response.type = "response"
  BY <1>1, <1>b, HeaderNumber, MessageKinds
<1>4. /\ q[1] = Response /\ t \in Seq(Message) /\ 1 \in 1..Len(q)
  BY <1>1, <1>2, Popped
<1>5. HandlerAt(l) /\ HandshakeAt(l)
  BY <1>b DEF LinkOK
<1>6. /\ handler[l] # "request" /\ net[l]["server"] = <<>>
      /\ Listens("server", l) => rlink["server"] = l /\ phase["server"] = "header"
  BY <1>2, <1>5, <1>l DEF HandlerAt, HandshakeAt
<1>7. \A k \in Links, u \in Sides :
         net'[k][u] = IF k # l THEN net[k][u]
                      ELSE IF u = "client" THEN t
                      ELSE IF up[l] THEN <<h>> ELSE <<>>
  <2> DEFINE popped == [net EXCEPT ![l]["client"] = t]
  <2>1. popped \in Net
    <3> HIDE DEF t, q
    <3> QED BY <1>1, <1>4 DEF Net
  <2>2. \A k \in Links, u \in Sides :
           popped[k][u] = IF k = l /\ u = "client" THEN t ELSE net[k][u]
    <3> HIDE DEF t, q
    <3> QED BY <1>1 DEF Net
  <2>3. popped[l]["server"] = <<>>
    BY <1>1, <1>6, <2>2
  <2>4. Append(popped[l]["server"], h) = <<h>>
    <3> HIDE DEF popped, h
    <3> QED BY <1>3, <2>3, Singleton
  <2>5. net' = IF up[l]
               THEN [popped EXCEPT ![l]["server"] = Append(popped[l]["server"], h)]
               ELSE popped
    BY <1>3, <1>l DEF ClientResponse
  <2> HIDE DEF popped, t, q, h
  <2>6. CASE up[l]
    <3>1. net' = [popped EXCEPT ![l]["server"] = <<h>>]
      BY <2>4, <2>5, <2>6
    <3>2. \A k \in Links, u \in Sides :
             net'[k][u] = IF k = l /\ u = "server" THEN <<h>> ELSE popped[k][u]
      BY <1>1, <2>1, <3>1 DEF Net
    <3> QED BY <1>1, <2>2, <2>6, <3>2
  <2>7. CASE ~up[l]
    BY <1>1, <1>6, <2>2, <2>5, <2>7
  <2> QED BY <2>6, <2>7
<1>8. ReaderInv' /\ Growing
  BY <1>2, <1>b, ReadersIdle
<1>9. BaseInv'
  BY <1>8 DEF BaseInv
<1>10. phase'["client"] = "header" /\ phase'["server"] = phase["server"]
  BY <1>1, <1>2, <1>b DEF BaseInv, TypeOK
<1>11. \A u \in Sides, k \in Links : Listens(u, k)' <=> Listens(u, k)
  BY <1>2 DEF Listens
<1>12. ASSUME NEW k \in Links, k # l PROVE LinkOK(k)'
  <2>1. ~Listens("client", k)
    BY <1>2, <1>l, <1>12 DEF Listens
  <2>2. SameSide("server")
    BY <1>2, <1>10 DEF SameSide, readers
  <2>3. ~Listens("client", k)'
    BY <1>1, <1>11, <2>1
  <2>4. \A u \in Sides : SameSide(u) \/ (~Listens(u, k)' /\ (Listens(u, k) => ~up'[k]))
    BY <1>1, <2>1, <2>2, <2>3
  <2> HIDE DEF t, h
  <2>5. \A u \in Sides : net'[k][u] = net[k][u]
    BY <1>7, <1>12
  <2> QED BY <1>2, <1>8, <1>9, <1>b, <2>4, <2>5, LinkKept
<1>13. LinkOK(l)'
  <2>1. StreamAt("client", l)'
    <3>1. Stream(q, rseq["client"], wseq["server"])
      BY <1>1, <1>b, <1>l DEF LinkOK, StreamAt, Listens
    <3>2. /\ Stream(t, rseq["client"], wseq["server"])
          /\ t # <<>> => Follows(rseq["client"], Response, t[1])
      BY <1>1, <1>2, <1>4, <3>1, StreamTail
    <3>3. t # <<>> => t[1].type = "header"
      BY <1>3, <3>2 DEF Follows
    <3>4. net'[l]["client"] = t /\ rseq' = rseq /\ wseq' = wseq
      BY <1>1, <1>2, <1>7 DEF readers
    <3> HIDE DEF t
    <3> QED BY <1>1, <1>10, <3>2, <3>3, <3>4 DEF StreamAt, Awaited
  <2>2. HeaderAt("client", l)'
    <3>1. HeaderAt("client", l) /\ net'[l]["client"] = t
      BY <1>1, <1>7, <1>b DEF LinkOK
    <3> QED BY <1>1, <1>2, <1>b, <3>1, HeaderPopped DEF readers
  <2>3. SentAt("client", l)'
    <3> SUFFICES ASSUME up[l] PROVE SentAt("client", l)'
      BY <1>2 DEF SentAt
    <3>1. AskedAt("client", l)
      BY <1>1, <1>b DEF LinkOK, SentAt
    <3>2. fd["server"] # l /\ (rlink["server"] = l => phase["server"] = "header")
      BY <1>1, <1>6, <1>b, Basics DEF Listens
    <3>3. rlink["server"] = l => t # <<>> /\ t[Len(t)].type = "header"
      <4> SUFFICES ASSUME rlink["server"] = l PROVE t # <<>> /\ t[Len(t)].type = "header"
        OBVIOUS
      <4>1. q[Len(q)].type = "header"
        BY <1>1, <1>2, <3>1, <3>2 DEF AskedAt
      <4>2. /\ t # <<>> => t[Len(t)] = q[Len(q)]
            /\ t = <<>> => q[Len(q)] = q[1]
        BY <1>1, <1>2, PoppedLast
      <4> QED BY <1>3, <1>4, <4>1, <4>2
    <3>4. net'[l]["client"] = t /\ Listens("client", l)'
      BY <1>1, <1>7, <1>11, <1>l DEF Listens
    <3> HIDE DEF t
    <3> QED BY <1>1, <1>2, <1>10, <3>2, <3>3, <3>4
            DEF SentAt, WroteAt, CaughtUpAt, AskedAt, HeardAt
  <2>4. /\ <<h>> # <<>> /\ <<h>> \in Seq(Message) /\ Len(<<h>>) = 1 /\ <<h>>[1] = h
        /\ Len(<<>>) = 0
    <3> HIDE DEF h
    <3> QED BY <1>3, Singleton
  <2>5. net'[l]["server"] = IF up[l] THEN <<h>> ELSE <<>>
    BY <1>1, <1>7
  <2> DEFINE c == net'[l]["server"]
  <2>6. /\ c \in Seq(Message) /\ Len(c) <= 1
        /\ \A i \in 1..Len(c) : c[i].type = "header" /\ c[i].num = rseq["client"]
        /\ up[l] => c # <<>>
    <3> HIDE DEF h
    <3> QED BY <1>3, <2>4, <2>5
  <2>7. /\ Stream(c, rseq["server"], wseq["client"])
        /\ c # <<>> => c[1].type = "header" /\ c[Len(c)].type = "header"
    <3> HIDE DEF c
    <3> QED BY <2>6, HeaderStream
  <2>8. StreamAt("server", l)'
    <3> SUFFICES ASSUME Listens("server", l) PROVE StreamAt("server", l)'
      BY <1>1, <1>11 DEF StreamAt
    <3>1. phase'["server"] = "header"
      BY <1>6, <1>10
    <3> QED BY <1>1, <1>2, <2>7, <3>1 DEF StreamAt, Awaited, readers
  <2>9. HeaderAt("server", l)'
    BY <1>1, <1>2, <2>6 DEF HeaderAt, readers
  <2>10. SentAt("server", l)'
    <3> SUFFICES ASSUME up[l] PROVE SentAt("server", l)'
      BY <1>2 DEF SentAt
    <3>1. Listens("server", l) \/ handler[l] = "recover"
      BY <1>6, <1>b DEF BaseInv, LinkInv
    <3>2. Listens("server", l)' \/ handler'[l] = "recover"
      BY <1>1, <1>2, <1>11, <3>1
    <3>3. WroteAt("server", l)' /\ CaughtUpAt("server", l)'
      BY <1>1, <1>2, <1>10 DEF WroteAt, CaughtUpAt
    <3>4. AskedAt("server", l)'
      BY <2>6, <2>7 DEF AskedAt
    <3> QED BY <3>2, <3>3, <3>4 DEF SentAt, HeardAt
  <2>11. HandlerAt(l)'
    <3>1. handler[l] = "recover" => t = <<>>
      <4> SUFFICES ASSUME handler[l] = "recover" PROVE t = <<>>
        OBVIOUS
      <4>1. q = <<Response>>
        BY <1>2, <1>5 DEF HandlerAt
      <4> QED BY <4>1
    <3>2. net'[l]["client"] = t
      BY <1>1, <1>7
    <3> HIDE DEF t
    <3> QED BY <1>2, <1>6, <1>10, <2>6, <3>1, <3>2 DEF HandlerAt
  <2>12. HandshakeAt(l)'
    BY <1>10 DEF HandshakeAt
  <2> QED BY <1>1, <2>1, <2>2, <2>3, <2>8, <2>9, <2>10, <2>11, <2>12 DEF LinkOK
<1> QED BY <1>9, <1>12, <1>13, SessionPartsNext

\* recoverClient closes the old socket and sends the position of the server on
\* the new one, behind the response.
LEMMA HandlerRecoverKeeps ==
    ASSUME PacketsNumbered,
           SessionInv, TypeOK', PhaseInv', LinkInv', NEW l \in Links, HandlerRecover(l)
    PROVE  SessionInv'
<1>b. BaseInv /\ \A k \in Links : LinkOK(k)
  BY SessionParts
<1> DEFINE q == net[l]["server"]
           c == net[l]["client"]
           h == Header(rseq["server"])
<1>1. /\ "client" \in Sides /\ "server" \in Sides /\ net \in Net /\ l # 0
      /\ \A u \in Sides : u = "client" \/ u = "server"
      /\ Peer("client") = "server" /\ Peer("server") = "client"
      /\ q \in Seq(Message) /\ c \in Seq(Message) /\ rseq["server"] \in Nat
  BY <1>b, Basics DEF Sides, Peer
<1>2. /\ handler[l] = "recover" /\ phase["server"] = "idle" /\ rlink["server"] = 0
      /\ fd' = [fd EXCEPT !["server"] = 0]
      /\ phase' = [phase EXCEPT !["server"] = "header"]
      /\ rlink' = [rlink EXCEPT !["server"] = l]
      /\ handler' = [handler EXCEPT ![l] = "done"]
      /\ UNCHANGED <<wseq, low, readers>>
  BY <1>1, <1>b, Basics DEF HandlerRecover, Unlocked, writers
<1>3. /\ Int32(rseq["server"]) = rseq["server"] /\ h \in Message /\ h.type = "header"
      /\ h.num = rseq["server"]
  BY <1>1, <1>b, HeaderNumber, MessageKinds
<1>4. ~Listens("server", l) /\ fd["server"] # l
  BY <1>1, <1>2, <1>b DEF BaseInv, LinkInv, Listens
<1>o. PICK o \in 0..MaxLinks : fd["server"] = o
  BY <1>1, <1>b DEF BaseInv, TypeOK
<1>5. /\ \A k \in Links : up'[k] = IF k = o THEN FALSE ELSE up[k]
      /\ \A k \in Links : handler'[k] = IF k = l THEN "done" ELSE handler[k]
      /\ fd'["server"] = 0 /\ fd'["client"] = fd["client"]
      /\ phase'["server"] = "header" /\ phase'["client"] = phase["client"]
      /\ rlink'["server"] = l /\ rlink'["client"] = rlink["client"]
  <2>1. up' = IF o = 0 THEN up ELSE [up EXCEPT ![o] = FALSE]
    BY <1>o DEF HandlerRecover
  <2>2. \A k \in Links : k # 0
    BY <1>b, Basics
  <2>3. \A k \in Links : up'[k] = IF k = o THEN FALSE ELSE up[k]
    BY <1>b, <2>1, <2>2 DEF BaseInv, TypeOK
  <2>4. \A k \in Links : handler'[k] = IF k = l THEN "done" ELSE handler[k]
    BY <1>2, <1>b DEF BaseInv, TypeOK
  <2>5. fd'["server"] = 0 /\ fd'["client"] = fd["client"]
    BY <1>1, <1>2, <1>b DEF BaseInv, TypeOK
  <2>6. phase'["server"] = "header" /\ phase'["client"] = phase["client"]
    BY <1>1, <1>2, <1>b DEF BaseInv, TypeOK
  <2>7. rlink'["server"] = l /\ rlink'["client"] = rlink["client"]
    BY <1>1, <1>2, <1>b DEF BaseInv, TypeOK
  <2> QED BY <2>3, <2>4, <2>5, <2>6, <2>7
<1>6. \A k \in Links, u \in Sides :
         net'[k][u] = IF k = o /\ u = "server" THEN <<>>
                      ELSE IF k = l /\ u = "client" /\ up[l] THEN Append(c, h)
                      ELSE net[k][u]
  <2> DEFINE closed == IF o = 0 THEN net ELSE [net EXCEPT ![o]["server"] = <<>>]
  <2>1. closed \in Net
    <3>1. <<>> \in Seq(Message)
      OBVIOUS
    <3> QED BY <1>1, <3>1 DEF Net
  <2>2. \A k \in Links : k # 0
    BY <1>b, Basics
  <2>3. \A k \in Links, u \in Sides :
           closed[k][u] = IF k = o /\ u = "server" THEN <<>> ELSE net[k][u]
    BY <1>1, <2>2 DEF Net
  <2>4. closed[l]["client"] = c
    BY <1>1, <2>3
  <2>5. net' = IF up[l]
               THEN [closed EXCEPT ![l]["client"] = Append(closed[l]["client"], h)]
               ELSE closed
    BY <1>3, <1>o DEF HandlerRecover, Discard
  <2> HIDE DEF closed, c, h
  <2>6. CASE up[l]
    <3>1. net' = [closed EXCEPT ![l]["client"] = Append(c, h)]
      BY <2>4, <2>5, <2>6
    <3>2. \A k \in Links, u \in Sides :
             net'[k][u] = IF k = l /\ u = "client" THEN Append(c, h) ELSE closed[k][u]
      BY <1>1, <2>1, <3>1 DEF Net
    <3> QED BY <1>1, <2>3, <2>6, <3>2
  <2>7. CASE ~up[l]
    BY <2>3, <2>5, <2>7
  <2> QED BY <2>6, <2>7
<1>7. ReaderInv' /\ Growing
  BY <1>1, <1>2, <1>5, <1>b, ReadersIdle
<1>8. BaseInv'
  BY <1>7 DEF BaseInv
<1>9. SameSide("client")
  BY <1>2, <1>5 DEF SameSide, readers
<1>10. ASSUME NEW k \in Links, k # l PROVE LinkOK(k)'
  <2>1. ~Listens("server", k)' /\ (Listens("server", k) => ~up'[k])
    BY <1>1, <1>2, <1>5, <1>10, <1>o DEF Listens
  <2>2. \A u \in Sides : net'[k][u] = net[k][u] \/ (net'[k][u] = <<>> /\ ~up'[k])
    <3> HIDE DEF c, h
    <3> QED BY <1>5, <1>6, <1>10
  <2>3. handler'[k] = handler[k] /\ (up'[k] => up[k])
    BY <1>5, <1>10
  <2>4. \A u \in Sides : wseq'[u] = wseq[u]
    BY <1>2
  <2> QED BY <1>1, <1>7, <1>8, <1>9, <1>b, <2>1, <2>2, <2>3, <2>4, LinkKept
<1>11. LinkOK(l)'
  <2>0. HandlerAt(l) /\ HandshakeAt(l)
    BY <1>b DEF LinkOK
  <2>1. /\ net'[l]["server"] = q /\ up'[l] = up[l] /\ handler'[l] = "done"
        /\ net'[l]["client"] = IF up[l] THEN Append(c, h) ELSE c
    <3> HIDE DEF h
    <3> QED BY <1>1, <1>4, <1>5, <1>6, <1>o
  <2>2. /\ Len(q) <= 1 /\ \A i \in 1..Len(q) : q[i].type = "header"
        /\ c \in {<<>>, <<Response>>}
        /\ rlink["client"] = l => phase["client"] \in {"response", "header"}
    BY <1>2, <2>0 DEF HandlerAt
  <2>3. StreamAt("server", l)'
    <3>1. /\ Stream(q, rseq["server"], wseq["client"])
          /\ q # <<>> => q[1].type = "header"
      <4> HIDE DEF q
      <4> QED BY <1>1, <2>2, HeaderStream
    <3>2. rseq' = rseq /\ wseq' = wseq
      BY <1>2 DEF readers
    <3> HIDE DEF q
    <3> QED BY <1>1, <1>5, <2>1, <3>1, <3>2 DEF StreamAt, Awaited
  <2>4. HeaderAt("server", l)'
    <3>1. HeaderAt("server", l)
      BY <1>1, <1>b DEF LinkOK
    <3> QED BY <1>1, <1>2, <1>5, <2>1, <3>1 DEF HeaderAt, readers
  <2>5. up[l] => /\ fd["client"] # l
                 /\ rlink["client"] = l /\ phase["client"] \in {"response", "header"}
                 /\ phase["client"] = "header" => q # <<>>
    <3> SUFFICES ASSUME up[l]
                 PROVE  /\ fd["client"] # l
                        /\ rlink["client"] = l /\ phase["client"] \in {"response", "header"}
                        /\ phase["client"] = "header" => q # <<>>
      OBVIOUS
    <3>1. /\ fd["client"] # l
          /\ rlink["client"] = l /\ phase["client"] = "header" => q # <<>>
      BY <1>4, <1>b, HandlerPending
    <3>2. Listens("client", l)
      BY <1>b DEF BaseInv, LinkInv
    <3> QED BY <2>2, <3>1, <3>2 DEF Listens
  <2>6. Listens("server", l)'
    BY <1>1, <1>5 DEF Listens
  <2>7. SentAt("server", l)'
    <3> SUFFICES ASSUME up[l] PROVE SentAt("server", l)'
      BY <2>1 DEF SentAt
    <3>1. q # <<>> => q[Len(q)].type = "header"
      <4> HIDE DEF q
      <4> QED BY <1>1, <2>2, HeaderStream
    <3>2. WroteAt("server", l)' /\ CaughtUpAt("server", l)'
      BY <1>1, <1>5, <2>5 DEF WroteAt, CaughtUpAt
    <3>3. AskedAt("server", l)'
      <4> HIDE DEF q
      <4> QED BY <1>1, <1>5, <2>1, <2>5, <3>1 DEF AskedAt
    <3> QED BY <2>6, <3>2, <3>3 DEF SentAt, HeardAt
  <2>8. ASSUME up[l]
        PROVE  StreamAt("client", l)' /\ HeaderAt("client", l)' /\ SentAt("client", l)'
    <3> DEFINE d == Append(c, h)
               r == rseq["client"]
               w == wseq["server"]
    <3>1. net'[l]["client"] = d
      BY <2>1, <2>8
    <3>2. /\ Response \in Message /\ Response.type = "response" /\ Stage(Response) = 1
          /\ Stage(h) = 2
      <4>1. Response \in Message /\ Response.type = "response"
        BY MessageTypes, MessageKinds
      <4> HIDE DEF h
      <4> QED BY <1>3, <4>1, StageOf
    <3>3. Stream(c, r, w) /\ (c # <<>> => Awaited(phase["client"], partial["client"], r, c[1]))
      BY <1>1, <1>b, <2>5, <2>8 DEF LinkOK, StreamAt, Listens
    <3>4. c = <<>> => phase["client"] = "header"
      BY <1>2, <2>0, <2>5, <2>8 DEF HandshakeAt
    <3>5. \A i \in 1..Len(c) : c[i] = Response
      BY <2>2
    <3>6. c # <<>> => c[Len(c)] = Response
      BY <2>2
    <3>7. Follows(r, Response, h) /\ Later(Response, h) /\ Brings(h, r, w)
      <4> HIDE DEF h
      <4> QED BY <1>3, <3>2 DEF Follows, Later, Brings
    <3>8. /\ Stream(d, r, w) /\ d # <<>> /\ d[Len(d)] = h
          /\ d[1] = IF c = <<>> THEN h ELSE c[1]
      <4> HIDE DEF c, h, r, w
      <4>1. c # <<>> => Follows(r, c[Len(c)], h)
        BY <3>6, <3>7
      <4>2. \A i \in 1..Len(c) : Later(c[i], h)
        BY <3>5, <3>7
      <4> QED BY <1>1, <1>3, <3>3, <3>7, <4>1, <4>2, StreamAppend
    <3>9. Awaited(phase["client"], partial["client"], r, d[1])
      <4> HIDE DEF c, h, d
      <4> QED BY <1>3, <3>3, <3>4, <3>8 DEF Awaited
    <3>10. StreamAt("client", l)'
      <4> HIDE DEF d
      <4> QED BY <1>1, <1>2, <1>5, <3>1, <3>8, <3>9 DEF StreamAt, readers
    <3>11. HeaderAt("client", l)'
      <4>1. /\ Len(c) \in Nat /\ Len(d) = Len(c) + 1
            /\ \A i \in 1..Len(c) : d[i] = c[i]
            /\ d[Len(c) + 1] = h
        <5> HIDE DEF c, h
        <5> QED BY <1>1, <1>3, AppendProperties, LenProperties
      <4>2. \A i \in 1..Len(d) : d[i].type = "header" => d[i] = h
        <5> HIDE DEF c, h, d
        <5> QED BY <3>2, <3>5, <4>1
      <4>3. rseq["server"] \in 0..rseq["server"]
        BY <1>1
      <4> HIDE DEF d, h
      <4> QED BY <1>1, <1>2, <1>3, <3>1, <4>2, <4>3 DEF HeaderAt, readers
    <3>12. SentAt("client", l)'
      <4>1. Listens("client", l)'
        BY <1>1, <1>5, <2>5, <2>8 DEF Listens
      <4>2. WroteAt("client", l)' /\ CaughtUpAt("client", l)'
        BY <1>1, <1>5 DEF WroteAt, CaughtUpAt
      <4>3. AskedAt("client", l)'
        <5> HIDE DEF d, h
        <5> QED BY <1>3, <3>1, <3>8 DEF AskedAt
      <4> QED BY <4>1, <4>2, <4>3 DEF SentAt, HeardAt
    <3> QED BY <3>10, <3>11, <3>12
  <2>9. ASSUME ~up[l]
        PROVE  StreamAt("client", l)' /\ HeaderAt("client", l)' /\ SentAt("client", l)'
    <3>1. StreamAt("client", l) /\ HeaderAt("client", l)
      BY <1>1, <1>b DEF LinkOK
    <3>2. net'[l]["client"] = net[l]["client"]
      BY <2>1, <2>9
    <3>3. StreamAt("client", l)'
      BY <1>2, <1>5, <3>1, <3>2 DEF StreamAt, Listens, readers
    <3>4. HeaderAt("client", l)'
      <4>1. \A i \in 1..Len(c) : c[i] = Response
        BY <2>2
      <4>2. \A i \in 1..Len(net'[l]["client"]) : net'[l]["client"][i].type # "header"
        BY <3>2, <4>1, MessageKinds
      <4> QED BY <4>2 DEF HeaderAt
    <3> QED BY <2>1, <2>9, <3>3, <3>4 DEF SentAt
  <2>10. HandlerAt(l)'
    BY <2>1 DEF HandlerAt
  <2>11. HandshakeAt(l)'
    BY <1>2, <1>5, <2>0, <2>1 DEF HandshakeAt
  <2> QED BY <1>1, <2>3, <2>4, <2>7, <2>8, <2>9, <2>10, <2>11 DEF LinkOK
<1> QED BY <1>8, <1>10, <1>11, SessionPartsNext

\* A side that reads a header on a link that is up reads the position of a peer
\* that waits for the answer, and nothing that peer waits for is overtaken.
LEMMA HeaderHeard ==
    ASSUME BaseInv, NEW s \in Sides, NEW l \in Links, LinkOK(l), up[l],
           rlink[s] = l, phase[s] = "header", net[l][s] # <<>>,
           net[l][s][1].type = "header"
    PROVE  /\ rlink[Peer(s)] = l
           /\ net[l][s][1].num = rseq[Peer(s)]
           /\ handler[l] = "done"
           /\ net[l][Peer(s)] = <<>> => phase[Peer(s)] = "catchup"
           /\ net[l][Peer(s)] # <<>> =>
                 net[l][Peer(s)][Len(net[l][Peer(s)])].type = "header"
<1> DEFINE p == Peer(s)
           q == net[l][s]
           c == net[l][p]
<1>1. /\ p \in Sides /\ p # s /\ Peer(p) = s /\ l # 0
      /\ q \in Seq(Message) /\ c \in Seq(Message) /\ 1 \in 1..Len(q)
  BY Basics, PeerType, Popped
<1>2. /\ c = <<>> => rlink[p] = l /\ phase[p] = "catchup"
      /\ c # <<>> => c[Len(c)].type = "header"
      /\ Listens(p, l) \/ (p = "server" /\ handler[l] = "recover")
  BY <1>1 DEF LinkOK, SentAt, AskedAt, HeardAt
<1>3. Listens(p, l)
  <2> SUFFICES ASSUME p = "server", handler[l] = "recover" PROVE FALSE
    BY <1>2
  <2>1. s = "client"
    BY DEF Sides, Peer
  <2>2. q = <<Response>>
    BY <2>1 DEF LinkOK, HandlerAt
  <2>3. q[1] = Response
    BY <2>2
  <2> QED BY <2>3, MessageKinds
<1>4. rlink[p] = l
  <2> SUFFICES ASSUME fd[p] = l PROVE FALSE
    BY <1>3 DEF Listens
  <2>1. phase[p] = "idle" /\ rlink[p] # l
    BY <1>1, Basics
  <2>2. c # <<>>
    BY <1>2, <2>1
  <2>3. c[1].type \in {"first", "last"}
    BY <1>1, <2>2, SocketHead
  <2>4. Stream(c, rseq[p], wseq[s])
    BY <1>1, <1>3 DEF LinkOK, StreamAt
  <2> DEFINE z == c[Len(c)]
  <2>5. Len(c) \in Nat \ {0} /\ c[1] \in Message /\ z \in Message
    BY <1>1, <2>2, Popped
  <2>6. z.type = "header"
    BY <1>2, <2>2
  <2>7. Len(c) > 1
    <3>1. Len(c) = 1 => z = c[1]
      OBVIOUS
    <3> HIDE DEF z, c
    <3>2. Len(c) # 1
      BY <2>3, <2>6, <3>1
    <3>3. \A n \in Nat \ {0} : n # 1 => n > 1
      OBVIOUS
    <3> QED BY <2>5, <3>2, <3>3
  <2>8. Later(c[1], z)
    <3>1. 1 \in 1..Len(c) /\ Len(c) \in 1..Len(c) /\ 1 < Len(c)
      <4> HIDE DEF c
      <4> QED BY <2>5, <2>7
    <3> QED BY <2>4, <3>1 DEF Stream
  <2>9. Stage(c[1]) = 4 /\ Stage(z) = 2
    <3> HIDE DEF z, c
    <3> QED BY <2>3, <2>5, <2>6, StageOf
  <2> HIDE DEF z, c
  <2> QED BY <2>8, <2>9 DEF Later
<1>5. q[1].num = rseq[p]
  BY <1>1, <1>4 DEF LinkOK, HeaderAt
<1>6. Listens("server", l)
  BY <1>1, <1>4 DEF Listens, Sides, Peer
<1>7. handler[l] = "done"
  BY <1>6 DEF BaseInv, LinkInv
<1> QED BY <1>2, <1>4, <1>5, <1>7

\* The packets that are missing, as a catchup buffer.
LEMMA RecoveredPackets ==
    ASSUME NEW s \in Sides, wseq[s] \in Nat, NEW r \in Nat, r <= wseq[s]
    PROVE  LET c == Recovered(s, r)
               m == Catchup(c)
           IN  /\ c \in Seq(Nat) /\ r + Len(c) = wseq[s] /\ Len(c) = wseq[s] - r
               /\ m \in Message /\ m.type = "catchup" /\ m.packets = c
               /\ Stage(m) = 3
               /\ Brings(m, r, wseq[s])
<1> DEFINE n == wseq[s] - r
           c == Recovered(s, r)
           m == Catchup(c)
<1>1. n \in Nat /\ r + n = wseq[s]
  OBVIOUS
<1>2. c = [i \in 1..n |-> r + i]
  BY DEF Recovered
<1>3. c \in Seq(Nat) /\ Len(c) = n /\ \A j \in 1..n : c[j] = r + j
  <2> HIDE DEF n, c
  <2>1. \A i \in 1..n : r + i \in Nat
    BY <1>1
  <2>2. [i \in 1..n |-> r + i] \in Seq(Nat) /\ Len([i \in 1..n |-> r + i]) = n
    BY <1>1, <2>1
  <2> QED BY <1>2, <2>2
<1> HIDE DEF c, n
<1>4. m \in Message /\ m.type = "catchup" /\ m.packets = c
  BY <1>3, MessageTypes, MessageKinds
<1> HIDE DEF m
<1>5. Stage(m) = 3
  BY <1>4, StageOf
<1>6. Brings(m, r, wseq[s])
  <2>1. r + Len(c) <= wseq[s]
    BY <1>1, <1>3
  <2> QED BY <1>3, <1>4, <2>1 DEF Brings
<1> QED BY <1>1, <1>3, <1>4, <1>5, <1>6 DEF c, m, n

\* The header is answered with what its sender has not received.  Only a
\* backup over the limit of writeProto can end the process.
LEMMA RecvHeaderKeeps ==
    ASSUME SessionInv, TypeOK', PhaseInv', LinkInv', NEW s \in Sides, RecvHeader(s)
    PROVE  /\ SessionInv'
           /\ process' # process => wseq[s] - low[s] > ProtoLimit
<1>b. BaseInv /\ \A k \in Links : LinkOK(k)
  BY SessionParts
<1>l. PICK l \in Links : rlink[s] = l
  BY <1>b, Basics DEF RecvHeader
<1> DEFINE p == Peer(s)
           q == net[l][s]
           m == q[1]
           t == Tail(q)
           c == net[l][p]
           r == rseq[p]
           a == Catchup(Recovered(s, m.num))
<1>1. /\ phase[s] = "header" /\ l # 0 /\ q # <<>> /\ fd[s] = 0
      /\ p \in Sides /\ p # s /\ Peer(p) = s
      /\ net \in Net /\ q \in Seq(Message) /\ c \in Seq(Message)
      /\ r \in Nat /\ wseq[s] \in Nat /\ low[s] \in Nat
      /\ \A k \in Links : Listens(s, k) <=> k = l
  BY <1>b, <1>l, Basics, PeerType DEF RecvHeader, Arrived, Listens
<1>2. Head(q) = m /\ t \in Seq(Message) /\ m \in Message /\ 1 \in 1..Len(q)
  BY <1>1, Popped
<1>3. /\ m.type = "header"
      /\ process' = IF \/ m.num > wseq[s]
                       \/ m.num >= low[s] /\ wseq[s] - m.num > ProtoLimit
                    THEN "fatal" ELSE process
      /\ UNCHANGED <<wseq, low, readers, fd, handler>>
      /\ \/ Abandon(s, l)
         \/ /\ net' = IF up[l]
                      THEN [[net EXCEPT ![l][s] = t] EXCEPT ![l][p] =
                              Append([net EXCEPT ![l][s] = t][l][p], a)]
                      ELSE [net EXCEPT ![l][s] = t]
            /\ phase' = [phase EXCEPT ![s] = "catchup"]
            /\ UNCHANGED <<up, rlink>>
  <2>1. Head(net[rlink[s]][s]) = m
    BY <1>2, <1>l
  <2> HIDE DEF m
  <2> QED BY <1>l, <2>1 DEF RecvHeader, writers
<1>4. m.num \in 0..r /\ r <= wseq[s]
  <2>1. m.num \in 0..r
    BY <1>2, <1>3, <1>b DEF LinkOK, HeaderAt
  <2>2. r <= wseq[s]
    BY <1>1, <1>b DEF BaseInv, ReaderInv
  <2> QED BY <2>1, <2>2
<1>5. process' # process => wseq[s] - low[s] > ProtoLimit
  <2> HIDE DEF m, r
  <2>1. m.num \in Nat /\ m.num <= wseq[s]
    BY <1>1, <1>4
  <2> QED BY <1>1, <1>3, <2>1, ConnectionAssumption
<1>6. CASE Abandon(s, l)
  <2>1. SessionInv'
    BY <1>1, <1>3, <1>6, <1>l, AbandonKeeps
  <2> QED BY <1>5, <2>1
<1>7. ASSUME net' = IF up[l]
                    THEN [[net EXCEPT ![l][s] = t] EXCEPT ![l][p] =
                            Append([net EXCEPT ![l][s] = t][l][p], a)]
                    ELSE [net EXCEPT ![l][s] = t],
             phase' = [phase EXCEPT ![s] = "catchup"],
             UNCHANGED <<up, rlink>>
      PROVE  SessionInv'
  <2>1. \A k \in Links, u \in Sides :
           net'[k][u] = IF k = l /\ u = s THEN t
                        ELSE IF k = l /\ u = p /\ up[l] THEN Append(c, a)
                        ELSE net[k][u]
    <3> DEFINE popped == [net EXCEPT ![l][s] = t]
    <3>1. popped \in Net
      <4> HIDE DEF t, q
      <4> QED BY <1>1, <1>2 DEF Net
    <3>2. \A k \in Links, u \in Sides :
             popped[k][u] = IF k = l /\ u = s THEN t ELSE net[k][u]
      <4> HIDE DEF t, q
      <4> QED BY <1>1 DEF Net
    <3>3. popped[l][p] = c
      BY <1>1, <3>2
    <3>4. net' = IF up[l] THEN [popped EXCEPT ![l][p] = Append(popped[l][p], a)]
                 ELSE popped
      BY <1>7
    <3> HIDE DEF popped, t, q, a, c, p
    <3>5. CASE up[l]
      <4>1. net' = [popped EXCEPT ![l][p] = Append(c, a)]
        BY <3>3, <3>4, <3>5
      <4>2. \A k \in Links, u \in Sides :
               net'[k][u] = IF k = l /\ u = p THEN Append(c, a) ELSE popped[k][u]
        BY <1>1, <3>1, <4>1 DEF Net
      <4> QED BY <1>1, <3>2, <3>5, <4>2
    <3>6. CASE ~up[l]
      BY <3>2, <3>4, <3>6
    <3> QED BY <3>5, <3>6
  <2>2. ReaderInv' /\ Growing
    BY <1>3, <1>b, ReadersIdle
  <2>3. BaseInv'
    BY <2>2 DEF BaseInv
  <2>4. phase'[s] = "catchup" /\ \A u \in Sides : u # s => phase'[u] = phase[u]
    BY <1>7, <1>b DEF BaseInv, TypeOK
  <2>5. SameSide(p)
    BY <1>1, <1>3, <1>7, <2>4 DEF SameSide, readers
  <2>6. \A u \in Sides : u = s \/ u = p
    BY <1>1 DEF Sides
  <2>7. \A u \in Sides, k \in Links : Listens(u, k)' <=> Listens(u, k)
    BY <1>3, <1>7 DEF Listens
  <2>8. ASSUME NEW k \in Links, k # l PROVE LinkOK(k)'
    <3>1. \A u \in Sides : SameSide(u) \/ (~Listens(u, k)' /\ (Listens(u, k) => ~up'[k]))
      BY <1>1, <2>5, <2>6, <2>7, <2>8
    <3>2. \A u \in Sides : net'[k][u] = net[k][u]
      <4> HIDE DEF t, a, c
      <4> QED BY <2>1, <2>8
    <3>3. handler'[k] = handler[k] /\ (up'[k] => up[k]) /\ wseq' = wseq
      BY <1>3, <1>7
    <3> QED BY <1>b, <2>2, <2>3, <3>1, <3>2, <3>3, LinkKept
  <2>9. StreamAt(s, l)'
    <3>1. Stream(q, rseq[s], wseq[p])
      BY <1>1, <1>b DEF LinkOK, StreamAt
    <3>2. /\ Stream(t, rseq[s], wseq[p])
          /\ t # <<>> => Follows(rseq[s], m, t[1])
      BY <1>1, <3>1, StreamTail
    <3>3. t # <<>> => t[1].type = "catchup"
      BY <1>3, <3>2 DEF Follows
    <3>4. net'[l][s] = t /\ rseq' = rseq /\ wseq' = wseq
      <4> HIDE DEF t, a, c
      <4> QED BY <1>3, <2>1 DEF readers
    <3> HIDE DEF t
    <3> QED BY <2>4, <3>2, <3>3, <3>4 DEF StreamAt, Awaited
  <2>10. HeaderAt(s, l)'
    <3>1. HeaderAt(s, l)
      BY <1>b DEF LinkOK
    <3>2. net'[l][s] = Tail(net[l][s])
      BY <2>1
    <3>3. rseq'[p] = rseq[p] /\ rlink'[p] = rlink[p]
      BY <2>5 DEF SameSide
    <3> QED BY <1>1, <1>b, <3>1, <3>2, <3>3, HeaderPopped
  <2>11. CASE ~up[l]
    <3>1. SentAt(s, l)' /\ SentAt(p, l)'
      BY <1>7, <2>11 DEF SentAt
    <3>2. StreamAt(p, l) /\ HeaderAt(p, l) /\ HandlerAt(l) /\ HandshakeAt(l)
      BY <1>1, <1>b DEF LinkOK
    <3>3. net'[l][p] = net[l][p]
      <4> HIDE DEF t, a, c
      <4> QED BY <1>1, <2>1, <2>11
    <3> HIDE DEF p
    <3>4. StreamAt(p, l)' /\ HeaderAt(p, l)'
      <4>1. StreamAt(p, l)'
        BY <1>1, <1>3, <1>7, <2>5, <2>7, <3>2, <3>3 DEF StreamAt, SameSide, readers
      <4>2. HeaderAt(p, l)'
        BY <1>1, <1>3, <1>7, <2>5, <2>7, <3>2, <3>3 DEF HeaderAt, SameSide, readers
      <4> QED BY <4>1, <4>2
    <3>5. CASE s = "server"
      <4>1. handler[l] = "done"
        BY <1>1, <1>b, <3>5 DEF BaseInv, LinkInv
      <4>2. ~(rlink["client"] = l /\ phase["client"] = "response")
        BY <1>1, <3>2, <3>5, <4>1 DEF HandshakeAt
      <4>3. phase'["client"] = phase["client"]
        BY <2>4, <3>5 DEF Sides
      <4>4. HandlerAt(l)' /\ HandshakeAt(l)'
        BY <1>3, <1>7, <4>1, <4>2, <4>3 DEF HandlerAt, HandshakeAt
      <4>5. LinkOK(l)'
        BY <2>6, <2>9, <2>10, <3>1, <3>4, <4>4 DEF LinkOK
      <4> QED BY <2>3, <2>8, <4>5, SessionPartsNext
    <3>6. CASE s = "client"
      <4>1. handler[l] # "request"
        BY <1>1, <1>l, <3>2, <3>6 DEF HandlerAt
      <4>2. handler[l] # "recover"
        <5> SUFFICES ASSUME handler[l] = "recover" PROVE FALSE
          OBVIOUS
        <5>1. q = <<Response>>
          BY <1>1, <3>2, <3>6 DEF HandlerAt
        <5>2. m = Response
          BY <5>1
        <5> QED BY <1>3, <5>2, MessageKinds
      <4>3. HandlerAt(l)' /\ HandshakeAt(l)'
        BY <1>3, <2>4, <3>6, <4>1, <4>2 DEF HandlerAt, HandshakeAt
      <4>4. LinkOK(l)'
        BY <2>6, <2>9, <2>10, <3>1, <3>4, <4>3 DEF LinkOK
      <4> QED BY <2>3, <2>8, <4>4, SessionPartsNext
    <3> QED BY <3>5, <3>6 DEF Sides
  <2>12. CASE up[l]
    <3>1. /\ rlink[p] = l /\ m.num = r /\ handler[l] = "done"
          /\ c = <<>> => phase[p] = "catchup"
          /\ c # <<>> => c[Len(c)].type = "header"
      BY <1>1, <1>3, <1>b, <1>l, <2>12, HeaderHeard
    <3>2. /\ a \in Message /\ a.type = "catchup" /\ Stage(a) = 3
          /\ r + Len(a.packets) = wseq[s]
          /\ Brings(a, r, wseq[s])
      <4>1. a = Catchup(Recovered(s, r))
        BY <3>1
      <4> HIDE DEF a, r
      <4> QED BY <1>1, <1>4, <4>1, RecoveredPackets
    <3> DEFINE d == Append(c, a)
    <3>3. net'[l][p] = d /\ net'[l][s] = t
      <4> HIDE DEF t, a, c
      <4> QED BY <1>1, <2>1, <2>12
    <3>4. Stream(c, r, wseq[s]) /\ (c # <<>> => Awaited(phase[p], partial[p], r, c[1]))
      BY <1>1, <1>b, <3>1 DEF LinkOK, StreamAt, Listens
    <3>5. \A i \in 1..Len(c) : Later(c[i], a)
      <4>1. ASSUME NEW i \in 1..Len(c) PROVE Later(c[i], a)
        <5> DEFINE z == c[Len(c)]
        <5>1. /\ Len(c) \in Nat /\ c # <<>> /\ c[i] \in Message /\ z \in Message
          <6> HIDE DEF c
          <6>1. Len(c) \in Nat /\ c[i] \in Message
            BY <1>1, LenProperties
          <6>2. c # <<>>
            BY <6>1, EmptySeq
          <6> QED BY <1>1, <6>1, <6>2, Popped DEF z
        <5>2. Stage(z) = 2 /\ Stage(c[i]) \in 0..4
          <6>1. z.type = "header"
            BY <3>1, <5>1
          <6> HIDE DEF z, c
          <6> QED BY <5>1, <6>1, StageOf
        <5>3. i = Len(c) \/ Later(c[i], z)
          BY <3>4, <5>1 DEF Stream
        <5>4. Stage(c[i]) <= 2
          <6>1. i = Len(c) => c[i] = z
            OBVIOUS
          <6> HIDE DEF z, c
          <6> QED BY <5>2, <5>3, <6>1 DEF Later
        <5> HIDE DEF c, a
        <5> QED BY <3>2, <5>2, <5>4 DEF Later
      <4> QED BY <4>1
    <3>6. c # <<>> => Follows(r, c[Len(c)], a)
      <4> HIDE DEF a, c
      <4> QED BY <3>1, <3>2 DEF Follows
    <3>7. /\ Stream(d, r, wseq[s]) /\ d # <<>> /\ d[Len(d)] = a
          /\ d[1] = IF c = <<>> THEN a ELSE c[1]
      <4> HIDE DEF c, a, r
      <4> QED BY <1>1, <3>2, <3>4, <3>5, <3>6, StreamAppend
    <3>8. Awaited(phase[p], partial[p], r, d[1])
      <4> HIDE DEF c, a, d, r, p
      <4> QED BY <3>1, <3>2, <3>4, <3>7 DEF Awaited
    <3>9. StreamAt(p, l)'
      <4>1. /\ rseq'[p] = r /\ wseq'[s] = wseq[s]
            /\ phase'[p] = phase[p] /\ partial'[p] = partial[p]
        BY <1>3, <2>5 DEF SameSide
      <4> HIDE DEF d, r, p
      <4> QED BY <1>1, <3>3, <3>7, <3>8, <4>1 DEF StreamAt
    <3>10. HeaderAt(p, l)'
      <4>1. /\ Len(c) \in Nat /\ Len(d) = Len(c) + 1
            /\ \A i \in 1..Len(c) : d[i] = c[i]
            /\ d[Len(c) + 1] = a
        <5> HIDE DEF c, a
        <5> QED BY <1>1, <3>2, AppendProperties, LenProperties
      <4>2. \A i \in 1..Len(d) : d[i].type = "header" => i \in 1..Len(c) /\ d[i] = c[i]
        <5> HIDE DEF c, a, d
        <5> QED BY <3>2, <4>1
      <4>3. HeaderAt(p, l) /\ rseq' = rseq /\ rlink' = rlink
        BY <1>1, <1>3, <1>7, <1>b DEF LinkOK, readers
      <4>4. ASSUME NEW i \in 1..Len(d), d[i].type = "header"
            PROVE  /\ d[i].num \in 0..rseq[Peer(p)]
                   /\ rlink[Peer(p)] = l => d[i].num = rseq[Peer(p)]
        <5>1. i \in 1..Len(c) /\ d[i] = c[i]
          BY <4>2, <4>4
        <5> HIDE DEF d, p
        <5> QED BY <4>3, <4>4, <5>1 DEF HeaderAt, c
      <4> HIDE DEF d, p
      <4> QED BY <3>3, <4>3, <4>4 DEF HeaderAt
    <3>11. SentAt(p, l)'
      <4>1. Listens(p, l)'
        BY <1>1, <2>7, <3>1 DEF Listens
      <4>2. fd'[s] # l /\ phase'[s] = "catchup" /\ rseq'[p] = r /\ wseq'[s] = wseq[s]
        BY <1>1, <1>3, <2>4, <2>5 DEF SameSide
      <4> HIDE DEF d, a, r, p
      <4>3. WroteAt(p, l)' /\ AskedAt(p, l)'
        BY <1>1, <4>2 DEF WroteAt, AskedAt
      <4>4. CaughtUpAt(p, l)'
        BY <1>1, <3>2, <3>3, <3>7, <4>2 DEF CaughtUpAt, CaughtUp
      <4> QED BY <4>1, <4>3, <4>4 DEF SentAt, HeardAt
    <3>12. SentAt(s, l)'
      <4> DEFINE z == q[Len(q)]
      <4>1. /\ t # <<>> => t[Len(t)] = z
            /\ t = <<>> => z = m
        BY <1>1, PoppedLast
      <4>2. /\ rlink[p] = l /\ phase[p] = "catchup" => CaughtUp(s, z)
            /\ rlink[p] = l /\ phase[p] = "header" => z.type = "header"
        BY <1>1, <1>b, <2>12 DEF LinkOK, SentAt, CaughtUpAt, AskedAt
      <4>3. fd'[p] # l
        <5>1. fd[p] # l
          BY <1>1, <1>b, <3>1, Basics
        <5> QED BY <2>5, <5>1 DEF SameSide
      <4>4. Listens(s, l)' /\ rlink'[s] = l /\ phase'[s] = "catchup"
        BY <1>1, <1>7, <1>l, <2>4, <2>7
      <4>5. /\ rlink'[p] = rlink[p] /\ phase'[p] = phase[p]
            /\ rseq'[s] = rseq[s] /\ wseq'[p] = wseq[p]
        BY <1>3, <2>5 DEF SameSide, readers
      <4>6. phase[p] = "catchup" => t # <<>>
        <5>1. CaughtUp(s, m) => m.type = "catchup"
          BY DEF CaughtUp
        <5> QED BY <1>3, <3>1, <4>1, <4>2, <5>1
      <4> HIDE DEF t, z, m, p
      <4>7. WroteAt(s, l)'
        BY <4>3 DEF WroteAt, p
      <4>8. CaughtUpAt(s, l)'
        BY <3>1, <3>3, <4>1, <4>2, <4>5, <4>6 DEF CaughtUpAt, CaughtUp, p
      <4>9. AskedAt(s, l)'
        BY <3>1, <3>3, <4>1, <4>2, <4>4, <4>5 DEF AskedAt, p
      <4> QED BY <4>4, <4>7, <4>8, <4>9 DEF SentAt, HeardAt
    <3>13. HandlerAt(l)' /\ HandshakeAt(l)'
      <4>1. ~(rlink["client"] = l /\ phase["client"] = "response")
        <5>1. CASE s = "client"
          BY <1>1, <5>1
        <5>2. CASE s = "server"
          BY <1>1, <1>b, <3>1, <5>2 DEF LinkOK, HandshakeAt
        <5> QED BY <5>1, <5>2 DEF Sides
      <4>2. phase'["client"] \in {"catchup", phase["client"]}
        BY <2>4 DEF Sides
      <4> QED BY <1>3, <1>7, <3>1, <4>1, <4>2 DEF HandlerAt, HandshakeAt
    <3>14. LinkOK(l)'
      BY <2>6, <2>9, <2>10, <3>9, <3>10, <3>11, <3>12, <3>13 DEF LinkOK
    <3> QED BY <2>3, <2>8, <3>14, SessionPartsNext
  <2> QED BY <2>11, <2>12
<1> QED BY <1>3, <1>5, <1>6, <1>7

-----------------------------------------------------------------------------
(* The session.                                                            *)

LEMMA InitSession == Init => SessionInv
<1> SUFFICES ASSUME Init PROVE SessionInv
  OBVIOUS
<1>1. TypeOK /\ PhaseInv /\ LinkInv
  BY InitTypes, InitLinkInv
<1>s. /\ \A s \in Sides : Peer(s) \in Sides /\ MaxPackets[s] \in Nat
      /\ Len(<<>>) = 0
  BY PeerType, ConnectionAssumption
<1>2. ReaderInv
  BY <1>s DEF Init, ReaderInv
<1>3. \A l \in Links, s \in Sides : net[l][s] = <<>>
  BY DEF Init
<1>4. ASSUME NEW l \in Links PROVE LinkOK(l)
  <2>1. ASSUME NEW s \in Sides PROVE StreamAt(s, l) /\ HeaderAt(s, l) /\ SentAt(s, l)
    <3>1. StreamAt(s, l) /\ HeaderAt(s, l)
      BY <1>3, <1>s, EmptyStream DEF StreamAt, HeaderAt
    <3>2. /\ fd[s] = 1 /\ fd[Peer(s)] = 1 /\ rlink[Peer(s)] = 0 /\ (up[l] <=> l = 1)
          /\ rseq[s] = 0 /\ wseq[Peer(s)] = 0 /\ partial[s] = 0 /\ phase[Peer(s)] = "idle"
      BY <1>s DEF Init
    <3>3. SentAt(s, l)
      BY <1>3, <3>2 DEF SentAt, WroteAt, CaughtUpAt, AskedAt, HeardAt, ReadAll, Listens
    <3> QED BY <3>1, <3>3
  <2>2. HandlerAt(l) /\ HandshakeAt(l)
    <3>1. handler[l] \in {"none", "done"} /\ phase["client"] = "idle"
      BY DEF Init, Sides
    <3> QED BY <3>1 DEF HandlerAt, HandshakeAt
  <2> QED BY <2>1, <2>2 DEF LinkOK
<1> QED BY <1>1, <1>2, <1>4, SessionParts DEF BaseInv

\* Every step keeps the invariant.
LEMMA NextSession ==
    ASSUME PacketsNumbered, SessionInv, [Next]_vars
    PROVE  SessionInv'
<1>1. TypeOK /\ PhaseInv /\ LinkInv
  BY DEF SessionInv
<1>2. TypeOK' /\ PhaseInv'
  BY <1>1, NextTypeOK, NextPhaseInv
<1>3. LinkInv'
  BY <1>1, <1>2, NextLinkInv
<1>4. CASE UNCHANGED vars
  <2>1. ReaderInv' /\ Growing
    <3>1. BaseInv
      BY SessionParts
    <3> QED BY <1>2, <1>4, <3>1, ReadersIdle DEF vars, readers
  <2>2. \A t \in Sides : SameSide(t)
    BY <1>4 DEF vars, SameSide
  <2> QED BY <1>2, <1>3, <1>4, <2>1, <2>2, QuietStep DEF vars
<1>5. ASSUME NEW s \in Sides, SideStep(s) PROVE SessionInv'
  <2>1. CASE WriteBuffered(s) BY <1>2, <1>3, <2>1, WriteBufferedKeeps
  <2>2. CASE WriteSent(s) BY <1>2, <1>3, <2>2, WriteSentKeeps
  <2>3. CASE WriteFailed(s) BY <1>2, <1>3, <2>3, WriteFailedKeeps
  <2>4. CASE ReadLocal(s) BY <1>2, <1>3, <2>4, ReadLocalKeeps
  <2>5. CASE ReadSocket(s) BY <1>2, <1>3, <2>5, ReadSocketKeeps
  <2>6. CASE ReadFailed(s) BY <1>2, <1>3, <2>6, ReadFailedKeeps
  <2>7. CASE RecvHeader(s) BY <1>2, <1>3, <2>7, RecvHeaderKeeps
  <2>8. CASE RecvCatchup(s) BY <1>2, <1>3, <2>8, RecvCatchupKeeps
  <2>9. CASE RecoverFailed(s) BY <1>2, <1>3, <2>9, RecoverFailedKeeps
  <2> QED BY <1>5, <2>1, <2>2, <2>3, <2>4, <2>5, <2>6, <2>7, <2>8, <2>9 DEF SideStep
<1>6. ASSUME NEW l \in Links, LinkStep(l) PROVE SessionInv'
  <2>1. CASE Break(l) BY <1>2, <1>3, <2>1, BreakKeeps
  <2>2. CASE \E s \in Sides : Lose(l, s) BY <1>2, <1>3, <2>2, LoseKeeps
  <2>3. CASE HandlerRequest(l) BY <1>2, <1>3, <2>3, HandlerRequestKeeps
  <2>4. CASE HandlerRecover(l) BY <1>2, <1>3, <2>4, HandlerRecoverKeeps
  <2>5. CASE HandlerFailed(l) BY <1>2, <1>3, <2>5, HandlerFailedKeeps
  <2> QED BY <1>6, <2>1, <2>2, <2>3, <2>4, <2>5 DEF LinkStep
<1>7. CASE ClientClose BY <1>2, <1>3, <1>7, ClientCloseKeeps
<1>8. CASE ClientConnect BY <1>2, <1>3, <1>8, ClientConnectKeeps
<1>9. CASE ClientResponse BY <1>2, <1>3, <1>9, ClientResponseKeeps
<1> QED BY <1>4, <1>5, <1>6, <1>7, <1>8, <1>9 DEF Next

\* The invariant of a session, whatever the number of packets, links and
\* faults and the sizes of the buffers: on every link, message follows message
\* as both ends expect, across breaks, failed recoveries and stale handlers.
THEOREM SessionCorrect ==
    ASSUME PacketsNumbered
    PROVE  Spec => []SessionInv
<1>1. Init => SessionInv
  BY InitSession
<1>2. SessionInv /\ [Next]_vars => SessionInv'
  BY NextSession
<1> QED BY <1>1, <1>2, PTL DEF Spec

\* What a step does to the packets accepted and handed out, and when it ends a
\* process.
LEMMA StepEffect ==
    ASSUME SessionInv, TypeOK', PhaseInv', LinkInv', Next
    PROVE  /\ \/ \E s \in Sides : Channel!Accept(s) \/ Channel!Deliver(s)
              \/ UNCHANGED <<wseq, nonce>>
           /\ process' # process =>
                 \E s \in Sides : phase[s] = "header" /\ wseq[s] - low[s] > ProtoLimit
<1>1. ASSUME NEW s \in Sides, WriteBuffered(s) \/ WriteSent(s) \/ WriteFailed(s)
      PROVE  Channel!Accept(s) /\ process' = process
  BY <1>1 DEF WriteBuffered, WriteSent, WriteFailed, readers, Channel!Accept
<1>2. ASSUME NEW s \in Sides, NEW n, n = nonce, n[s] < wseq[Peer(s)],
             nonce' = [n EXCEPT ![s] = n[s] + 1], wseq' = wseq
      PROVE  Channel!Deliver(s)
  <2>1. Peer(s) \in Sides \ {s}
    BY PeerType
  <2> QED BY <1>2, <2>1 DEF Channel!Deliver
<1>3. ASSUME NEW s \in Sides, ReadLocal(s)
      PROVE  Channel!Deliver(s) /\ process' = process
  <2>1. Head(localBuffer[s]) = nonce[s] + 1
    BY <1>3, ReadLocalKeeps
  <2>2. nonce' = [nonce EXCEPT ![s] = nonce[s] + 1] /\ wseq' = wseq /\ process' = process
    BY <1>3, <2>1 DEF ReadLocal, Decrypt, writers
  <2>3. nonce[s] < wseq[Peer(s)]
    <3>b. BaseInv
      BY SessionParts
    <3>1. /\ nonce[s] + Len(localBuffer[s]) = rseq[s] /\ rseq[s] <= wseq[Peer(s)]
          /\ nonce[s] \in Nat /\ rseq[s] \in Nat /\ wseq[Peer(s)] \in Nat
          /\ localBuffer[s] \in Seq(Nat) /\ localBuffer[s] # <<>>
      BY <1>3, <3>b, Basics, PeerType DEF ReadLocal, BaseInv, ReaderInv
    <3>2. Len(localBuffer[s]) \in Nat \ {0}
      BY <3>1, EmptySeq, LenProperties
    <3> QED BY <3>1, <3>2
  <2> QED BY <1>2, <2>2, <2>3
<1>4. ASSUME NEW s \in Sides, ReadSocket(s)
      PROVE  (Channel!Deliver(s) \/ UNCHANGED <<wseq, nonce>>) /\ process' = process
  <2>1. /\ process' = process
        /\ \/ nonce' = nonce
           \/ nonce' = [nonce EXCEPT ![s] = nonce[s] + 1] /\ nonce[s] < wseq[Peer(s)]
    BY <1>4, ReadSocketKeeps
  <2>2. wseq' = wseq
    BY <1>4 DEF ReadSocket, writers
  <2> QED BY <1>2, <2>1, <2>2
<1>5. ASSUME NEW s \in Sides, ReadFailed(s) \/ RecvCatchup(s) \/ RecoverFailed(s)
      PROVE  UNCHANGED <<wseq, nonce, process>>
  BY <1>5 DEF ReadFailed, RecvCatchup, RecoverFailed, readers, writers
<1>6. ASSUME NEW s \in Sides, RecvHeader(s)
      PROVE  /\ UNCHANGED <<wseq, nonce>>
             /\ process' # process => phase[s] = "header" /\ wseq[s] - low[s] > ProtoLimit
  <2>1. process' # process => wseq[s] - low[s] > ProtoLimit
    BY <1>6, RecvHeaderKeeps
  <2>2. UNCHANGED <<wseq, nonce>> /\ phase[s] = "header"
    BY <1>6 DEF RecvHeader, readers, writers
  <2> QED BY <1>6, <2>1, <2>2
<1>7. ASSUME NEW l \in Links, LinkStep(l) PROVE UNCHANGED <<wseq, nonce, process>>
  BY <1>7 DEF LinkStep, Break, Lose, HandlerRequest, HandlerRecover, HandlerFailed,
              readers, writers
<1>8. ASSUME ClientClose \/ ClientConnect \/ ClientResponse
      PROVE  UNCHANGED <<wseq, nonce, process>>
  BY <1>8 DEF ClientClose, ClientConnect, ClientResponse, readers, writers
<1>9. ASSUME NEW s \in Sides, SideStep(s)
      PROVE  /\ Channel!Accept(s) \/ Channel!Deliver(s) \/ UNCHANGED <<wseq, nonce>>
             /\ process' # process => phase[s] = "header" /\ wseq[s] - low[s] > ProtoLimit
  BY <1>1, <1>3, <1>4, <1>5, <1>6, <1>9 DEF SideStep
<1> QED BY <1>7, <1>8, <1>9 DEF Next

\* The same for steps of a behaviour, where the parts of the invariant hold on
\* both sides of the step.
LEMMA StepEffects ==
    ASSUME SessionInv, [Next]_vars
    PROVE  /\ [Channel!Next]_(Channel!channelVars)
           /\ [process' # process =>
                  \E s \in Sides : phase[s] = "header" /\ wseq[s] - low[s] > ProtoLimit]_vars
<1>1. CASE UNCHANGED vars
  BY <1>1 DEF vars, Channel!channelVars
<1>2. CASE Next
  <2>1. TypeOK' /\ PhaseInv' /\ LinkInv'
    <3>1. TypeOK /\ PhaseInv /\ LinkInv
      BY DEF SessionInv
    <3>2. TypeOK' /\ PhaseInv'
      BY <3>1, NextTypeOK, NextPhaseInv
    <3> QED BY <3>1, <3>2, NextLinkInv
  <2> QED BY <1>2, <2>1, StepEffect DEF Channel!Next, Channel!channelVars
<1> QED BY <1>1, <1>2

\* The session implements the reliable channel, across any number of breaks
\* and reconnections: Connection::read hands out what Connection::write of the
\* other side accepted, in order, once each.
THEOREM ChannelImplemented ==
    ASSUME PacketsNumbered
    PROVE  Spec => ImplementsChannel
<1>1. Init => Channel!Init
  BY DEF Init, Channel!Init
<1>2. SessionInv /\ [Next]_vars => [Channel!Next]_(Channel!channelVars)
  BY StepEffects
<1> QED BY <1>1, <1>2, SessionCorrect, PTL DEF Spec, ImplementsChannel, Channel!Spec

\* The only STFATAL a session can reach is the one of writeProto, in a recovery
\* of a side whose backup has grown past the limit of a message: no packet ever
\* fails to decrypt, and no peer claims more packets than were written.
THEOREM FatalLimited ==
    ASSUME PacketsNumbered
    PROVE  Spec => FatalOnlyOverLimit
<1>1. SessionInv /\ [Next]_vars =>
        [process' # process =>
           \E s \in Sides : phase[s] = "header" /\ wseq[s] - low[s] > ProtoLimit]_vars
  BY StepEffects
<1> QED BY <1>1, SessionCorrect, PTL DEF Spec, FatalOnlyOverLimit

=============================================================================
