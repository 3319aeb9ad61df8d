---------------------------- MODULE RelaysProofs ----------------------------
(***************************************************************************)
(* Proofs about what is carried over a session besides a shell: first      *)
(* JumpHost, the second session behind a jump host, then PortForward, the  *)
(* forwarded ports.                                                        *)
(***************************************************************************)
EXTENDS MCRelays, SequenceTheorems, FiniteSetTheorems, WellFoundedInduction, TLAPS

-----------------------------------------------------------------------------
(* What the operations of a session do to the packets under way.           *)

HopsOver(U, F) == [up : U, back : F, sock : F, local : F]
Lines == [Jump!Dirs -> Seq(Int)]

Sound(h) ==
    /\ h \in HopsOver(BOOLEAN, Lines)
    /\ IF h.up THEN h.back = Jump!None ELSE h.sock = Jump!None

\* A session and its fields.
LEMMA Fields ==
    ASSUME NEW U, NEW F, NEW h \in HopsOver(U, F)
    PROVE  h.up \in U /\ h.back \in F /\ h.sock \in F /\ h.local \in F
  BY DEF HopsOver

\* A session with some of its fields replaced.
WithSock(h, x) == [h EXCEPT !.sock = x]
WithBack(h, x) == [h EXCEPT !.back = x]
WithLocal(h, x) == [h EXCEPT !.local = x]
Failed(h, u, x, y) == [h EXCEPT !.up = u, !.sock = x, !.back = y]
Recovered(h, u, x, y) == [h EXCEPT !.up = u, !.back = x, !.local = y]

LEMMA SockSet ==
    ASSUME NEW U, NEW F, NEW h \in HopsOver(U, F), NEW x \in F
    PROVE  /\ WithSock(h, x) \in HopsOver(U, F) /\ WithSock(h, x).up = h.up /\ WithSock(h, x).back = h.back
           /\ WithSock(h, x).sock = x /\ WithSock(h, x).local = h.local
  BY DEF HopsOver, WithSock

LEMMA BackSet ==
    ASSUME NEW U, NEW F, NEW h \in HopsOver(U, F), NEW x \in F
    PROVE  /\ WithBack(h, x) \in HopsOver(U, F) /\ WithBack(h, x).up = h.up /\ WithBack(h, x).back = x
           /\ WithBack(h, x).sock = h.sock /\ WithBack(h, x).local = h.local
  BY DEF HopsOver, WithBack

LEMMA LocalSet ==
    ASSUME NEW U, NEW F, NEW h \in HopsOver(U, F), NEW x \in F
    PROVE  /\ WithLocal(h, x) \in HopsOver(U, F) /\ WithLocal(h, x).up = h.up /\ WithLocal(h, x).back = h.back
           /\ WithLocal(h, x).sock = h.sock /\ WithLocal(h, x).local = x
  BY DEF HopsOver, WithLocal

LEMMA FailSet ==
    ASSUME NEW U, NEW F, NEW h \in HopsOver(U, F), NEW x \in F, NEW y \in F, NEW u \in U
    PROVE  /\ Failed(h, u, x, y) \in HopsOver(U, F) /\ Failed(h, u, x, y).up = u /\ Failed(h, u, x, y).back = y
           /\ Failed(h, u, x, y).sock = x /\ Failed(h, u, x, y).local = h.local
  BY DEF HopsOver, Failed

LEMMA RecoverSet ==
    ASSUME NEW U, NEW F, NEW h \in HopsOver(U, F), NEW x \in F, NEW y \in F, NEW u \in U
    PROVE  /\ Recovered(h, u, x, y) \in HopsOver(U, F) /\ Recovered(h, u, x, y).up = u /\ Recovered(h, u, x, y).back = x
           /\ Recovered(h, u, x, y).sock = h.sock /\ Recovered(h, u, x, y).local = y
  BY DEF HopsOver, Recovered

\* Of an array of streams one is replaced.
LEMMA Updated ==
    ASSUME NEW D, NEW S, NEW f \in [D -> S], NEW d \in D, NEW x \in S,
           NEW t, t = [f EXCEPT ![d] = x]
    PROVE  t \in [D -> S] /\ t[d] = x /\ \A e \in D \ {d} : t[e] = f[e]
  OBVIOUS

LEMMA NoneIs == Jump!None \in Lines /\ \A d \in Jump!Dirs : Jump!None[d] = <<>>
  BY DEF Jump!None, Lines

LEMMA LineAt == ASSUME NEW f \in Lines, NEW d \in Jump!Dirs PROVE f[d] \in Seq(Int)
  BY DEF Lines

LEMMA WayType == ASSUME NEW h, Sound(h), NEW d \in Jump!Dirs PROVE Jump!UnderWay(h, d) \in Seq(Int)
<1>1. h.back[d] \in Seq(Int) /\ h.sock[d] \in Seq(Int) /\ h.local[d] \in Seq(Int)
  BY Fields, LineAt DEF Sound
<1> QED BY <1>1 DEF Jump!UnderWay

\* Concatenations of the three parts of a direction.
LEMMA AppendMiddle ==
    ASSUME NEW a \in Seq(Int), NEW b \in Seq(Int), NEW p \in Int
    PROVE  a \o Append(b, p) \o <<>> = Append(a \o b \o <<>>, p)
  OBVIOUS

LEMMA AppendLast ==
    ASSUME NEW a \in Seq(Int), NEW b \in Seq(Int), NEW p \in Int
    PROVE  a \o <<>> \o Append(b, p) = Append(a \o <<>> \o b, p)
  OBVIOUS

LEMMA Regrouped ==
    ASSUME NEW a \in Seq(Int), NEW b \in Seq(Int), NEW c \in Seq(Int)
    PROVE  a \o <<>> \o (b \o c) = a \o b \o c
  OBVIOUS

LEMMA Associated ==
    ASSUME NEW a \in Seq(Int), NEW b \in Seq(Int), NEW c \in Seq(Int)
    PROVE  a \o (b \o c) = (a \o b) \o c
  OBVIOUS

LEMMA Caught ==
    ASSUME NEW a \in Seq(Int), NEW b \in Seq(Int)
    PROVE  (a \o b) \o <<>> \o <<>> = a \o <<>> \o b /\ a \o b \o <<>> = a \o b
  OBVIOUS

LEMMA TailFirst ==
    ASSUME NEW a \in Seq(Int), NEW b \in Seq(Int), a # <<>>
    PROVE  Tail(a) \o b = Tail(a \o b)
  OBVIOUS

LEMMA TailSecond ==
    ASSUME NEW b \in Seq(Int), b # <<>>
    PROVE  <<>> \o Tail(b) = Tail(<<>> \o b)
  OBVIOUS

LEMMA ConcatEmpty ==
    ASSUME NEW a \in Seq(Int), NEW b \in Seq(Int), b # <<>>
    PROVE  a \o b # <<>>
  OBVIOUS

LEMMA HeadOfBoth ==
    ASSUME NEW a \in Seq(Int), NEW b \in Seq(Int), a \o b # <<>>
    PROVE  Head(a \o b) \in Int
<1>1. a \o b \in Seq(Int)
  OBVIOUS
<1> QED BY <1>1, HeadTailProperties

\* A packet that is put goes to the end of its direction.
LEMMA PutWay ==
    ASSUME NEW h, Sound(h), NEW d \in Jump!Dirs, NEW p \in Int
    PROVE  /\ Sound(Jump!Put(h, d, p)) /\ Jump!Put(h, d, p).up = h.up
           /\ Jump!UnderWay(Jump!Put(h, d, p), d) = Append(Jump!UnderWay(h, d), p)
           /\ \A e \in Jump!Dirs \ {d} : Jump!UnderWay(Jump!Put(h, d, p), e) = Jump!UnderWay(h, e)
<1>1. PICK g : g = Jump!Put(h, d, p)
  OBVIOUS
<1>2. h \in HopsOver(BOOLEAN, Lines)
  BY DEF Sound
<1>3. h.back \in Lines /\ h.sock \in Lines /\ h.local \in Lines
  BY <1>2, Fields
<1>4. h.back[d] \in Seq(Int) /\ h.sock[d] \in Seq(Int) /\ h.local[d] \in Seq(Int)
  BY <1>3, LineAt
<1>5. CASE h.up
  <2>1. PICK t : t = [h.sock EXCEPT ![d] = Append(h.sock[d], p)]
    OBVIOUS
  <2>2. t \in Lines /\ t[d] = Append(h.sock[d], p) /\ \A e \in Jump!Dirs \ {d} : t[e] = h.sock[e]
    <3>1. Append(h.sock[d], p) \in Seq(Int)
      BY <1>4
    <3> QED BY <1>3, <2>1, <3>1, Updated DEF Lines
  <2>3. g = WithSock(h, t)
    BY <1>1, <1>2, <1>5, <2>1 DEF Jump!Put, HopsOver, WithSock
  <2>4. /\ g \in HopsOver(BOOLEAN, Lines) /\ g.up = h.up /\ g.back = h.back
        /\ g.sock = t /\ g.local = h.local
    BY <1>2, <2>2, <2>3, SockSet
  <2>5. h.back = Jump!None /\ h.back[d] = <<>>
    BY <1>5, NoneIs DEF Sound
  <2>6. Sound(g)
    BY <1>5, <2>4, <2>5, Zenon DEF Sound
  <2>7. Jump!UnderWay(g, d) = h.local[d] \o Append(h.sock[d], p) \o <<>>
    BY <2>2, <2>4, <2>5 DEF Jump!UnderWay
  <2>8. Jump!UnderWay(h, d) = h.local[d] \o h.sock[d] \o <<>>
    BY <2>5 DEF Jump!UnderWay
  <2>9. Jump!UnderWay(g, d) = Append(Jump!UnderWay(h, d), p)
    <3>1. h.local[d] \o Append(h.sock[d], p) \o <<>> = Append(h.local[d] \o h.sock[d] \o <<>>, p)
      BY <1>4, AppendMiddle
    <3> QED BY <2>7, <2>8, <3>1
  <2>10. \A e \in Jump!Dirs \ {d} : Jump!UnderWay(g, e) = Jump!UnderWay(h, e)
    BY <2>2, <2>4, Zenon DEF Jump!UnderWay
  <2> QED BY <1>1, <2>4, <2>6, <2>9, <2>10, Zenon
<1>6. CASE ~h.up
  <2>1. PICK t : t = [h.back EXCEPT ![d] = Append(h.back[d], p)]
    OBVIOUS
  <2>2. t \in Lines /\ t[d] = Append(h.back[d], p) /\ \A e \in Jump!Dirs \ {d} : t[e] = h.back[e]
    <3>1. Append(h.back[d], p) \in Seq(Int)
      BY <1>4
    <3> QED BY <1>3, <2>1, <3>1, Updated DEF Lines
  <2>3. g = WithBack(h, t)
    BY <1>1, <1>2, <1>6, <2>1 DEF Jump!Put, HopsOver, WithBack
  <2>4. /\ g \in HopsOver(BOOLEAN, Lines) /\ g.up = h.up /\ g.back = t
        /\ g.sock = h.sock /\ g.local = h.local
    BY <1>2, <2>2, <2>3, BackSet
  <2>5. h.sock = Jump!None /\ h.sock[d] = <<>>
    BY <1>6, NoneIs DEF Sound
  <2>6. Sound(g)
    BY <1>6, <2>4, <2>5, Zenon DEF Sound
  <2>7. Jump!UnderWay(g, d) = h.local[d] \o <<>> \o Append(h.back[d], p)
    BY <2>2, <2>4, <2>5 DEF Jump!UnderWay
  <2>8. Jump!UnderWay(h, d) = h.local[d] \o <<>> \o h.back[d]
    BY <2>5 DEF Jump!UnderWay
  <2>9. Jump!UnderWay(g, d) = Append(Jump!UnderWay(h, d), p)
    BY <1>4, <2>7, <2>8, AppendLast, Zenon
  <2>10. \A e \in Jump!Dirs \ {d} : Jump!UnderWay(g, e) = Jump!UnderWay(h, e)
    BY <2>2, <2>4, Zenon DEF Jump!UnderWay
  <2> QED BY <1>1, <2>4, <2>6, <2>9, <2>10, Zenon
<1> QED BY <1>5, <1>6

\* A link that fails loses nothing.
LEMMA FailWay ==
    ASSUME NEW h, Sound(h)
    PROVE  /\ Sound(Jump!Fail(h)) /\ ~Jump!Fail(h).up
           /\ \A d \in Jump!Dirs : Jump!UnderWay(Jump!Fail(h), d) = Jump!UnderWay(h, d)
<1>1. PICK g : g = Jump!Fail(h)
  OBVIOUS
<1>2. h \in HopsOver(BOOLEAN, Lines)
  BY DEF Sound
<1>3. h.back \in Lines /\ h.sock \in Lines /\ h.local \in Lines
  BY <1>2, Fields
<1>4. PICK t : t = [d \in Jump!Dirs |-> h.sock[d] \o h.back[d]]
  OBVIOUS
<1>5. t \in Lines /\ \A d \in Jump!Dirs : t[d] = h.sock[d] \o h.back[d]
  <2>1. ASSUME NEW d \in Jump!Dirs PROVE h.sock[d] \o h.back[d] \in Seq(Int)
    BY <1>3, LineAt
  <2> QED BY <1>4, <2>1 DEF Lines
<1>6. g = Failed(h, FALSE, Jump!None, t)
  BY <1>1, <1>4 DEF Jump!Fail, Failed
<1>7. /\ g \in HopsOver(BOOLEAN, Lines) /\ g.up = FALSE /\ g.back = t
      /\ g.sock = Jump!None /\ g.local = h.local
  <2>1. h \in HopsOver(BOOLEAN, Lines) /\ t \in Lines /\ Jump!None \in Lines
    BY <1>2, <1>5, NoneIs
  <2>2. PICK u \in BOOLEAN : u = FALSE
    OBVIOUS
  <2>3. g = Failed(h, u, Jump!None, t)
    BY <1>6, <2>2
  <2>4. /\ g \in HopsOver(BOOLEAN, Lines) /\ g.up = u /\ g.back = t
        /\ g.sock = Jump!None /\ g.local = h.local
    BY <2>1, <2>3, FailSet
  <2> QED BY <2>2, <2>4
<1>8. Sound(g) /\ ~g.up
  BY <1>7, Zenon DEF Sound
<1>9. ASSUME NEW d \in Jump!Dirs PROVE Jump!UnderWay(g, d) = Jump!UnderWay(h, d)
  <2>1. h.back[d] \in Seq(Int) /\ h.sock[d] \in Seq(Int) /\ h.local[d] \in Seq(Int)
    BY <1>3, LineAt
  <2>2. Jump!UnderWay(g, d) = h.local[d] \o <<>> \o (h.sock[d] \o h.back[d])
    BY <1>5, <1>7, NoneIs DEF Jump!UnderWay
  <2>3. 0 \in Int
    OBVIOUS
  <2>4. h.local[d] \o <<>> \o (h.sock[d] \o h.back[d]) = h.local[d] \o h.sock[d] \o h.back[d]
    BY <2>1, <2>3, Regrouped, Zenon
  <2> QED BY <2>2, <2>4 DEF Jump!UnderWay
<1> QED BY <1>1, <1>8, <1>9, Zenon

\* A recovery brings everything back.
LEMMA RecoverWay ==
    ASSUME NEW h, Sound(h), ~h.up
    PROVE  /\ Sound(Jump!Recover(h)) /\ Jump!Recover(h).up
           /\ \A d \in Jump!Dirs : Jump!UnderWay(Jump!Recover(h), d) = Jump!UnderWay(h, d)
<1>1. PICK g : g = Jump!Recover(h)
  OBVIOUS
<1>2. h \in HopsOver(BOOLEAN, Lines) /\ h.sock = Jump!None
  BY Zenon DEF Sound
<1>3. h.back \in Lines /\ h.local \in Lines
  BY <1>2, Fields
<1>4. PICK t : t = [d \in Jump!Dirs |-> h.local[d] \o h.back[d]]
  OBVIOUS
<1>5. t \in Lines /\ \A d \in Jump!Dirs : t[d] = h.local[d] \o h.back[d]
  <2>1. ASSUME NEW d \in Jump!Dirs PROVE h.local[d] \o h.back[d] \in Seq(Int)
    BY <1>3, LineAt
  <2> QED BY <1>4, <2>1 DEF Lines
<1>6. g = Recovered(h, TRUE, Jump!None, t)
  BY <1>1, <1>4 DEF Jump!Recover, Recovered
<1>7. /\ g \in HopsOver(BOOLEAN, Lines) /\ g.up = TRUE /\ g.back = Jump!None
      /\ g.sock = h.sock /\ g.local = t
  <2>1. h \in HopsOver(BOOLEAN, Lines) /\ t \in Lines /\ Jump!None \in Lines
    BY <1>2, <1>5, NoneIs
  <2>2. PICK u \in BOOLEAN : u = TRUE
    OBVIOUS
  <2>3. g = Recovered(h, u, Jump!None, t)
    BY <1>6, <2>2
  <2>4. /\ g \in HopsOver(BOOLEAN, Lines) /\ g.up = u /\ g.back = Jump!None
        /\ g.sock = h.sock /\ g.local = t
    BY <2>1, <2>3, RecoverSet
  <2> QED BY <2>2, <2>4
<1>8. Sound(g) /\ g.up
  BY <1>7, Zenon DEF Sound
<1>9. ASSUME NEW d \in Jump!Dirs PROVE Jump!UnderWay(g, d) = Jump!UnderWay(h, d)
  <2>1. h.back[d] \in Seq(Int) /\ h.sock[d] = <<>> /\ h.local[d] \in Seq(Int)
    BY <1>2, <1>3, LineAt, NoneIs
  <2>2. Jump!UnderWay(g, d) = (h.local[d] \o h.back[d]) \o <<>> \o <<>>
    BY <1>2, <1>5, <1>7, <2>1, NoneIs DEF Jump!UnderWay
  <2>3. 0 \in Int
    OBVIOUS
  <2> QED BY <2>1, <2>2, <2>3, Caught DEF Jump!UnderWay
<1> QED BY <1>1, <1>8, <1>9, Zenon

\* With a socket, everything under way waits at the reader.
LEMMA AllWaiting ==
    ASSUME NEW h, Sound(h), h.up, NEW d \in Jump!Dirs
    PROVE  Jump!UnderWay(h, d) = Jump!Waiting(h, d)
<1>1. h \in HopsOver(BOOLEAN, Lines) /\ h.back = Jump!None
  BY Zenon DEF Sound
<1>2. h.sock[d] \in Seq(Int) /\ h.local[d] \in Seq(Int) /\ h.back[d] = <<>>
  BY <1>1, Fields, LineAt, NoneIs
<1> QED BY <1>2, Caught DEF Jump!Waiting, Jump!UnderWay

\* What a read does to the parts it may touch.
LEMMA TakenParts ==
    ASSUME NEW h \in HopsOver(BOOLEAN, Lines), NEW d \in Jump!Dirs, Jump!Waiting(h, d) # <<>>
    PROVE  /\ Jump!Taken(h, d) \in HopsOver(BOOLEAN, Lines)
           /\ Jump!Taken(h, d).up = h.up /\ Jump!Taken(h, d).back = h.back
           /\ Head(Jump!Waiting(h, d)) \in Int
           /\ Jump!Waiting(Jump!Taken(h, d), d) = Tail(Jump!Waiting(h, d))
           /\ \A e \in Jump!Dirs \ {d} : Jump!Waiting(Jump!Taken(h, d), e) = Jump!Waiting(h, e)
<1>1. PICK g : g = Jump!Taken(h, d)
  OBVIOUS
<1>3. h.sock \in Lines /\ h.local \in Lines
  BY Fields
<1>4. h.sock[d] \in Seq(Int) /\ h.local[d] \in Seq(Int)
  BY <1>3, LineAt
<1>5. Jump!Waiting(h, d) = h.local[d] \o h.sock[d]
  BY DEF Jump!Waiting
<1>6. Head(Jump!Waiting(h, d)) \in Int
  BY <1>4, <1>5, HeadOfBoth
<1>7. CASE h.local[d] # <<>>
  <2>1. PICK t : t = [h.local EXCEPT ![d] = Tail(h.local[d])]
    OBVIOUS
  <2>2. t \in Lines /\ t[d] = Tail(h.local[d]) /\ \A e \in Jump!Dirs \ {d} : t[e] = h.local[e]
    <3>1. Tail(h.local[d]) \in Seq(Int)
      BY <1>4, <1>7
    <3> QED BY <1>3, <2>1, <3>1, Updated DEF Lines
  <2>3. g = WithLocal(h, t)
    BY <1>1, <1>7, <2>1 DEF Jump!Taken, HopsOver, WithLocal
  <2>4. /\ g \in HopsOver(BOOLEAN, Lines) /\ g.up = h.up /\ g.back = h.back
        /\ g.sock = h.sock /\ g.local = t
    BY <2>2, <2>3, LocalSet
  <2>5. Jump!Waiting(g, d) = Tail(h.local[d]) \o h.sock[d]
    BY <2>2, <2>4 DEF Jump!Waiting
  <2>6. Jump!Waiting(g, d) = Tail(Jump!Waiting(h, d))
    BY <1>4, <1>5, <1>7, <2>5, TailFirst
  <2>7. \A e \in Jump!Dirs \ {d} : Jump!Waiting(g, e) = Jump!Waiting(h, e)
    BY <2>2, <2>4, Zenon DEF Jump!Waiting
  <2> QED BY <1>1, <1>6, <2>4, <2>6, <2>7, Zenon
<1>8. CASE h.local[d] = <<>>
  <2>1. PICK t : t = [h.sock EXCEPT ![d] = Tail(h.sock[d])]
    OBVIOUS
  <2>2. h.sock[d] # <<>>
    BY <1>4, <1>5, <1>8
  <2>3. t \in Lines /\ t[d] = Tail(h.sock[d]) /\ \A e \in Jump!Dirs \ {d} : t[e] = h.sock[e]
    <3>1. Tail(h.sock[d]) \in Seq(Int)
      BY <1>4, <2>2
    <3> QED BY <1>3, <2>1, <3>1, Updated DEF Lines
  <2>4. g = WithSock(h, t)
    BY <1>1, <1>8, <2>1 DEF Jump!Taken, HopsOver, WithSock
  <2>5. /\ g \in HopsOver(BOOLEAN, Lines) /\ g.up = h.up /\ g.back = h.back
        /\ g.sock = t /\ g.local = h.local
    BY <2>3, <2>4, SockSet
  <2>6. Jump!Waiting(g, d) = <<>> \o Tail(h.sock[d])
    BY <1>8, <2>3, <2>5 DEF Jump!Waiting
  <2>7. Jump!Waiting(g, d) = Tail(Jump!Waiting(h, d))
    BY <1>4, <1>5, <1>8, <2>2, <2>6, TailSecond
  <2>8. \A e \in Jump!Dirs \ {d} : Jump!Waiting(g, e) = Jump!Waiting(h, e)
    BY <2>3, <2>5, Zenon DEF Jump!Waiting
  <2> QED BY <1>1, <1>6, <2>5, <2>7, <2>8, Zenon
<1> QED BY <1>7, <1>8

\* One read() takes the oldest packet.
LEMMA TakenWay ==
    ASSUME NEW h, Sound(h), h.up, NEW d \in Jump!Dirs, Jump!Waiting(h, d) # <<>>
    PROVE  /\ Sound(Jump!Taken(h, d)) /\ Jump!Taken(h, d).up
           /\ Jump!UnderWay(h, d) = Jump!Waiting(h, d) /\ Head(Jump!Waiting(h, d)) \in Int
           /\ Jump!UnderWay(Jump!Taken(h, d), d) = Tail(Jump!UnderWay(h, d))
           /\ \A e \in Jump!Dirs \ {d} : Jump!UnderWay(Jump!Taken(h, d), e) = Jump!UnderWay(h, e)
<1>1. h \in HopsOver(BOOLEAN, Lines) /\ h.back = Jump!None
  BY Zenon DEF Sound
<1>2. PICK g : g = Jump!Taken(h, d)
  OBVIOUS
<1>3. /\ g \in HopsOver(BOOLEAN, Lines) /\ g.up = h.up /\ g.back = h.back
      /\ Head(Jump!Waiting(h, d)) \in Int /\ Jump!Waiting(g, d) = Tail(Jump!Waiting(h, d))
      /\ \A e \in Jump!Dirs \ {d} : Jump!Waiting(g, e) = Jump!Waiting(h, e)
  BY <1>1, <1>2, TakenParts, Zenon
<1>4. Sound(g) /\ g.up
  BY <1>1, <1>3, Zenon DEF Sound
<1>5. \A e \in Jump!Dirs : Jump!UnderWay(g, e) = Jump!Waiting(g, e) /\ Jump!UnderWay(h, e) = Jump!Waiting(h, e)
  BY <1>4, AllWaiting, Zenon
<1> QED BY <1>2, <1>3, <1>4, <1>5, Zenon


LEMMA ReadableWaits ==
    ASSUME NEW h, Sound(h), NEW d \in Jump!Dirs, Jump!Readable(h, d)
    PROVE  h.up /\ Jump!Waiting(h, d) # <<>> /\ Jump!Waiting(h, d) = Jump!UnderWay(h, d)
<1>1. h.up /\ h.sock[d] # <<>>
  BY Zenon DEF Jump!Readable
<1>2. h.sock[d] \in Seq(Int) /\ h.local[d] \in Seq(Int)
  BY Fields, LineAt DEF Sound
<1>3. Jump!Waiting(h, d) # <<>>
  BY <1>1, <1>2, ConcatEmpty, Zenon DEF Jump!Waiting
<1> QED BY <1>1, <1>3, AllWaiting, Zenon

\* The same for each direction.
LEMMA DirsAre ==
    /\ "in" \in Jump!Dirs /\ "out" \in Jump!Dirs /\ "in" \in Jump!Dirs \ {"out"} /\ "out" \in Jump!Dirs \ {"in"}
    /\ \A d \in Jump!Dirs : d = "in" \/ d = "out"
  BY DEF Jump!Dirs

LEMMA PutIn ==
    ASSUME NEW h, Sound(h), NEW p \in Int, NEW g, g = Jump!Put(h, "in", p)
    PROVE  /\ Sound(g) /\ g.up = h.up /\ Jump!UnderWay(g, "in") = Append(Jump!UnderWay(h, "in"), p)
           /\ Jump!UnderWay(g, "out") = Jump!UnderWay(h, "out")
  BY PutWay, DirsAre, Zenon

LEMMA PutOut ==
    ASSUME NEW h, Sound(h), NEW p \in Int, NEW g, g = Jump!Put(h, "out", p)
    PROVE  /\ Sound(g) /\ g.up = h.up /\ Jump!UnderWay(g, "out") = Append(Jump!UnderWay(h, "out"), p)
           /\ Jump!UnderWay(g, "in") = Jump!UnderWay(h, "in")
  BY PutWay, DirsAre, Zenon

LEMMA TakenIn ==
    ASSUME NEW h, Sound(h), Jump!Readable(h, "in"), NEW g, g = Jump!Taken(h, "in"), 
           NEW p, p = Head(Jump!Waiting(h, "in"))
    PROVE  /\ Sound(g) /\ h.up /\ g.up /\ p \in Int /\ Jump!UnderWay(h, "in") # <<>>
           /\ p = Head(Jump!UnderWay(h, "in")) /\ Jump!UnderWay(g, "in") = Tail(Jump!UnderWay(h, "in"))
           /\ Jump!UnderWay(g, "out") = Jump!UnderWay(h, "out")
<1>1. h.up /\ Jump!Waiting(h, "in") # <<>> /\ Jump!Waiting(h, "in") = Jump!UnderWay(h, "in")
  BY ReadableWaits, DirsAre, Zenon
<1> QED BY <1>1, TakenWay, DirsAre, Zenon

LEMMA TakenOut ==
    ASSUME NEW h, Sound(h), Jump!Readable(h, "out"), NEW g, g = Jump!Taken(h, "out"),
           NEW p, p = Head(Jump!Waiting(h, "out"))
    PROVE  /\ Sound(g) /\ h.up /\ g.up /\ p \in Int /\ Jump!UnderWay(h, "out") # <<>>
           /\ p = Head(Jump!UnderWay(h, "out")) /\ Jump!UnderWay(g, "out") = Tail(Jump!UnderWay(h, "out"))
           /\ Jump!UnderWay(g, "in") = Jump!UnderWay(h, "in")
<1>1. h.up /\ Jump!Waiting(h, "out") # <<>> /\ Jump!Waiting(h, "out") = Jump!UnderWay(h, "out")
  BY ReadableWaits, DirsAre, Zenon
<1> QED BY <1>1, TakenWay, DirsAre, Zenon

LEMMA FailBoth ==
    ASSUME NEW h, Sound(h), NEW g, g = Jump!Fail(h)
    PROVE  /\ Sound(g) /\ ~g.up /\ Jump!UnderWay(g, "in") = Jump!UnderWay(h, "in")
           /\ Jump!UnderWay(g, "out") = Jump!UnderWay(h, "out")
  BY FailWay, DirsAre, Zenon

LEMMA RecoverBoth ==
    ASSUME NEW h, Sound(h), ~h.up, NEW g, g = Jump!Recover(h)
    PROVE  /\ Sound(g) /\ g.up /\ Jump!UnderWay(g, "in") = Jump!UnderWay(h, "in")
           /\ Jump!UnderWay(g, "out") = Jump!UnderWay(h, "out")
  BY RecoverWay, DirsAre, Zenon

-----------------------------------------------------------------------------
(* The packets of a direction: received, in the nearer session, in the     *)
(* pipe, in a hand, and in the farther session.                            *)

Ways == [1..5 -> Seq(Int)]
Way(w) == w[1] \o (w[2] \o (w[3] \o (w[4] \o w[5])))

LEMMA WayParts ==
    ASSUME NEW w \in Ways
    PROVE  /\ w[1] \in Seq(Int) /\ w[2] \in Seq(Int) /\ w[3] \in Seq(Int) /\ w[4] \in Seq(Int)
           /\ w[5] \in Seq(Int)
  BY DEF Ways

LEMMA WayIsSeq == ASSUME NEW w \in Ways PROVE Way(w) \in Seq(Int)
  BY WayParts DEF Way

LEMMA AppendConcat ==
    ASSUME NEW a \in Seq(Int), NEW b \in Seq(Int), NEW p \in Int
    PROVE  a \o Append(b, p) = Append(a \o b, p)
  OBVIOUS

LEMMA HeadFirst ==
    ASSUME NEW s \in Seq(Int), s # <<>>
    PROVE  /\ Head(s) \in Int /\ Tail(s) \in Seq(Int) /\ s = <<Head(s)>> \o Tail(s)
           /\ Len(Tail(s)) = Len(s) - 1
<1>1. Head(s) \in Int /\ Tail(s) \in Seq(Int)
  BY HeadTailProperties
<1>2. PICK t : t = <<Head(s)>> \o Tail(s)
  OBVIOUS
<1>3. t \in Seq(Int) /\ Len(t) = Len(s)
  BY <1>1, <1>2
<1>4. \A i \in 1..Len(s) : t[i] = s[i]
  BY <1>1, <1>2
<1>5. s = t
  BY <1>3, <1>4, SeqEqual
<1> QED BY <1>1, <1>2, <1>5

LEMMA MovedAcross ==
    ASSUME NEW a \in Seq(Int), NEW b \in Seq(Int), NEW p \in Int
    PROVE  a \o (<<p>> \o b) = Append(a, p) \o b
<1>1. PICK s, t : s = a \o (<<p>> \o b) /\ t = Append(a, p) \o b
  OBVIOUS
<1>2. s \in Seq(Int) /\ t \in Seq(Int) /\ Len(s) = Len(t)
  BY <1>1
<1>3. \A i \in 1..Len(s) : s[i] = t[i]
  BY <1>1
<1> QED BY <1>1, <1>2, <1>3, SeqEqual

\* What is sent joins the way at its end.
LEMMA WaySent ==
    ASSUME NEW w \in Ways, NEW v \in Ways, NEW p \in Int, v[5] = Append(w[5], p),
           v[1] = w[1], v[2] = w[2], v[3] = w[3], v[4] = w[4]
    PROVE  Way(v) = Append(Way(w), p)
<1>1. PICK a \in Seq(Int), b \in Seq(Int), c \in Seq(Int) : a = w[1] /\ b = w[2] /\ c = w[3]
  BY WayParts
<1>2. PICK d \in Seq(Int), e \in Seq(Int) : d = w[4] /\ e = w[5]
  BY WayParts
<1>3. PICK x : x = d \o e
  OBVIOUS
<1>4. x \in Seq(Int) /\ d \o Append(e, p) = Append(x, p)
  <2>1. d \o e \in Seq(Int)
    BY <1>3
  <2>2. d \o Append(e, p) = Append(d \o e, p)
    BY <1>3, AppendConcat, Zenon
  <2> QED BY <1>3, <2>1, <2>2
<1>5. PICK y : y = c \o x
  OBVIOUS
<1>6. y \in Seq(Int) /\ c \o Append(x, p) = Append(y, p)
  <2>1. c \o x \in Seq(Int)
    BY <1>4, <1>5
  <2>2. c \o Append(x, p) = Append(c \o x, p)
    BY <1>4, <1>5, AppendConcat, Zenon
  <2> QED BY <1>4, <1>5, <2>1, <2>2
<1>7. PICK z : z = b \o y
  OBVIOUS
<1>8. z \in Seq(Int) /\ b \o Append(y, p) = Append(z, p)
  <2>1. b \o y \in Seq(Int)
    BY <1>6, <1>7
  <2>2. b \o Append(y, p) = Append(b \o y, p)
    BY <1>6, <1>7, AppendConcat, Zenon
  <2> QED BY <1>6, <1>7, <2>1, <2>2
<1>9. a \o Append(z, p) = Append(a \o z, p)
  BY <1>8, AppendConcat
<1>10. Way(v) = a \o Append(z, p) /\ Way(w) = a \o z
  BY <1>1, <1>2, <1>3, <1>4, <1>5, <1>6, <1>7, <1>8, Zenon DEF Way
<1> QED BY <1>9, <1>10, Zenon

\* The first packet of a part moves to the end of the part before it.
LEMMA FirstMoves ==
    ASSUME NEW a \in Seq(Int), NEW b \in Seq(Int), NEW r \in Seq(Int), b # <<>>
    PROVE  Append(a, Head(b)) \o (Tail(b) \o r) = a \o (b \o r)
<1>1. Head(b) \in Int /\ Tail(b) \in Seq(Int) /\ b = <<Head(b)>> \o Tail(b)
  BY HeadFirst
<1>2. PICK x \in Int, y \in Seq(Int) : x = Head(b) /\ y = Tail(b)
  BY <1>1
<1>3. (<<x>> \o y) \o r = <<x>> \o (y \o r)
  <2>1. <<x>> \in Seq(Int)
    OBVIOUS
  <2> QED BY <2>1, ConcatAssociative
<1>4. y \o r \in Seq(Int)
  OBVIOUS
<1>5. a \o (<<x>> \o (y \o r)) = Append(a, x) \o (y \o r)
  BY <1>4, MovedAcross
<1> QED BY <1>1, <1>2, <1>3, <1>5, Zenon

LEMMA WayReceived ==
    ASSUME NEW w \in Ways, NEW v \in Ways, w[2] # <<>>, v[1] = Append(w[1], Head(w[2])),
           v[2] = Tail(w[2]), v[3] = w[3], v[4] = w[4], v[5] = w[5]
    PROVE  Way(v) = Way(w)
<1>1. PICK r : r = w[3] \o (w[4] \o w[5])
  OBVIOUS
<1>2. r \in Seq(Int) /\ w[1] \in Seq(Int) /\ w[2] \in Seq(Int)
  BY <1>1, WayParts
<1>3. Append(w[1], Head(w[2])) \o (Tail(w[2]) \o r) = w[1] \o (w[2] \o r)
  BY <1>2, FirstMoves
<1> QED BY <1>1, <1>3, Zenon DEF Way

LEMMA WayForwarded ==
    ASSUME NEW w \in Ways, NEW v \in Ways, w[3] # <<>>, v[2] = Append(w[2], Head(w[3])),
           v[3] = Tail(w[3]), v[1] = w[1], v[4] = w[4], v[5] = w[5]
    PROVE  Way(v) = Way(w)
<1>1. PICK r : r = w[4] \o w[5]
  OBVIOUS
<1>2. r \in Seq(Int) /\ w[2] \in Seq(Int) /\ w[3] \in Seq(Int)
  BY <1>1, WayParts
<1>3. Append(w[2], Head(w[3])) \o (Tail(w[3]) \o r) = w[2] \o (w[3] \o r)
  BY <1>2, FirstMoves
<1> QED BY <1>1, <1>3, Zenon DEF Way

\* A packet read from the farther session goes to the pipe, or to the hand if
\* the pipe is full; from the hand it goes to the pipe.
LEMMA WayWritten ==
    ASSUME NEW w \in Ways, NEW v \in Ways, w[5] # <<>>, w[4] = <<>>, v[5] = Tail(w[5]),
           v[1] = w[1], v[2] = w[2],
           (v[3] = Append(w[3], Head(w[5])) /\ v[4] = <<>>) \/ (v[3] = w[3] /\ v[4] = <<Head(w[5])>>)
    PROVE  Way(v) = Way(w)
<1>1. Head(w[5]) \in Int /\ Tail(w[5]) \in Seq(Int) /\ w[5] = <<Head(w[5])>> \o Tail(w[5])
  BY WayParts, HeadFirst
<1>2. <<>> \o w[5] = w[5] /\ <<>> \o Tail(w[5]) = Tail(w[5])
  BY <1>1, WayParts
<1>3. w[3] \o (<<Head(w[5])>> \o Tail(w[5])) = Append(w[3], Head(w[5])) \o Tail(w[5])
  BY <1>1, WayParts, MovedAcross
<1>4. v[3] \o (v[4] \o v[5]) = w[3] \o (w[4] \o w[5])
  BY <1>1, <1>2, <1>3, Zenon
<1> QED BY <1>4, Zenon DEF Way

LEMMA WayContinued ==
    ASSUME NEW w \in Ways, NEW v \in Ways, v[3] = w[3] \o w[4], v[4] = <<>>,
           v[1] = w[1], v[2] = w[2], v[5] = w[5]
    PROVE  Way(v) = Way(w)
<1>0. PICK c \in Seq(Int), d \in Seq(Int), e \in Seq(Int) : c = w[3] /\ d = w[4] /\ e = w[5]
  BY WayParts
<1>1. <<>> \o w[5] = w[5] /\ (w[3] \o w[4]) \o w[5] = w[3] \o (w[4] \o w[5])
  <2>1. <<>> \o e = e
    OBVIOUS
  <2>2. (c \o d) \o e = c \o (d \o e)
    BY Associated
  <2> QED BY <1>0, <2>1, <2>2, Zenon
<1>2. v[3] \o (v[4] \o v[5]) = w[3] \o (w[4] \o w[5])
  BY <1>1, Zenon
<1> QED BY <1>2, Zenon DEF Way

-----------------------------------------------------------------------------
(* The order of the data in it.                                            *)

LEMMA OrderSent ==
    ASSUME NEW s \in Seq(Int), NEW n \in Nat, Jump!InOrder(s, n)
    PROVE  Jump!InOrder(Append(s, n + 1), n + 1)
<1>1. PICK t : t = Append(s, n + 1)
  OBVIOUS
<1>2. /\ DOMAIN t = 1..(Len(s) + 1) /\ DOMAIN s = 1..Len(s) /\ t[Len(s) + 1] = n + 1
      /\ \A i \in 1..Len(s) : t[i] = s[i] /\ s[i] \in Int
  BY <1>1
<1>3. \A k \in 1..(n + 1) : \E i \in DOMAIN t : t[i] = k
  <2>1. ASSUME NEW k \in 1..(n + 1) PROVE \E i \in DOMAIN t : t[i] = k
    <3>1. CASE k = n + 1
      BY <1>2, <3>1
    <3>2. CASE k # n + 1
      <4>1. k \in 1..n
        BY <3>2
      <4>2. PICK i \in DOMAIN s : s[i] = k
        BY <4>1 DEF Jump!InOrder
      <4> QED BY <1>2, <4>2
    <3> QED BY <3>1, <3>2
  <2> QED BY <2>1
<1>4. ASSUME NEW i \in DOMAIN t, Jump!IsData(t[i]) PROVE t[i] <= n + 1
  <2>1. CASE i = Len(s) + 1
    BY <1>2, <1>4, <2>1 DEF Jump!IsData
  <2>2. CASE i \in DOMAIN s
    <3>1. t[i] = s[i] /\ s[i] \in Int
      BY <1>2, <2>2
    <3>2. s[i] <= n
      BY <1>4, <2>2, <3>1 DEF Jump!InOrder
    <3> QED BY <3>1, <3>2
  <2> QED BY <1>2, <2>1, <2>2
<1>5. ASSUME NEW i \in DOMAIN t, NEW j \in DOMAIN t, i < j, Jump!IsData(t[i]), Jump!IsData(t[j])
      PROVE  t[i] < t[j]
  <2>1. i \in DOMAIN s /\ t[i] = s[i] /\ s[i] \in Int
    BY <1>2, <1>5
  <2>2. CASE j \in DOMAIN s
    <3>1. t[j] = s[j]
      BY <1>2, <2>2
    <3> QED BY <1>5, <2>1, <2>2, <3>1 DEF Jump!InOrder
  <2>3. CASE j = Len(s) + 1
    <3>1. s[i] <= n
      BY <1>5, <2>1 DEF Jump!InOrder
    <3> QED BY <1>2, <2>1, <2>3, <3>1
  <2> QED BY <1>2, <2>2, <2>3
<1> QED BY <1>1, <1>3, <1>4, <1>5 DEF Jump!InOrder

\* Packets without data come and go.
LEMMA OrderJoined ==
    ASSUME NEW s \in Seq(Int), NEW n \in Nat, Jump!InOrder(s, n), NEW p \in Int, ~Jump!IsData(p)
    PROVE  Jump!InOrder(Append(s, p), n)
<1>1. PICK t : t = Append(s, p)
  OBVIOUS
<1>2. /\ DOMAIN t = 1..(Len(s) + 1) /\ DOMAIN s = 1..Len(s) /\ t[Len(s) + 1] = p
      /\ \A i \in 1..Len(s) : t[i] = s[i] /\ s[i] \in Int
  BY <1>1
<1>3. \A k \in 1..n : \E i \in DOMAIN t : t[i] = k
  <2>1. ASSUME NEW k \in 1..n PROVE \E i \in DOMAIN t : t[i] = k
    <3>1. PICK i \in DOMAIN s : s[i] = k
      BY DEF Jump!InOrder
    <3> QED BY <1>2, <3>1
  <2> QED BY <2>1
<1>4. ASSUME NEW i \in DOMAIN t, Jump!IsData(t[i]) PROVE t[i] <= n
  <2>1. CASE i = Len(s) + 1
    BY <1>2, <1>4, <2>1 DEF Jump!IsData
  <2>2. CASE i \in DOMAIN s
    <3>1. t[i] = s[i] /\ s[i] \in Int
      BY <1>2, <2>2
    <3>2. s[i] <= n
      BY <1>4, <2>2, <3>1 DEF Jump!InOrder
    <3> QED BY <3>1, <3>2
  <2> QED BY <1>2, <2>1, <2>2
<1>5. ASSUME NEW i \in DOMAIN t, NEW j \in DOMAIN t, i < j, Jump!IsData(t[i]), Jump!IsData(t[j])
      PROVE  t[i] < t[j]
  <2>1. i \in DOMAIN s /\ t[i] = s[i] /\ s[i] \in Int
    BY <1>2, <1>5
  <2>2. CASE j \in DOMAIN s
    <3>1. t[j] = s[j]
      BY <1>2, <2>2
    <3> QED BY <1>5, <2>1, <2>2, <3>1 DEF Jump!InOrder
  <2>3. CASE j = Len(s) + 1
    BY <1>2, <1>5, <2>3
  <2> QED BY <1>2, <2>2, <2>3
<1> QED BY <1>1, <1>3, <1>4, <1>5 DEF Jump!InOrder

LEMMA OrderLeft ==
    ASSUME NEW a \in Seq(Int), NEW b \in Seq(Int), NEW n \in Nat, NEW p \in Int, ~Jump!IsData(p),
           Jump!InOrder(a \o (<<p>> \o b), n)
    PROVE  Jump!InOrder(a \o b, n)
<1>1. PICK s, t : s = a \o (<<p>> \o b) /\ t = a \o b
  OBVIOUS
<1>2. PICK m : m = Len(a)
  OBVIOUS
<1>3. /\ m \in Nat /\ Len(b) \in Nat /\ DOMAIN s = 1..(m + 1 + Len(b)) /\ DOMAIN t = 1..(m + Len(b))
      /\ \A i \in DOMAIN s : s[i] \in Int
  BY <1>1, <1>2
<1>4. /\ \A i \in DOMAIN t : i <= m => t[i] = s[i]
      /\ \A i \in DOMAIN t : i > m => t[i] = s[i + 1]
      /\ s[m + 1] = p
  <2>1. PICK r : r = <<p>> \o b
    OBVIOUS
  <2>2. r \in Seq(Int) /\ Len(r) = 1 + Len(b) /\ r[1] = p /\ \A i \in 1..Len(b) : r[i + 1] = b[i]
    BY <2>1
  <2>3. s = a \o r /\ t = a \o b
    BY <1>1, <2>1
  <2>4. ASSUME NEW i \in DOMAIN t, i <= m PROVE t[i] = s[i]
    BY <1>2, <1>3, <2>2, <2>3, <2>4
  <2>5. ASSUME NEW i \in DOMAIN t, i > m PROVE t[i] = s[i + 1]
    <3>1. PICK j : j = i - m
      OBVIOUS
    <3>2. i \in Nat /\ j \in 1..Len(b) /\ i = m + j
      BY <1>3, <2>5, <3>1
    <3>3. t[i] = b[j]
      BY <1>2, <1>3, <2>3, <3>2
    <3>4. s[i + 1] = r[j + 1]
      <4>1. \A k \in 1..Len(r) : (a \o r)[Len(a) + k] = r[k]
        BY <2>2
      <4>2. j + 1 \in 1..Len(r) /\ i + 1 = Len(a) + (j + 1)
        BY <1>2, <1>3, <2>2, <3>2
      <4> QED BY <2>3, <4>1, <4>2
    <3> QED BY <2>2, <3>2, <3>3, <3>4
  <2>6. s[m + 1] = p
    BY <1>2, <1>3, <2>2, <2>3
  <2> QED BY <2>4, <2>5, <2>6
<1>5. \A k \in 1..n : \E i \in DOMAIN t : t[i] = k
  <2>1. ASSUME NEW k \in 1..n PROVE \E i \in DOMAIN t : t[i] = k
    <3>1. PICK i \in DOMAIN s : s[i] = k
      BY <1>1 DEF Jump!InOrder
    <3>2. i # m + 1
      BY <1>4, <3>1 DEF Jump!IsData
    <3>3. CASE i <= m
      <4>1. i \in DOMAIN t /\ t[i] = k
        BY <1>3, <1>4, <3>1, <3>3
      <4> QED BY <4>1
    <3>4. CASE i > m
      <4>1. i - 1 \in DOMAIN t /\ i - 1 > m /\ (i - 1) + 1 = i
        BY <1>3, <3>1, <3>2, <3>4
      <4>2. t[i - 1] = s[i]
        BY <1>4, <4>1
      <4> QED BY <3>1, <4>1, <4>2
    <3> QED BY <1>3, <3>1, <3>3, <3>4
  <2> QED BY <2>1
<1>8. ASSUME NEW i \in DOMAIN t PROVE IF i <= m THEN i \in DOMAIN s ELSE i + 1 \in DOMAIN s
  BY <1>3
<1>6. ASSUME NEW i \in DOMAIN t, Jump!IsData(t[i]) PROVE t[i] <= n
  <2>1. CASE i <= m
    BY <1>1, <1>4, <1>6, <1>8, <2>1 DEF Jump!InOrder
  <2>2. CASE i > m
    <3>1. i + 1 \in DOMAIN s /\ t[i] = s[i + 1]
      BY <1>3, <1>4, <1>8, <2>2
    <3> QED BY <1>1, <1>6, <3>1 DEF Jump!InOrder
  <2> QED BY <1>3, <2>1, <2>2
<1>7. \A i, j \in DOMAIN t : i < j /\ Jump!IsData(t[i]) /\ Jump!IsData(t[j]) => t[i] < t[j]
  <2>1. ASSUME NEW i \in DOMAIN t, NEW j \in DOMAIN t, i < j, Jump!IsData(t[i]), Jump!IsData(t[j])
        PROVE  t[i] < t[j]
    <3>1. PICK x \in DOMAIN s, y \in DOMAIN s : x < y /\ t[i] = s[x] /\ t[j] = s[y]
      <4>1. CASE i <= m /\ j <= m
        <5>1. t[i] = s[i] /\ t[j] = s[j] /\ i \in DOMAIN s /\ j \in DOMAIN s
          BY <1>4, <1>8, <4>1
        <5> QED BY <2>1, <5>1
      <4>2. CASE i <= m /\ j > m
        <5>1. t[i] = s[i] /\ t[j] = s[j + 1] /\ i \in DOMAIN s /\ j + 1 \in DOMAIN s /\ i < j + 1
          BY <1>3, <1>4, <1>8, <2>1, <4>2
        <5> QED BY <5>1
      <4>3. CASE i > m /\ j > m
        <5>1. t[i] = s[i + 1] /\ t[j] = s[j + 1] /\ i + 1 \in DOMAIN s /\ j + 1 \in DOMAIN s /\ i + 1 < j + 1
          BY <1>3, <1>4, <1>8, <2>1, <4>3
        <5> QED BY <5>1
      <4> QED BY <1>3, <2>1, <4>1, <4>2, <4>3
    <3> QED BY <1>1, <2>1, <3>1 DEF Jump!InOrder
  <2> QED BY <2>1
<1> QED BY <1>1, <1>5, <1>6, <1>7 DEF Jump!InOrder

-----------------------------------------------------------------------------
(* The inductive invariant of the jump host.                               *)

JumpTypes ==
    /\ Jump!TypeOK /\ Sound(hop1) /\ Sound(hop2)
    /\ pipe \in Lines /\ hand \in Lines /\ got \in Lines

\* Before it has started the relay has neither socket nor thread.
JumpControl ==
    /\ Jump!OneReconnection
    /\ phase = "init" => ~hop2.up /\ ~thread

JumpInd == JumpTypes /\ JumpControl /\ Jump!RelayInOrder

LEMMA PartsAreSeqs ==
    ASSUME JumpTypes, NEW d \in Jump!Dirs
    PROVE  /\ got[d] \in Seq(Int) /\ pipe[d] \in Seq(Int) /\ hand[d] \in Seq(Int)
           /\ Jump!UnderWay(hop1, d) \in Seq(Int) /\ Jump!UnderWay(hop2, d) \in Seq(Int)
  BY LineAt, WayType DEF JumpTypes

InParts == <<got["in"], Jump!UnderWay(hop2, "in"), pipe["in"], hand["in"], Jump!UnderWay(hop1, "in")>>
OutParts == <<got["out"], Jump!UnderWay(hop1, "out"), pipe["out"], hand["out"], Jump!UnderWay(hop2, "out")>>

LEMMA InPartsAre == ASSUME JumpTypes PROVE InParts \in Ways
  BY DirsAre, PartsAreSeqs DEF InParts, Ways

LEMMA OutPartsAre == ASSUME JumpTypes PROVE OutParts \in Ways
  BY DirsAre, PartsAreSeqs DEF OutParts, Ways

LEMMA InPartsAreNext == ASSUME JumpTypes' PROVE InParts' \in Ways
<1>1. /\ got'["in"] \in Seq(Int) /\ pipe'["in"] \in Seq(Int) /\ hand'["in"] \in Seq(Int)
      /\ Jump!UnderWay(hop1', "in") \in Seq(Int) /\ Jump!UnderWay(hop2', "in") \in Seq(Int)
  BY DirsAre, LineAt, WayType DEF JumpTypes
<1> QED BY <1>1 DEF InParts, Ways

LEMMA OutPartsAreNext == ASSUME JumpTypes' PROVE OutParts' \in Ways
<1>1. /\ got'["out"] \in Seq(Int) /\ pipe'["out"] \in Seq(Int) /\ hand'["out"] \in Seq(Int)
      /\ Jump!UnderWay(hop1', "out") \in Seq(Int) /\ Jump!UnderWay(hop2', "out") \in Seq(Int)
  BY DirsAre, LineAt, WayType DEF JumpTypes
<1> QED BY <1>1 DEF OutParts, Ways

LEMMA OrderIs ==
    Jump!RelayInOrder <=>
        (server # "ended" /\ phase # "over" =>
            Jump!InOrder(Way(InParts), sent["in"]) /\ Jump!InOrder(Way(OutParts), sent["out"]))
<1>1. Way(InParts) = Jump!InWay /\ Way(OutParts) = Jump!OutWay
  BY DEF Jump!InWay, Jump!OutWay, InParts, OutParts, Way
<1> QED BY <1>1 DEF Jump!RelayInOrder

LEMMA OrderIsNext ==
    Jump!RelayInOrder' <=>
        (server' # "ended" /\ phase' # "over" =>
            Jump!InOrder(Way(InParts'), sent'["in"]) /\ Jump!InOrder(Way(OutParts'), sent'["out"]))
<1>1. Way(InParts') = Jump!InWay' /\ Way(OutParts') = Jump!OutWay'
  BY DEF Jump!InWay, Jump!OutWay, InParts, OutParts, Way
<1> QED BY <1>1 DEF Jump!RelayInOrder

\* A step that moves packets along their way keeps the order.
LEMMA OrderKept ==
    ASSUME Jump!RelayInOrder, server' = server, phase' # "over" => phase # "over", sent' = sent,
           Way(InParts') = Way(InParts), Way(OutParts') = Way(OutParts)
    PROVE  Jump!RelayInOrder'
  BY OrderIs, OrderIsNext, Zenon

-----------------------------------------------------------------------------
(* The client and the links.                                               *)

LEMMA SendBound ==
    ASSUME Jump!JumpAssumption, Jump!TypeOK, NEW d \in Jump!Dirs, Jump!MaySend(d),
           sent' = [sent EXCEPT ![d] = @ + 1]
    PROVE  sent' \in [Jump!Dirs -> 0..MaxMany] /\ (\E e \in Jump!Dirs : sent'[e] <= MaxFew)
           /\ sent[d] \in Nat /\ sent'[d] = sent[d] + 1 /\ \A e \in Jump!Dirs \ {d} : sent'[e] = sent[e]
<1>1. sent \in [Jump!Dirs -> 0..MaxMany] /\ MaxMany \in Nat /\ MaxFew \in Nat
  BY DEF Jump!TypeOK, Jump!JumpAssumption
<1>2. sent[d] < MaxMany /\ sent[d] \in Nat
  BY <1>1 DEF Jump!MaySend
<1>3. sent' \in [Jump!Dirs -> 0..MaxMany] /\ sent'[d] = sent[d] + 1 /\ \A e \in Jump!Dirs \ {d} : sent'[e] = sent[e]
  BY <1>1, <1>2
<1>4. \E e \in Jump!Dirs : sent'[e] <= MaxFew
  <2>1. CASE sent[d] < MaxFew
    BY <1>1, <1>2, <1>3, <2>1
  <2>2. CASE \A e \in Jump!Dirs \ {d} : sent[e] <= MaxFew
    <3>1. PICK e \in Jump!Dirs : e # d
      BY DirsAre
    <3> QED BY <1>3, <2>2, <3>1
  <2> QED BY <2>1, <2>2 DEF Jump!MaySend
<1> QED BY <1>2, <1>3, <1>4

LEMMA ClientSendsKeeps ==
    ASSUME Jump!JumpAssumption, JumpInd, Jump!ClientSends
    PROVE  JumpInd'
<1>1. /\ Sound(hop1) /\ sent["in"] \in Nat
      /\ sent' \in [Jump!Dirs -> 0..MaxMany] /\ (\E e \in Jump!Dirs : sent'[e] <= MaxFew)
      /\ sent'["in"] = sent["in"] + 1 /\ sent'["out"] = sent["out"]
  BY SendBound, DirsAre DEF JumpInd, JumpTypes, Jump!ClientSends
<1>2. hop1' = Jump!Put(hop1, "in", sent["in"] + 1) /\ sent["in"] + 1 \in Int
  BY <1>1 DEF Jump!ClientSends
<1>3. /\ Sound(hop1') /\ Jump!UnderWay(hop1', "in") = Append(Jump!UnderWay(hop1, "in"), sent["in"] + 1)
      /\ Jump!UnderWay(hop1', "out") = Jump!UnderWay(hop1, "out")
  BY <1>1, <1>2, PutIn
<1>4. /\ hop2' = hop2 /\ pipe' = pipe /\ hand' = hand /\ got' = got /\ phase' = phase /\ sawFd' = sawFd
      /\ isRec' = isRec /\ thread' = thread /\ server' = server /\ over' = over /\ fatal' = fatal /\ faults' = faults
  BY DEF Jump!ClientSends, Jump!Relay, Jump!Ends
<1>5. JumpTypes'
  <2>1. hop1'.up \in BOOLEAN
    BY <1>3, Fields DEF Sound
  <2> QED BY <1>1, <1>3, <1>4, <2>1 DEF JumpInd, JumpTypes, Jump!TypeOK
<1>6. JumpControl'
  BY <1>4 DEF JumpInd, JumpControl, Jump!OneReconnection
<1>7. Jump!RelayInOrder'
  <2>1. JumpTypes /\ Jump!RelayInOrder
    BY DEF JumpInd
  <2>2. Way(InParts) \in Seq(Int) /\ Way(InParts') = Append(Way(InParts), sent["in"] + 1)
    <3>1. InParts \in Ways /\ InParts' \in Ways
      BY <1>5, <2>1, InPartsAre, InPartsAreNext
    <3>2. /\ InParts'[5] = Append(InParts[5], sent["in"] + 1) /\ InParts'[1] = InParts[1]
          /\ InParts'[2] = InParts[2] /\ InParts'[3] = InParts[3] /\ InParts'[4] = InParts[4]
      BY <1>3, <1>4 DEF InParts
    <3> QED BY <1>2, <3>1, <3>2, WaySent, WayIsSeq, Zenon
  <2>3. Way(OutParts') = Way(OutParts)
    BY <1>3, <1>4, Zenon DEF OutParts
  <2>4. ASSUME server # "ended", phase # "over"
        PROVE  Jump!InOrder(Way(InParts'), sent'["in"]) /\ Jump!InOrder(Way(OutParts'), sent'["out"])
    <3>1. Jump!InOrder(Way(InParts), sent["in"]) /\ Jump!InOrder(Way(OutParts), sent["out"])
      BY <2>1, <2>4, OrderIs
    <3>2. Jump!InOrder(Append(Way(InParts), sent["in"] + 1), sent["in"] + 1)
      BY <1>1, <2>2, <3>1, OrderSent
    <3> QED BY <1>1, <2>2, <2>3, <3>1, <3>2, Zenon
  <2> QED BY <1>4, <2>4, OrderIsNext, Zenon
<1> QED BY <1>5, <1>6, <1>7 DEF JumpInd

-----------------------------------------------------------------------------
(* A packet without data that leaves the way.                              *)

LEMMA Prefixed ==
    ASSUME NEW a \in Seq(Int), NEW b \in Seq(Int)
    PROVE  \E c \in Seq(Int) : \A s \in Seq(Int) : a \o (b \o s) = c \o s
<1>1. PICK c : c = a \o b
  OBVIOUS
<1>2. c \in Seq(Int)
  BY <1>1
<1>3. ASSUME NEW s \in Seq(Int) PROVE a \o (b \o s) = c \o s
  <2>1. a \o (b \o s) = (a \o b) \o s
    BY Associated
  <2> QED BY <1>1, <2>1
<1> QED BY <1>2, <1>3

LEMMA LeavesFirst ==
    ASSUME NEW b \in Seq(Int), NEW r \in Seq(Int), b # <<>>
    PROVE  b \o r = <<Head(b)>> \o (Tail(b) \o r)
<1>1. Head(b) \in Int /\ Tail(b) \in Seq(Int) /\ b = <<Head(b)>> \o Tail(b)
  BY HeadFirst
<1>2. PICK x \in Seq(Int), y \in Seq(Int) : x = <<Head(b)>> /\ y = Tail(b)
  <2>1. <<Head(b)>> \in Seq(Int)
    BY <1>1
  <2> QED BY <1>1, <2>1, Zenon
<1>3. (x \o y) \o r = x \o (y \o r)
  BY Associated
<1> QED BY <1>1, <1>2, <1>3, Zenon

LEMMA OrderWithout ==
    ASSUME NEW a \in Seq(Int), NEW b \in Seq(Int), NEW n \in Nat, NEW p \in Int, ~Jump!IsData(p),
           NEW s, s = a \o (<<p>> \o b), Jump!InOrder(s, n), NEW t, t = a \o b
    PROVE  Jump!InOrder(t, n)
  BY OrderLeft, Zenon

LEMMA DropsSecond ==
    ASSUME NEW w \in Ways, NEW v \in Ways, NEW n \in Nat, w[2] # <<>>, ~Jump!IsData(Head(w[2])),
           v[2] = Tail(w[2]), v[1] = w[1], v[3] = w[3], v[4] = w[4], v[5] = w[5],
           Jump!InOrder(Way(w), n)
    PROVE  Jump!InOrder(Way(v), n)
<1>1. PICK r : r = w[3] \o (w[4] \o w[5])
  OBVIOUS
<1>2. r \in Seq(Int) /\ w[1] \in Seq(Int) /\ w[2] \in Seq(Int)
  BY <1>1, WayParts
<1>3. Head(w[2]) \in Int /\ Tail(w[2]) \in Seq(Int)
  BY <1>2, HeadFirst
<1>4. Tail(w[2]) \o r \in Seq(Int)
  BY <1>2, <1>3
<1>5. Way(w) = w[1] \o (<<Head(w[2])>> \o (Tail(w[2]) \o r))
  BY <1>1, <1>2, LeavesFirst, Zenon DEF Way
<1>6. Way(v) = w[1] \o (Tail(w[2]) \o r)
  BY <1>1, Zenon DEF Way
<1>7. PICK p \in Int, a \in Seq(Int), b \in Seq(Int) :
        p = Head(w[2]) /\ a = w[1] /\ b = Tail(w[2]) \o r
  BY <1>2, <1>3, <1>4, Zenon
<1>8. Way(w) = a \o (<<p>> \o b) /\ Way(v) = a \o b /\ ~Jump!IsData(p)
  BY <1>5, <1>6, <1>7, Zenon
<1> QED BY <1>8, OrderWithout, Zenon

LEMMA DropsThird ==
    ASSUME NEW w \in Ways, NEW v \in Ways, NEW n \in Nat, w[3] # <<>>, ~Jump!IsData(Head(w[3])),
           v[3] = Tail(w[3]), v[1] = w[1], v[2] = w[2], v[4] = w[4], v[5] = w[5],
           Jump!InOrder(Way(w), n)
    PROVE  Jump!InOrder(Way(v), n)
<1>1. PICK r : r = w[4] \o w[5]
  OBVIOUS
<1>2. r \in Seq(Int) /\ w[1] \in Seq(Int) /\ w[2] \in Seq(Int) /\ w[3] \in Seq(Int)
  BY <1>1, WayParts
<1>3. Head(w[3]) \in Int /\ Tail(w[3]) \in Seq(Int)
  BY <1>2, HeadFirst
<1>4. PICK q \in Seq(Int), a \in Seq(Int), b \in Seq(Int), c \in Seq(Int) :
        q = Tail(w[3]) \o r /\ a = w[1] \o w[2] /\ b = w[1] /\ c = w[2]
  <2>1. Tail(w[3]) \o r \in Seq(Int) /\ w[1] \o w[2] \in Seq(Int)
    BY <1>2, <1>3
  <2> QED BY <1>2, <2>1, Zenon
<1>5. Way(w) = w[1] \o (w[2] \o (<<Head(w[3])>> \o q))
  BY <1>1, <1>2, <1>4, LeavesFirst, Zenon DEF Way
<1>6. Way(v) = w[1] \o (w[2] \o q)
  BY <1>1, <1>4, Zenon DEF Way
<1>7. PICK z \in Seq(Int) : z = <<Head(w[3])>> \o q
  <2>1. <<Head(w[3])>> \o q \in Seq(Int)
    BY <1>3
  <2> QED BY <2>1
<1>8. b \o (c \o z) = (b \o c) \o z /\ b \o (c \o q) = (b \o c) \o q
  <2>1. b \o (c \o z) = (b \o c) \o z
    BY Associated
  <2>2. b \o (c \o q) = (b \o c) \o q
    BY Associated
  <2> QED BY <2>1, <2>2
<1>9. Way(w) = a \o (<<Head(w[3])>> \o q) /\ Way(v) = a \o q
  BY <1>4, <1>5, <1>6, <1>7, <1>8, Zenon
<1>10. PICK p \in Int : p = Head(w[3])
  BY <1>3
<1>11. Way(w) = a \o (<<p>> \o q) /\ Way(v) = a \o q /\ ~Jump!IsData(p)
  BY <1>9, <1>10, Zenon
<1> QED BY <1>11, OrderWithout, Zenon

LEMMA DropsFifth ==
    ASSUME NEW w \in Ways, NEW v \in Ways, NEW n \in Nat, w[5] # <<>>, ~Jump!IsData(Head(w[5])),
           v[5] = Tail(w[5]), v[1] = w[1], v[2] = w[2], v[3] = w[3], v[4] = w[4],
           Jump!InOrder(Way(w), n)
    PROVE  Jump!InOrder(Way(v), n)
<1>1. PICK q \in Seq(Int), z \in Seq(Int) : q = Tail(w[5]) /\ z = w[5]
  BY WayParts, HeadFirst
<1>2. Head(w[5]) \in Int /\ z = <<Head(w[5])>> \o q
  BY <1>1, WayParts, HeadFirst
<1>3. PICK a \in Seq(Int) : \A s \in Seq(Int) : w[1] \o (w[2] \o (w[3] \o (w[4] \o s))) = a \o s
  <2>1. PICK d \in Seq(Int) : \A s \in Seq(Int) : w[3] \o (w[4] \o s) = d \o s
    <3>1. w[3] \in Seq(Int) /\ w[4] \in Seq(Int)
      BY WayParts
    <3> QED BY <3>1, Prefixed, Zenon
  <2>2. PICK c \in Seq(Int) : \A s \in Seq(Int) : w[2] \o (d \o s) = c \o s
    <3>1. w[2] \in Seq(Int)
      BY WayParts
    <3> QED BY <3>1, Prefixed, Zenon
  <2>3. PICK b \in Seq(Int) : \A s \in Seq(Int) : w[1] \o (c \o s) = b \o s
    <3>1. w[1] \in Seq(Int)
      BY WayParts
    <3> QED BY <3>1, Prefixed, Zenon
  <2>4. ASSUME NEW s \in Seq(Int) PROVE w[1] \o (w[2] \o (w[3] \o (w[4] \o s))) = b \o s
    BY <2>1, <2>2, <2>3, Zenon
  <2> QED BY <2>4
<1>4. Way(w) = a \o (<<Head(w[5])>> \o q) /\ Way(v) = a \o q
  BY <1>1, <1>2, <1>3, Zenon DEF Way
<1>5. PICK p \in Int : p = Head(w[5])
  BY <1>2
<1>6. Way(w) = a \o (<<p>> \o q) /\ Way(v) = a \o q /\ ~Jump!IsData(p)
  BY <1>4, <1>5, Zenon
<1> QED BY <1>6, OrderWithout, Zenon

-----------------------------------------------------------------------------
(* Which parts of the invariant a step can disturb.                        *)

LEMMA TypesKept ==
    ASSUME JumpTypes, Sound(hop1'), Sound(hop2'), pipe' \in Lines, hand' \in Lines, got' \in Lines,
           \A d \in Jump!Dirs : Len(pipe'[d]) <= PipeCap /\ Len(hand'[d]) <= 1,
           phase' \in {"init", "connect", "relay", "bare", "stuck", "over"}, sawFd' \in BOOLEAN, isRec' \in BOOLEAN,
           thread' \in BOOLEAN, server' \in {"first", "loop", "ended", "failed"},
           over' \in {"no", "jumphost", "client"}, sent' = sent, fatal' \in BOOLEAN,
           faults' \in 0..MaxFaults
    PROVE  JumpTypes'
<1>1. hop1'.up \in BOOLEAN /\ hop2'.up \in BOOLEAN
  BY Fields DEF Sound
<1> QED BY <1>1 DEF JumpTypes, Jump!TypeOK

LEMMA TypesOf ==
    ASSUME JumpInd
    PROVE  /\ JumpTypes /\ Jump!RelayInOrder /\ Sound(hop1) /\ Sound(hop2)
           /\ pipe \in Lines /\ hand \in Lines /\ got \in Lines
           /\ \A d \in Jump!Dirs : Len(pipe[d]) <= PipeCap /\ Len(hand[d]) <= 1
           /\ phase \in {"init", "connect", "relay", "bare", "stuck", "over"} /\ sawFd \in BOOLEAN /\ isRec \in BOOLEAN
           /\ thread \in BOOLEAN /\ server \in {"first", "loop", "ended", "failed"}
           /\ over \in {"no", "jumphost", "client"} /\ fatal \in BOOLEAN /\ faults \in 0..MaxFaults
           /\ sent["in"] \in Nat /\ sent["out"] \in Nat /\ hop1.up \in BOOLEAN /\ hop2.up \in BOOLEAN
           /\ InParts \in Ways /\ OutParts \in Ways /\ Way(InParts) \in Seq(Int) /\ Way(OutParts) \in Seq(Int)
<1>1. JumpTypes /\ Jump!RelayInOrder /\ Jump!TypeOK
  BY DEF JumpInd, JumpTypes
<1>2. sent["in"] \in Nat /\ sent["out"] \in Nat
  BY <1>1, DirsAre DEF Jump!TypeOK
<1>3. InParts \in Ways /\ OutParts \in Ways
  BY <1>1, InPartsAre, OutPartsAre
<1>4. Way(InParts) \in Seq(Int) /\ Way(OutParts) \in Seq(Int)
  BY <1>3, WayIsSeq
<1> QED BY <1>1, <1>2, <1>3, <1>4 DEF JumpTypes, Jump!TypeOK

\* The order, by the two directions.
LEMMA OrderNext ==
    ASSUME Jump!RelayInOrder, server' # "ended" => server # "ended", phase' # "over" => phase # "over",
           Jump!InOrder(Way(InParts), sent["in"]) => Jump!InOrder(Way(InParts'), sent'["in"]),
           Jump!InOrder(Way(OutParts), sent["out"]) => Jump!InOrder(Way(OutParts'), sent'["out"])
    PROVE  Jump!RelayInOrder'
  BY OrderIs, OrderIsNext, Zenon

LEMMA ClientKeepaliveKeeps ==
    ASSUME JumpInd, Jump!ClientKeepalive
    PROVE  JumpInd'
<1>1. hop1' = Jump!Put(hop1, "in", 0) /\ 0 \in Int
  BY DEF Jump!ClientKeepalive, Jump!Keepalive
<1>2. /\ Sound(hop1') /\ hop1'.up = hop1.up /\ Jump!UnderWay(hop1', "in") = Append(Jump!UnderWay(hop1, "in"), 0)
      /\ Jump!UnderWay(hop1', "out") = Jump!UnderWay(hop1, "out")
  BY <1>1, TypesOf, PutIn
<1>3. /\ hop2' = hop2 /\ pipe' = pipe /\ hand' = hand /\ got' = got /\ phase' = phase /\ sawFd' = sawFd
      /\ isRec' = isRec /\ thread' = thread /\ server' = server /\ over' = over /\ fatal' = fatal /\ faults' = faults
      /\ sent' = sent
  BY DEF Jump!ClientKeepalive, Jump!Relay, Jump!Ends
<1>4. JumpTypes'
  BY <1>2, <1>3, TypesOf, TypesKept
<1>5. JumpControl'
  BY <1>3 DEF JumpInd, JumpControl, Jump!OneReconnection
<1>6. Jump!RelayInOrder'
  <2>1. InParts' \in Ways
    BY <1>4, InPartsAreNext
  <2>2. /\ InParts'[5] = Append(InParts[5], 0) /\ InParts'[1] = InParts[1]
        /\ InParts'[2] = InParts[2] /\ InParts'[3] = InParts[3] /\ InParts'[4] = InParts[4]
    BY <1>2, <1>3 DEF InParts
  <2>3. Way(InParts') = Append(Way(InParts), 0)
    BY <1>1, <2>1, <2>2, TypesOf, WaySent, Zenon
  <2>4. ~Jump!IsData(0)
    BY DEF Jump!IsData
  <2>5. Jump!InOrder(Way(InParts), sent["in"]) => Jump!InOrder(Way(InParts'), sent'["in"])
    BY <1>1, <1>3, <2>3, <2>4, TypesOf, OrderJoined
  <2>6. OutParts' = OutParts
    BY <1>2, <1>3 DEF OutParts
  <2> QED BY <1>3, <2>5, <2>6, TypesOf, OrderNext, Zenon
<1> QED BY <1>4, <1>5, <1>6 DEF JumpInd

\* What is received.
LEMMA ReceivedOne ==
    ASSUME got \in Lines, NEW d \in Jump!Dirs, NEW p \in Int, got' = Jump!Received(d, p)
    PROVE  /\ got' \in Lines /\ \A e \in Jump!Dirs \ {d} : got'[e] = got[e]
           /\ IF Jump!IsData(p) THEN got'[d] = Append(got[d], p) ELSE got'[d] = got[d]
<1>1. CASE Jump!IsData(p)
  <2>1. Append(got[d], p) \in Seq(Int)
    BY LineAt
  <2>2. got' = [got EXCEPT ![d] = Append(got[d], p)]
    BY <1>1 DEF Jump!Received
  <2>3. got' \in Lines /\ got'[d] = Append(got[d], p) /\ \A e \in Jump!Dirs \ {d} : got'[e] = got[e]
    BY <2>1, <2>2, Updated DEF Lines
  <2> QED BY <1>1, <2>3, Zenon
<1>2. CASE ~Jump!IsData(p)
  BY <1>2, Zenon DEF Jump!Received
<1> QED BY <1>1, <1>2

LEMMA ClientReadsKeeps ==
    ASSUME JumpInd, Jump!ClientReads
    PROVE  JumpInd'
<1>1. PICK p : p = Head(Jump!Waiting(hop1, "out"))
  OBVIOUS
<1>2. Jump!Readable(hop1, "out") /\ hop1' = Jump!Taken(hop1, "out") /\ got' = Jump!Received("out", p)
  BY <1>1 DEF Jump!ClientReads
<1>3. /\ Sound(hop1') /\ p \in Int /\ Jump!UnderWay(hop1, "out") # <<>> /\ p = Head(Jump!UnderWay(hop1, "out"))
      /\ Jump!UnderWay(hop1', "out") = Tail(Jump!UnderWay(hop1, "out"))
      /\ Jump!UnderWay(hop1', "in") = Jump!UnderWay(hop1, "in")
  BY <1>1, <1>2, TypesOf, TakenOut, Zenon
<1>4. /\ hop2' = hop2 /\ pipe' = pipe /\ hand' = hand /\ phase' = phase /\ sawFd' = sawFd
      /\ isRec' = isRec /\ thread' = thread /\ server' = server /\ over' = over /\ fatal' \in BOOLEAN /\ faults' = faults
      /\ sent' = sent
  BY DEF Jump!ClientReads, Jump!Relay
<1>5. /\ got' \in Lines /\ got'["in"] = got["in"]
      /\ IF Jump!IsData(p) THEN got'["out"] = Append(got["out"], p) ELSE got'["out"] = got["out"]
  BY <1>2, <1>3, TypesOf, ReceivedOne, DirsAre
<1>6. JumpTypes'
  BY <1>3, <1>4, <1>5, TypesOf, TypesKept
<1>7. JumpControl'
  BY <1>4 DEF JumpInd, JumpControl, Jump!OneReconnection
<1>8. Jump!RelayInOrder'
  <2>1. OutParts' \in Ways /\ OutParts \in Ways /\ sent["out"] \in Nat
    BY <1>6, OutPartsAreNext, TypesOf
  <2>2. /\ OutParts[2] # <<>> /\ Head(OutParts[2]) = p /\ OutParts'[2] = Tail(OutParts[2])
        /\ OutParts'[3] = OutParts[3] /\ OutParts'[4] = OutParts[4] /\ OutParts'[5] = OutParts[5]
    BY <1>3, <1>4 DEF OutParts
  <2>3. IF Jump!IsData(p) THEN OutParts'[1] = Append(OutParts[1], p) ELSE OutParts'[1] = OutParts[1]
    BY <1>5 DEF OutParts
  <2>4. CASE Jump!IsData(p)
    <3>1. Way(OutParts') = Way(OutParts)
      BY <2>1, <2>2, <2>3, <2>4, WayReceived, Zenon
    <3>2. InParts' = InParts
      BY <1>3, <1>4, <1>5 DEF InParts
    <3> QED BY <1>4, <3>1, <3>2, TypesOf, OrderKept, Zenon
  <2>5. CASE ~Jump!IsData(p)
    <3>1. Jump!InOrder(Way(OutParts), sent["out"]) => Jump!InOrder(Way(OutParts'), sent["out"])
      BY <2>1, <2>2, <2>3, <2>5, DropsSecond, Zenon
    <3>2. InParts' = InParts
      BY <1>3, <1>4, <1>5 DEF InParts
    <3> QED BY <1>4, <3>1, <3>2, TypesOf, OrderNext, Zenon
  <2> QED BY <2>4, <2>5
<1> QED BY <1>6, <1>7, <1>8 DEF JumpInd

LEMMA LinkOneFailsKeeps ==
    ASSUME Jump!JumpAssumption, JumpInd, Jump!Link1Fails
    PROVE  JumpInd'
<1>1. hop1' = Jump!Fail(hop1)
  BY DEF Jump!Link1Fails
<1>2. /\ Sound(hop1') /\ Jump!UnderWay(hop1', "in") = Jump!UnderWay(hop1, "in")
      /\ Jump!UnderWay(hop1', "out") = Jump!UnderWay(hop1, "out")
  BY <1>1, TypesOf, FailBoth
<1>3. /\ hop2' = hop2 /\ pipe' = pipe /\ hand' = hand /\ got' = got /\ phase' = phase /\ sawFd' = sawFd
      /\ isRec' = isRec /\ thread' = thread /\ server' = server /\ over' = over /\ fatal' = fatal /\ sent' = sent
  BY DEF Jump!Link1Fails, Jump!Relay
<1>4. faults' \in 0..MaxFaults
  <2>1. faults \in 0..MaxFaults /\ faults < MaxFaults /\ faults' = faults + 1 /\ MaxFaults \in Nat
    BY TypesOf DEF Jump!Link1Fails, Jump!JumpAssumption
  <2> QED BY <2>1
<1>5. JumpTypes'
  BY <1>2, <1>3, <1>4, TypesOf, TypesKept
<1>6. JumpControl'
  BY <1>3 DEF JumpInd, JumpControl, Jump!OneReconnection
<1>7. Jump!RelayInOrder'
  <2>1. InParts' = InParts /\ OutParts' = OutParts
    BY <1>2, <1>3 DEF InParts, OutParts
  <2> QED BY <1>3, <2>1, TypesOf, OrderKept, Zenon
<1> QED BY <1>5, <1>6, <1>7 DEF JumpInd

LEMMA ClientReconnectsKeeps ==
    ASSUME JumpInd, Jump!ClientReconnects
    PROVE  JumpInd'
<1>1. hop1' = Jump!Recover(hop1) /\ ~hop1.up
  BY DEF Jump!ClientReconnects
<1>2. /\ Sound(hop1') /\ Jump!UnderWay(hop1', "in") = Jump!UnderWay(hop1, "in")
      /\ Jump!UnderWay(hop1', "out") = Jump!UnderWay(hop1, "out")
  BY <1>1, TypesOf, RecoverBoth
<1>3. /\ hop2' = hop2 /\ pipe' = pipe /\ hand' = hand /\ got' = got /\ phase' = phase /\ sawFd' = sawFd
      /\ isRec' = isRec /\ thread' = thread /\ server' = server /\ over' = over /\ fatal' = fatal /\ faults' = faults
      /\ sent' = sent
  BY DEF Jump!ClientReconnects, Jump!Relay, Jump!Ends
<1>5. JumpTypes'
  BY <1>2, <1>3, TypesOf, TypesKept
<1>6. JumpControl'
  BY <1>3 DEF JumpInd, JumpControl, Jump!OneReconnection
<1>7. Jump!RelayInOrder'
  <2>1. InParts' = InParts /\ OutParts' = OutParts
    BY <1>2, <1>3 DEF InParts, OutParts
  <2> QED BY <1>3, <2>1, TypesOf, OrderKept, Zenon
<1> QED BY <1>5, <1>6, <1>7 DEF JumpInd

LEMMA ClientToldKeeps ==
    ASSUME JumpInd, Jump!ClientTold
    PROVE  JumpInd'
<1>3. /\ hop1' = hop1 /\ hop2' = hop2 /\ pipe' = pipe /\ hand' = hand /\ got' = got /\ phase' = phase /\ sawFd' = sawFd
      /\ isRec' = isRec /\ thread' = thread /\ server' = server /\ over' = "client" /\ fatal' = fatal /\ faults' = faults
      /\ sent' = sent
  BY DEF Jump!ClientTold, Jump!Relay
<1>5. JumpTypes'
  BY <1>3, TypesOf, TypesKept
<1>6. JumpControl'
  BY <1>3 DEF JumpInd, JumpControl, Jump!OneReconnection
<1>7. Jump!RelayInOrder'
  <2>1. InParts' = InParts /\ OutParts' = OutParts
    BY <1>3 DEF InParts, OutParts
  <2> QED BY <1>3, <2>1, TypesOf, OrderKept, Zenon
<1> QED BY <1>5, <1>6, <1>7 DEF JumpInd

-----------------------------------------------------------------------------
(* The pipe.                                                               *)

LEMMA PipeTaken ==
    ASSUME Jump!JumpAssumption, JumpInd, NEW d \in Jump!Dirs, pipe[d] # <<>>,
           pipe' = [pipe EXCEPT ![d] = Tail(pipe[d])]
    PROVE  /\ pipe' \in Lines /\ pipe'[d] = Tail(pipe[d]) /\ \A e \in Jump!Dirs \ {d} : pipe'[e] = pipe[e]
           /\ Head(pipe[d]) \in Int /\ \A e \in Jump!Dirs : Len(pipe'[e]) <= PipeCap
<1>1. pipe \in Lines /\ pipe[d] \in Seq(Int) /\ PipeCap \in Nat /\ \A e \in Jump!Dirs : Len(pipe[e]) <= PipeCap
  BY TypesOf, LineAt DEF Jump!JumpAssumption
<1>2. Head(pipe[d]) \in Int /\ Tail(pipe[d]) \in Seq(Int) /\ Len(Tail(pipe[d])) = Len(pipe[d]) - 1
  BY <1>1, HeadFirst
<1>3. pipe' \in Lines /\ pipe'[d] = Tail(pipe[d]) /\ \A e \in Jump!Dirs \ {d} : pipe'[e] = pipe[e]
  BY <1>1, <1>2, Updated DEF Lines
<1>4. ASSUME NEW e \in Jump!Dirs PROVE Len(pipe'[e]) <= PipeCap
  <2>1. CASE e = d
    <3>1. Len(pipe[d]) \in Nat /\ Len(pipe[d]) <= PipeCap
      BY <1>1
    <3> QED BY <1>1, <1>2, <1>3, <2>1, <3>1
  <2>2. CASE e # d
    BY <1>1, <1>3, <2>2
  <2> QED BY <2>1, <2>2
<1> QED BY <1>2, <1>3, <1>4

LEMMA WrittenOne ==
    ASSUME Jump!JumpAssumption, JumpInd, NEW d \in Jump!Dirs, NEW p \in Int, hand[d] = <<>>, Jump!Write(d, p)
    PROVE  /\ pipe' \in Lines /\ hand' \in Lines
           /\ \A e \in Jump!Dirs : Len(pipe'[e]) <= PipeCap /\ Len(hand'[e]) <= 1
           /\ \A e \in Jump!Dirs \ {d} : pipe'[e] = pipe[e] /\ hand'[e] = hand[e]
           /\ \/ pipe'[d] = Append(pipe[d], p) /\ hand'[d] = <<>>
              \/ pipe'[d] = pipe[d] /\ hand'[d] = <<p>>
<1>1. /\ pipe \in Lines /\ hand \in Lines /\ pipe[d] \in Seq(Int) /\ PipeCap \in Nat
      /\ \A e \in Jump!Dirs : Len(pipe[e]) <= PipeCap /\ Len(hand[e]) <= 1
  BY TypesOf, LineAt DEF Jump!JumpAssumption
<1>2. CASE Len(pipe[d]) < PipeCap
  <2>1. hand' = hand /\ pipe' = [pipe EXCEPT ![d] = Append(pipe[d], p)]
    BY <1>2 DEF Jump!Write
  <2>2. Append(pipe[d], p) \in Seq(Int) /\ Len(Append(pipe[d], p)) <= PipeCap
    BY <1>1, <1>2
  <2>3. pipe' \in Lines /\ pipe'[d] = Append(pipe[d], p) /\ \A e \in Jump!Dirs \ {d} : pipe'[e] = pipe[e]
    BY <1>1, <2>1, <2>2, Updated DEF Lines
  <2>4. \A e \in Jump!Dirs : Len(pipe'[e]) <= PipeCap
    BY <1>1, <2>2, <2>3
  <2> QED BY <1>1, <2>1, <2>3, <2>4, Zenon
<1>3. CASE ~(Len(pipe[d]) < PipeCap)
  <2>1. pipe' = pipe /\ hand' = [hand EXCEPT ![d] = <<p>>]
    BY <1>3 DEF Jump!Write
  <2>2. <<p>> \in Seq(Int) /\ Len(<<p>>) <= 1
    OBVIOUS
  <2>3. hand' \in Lines /\ hand'[d] = <<p>> /\ \A e \in Jump!Dirs \ {d} : hand'[e] = hand[e]
    BY <1>1, <2>1, <2>2, Updated DEF Lines
  <2>4. \A e \in Jump!Dirs : Len(hand'[e]) <= 1
    BY <1>1, <2>2, <2>3
  <2> QED BY <1>1, <2>1, <2>3, <2>4, Zenon
<1> QED BY <1>2, <1>3

LEMMA WriteContinuesKeeps ==
    ASSUME Jump!JumpAssumption, JumpInd, NEW d \in Jump!Dirs, Jump!WriteContinues(d)
    PROVE  JumpInd'
<1>1. /\ pipe \in Lines /\ hand \in Lines /\ pipe[d] \in Seq(Int) /\ hand[d] \in Seq(Int) /\ PipeCap \in Nat
      /\ \A e \in Jump!Dirs : Len(pipe[e]) <= PipeCap /\ Len(hand[e]) <= 1
  BY TypesOf, LineAt DEF Jump!JumpAssumption
<1>2. pipe[d] \o hand[d] \in Seq(Int) /\ <<>> \in Seq(Int)
  BY <1>1
<1>3. Len(pipe[d] \o hand[d]) <= PipeCap
  <2>1. Len(pipe[d]) < PipeCap /\ Len(hand[d]) <= 1 /\ Len(pipe[d]) \in Nat /\ Len(hand[d]) \in Nat
    BY <1>1 DEF Jump!WriteContinues
  <2>2. Len(pipe[d] \o hand[d]) = Len(pipe[d]) + Len(hand[d])
    BY <1>1
  <2>3. PICK a \in Nat, b \in Nat, n \in Nat : a = Len(pipe[d]) /\ b = Len(hand[d]) /\ n = PipeCap
    BY <1>1, <2>1, Zenon
  <2>4. a < n /\ b <= 1
    BY <2>1, <2>3, Zenon
  <2>5. a + b <= n
    BY <2>4
  <2> QED BY <2>2, <2>3, <2>5, Zenon
<1>4. pipe' = [pipe EXCEPT ![d] = pipe[d] \o hand[d]] /\ hand' = [hand EXCEPT ![d] = <<>>]
  BY DEF Jump!WriteContinues
<1>5. pipe' \in Lines /\ pipe'[d] = pipe[d] \o hand[d] /\ \A e \in Jump!Dirs \ {d} : pipe'[e] = pipe[e]
  BY <1>1, <1>2, <1>4, Updated DEF Lines
<1>6. hand' \in Lines /\ hand'[d] = <<>> /\ \A e \in Jump!Dirs \ {d} : hand'[e] = hand[e]
  BY <1>1, <1>2, <1>4, Updated DEF Lines
<1>7. \A e \in Jump!Dirs : Len(pipe'[e]) <= PipeCap /\ Len(hand'[e]) <= 1
  <2>1. Len(<<>>) <= 1
    OBVIOUS
  <2> QED BY <1>1, <1>3, <1>5, <1>6, <2>1, Zenon
<1>8. /\ hop1' = hop1 /\ hop2' = hop2 /\ got' = got /\ phase' = phase /\ sawFd' = sawFd
      /\ isRec' = isRec /\ thread' = thread /\ server' = server /\ over' = over /\ fatal' = fatal /\ faults' = faults
      /\ sent' = sent
  BY DEF Jump!WriteContinues, Jump!Relay, Jump!Ends
<1>9. JumpTypes'
  BY <1>5, <1>6, <1>7, <1>8, TypesOf, TypesKept
<1>10. JumpControl'
  BY <1>8 DEF JumpInd, JumpControl, Jump!OneReconnection
<1>11. Jump!RelayInOrder'
  <2>1. InParts \in Ways /\ InParts' \in Ways /\ OutParts \in Ways /\ OutParts' \in Ways
    BY <1>9, TypesOf, InPartsAreNext, OutPartsAreNext
  <2>2. CASE d = "in"
    <3>1. /\ InParts'[3] = InParts[3] \o InParts[4] /\ InParts'[4] = <<>>
          /\ InParts'[1] = InParts[1] /\ InParts'[2] = InParts[2] /\ InParts'[5] = InParts[5]
      BY <1>5, <1>6, <1>8, <2>2 DEF InParts
    <3>2. OutParts' = OutParts
      BY <1>5, <1>6, <1>8, <2>2, DirsAre DEF OutParts
    <3>3. Way(InParts') = Way(InParts)
      BY <2>1, <3>1, WayContinued, Zenon
    <3> QED BY <1>8, <3>2, <3>3, TypesOf, OrderKept, Zenon
  <2>3. CASE d = "out"
    <3>1. /\ OutParts'[3] = OutParts[3] \o OutParts[4] /\ OutParts'[4] = <<>>
          /\ OutParts'[1] = OutParts[1] /\ OutParts'[2] = OutParts[2] /\ OutParts'[5] = OutParts[5]
      BY <1>5, <1>6, <1>8, <2>3 DEF OutParts
    <3>2. InParts' = InParts
      BY <1>5, <1>6, <1>8, <2>3, DirsAre DEF InParts
    <3>3. Way(OutParts') = Way(OutParts)
      BY <2>1, <3>1, WayContinued, Zenon
    <3> QED BY <1>8, <3>2, <3>3, TypesOf, OrderKept, Zenon
  <2> QED BY <2>2, <2>3, DirsAre
<1> QED BY <1>9, <1>10, <1>11 DEF JumpInd

LEMMA JumpToClientKeeps ==
    ASSUME Jump!JumpAssumption, JumpInd, Jump!JumpToClient
    PROVE  JumpInd'
<1>1. pipe["out"] # <<>> /\ pipe' = [pipe EXCEPT !["out"] = Tail(pipe["out"])]
  BY DEF Jump!JumpToClient
<1>3. /\ pipe' \in Lines /\ pipe'["out"] = Tail(pipe["out"]) /\ \A e \in Jump!Dirs \ {"out"} : pipe'[e] = pipe[e]
      /\ Head(pipe["out"]) \in Int /\ \A e \in Jump!Dirs : Len(pipe'[e]) <= PipeCap
  BY <1>1, PipeTaken, DirsAre, Zenon
<1>4. hop1' = Jump!Put(hop1, "out", Head(pipe["out"]))
  BY DEF Jump!JumpToClient
<1>5. /\ Sound(hop1') /\ Jump!UnderWay(hop1', "out") = Append(Jump!UnderWay(hop1, "out"), Head(pipe["out"]))
      /\ Jump!UnderWay(hop1', "in") = Jump!UnderWay(hop1, "in")
  BY <1>3, <1>4, TypesOf, PutOut
<1>6. /\ hop2' = hop2 /\ hand' = hand /\ got' = got /\ phase' = phase /\ sawFd' = sawFd
      /\ isRec' = isRec /\ thread' = thread /\ server' = server /\ over' = over /\ fatal' = fatal /\ faults' = faults
      /\ sent' = sent
  BY DEF Jump!JumpToClient, Jump!Relay, Jump!Ends
<1>7. JumpTypes'
  BY <1>3, <1>5, <1>6, TypesOf, TypesKept
<1>8. JumpControl'
  BY <1>6 DEF JumpInd, JumpControl, Jump!OneReconnection
<1>9. Jump!RelayInOrder'
  <2>1. OutParts \in Ways /\ OutParts' \in Ways
    BY <1>7, TypesOf, OutPartsAreNext
  <2>2. /\ OutParts[3] # <<>> /\ OutParts'[2] = Append(OutParts[2], Head(OutParts[3])) /\ OutParts'[3] = Tail(OutParts[3])
        /\ OutParts'[1] = OutParts[1] /\ OutParts'[4] = OutParts[4] /\ OutParts'[5] = OutParts[5]
    BY <1>1, <1>3, <1>5, <1>6 DEF OutParts
  <2>3. Way(OutParts') = Way(OutParts)
    BY <2>1, <2>2, WayForwarded, Zenon
  <2>4. InParts' = InParts
    BY <1>3, <1>5, <1>6, DirsAre DEF InParts
  <2> QED BY <1>6, <2>3, <2>4, TypesOf, OrderKept, Zenon
<1> QED BY <1>7, <1>8, <1>9 DEF JumpInd

LEMMA JumpFromClientKeeps ==
    ASSUME Jump!JumpAssumption, JumpInd, Jump!JumpFromClient
    PROVE  JumpInd'
<1>1. PICK p : p = Head(Jump!Waiting(hop1, "in"))
  OBVIOUS
<1>2. /\ Jump!Readable(hop1, "in") /\ hop1' = Jump!Taken(hop1, "in") /\ Jump!Write("in", p) /\ hand["in"] = <<>>
  BY <1>1 DEF Jump!JumpFromClient
<1>3. /\ Sound(hop1') /\ p \in Int /\ Jump!UnderWay(hop1, "in") # <<>> /\ p = Head(Jump!UnderWay(hop1, "in"))
      /\ Jump!UnderWay(hop1', "in") = Tail(Jump!UnderWay(hop1, "in"))
      /\ Jump!UnderWay(hop1', "out") = Jump!UnderWay(hop1, "out")
  BY <1>1, <1>2, TypesOf, TakenIn, Zenon
<1>4. /\ pipe' \in Lines /\ hand' \in Lines
      /\ \A e \in Jump!Dirs : Len(pipe'[e]) <= PipeCap /\ Len(hand'[e]) <= 1
      /\ \A e \in Jump!Dirs \ {"in"} : pipe'[e] = pipe[e] /\ hand'[e] = hand[e]
      /\ \/ pipe'["in"] = Append(pipe["in"], p) /\ hand'["in"] = <<>>
         \/ pipe'["in"] = pipe["in"] /\ hand'["in"] = <<p>>
  BY <1>2, <1>3, WrittenOne, DirsAre, Zenon
<1>5. /\ hop2' = hop2 /\ got' = got /\ phase' = phase /\ sawFd' = sawFd
      /\ isRec' = isRec /\ thread' = thread /\ server' = server /\ over' = over /\ fatal' = fatal /\ faults' = faults
      /\ sent' = sent
  BY DEF Jump!JumpFromClient, Jump!Relay, Jump!Ends
<1>6. JumpTypes'
  BY <1>3, <1>4, <1>5, TypesOf, TypesKept
<1>7. JumpControl'
  BY <1>5 DEF JumpInd, JumpControl, Jump!OneReconnection
<1>8. Jump!RelayInOrder'
  <2>1. InParts \in Ways /\ InParts' \in Ways
    BY <1>6, TypesOf, InPartsAreNext
  <2>2. /\ InParts[5] # <<>> /\ Head(InParts[5]) = p /\ InParts[4] = <<>> /\ InParts'[5] = Tail(InParts[5])
        /\ InParts'[1] = InParts[1] /\ InParts'[2] = InParts[2]
    BY <1>2, <1>3, <1>5 DEF InParts
  <2>3. \/ InParts'[3] = Append(InParts[3], p) /\ InParts'[4] = <<>>
        \/ InParts'[3] = InParts[3] /\ InParts'[4] = <<p>>
    BY <1>4 DEF InParts
  <2>4. Way(InParts') = Way(InParts)
    BY <2>1, <2>2, <2>3, WayWritten, Zenon
  <2>5. OutParts' = OutParts
    BY <1>3, <1>4, <1>5, DirsAre DEF OutParts
  <2> QED BY <1>5, <2>4, <2>5, TypesOf, OrderKept, Zenon
<1> QED BY <1>6, <1>7, <1>8 DEF JumpInd

LEMMA JumpEndsKeeps ==
    ASSUME Jump!JumpAssumption, JumpInd, Jump!JumpEnds
    PROVE  JumpInd'
<1>1. /\ hop1' = hop1 /\ hop2' = hop2 /\ pipe' = Jump!None /\ hand' = Jump!None /\ got' = got /\ phase' = phase
      /\ sawFd' = sawFd /\ isRec' = isRec /\ thread' = thread /\ server' = server /\ over' = "jumphost"
      /\ fatal' = fatal /\ faults' = faults /\ sent' = sent /\ phase = "over"
  BY DEF Jump!JumpEnds, Jump!Relay
<1>2. pipe' \in Lines /\ hand' \in Lines /\ \A d \in Jump!Dirs : pipe'[d] = <<>> /\ hand'[d] = <<>>
  BY <1>1, NoneIs
<1>3. \A d \in Jump!Dirs : Len(pipe'[d]) <= PipeCap /\ Len(hand'[d]) <= 1
  <2>1. Len(<<>>) <= PipeCap /\ Len(<<>>) <= 1
    BY DEF Jump!JumpAssumption
  <2> QED BY <1>2, <2>1, Zenon
<1>4. JumpTypes'
  BY <1>1, <1>2, <1>3, TypesOf, TypesKept
<1>5. JumpControl'
  BY <1>1 DEF JumpInd, JumpControl, Jump!OneReconnection
<1>6. Jump!RelayInOrder'
  BY <1>1 DEF Jump!RelayInOrder
<1> QED BY <1>4, <1>5, <1>6 DEF JumpInd

-----------------------------------------------------------------------------
(* UserJumphostHandler.                                                    *)

LEMMA RelayStartsKeeps ==
    ASSUME Jump!JumpAssumption, JumpInd, Jump!RelayStarts
    PROVE  JumpInd'
<1>1. /\ pipe["in"] # <<>> /\ pipe' = [pipe EXCEPT !["in"] = Tail(pipe["in"])] /\ Head(pipe["in"]) = -2
      /\ hop2' = Jump!Recover(hop2) /\ phase = "init" /\ phase' = "connect"
  BY DEF Jump!RelayStarts, Jump!JumpInit
<1>2. ~hop2.up /\ ~thread
  BY <1>1 DEF JumpInd, JumpControl
<1>3. /\ pipe' \in Lines /\ pipe'["in"] = Tail(pipe["in"]) /\ \A e \in Jump!Dirs \ {"in"} : pipe'[e] = pipe[e]
      /\ Head(pipe["in"]) \in Int /\ \A e \in Jump!Dirs : Len(pipe'[e]) <= PipeCap
  BY <1>1, PipeTaken, DirsAre, Zenon
<1>4. /\ Sound(hop2') /\ Jump!UnderWay(hop2', "in") = Jump!UnderWay(hop2, "in")
      /\ Jump!UnderWay(hop2', "out") = Jump!UnderWay(hop2, "out")
  BY <1>1, <1>2, TypesOf, RecoverBoth
<1>5. /\ hop1' = hop1 /\ hand' = hand /\ got' = got /\ sawFd' = sawFd /\ isRec' = isRec /\ thread' = thread /\ server' = server
      /\ over' = over /\ fatal' = fatal /\ faults' = faults /\ sent' = sent
  BY DEF Jump!RelayStarts, Jump!Ends
<1>6. JumpTypes'
  BY <1>1, <1>3, <1>4, <1>5, TypesOf, TypesKept
<1>7. JumpControl'
  BY <1>1, <1>2, <1>5 DEF JumpInd, JumpControl, Jump!OneReconnection
<1>8. Jump!RelayInOrder'
  <2>1. InParts \in Ways /\ InParts' \in Ways
    BY <1>6, TypesOf, InPartsAreNext
  <2>2. /\ InParts[3] # <<>> /\ Head(InParts[3]) = -2 /\ InParts'[3] = Tail(InParts[3])
        /\ InParts'[1] = InParts[1] /\ InParts'[2] = InParts[2] /\ InParts'[4] = InParts[4] /\ InParts'[5] = InParts[5]
    BY <1>1, <1>3, <1>4, <1>5 DEF InParts
  <2>3. ~Jump!IsData(Head(InParts[3]))
    BY <2>2 DEF Jump!IsData
  <2>4. Jump!InOrder(Way(InParts), sent["in"]) => Jump!InOrder(Way(InParts'), sent["in"])
    BY <2>1, <2>2, <2>3, TypesOf, DropsThird, Zenon
  <2>5. OutParts' = OutParts
    BY <1>3, <1>4, <1>5, DirsAre DEF OutParts
  <2>6. phase # "over"
    BY <1>1
  <2> QED BY <1>5, <2>4, <2>5, <2>6, TypesOf, OrderNext, Zenon
<1> QED BY <1>6, <1>7, <1>8 DEF JumpInd

LEMMA RelayConnectFailsKeeps ==
    ASSUME Jump!JumpAssumption, JumpInd, Jump!RelayConnectFails
    PROVE  JumpInd'
<1>1. /\ pipe["in"] # <<>> /\ pipe' = [pipe EXCEPT !["in"] = Tail(pipe["in"])] /\ Head(pipe["in"]) = -2
      /\ phase = "init" /\ phase' \in {"bare", "stuck"} /\ faults < MaxFaults /\ faults' = faults + 1
  BY DEF Jump!RelayConnectFails, Jump!JumpInit
<1>2. /\ pipe' \in Lines /\ pipe'["in"] = Tail(pipe["in"]) /\ \A e \in Jump!Dirs \ {"in"} : pipe'[e] = pipe[e]
      /\ Head(pipe["in"]) \in Int /\ \A e \in Jump!Dirs : Len(pipe'[e]) <= PipeCap
  BY <1>1, PipeTaken, DirsAre, Zenon
<1>3. /\ hop1' = hop1 /\ hop2' = hop2 /\ hand' = hand /\ got' = got /\ sawFd' = sawFd /\ isRec' = isRec
      /\ thread' = thread /\ server' = server /\ over' = over /\ fatal' = fatal /\ sent' = sent
  BY DEF Jump!RelayConnectFails
<1>4. faults' \in 0..MaxFaults
  <2>1. faults \in 0..MaxFaults /\ MaxFaults \in Nat
    BY TypesOf DEF Jump!JumpAssumption
  <2> QED BY <1>1, <2>1
<1>5. JumpTypes'
  BY <1>1, <1>2, <1>3, <1>4, TypesOf, TypesKept
<1>6. JumpControl'
  BY <1>1, <1>3 DEF JumpInd, JumpControl, Jump!OneReconnection
<1>7. Jump!RelayInOrder'
  <2>1. InParts \in Ways /\ InParts' \in Ways
    BY <1>5, TypesOf, InPartsAreNext
  <2>2. /\ InParts[3] # <<>> /\ Head(InParts[3]) = -2 /\ InParts'[3] = Tail(InParts[3])
        /\ InParts'[1] = InParts[1] /\ InParts'[2] = InParts[2] /\ InParts'[4] = InParts[4] /\ InParts'[5] = InParts[5]
    BY <1>1, <1>2, <1>3 DEF InParts
  <2>3. ~Jump!IsData(Head(InParts[3]))
    BY <2>2 DEF Jump!IsData
  <2>4. Jump!InOrder(Way(InParts), sent["in"]) => Jump!InOrder(Way(InParts'), sent["in"])
    BY <2>1, <2>2, <2>3, TypesOf, DropsThird, Zenon
  <2>5. OutParts' = OutParts
    BY <1>2, <1>3, DirsAre DEF OutParts
  <2>6. phase # "over"
    BY <1>1
  <2> QED BY <1>3, <2>4, <2>5, <2>6, TypesOf, OrderNext, Zenon
<1> QED BY <1>5, <1>6, <1>7 DEF JumpInd

\* The relay moves a packet of the router to the second session, by way of its
\* writer or not.
LEMMA RouterPacketKeeps ==
    ASSUME Jump!JumpAssumption, JumpInd, pipe["in"] # <<>>,
           pipe' = [pipe EXCEPT !["in"] = Tail(pipe["in"])],
           hop2' = Jump!Put(hop2, "in", Head(pipe["in"])), sawFd' \in BOOLEAN,
           UNCHANGED <<hop1, hand, got, phase, isRec, thread, server, over, fatal, faults, sent>>
    PROVE  JumpInd'
<1>2. /\ pipe' \in Lines /\ pipe'["in"] = Tail(pipe["in"]) /\ \A e \in Jump!Dirs \ {"in"} : pipe'[e] = pipe[e]
      /\ Head(pipe["in"]) \in Int /\ \A e \in Jump!Dirs : Len(pipe'[e]) <= PipeCap
  BY PipeTaken, DirsAre, Zenon
<1>3. /\ Sound(hop2') /\ hop2'.up = hop2.up
      /\ Jump!UnderWay(hop2', "in") = Append(Jump!UnderWay(hop2, "in"), Head(pipe["in"]))
      /\ Jump!UnderWay(hop2', "out") = Jump!UnderWay(hop2, "out")
  BY <1>2, TypesOf, PutIn
<1>4. /\ hop1' = hop1 /\ hand' = hand /\ got' = got /\ phase' = phase /\ isRec' = isRec /\ thread' = thread
      /\ server' = server /\ over' = over /\ fatal' = fatal /\ faults' = faults /\ sent' = sent
  OBVIOUS
<1>5. JumpTypes'
  BY <1>2, <1>3, <1>4, TypesOf, TypesKept
<1>6. JumpControl'
  BY <1>3, <1>4 DEF JumpInd, JumpControl, Jump!OneReconnection
<1>7. Jump!RelayInOrder'
  <2>1. InParts \in Ways /\ InParts' \in Ways
    BY <1>5, TypesOf, InPartsAreNext
  <2>2. /\ InParts[3] # <<>> /\ InParts'[2] = Append(InParts[2], Head(InParts[3])) /\ InParts'[3] = Tail(InParts[3])
        /\ InParts'[1] = InParts[1] /\ InParts'[4] = InParts[4] /\ InParts'[5] = InParts[5]
    BY <1>2, <1>3, <1>4 DEF InParts
  <2>3. Way(InParts') = Way(InParts)
    BY <2>1, <2>2, WayForwarded, Zenon
  <2>4. OutParts' = OutParts
    BY <1>2, <1>3, <1>4, DirsAre DEF OutParts
  <2> QED BY <1>4, <2>3, <2>4, TypesOf, OrderKept, Zenon
<1> QED BY <1>5, <1>6, <1>7 DEF JumpInd

LEMMA RelayStuckTakesKeeps ==
    ASSUME Jump!JumpAssumption, JumpInd, Jump!RelayStuckTakes
    PROVE  JumpInd'
<1>1. sawFd' \in BOOLEAN
  BY TypesOf, Zenon DEF Jump!RelayStuckTakes, Jump!Relay
<1> QED BY <1>1, RouterPacketKeeps DEF Jump!RelayStuckTakes, Jump!Relay, Jump!Ends

LEMMA RelayConnectedKeeps ==
    ASSUME JumpInd, Jump!RelayConnected
    PROVE  JumpInd'
<1>1. PICK p : p = Head(Jump!Waiting(hop2, "out"))
  OBVIOUS
<1>2. /\ Jump!Readable(hop2, "out") /\ hop2' = Jump!Taken(hop2, "out") /\ p = -1 /\ phase' = "relay" /\ sawFd' = hop2.up
  BY <1>1 DEF Jump!RelayConnected, Jump!Response
<1>3. /\ Sound(hop2') /\ hop2.up /\ Jump!UnderWay(hop2, "out") # <<>> /\ p = Head(Jump!UnderWay(hop2, "out"))
      /\ Jump!UnderWay(hop2', "out") = Tail(Jump!UnderWay(hop2, "out"))
      /\ Jump!UnderWay(hop2', "in") = Jump!UnderWay(hop2, "in")
  BY <1>1, <1>2, TypesOf, TakenOut, Zenon
<1>4. /\ hop1' = hop1 /\ pipe' = pipe /\ hand' = hand /\ got' = got /\ isRec' = isRec /\ thread' = thread /\ server' = server
      /\ over' = over /\ fatal' = fatal /\ faults' = faults /\ sent' = sent
  BY DEF Jump!RelayConnected, Jump!Ends
<1>5. JumpTypes'
  BY <1>2, <1>3, <1>4, TypesOf, TypesKept
<1>6. JumpControl'
  BY <1>2, <1>3, <1>4 DEF JumpInd, JumpControl, Jump!OneReconnection
<1>7. Jump!RelayInOrder'
  <2>1. OutParts \in Ways /\ OutParts' \in Ways
    BY <1>5, TypesOf, OutPartsAreNext
  <2>2. /\ OutParts[5] # <<>> /\ Head(OutParts[5]) = -1 /\ OutParts'[5] = Tail(OutParts[5])
        /\ OutParts'[1] = OutParts[1] /\ OutParts'[2] = OutParts[2] /\ OutParts'[3] = OutParts[3] /\ OutParts'[4] = OutParts[4]
    BY <1>2, <1>3, <1>4 DEF OutParts
  <2>3. ~Jump!IsData(Head(OutParts[5]))
    BY <2>2 DEF Jump!IsData
  <2>4. Jump!InOrder(Way(OutParts), sent["out"]) => Jump!InOrder(Way(OutParts'), sent["out"])
    BY <2>1, <2>2, <2>3, TypesOf, DropsFifth, Zenon
  <2>5. InParts' = InParts
    BY <1>3, <1>4 DEF InParts
  <2>6. phase # "over"
    BY DEF Jump!RelayConnected
  <2> QED BY <1>4, <2>4, <2>5, <2>6, TypesOf, OrderNext, Zenon
<1> QED BY <1>5, <1>6, <1>7 DEF JumpInd

LEMMA RelayGivesUpWaitingKeeps ==
    ASSUME JumpInd, Jump!RelayGivesUpWaiting
    PROVE  JumpInd'
<1>1. /\ hop1' = hop1 /\ hop2' = hop2 /\ pipe' = pipe /\ hand' = hand /\ got' = got /\ isRec' = isRec /\ thread' = thread
      /\ server' = server /\ over' = over /\ fatal' = fatal /\ faults' = faults /\ sent' = sent
      /\ phase' = "relay" /\ sawFd' \in BOOLEAN
  BY TypesOf DEF Jump!RelayGivesUpWaiting, Jump!Ends
<1>2. JumpTypes'
  BY <1>1, TypesOf, TypesKept
<1>3. JumpControl'
  BY <1>1 DEF JumpInd, JumpControl, Jump!OneReconnection
<1>4. Jump!RelayInOrder'
  <2>1. InParts' = InParts /\ OutParts' = OutParts
    BY <1>1 DEF InParts, OutParts
  <2>2. phase # "over"
    BY DEF Jump!RelayGivesUpWaiting
  <2> QED BY <1>1, <2>1, <2>2, TypesOf, OrderKept, Zenon
<1> QED BY <1>2, <1>3, <1>4 DEF JumpInd

LEMMA RelayJoinsKeeps ==
    ASSUME JumpInd, Jump!RelayJoins
    PROVE  JumpInd'
<1>1. /\ hop1' = hop1 /\ hop2' = hop2 /\ pipe' = pipe /\ hand' = hand /\ got' = got /\ phase' = phase /\ thread' = thread
      /\ server' = server /\ over' = over /\ fatal' = fatal /\ faults' = faults /\ sent' = sent
      /\ isRec' = FALSE /\ sawFd' \in BOOLEAN
  BY TypesOf DEF Jump!RelayJoins, Jump!Ends
<1>2. JumpTypes'
  BY <1>1, TypesOf, TypesKept
<1>3. JumpControl'
  BY <1>1 DEF JumpInd, JumpControl, Jump!OneReconnection
<1>4. Jump!RelayInOrder'
  <2>1. InParts' = InParts /\ OutParts' = OutParts
    BY <1>1 DEF InParts, OutParts
  <2> QED BY <1>1, <2>1, TypesOf, OrderKept, Zenon
<1> QED BY <1>2, <1>3, <1>4 DEF JumpInd

LEMMA RelayLooksKeeps ==
    ASSUME JumpInd, Jump!RelayLooks
    PROVE  JumpInd'
<1>1. /\ hop1' = hop1 /\ hop2' = hop2 /\ pipe' = pipe /\ hand' = hand /\ got' = got /\ phase' = phase /\ isRec' = isRec
      /\ thread' = thread /\ server' = server /\ over' = over /\ fatal' = fatal /\ faults' = faults /\ sent' = sent
      /\ sawFd' \in BOOLEAN
  BY TypesOf DEF Jump!RelayLooks, Jump!Ends
<1>2. JumpTypes'
  BY <1>1, TypesOf, TypesKept
<1>3. JumpControl'
  BY <1>1 DEF JumpInd, JumpControl, Jump!OneReconnection
<1>4. Jump!RelayInOrder'
  <2>1. InParts' = InParts /\ OutParts' = OutParts
    BY <1>1 DEF InParts, OutParts
  <2> QED BY <1>1, <2>1, TypesOf, OrderKept, Zenon
<1> QED BY <1>2, <1>3, <1>4 DEF JumpInd

LEMMA RelayWakesKeeps ==
    ASSUME JumpInd, Jump!RelayWakes
    PROVE  JumpInd'
<1>1. /\ Sound(hop2') /\ ~hop2'.up /\ Jump!UnderWay(hop2', "in") = Jump!UnderWay(hop2, "in")
      /\ Jump!UnderWay(hop2', "out") = Jump!UnderWay(hop2, "out")
  <2>1. CASE hop2.up
    <3>1. hop2' = Jump!Fail(hop2)
      BY <2>1, Zenon DEF Jump!RelayWakes
    <3> QED BY <3>1, TypesOf, FailBoth
  <2>2. CASE ~hop2.up
    <3>1. hop2' = hop2
      BY <2>2, Zenon DEF Jump!RelayWakes
    <3> QED BY <2>2, <3>1, TypesOf
  <2> QED BY <2>1, <2>2
<1>2. /\ hop1' = hop1 /\ pipe' = pipe /\ hand' = hand /\ got' = got /\ phase' = phase /\ server' = server /\ over' = over
      /\ fatal' = fatal /\ faults' = faults /\ sent' = sent
      /\ isRec' = TRUE /\ thread' = TRUE /\ sawFd' = FALSE /\ phase # "init"
  BY DEF Jump!RelayWakes, Jump!Ends
<1>3. JumpTypes'
  BY <1>1, <1>2, TypesOf, TypesKept
<1>4. JumpControl'
  BY <1>1, <1>2 DEF JumpInd, JumpControl, Jump!OneReconnection
<1>5. Jump!RelayInOrder'
  <2>1. InParts' = InParts /\ OutParts' = OutParts
    BY <1>1, <1>2 DEF InParts, OutParts
  <2> QED BY <1>2, <2>1, TypesOf, OrderKept, Zenon
<1> QED BY <1>3, <1>4, <1>5 DEF JumpInd

LEMMA RelayToDestKeeps ==
    ASSUME Jump!JumpAssumption, JumpInd, Jump!RelayToDest
    PROVE  JumpInd'
<1>1. sawFd' \in BOOLEAN
  BY TypesOf, Zenon DEF Jump!RelayToDest
<1> QED BY <1>1, RouterPacketKeeps DEF Jump!RelayToDest, Jump!Ends

LEMMA RelayFromDestKeeps ==
    ASSUME Jump!JumpAssumption, JumpInd, Jump!RelayFromDest
    PROVE  JumpInd'
<1>1. PICK p : p = Head(Jump!Waiting(hop2, "out"))
  OBVIOUS
<1>2. /\ Jump!Readable(hop2, "out") /\ hop2' = Jump!Taken(hop2, "out") /\ Jump!Write("out", p) /\ hand["out"] = <<>>
  BY <1>1 DEF Jump!RelayFromDest
<1>3. /\ Sound(hop2') /\ hop2.up /\ p \in Int /\ Jump!UnderWay(hop2, "out") # <<>> /\ p = Head(Jump!UnderWay(hop2, "out"))
      /\ Jump!UnderWay(hop2', "out") = Tail(Jump!UnderWay(hop2, "out"))
      /\ Jump!UnderWay(hop2', "in") = Jump!UnderWay(hop2, "in")
  BY <1>1, <1>2, TypesOf, TakenOut, Zenon
<1>4. /\ pipe' \in Lines /\ hand' \in Lines
      /\ \A e \in Jump!Dirs : Len(pipe'[e]) <= PipeCap /\ Len(hand'[e]) <= 1
      /\ \A e \in Jump!Dirs \ {"out"} : pipe'[e] = pipe[e] /\ hand'[e] = hand[e]
      /\ \/ pipe'["out"] = Append(pipe["out"], p) /\ hand'["out"] = <<>>
         \/ pipe'["out"] = pipe["out"] /\ hand'["out"] = <<p>>
  BY <1>2, <1>3, WrittenOne, DirsAre, Zenon
<1>5. /\ hop1' = hop1 /\ got' = got /\ phase' = phase /\ isRec' = isRec /\ thread' = thread /\ server' = server /\ over' = over
      /\ fatal' = fatal /\ faults' = faults /\ sent' = sent
      /\ sawFd' \in BOOLEAN /\ phase = "relay"
  BY TypesOf DEF Jump!RelayFromDest, Jump!Ends
<1>6. JumpTypes'
  BY <1>3, <1>4, <1>5, TypesOf, TypesKept
<1>7. JumpControl'
  BY <1>3, <1>5 DEF JumpInd, JumpControl, Jump!OneReconnection
<1>8. Jump!RelayInOrder'
  <2>1. OutParts \in Ways /\ OutParts' \in Ways
    BY <1>6, TypesOf, OutPartsAreNext
  <2>2. /\ OutParts[5] # <<>> /\ Head(OutParts[5]) = p /\ OutParts[4] = <<>> /\ OutParts'[5] = Tail(OutParts[5])
        /\ OutParts'[1] = OutParts[1] /\ OutParts'[2] = OutParts[2]
    BY <1>2, <1>3, <1>5 DEF OutParts
  <2>3. \/ OutParts'[3] = Append(OutParts[3], p) /\ OutParts'[4] = <<>>
        \/ OutParts'[3] = OutParts[3] /\ OutParts'[4] = <<p>>
    BY <1>4 DEF OutParts
  <2>4. Way(OutParts') = Way(OutParts)
    BY <2>1, <2>2, <2>3, WayWritten, Zenon
  <2>5. InParts' = InParts
    BY <1>3, <1>4, <1>5, DirsAre DEF InParts
  <2> QED BY <1>5, <2>4, <2>5, TypesOf, OrderKept, Zenon
<1> QED BY <1>6, <1>7, <1>8 DEF JumpInd

LEMMA RelayIdleKeeps ==
    ASSUME Jump!JumpAssumption, JumpInd, Jump!RelayIdle
    PROVE  JumpInd'
<1>1. hop2' = Jump!Fail(hop2)
  BY DEF Jump!RelayIdle
<1>2. /\ Sound(hop2') /\ ~hop2'.up /\ Jump!UnderWay(hop2', "in") = Jump!UnderWay(hop2, "in")
      /\ Jump!UnderWay(hop2', "out") = Jump!UnderWay(hop2, "out")
  BY <1>1, TypesOf, FailBoth
<1>3. /\ hop1' = hop1 /\ pipe' = pipe /\ hand' = hand /\ got' = got /\ phase' = phase /\ thread' = thread /\ server' = server
      /\ over' = over /\ fatal' = fatal /\ sent' = sent
      /\ isRec' = FALSE /\ sawFd' = FALSE /\ phase = "relay"
  BY DEF Jump!RelayIdle
<1>4. faults' \in 0..MaxFaults
  <2>1. faults \in 0..MaxFaults /\ faults < MaxFaults /\ faults' = faults + 1 /\ MaxFaults \in Nat
    BY TypesOf DEF Jump!RelayIdle, Jump!JumpAssumption
  <2> QED BY <2>1
<1>5. JumpTypes'
  BY <1>2, <1>3, <1>4, TypesOf, TypesKept
<1>6. JumpControl'
  BY <1>2, <1>3 DEF JumpInd, JumpControl, Jump!OneReconnection
<1>7. Jump!RelayInOrder'
  <2>1. InParts' = InParts /\ OutParts' = OutParts
    BY <1>2, <1>3 DEF InParts, OutParts
  <2> QED BY <1>3, <2>1, TypesOf, OrderKept, Zenon
<1> QED BY <1>5, <1>6, <1>7 DEF JumpInd

LEMMA ReconnectedKeeps ==
    ASSUME JumpInd, Jump!Reconnected
    PROVE  JumpInd'
<1>1. hop2' = Jump!Recover(hop2) /\ ~hop2.up /\ thread
  BY DEF Jump!Reconnected
<1>2. /\ Sound(hop2') /\ Jump!UnderWay(hop2', "in") = Jump!UnderWay(hop2, "in")
      /\ Jump!UnderWay(hop2', "out") = Jump!UnderWay(hop2, "out")
  BY <1>1, TypesOf, RecoverBoth
<1>3. /\ hop1' = hop1 /\ pipe' = pipe /\ hand' = hand /\ got' = got /\ phase' = phase /\ sawFd' = sawFd /\ isRec' = isRec
      /\ server' = server /\ over' = over /\ fatal' = fatal /\ faults' = faults /\ sent' = sent
      /\ thread' = FALSE
  BY DEF Jump!Reconnected, Jump!Ends
<1>4. JumpTypes'
  BY <1>2, <1>3, TypesOf, TypesKept
<1>5. JumpControl'
  BY <1>1, <1>3 DEF JumpInd, JumpControl, Jump!OneReconnection
<1>6. Jump!RelayInOrder'
  <2>1. InParts' = InParts /\ OutParts' = OutParts
    BY <1>2, <1>3 DEF InParts, OutParts
  <2> QED BY <1>3, <2>1, TypesOf, OrderKept, Zenon
<1> QED BY <1>4, <1>5, <1>6 DEF JumpInd

\* The relay ends: what the router's pipe still has for it is dropped.
LEMMA RelayOverKeeps ==
    ASSUME Jump!JumpAssumption, JumpInd, phase' = "over", pipe' = [pipe EXCEPT !["in"] = <<>>],
           Sound(hop2'), ~(hop2'.up /\ thread'), thread' \in BOOLEAN,
           UNCHANGED <<hop1, hand, got, sawFd, isRec, server, over, fatal, faults, sent>>
    PROVE  JumpInd'
<1>1. /\ hop1' = hop1 /\ hand' = hand /\ got' = got /\ sawFd' = sawFd /\ isRec' = isRec /\ server' = server
      /\ over' = over /\ fatal' = fatal /\ faults' = faults /\ sent' = sent /\ phase' = "over"
  OBVIOUS
<1>2. pipe' \in Lines /\ pipe'["in"] = <<>> /\ \A e \in Jump!Dirs \ {"in"} : pipe'[e] = pipe[e]
  <2>1. <<>> \in Seq(Int)
    OBVIOUS
  <2> QED BY <2>1, TypesOf, Updated, DirsAre DEF Lines
<1>3. \A d \in Jump!Dirs : Len(pipe'[d]) <= PipeCap
  <2>1. Len(<<>>) <= PipeCap /\ \A d \in Jump!Dirs : Len(pipe[d]) <= PipeCap
    BY TypesOf DEF Jump!JumpAssumption
  <2> QED BY <1>2, <2>1, Zenon
<1>4. JumpTypes'
  BY <1>1, <1>2, <1>3, TypesOf, TypesKept
<1>5. JumpControl'
  BY <1>1 DEF JumpControl, Jump!OneReconnection
<1>6. Jump!RelayInOrder'
  BY <1>1 DEF Jump!RelayInOrder
<1> QED BY <1>4, <1>5, <1>6 DEF JumpInd

LEMMA RelayRefusedKeeps ==
    ASSUME Jump!JumpAssumption, JumpInd, Jump!RelayRefused
    PROVE  JumpInd'
<1>1. /\ phase' = "over" /\ pipe' = [pipe EXCEPT !["in"] = <<>>] /\ hop2' = hop2 /\ thread' = FALSE
      /\ UNCHANGED <<hop1, hand, got, sawFd, isRec, server, over, fatal, faults, sent>>
  BY DEF Jump!RelayRefused, Jump!Ends
<1>2. Sound(hop2') /\ thread' \in BOOLEAN /\ ~(hop2'.up /\ thread')
  BY <1>1, TypesOf, Zenon
<1> QED BY <1>1, <1>2, RelayOverKeeps

LEMMA RelayThrowsKeeps ==
    ASSUME Jump!JumpAssumption, JumpInd, Jump!RelayThrows
    PROVE  JumpInd'
<1>1. /\ phase' = "over" /\ pipe' = [pipe EXCEPT !["in"] = <<>>] /\ hop2' = Jump!Fail(hop2) /\ thread' = thread
      /\ UNCHANGED <<hop1, hand, got, sawFd, isRec, server, over, fatal, faults, sent>>
  BY DEF Jump!RelayThrows, Jump!Ends
<1>2. Sound(hop2') /\ ~hop2'.up
  BY <1>1, TypesOf, FailBoth
<1>3. thread' \in BOOLEAN /\ ~(hop2'.up /\ thread')
  BY <1>1, <1>2, TypesOf, Zenon
<1> QED BY <1>1, <1>2, <1>3, RelayOverKeeps

-----------------------------------------------------------------------------
(* The second link and the destination.                                    *)

LEMMA LosesDestKeeps ==
    ASSUME JumpInd, Jump!RelayLosesDest(Jump!Fail(hop2)), faults' \in 0..MaxFaults
    PROVE  JumpInd'
<1>1. hop2' = Jump!Fail(hop2) /\ hop2.up
  BY DEF Jump!RelayLosesDest
<1>2. /\ Sound(hop2') /\ ~hop2'.up /\ Jump!UnderWay(hop2', "in") = Jump!UnderWay(hop2, "in")
      /\ Jump!UnderWay(hop2', "out") = Jump!UnderWay(hop2, "out")
  BY <1>1, TypesOf, FailBoth
<1>3. /\ hop1' = hop1 /\ pipe' = pipe /\ hand' = hand /\ got' = got /\ phase' = phase /\ sawFd' = sawFd /\ isRec' = isRec
      /\ server' = server /\ over' = over /\ fatal' = fatal /\ sent' = sent
      /\ thread' = TRUE
  BY DEF Jump!RelayLosesDest
<1>4. JumpTypes'
  BY <1>2, <1>3, TypesOf, TypesKept
<1>5. JumpControl'
  BY <1>1, <1>2, <1>3 DEF JumpInd, JumpControl, Jump!OneReconnection
<1>6. Jump!RelayInOrder'
  <2>1. InParts' = InParts /\ OutParts' = OutParts
    BY <1>2, <1>3 DEF InParts, OutParts
  <2> QED BY <1>3, <2>1, TypesOf, OrderKept, Zenon
<1> QED BY <1>4, <1>5, <1>6 DEF JumpInd

LEMMA DestEofKeeps ==
    ASSUME JumpInd, Jump!DestEof
    PROVE  JumpInd'
  BY TypesOf, LosesDestKeeps DEF Jump!DestEof

LEMMA LinkTwoFailsKeeps ==
    ASSUME Jump!JumpAssumption, JumpInd, Jump!Link2Fails
    PROVE  JumpInd'
<1>1. faults' \in 0..MaxFaults
  <2>1. faults \in 0..MaxFaults /\ faults < MaxFaults /\ faults' = faults + 1 /\ MaxFaults \in Nat
    BY TypesOf DEF Jump!Link2Fails, Jump!JumpAssumption
  <2> QED BY <2>1
<1> QED BY <1>1, LosesDestKeeps DEF Jump!Link2Fails

\* The answer to the first packet, with an error or without.
LEMMA AnswerKeeps ==
    ASSUME JumpInd, NEW a \in {-1, -3}, hop2' = Jump!Put(hop2, "out", a), server = "first",
           server' \in {"loop", "failed"},
           UNCHANGED <<hop1, pipe, hand, got, phase, sawFd, isRec, thread, over, fatal, faults, sent>>
    PROVE  JumpInd'
<1>1. a \in Int
  OBVIOUS
<1>2. /\ Sound(hop2') /\ hop2'.up = hop2.up /\ Jump!UnderWay(hop2', "out") = Append(Jump!UnderWay(hop2, "out"), a)
      /\ Jump!UnderWay(hop2', "in") = Jump!UnderWay(hop2, "in")
  BY <1>1, TypesOf, PutOut
<1>3. /\ hop1' = hop1 /\ pipe' = pipe /\ hand' = hand /\ got' = got /\ phase' = phase /\ sawFd' = sawFd /\ isRec' = isRec
      /\ thread' = thread /\ over' = over /\ fatal' = fatal /\ faults' = faults /\ sent' = sent
      /\ server = "first" /\ server # "ended" /\ server' \in {"loop", "failed"}
  OBVIOUS
<1>4. JumpTypes'
  BY <1>2, <1>3, TypesOf, TypesKept
<1>5. JumpControl'
  BY <1>2, <1>3 DEF JumpInd, JumpControl, Jump!OneReconnection
<1>6. Jump!RelayInOrder'
  <2>1. OutParts \in Ways /\ OutParts' \in Ways
    BY <1>4, TypesOf, OutPartsAreNext
  <2>2. /\ OutParts'[5] = Append(OutParts[5], a) /\ OutParts'[1] = OutParts[1]
        /\ OutParts'[2] = OutParts[2] /\ OutParts'[3] = OutParts[3] /\ OutParts'[4] = OutParts[4]
    BY <1>2, <1>3 DEF OutParts
  <2>3. Way(OutParts') = Append(Way(OutParts), a)
    BY <1>1, <2>1, <2>2, WaySent, Zenon
  <2>4. ~Jump!IsData(a)
    BY DEF Jump!IsData
  <2>5. Jump!InOrder(Way(OutParts), sent["out"]) => Jump!InOrder(Way(OutParts'), sent["out"])
    BY <1>1, <2>3, <2>4, TypesOf, OrderJoined
  <2>6. InParts' = InParts
    BY <1>2, <1>3 DEF InParts
  <2> QED BY <1>3, <2>5, <2>6, TypesOf, OrderNext, Zenon
<1> QED BY <1>4, <1>5, <1>6 DEF JumpInd

LEMMA DestFirstKeeps ==
    ASSUME JumpInd, Jump!DestFirst \/ Jump!DestRefuses
    PROVE  JumpInd'
<1>1. CASE Jump!DestFirst
  BY <1>1, AnswerKeeps DEF Jump!DestFirst, Jump!Response, Jump!Relay
<1>2. CASE Jump!DestRefuses
  BY <1>2, AnswerKeeps DEF Jump!DestRefuses, Jump!ErrorResponse, Jump!Relay
<1> QED BY <1>1, <1>2

LEMMA DestSendsKeeps ==
    ASSUME Jump!JumpAssumption, JumpInd, Jump!DestSends
    PROVE  JumpInd'
<1>1. /\ sent["out"] \in Nat
      /\ sent' \in [Jump!Dirs -> 0..MaxMany] /\ (\E e \in Jump!Dirs : sent'[e] <= MaxFew)
      /\ sent'["out"] = sent["out"] + 1 /\ sent'["in"] = sent["in"]
  BY SendBound, DirsAre DEF JumpInd, JumpTypes, Jump!DestSends
<1>2. hop2' = Jump!Put(hop2, "out", sent["out"] + 1) /\ sent["out"] + 1 \in Int
  BY <1>1 DEF Jump!DestSends
<1>3. /\ Sound(hop2') /\ hop2'.up = hop2.up
      /\ Jump!UnderWay(hop2', "out") = Append(Jump!UnderWay(hop2, "out"), sent["out"] + 1)
      /\ Jump!UnderWay(hop2', "in") = Jump!UnderWay(hop2, "in")
  BY <1>2, TypesOf, PutOut
<1>4. /\ hop1' = hop1 /\ pipe' = pipe /\ hand' = hand /\ got' = got /\ phase' = phase /\ sawFd' = sawFd /\ isRec' = isRec
      /\ thread' = thread /\ server' = server /\ over' = over /\ fatal' = fatal /\ faults' = faults
  BY DEF Jump!DestSends, Jump!Relay, Jump!Ends
<1>5. JumpTypes'
  <2>1. hop2'.up \in BOOLEAN
    BY <1>3, Fields DEF Sound
  <2> QED BY <1>1, <1>3, <1>4, <2>1 DEF JumpInd, JumpTypes, Jump!TypeOK
<1>6. JumpControl'
  BY <1>3, <1>4 DEF JumpInd, JumpControl, Jump!OneReconnection
<1>7. Jump!RelayInOrder'
  <2>1. OutParts \in Ways /\ OutParts' \in Ways
    BY <1>5, TypesOf, OutPartsAreNext
  <2>2. /\ OutParts'[5] = Append(OutParts[5], sent["out"] + 1) /\ OutParts'[1] = OutParts[1]
        /\ OutParts'[2] = OutParts[2] /\ OutParts'[3] = OutParts[3] /\ OutParts'[4] = OutParts[4]
    BY <1>3, <1>4 DEF OutParts
  <2>3. Way(OutParts') = Append(Way(OutParts), sent["out"] + 1)
    BY <1>2, <2>1, <2>2, WaySent, Zenon
  <2>4. Jump!InOrder(Way(OutParts), sent["out"]) => Jump!InOrder(Way(OutParts'), sent'["out"])
    BY <1>1, <2>3, TypesOf, OrderSent
  <2>5. InParts' = InParts
    BY <1>3, <1>4 DEF InParts
  <2>6. Jump!InOrder(Way(InParts), sent["in"]) => Jump!InOrder(Way(InParts'), sent'["in"])
    BY <1>1, <2>5, Zenon
  <2> QED BY <1>4, <2>4, <2>6, TypesOf, OrderNext, Zenon
<1> QED BY <1>5, <1>6, <1>7 DEF JumpInd

LEMMA DestEndsKeeps ==
    ASSUME JumpInd, Jump!DestEnds
    PROVE  JumpInd'
<1>1. PICK t : t = [hop2.sock EXCEPT !["in"] = <<>>]
  OBVIOUS
<1>2. hop2 \in HopsOver(BOOLEAN, Lines) /\ hop2.sock \in Lines
  BY TypesOf, Fields DEF Sound
<1>3. t \in Lines /\ t["in"] = <<>> /\ \A e \in Jump!Dirs \ {"in"} : t[e] = hop2.sock[e]
  <2>1. <<>> \in Seq(Int)
    OBVIOUS
  <2> QED BY <1>1, <1>2, <2>1, Updated, DirsAre DEF Lines
<1>4. hop2' = WithSock(hop2, t)
  BY <1>1, <1>2 DEF Jump!DestEnds, WithSock, HopsOver
<1>5. /\ hop2' \in HopsOver(BOOLEAN, Lines) /\ hop2'.up = hop2.up /\ hop2'.back = hop2.back /\ hop2'.sock = t
  BY <1>2, <1>3, <1>4, SockSet
<1>6. Sound(hop2')
  <2>1. CASE hop2.up
    BY <1>5, <2>1, TypesOf, Zenon DEF Sound
  <2>2. CASE ~hop2.up
    <3>1. hop2.sock = Jump!None
      BY <2>2, TypesOf, Zenon DEF Sound
    <3>2. t = Jump!None
      BY <1>1, <3>1 DEF Jump!None
    <3> QED BY <1>5, <2>2, <3>2, Zenon DEF Sound
  <2> QED BY <2>1, <2>2
<1>7. /\ hop1' = hop1 /\ pipe' = pipe /\ hand' = hand /\ got' = got /\ phase' = phase /\ sawFd' = sawFd /\ isRec' = isRec
      /\ thread' = thread /\ over' = over /\ fatal' = fatal /\ faults' = faults /\ sent' = sent
      /\ server' = "ended"
  BY DEF Jump!DestEnds, Jump!Relay
<1>8. JumpTypes'
  BY <1>6, <1>7, TypesOf, TypesKept
<1>9. JumpControl'
  BY <1>5, <1>7 DEF JumpInd, JumpControl, Jump!OneReconnection
<1>10. Jump!RelayInOrder'
  BY <1>7 DEF Jump!RelayInOrder
<1> QED BY <1>8, <1>9, <1>10 DEF JumpInd

LEMMA DestReadsKeeps ==
    ASSUME JumpInd, Jump!DestReads
    PROVE  JumpInd'
<1>1. PICK p, g : p = Head(Jump!Waiting(hop2, "in")) /\ g = Jump!Taken(hop2, "in")
  OBVIOUS
<1>2. Jump!Readable(hop2, "in") /\ got' = Jump!Received("in", p)
  BY <1>1 DEF Jump!DestReads
<1>3. IF p = 0 THEN hop2' = Jump!Put(g, "out", 0) ELSE hop2' = g
  BY <1>1 DEF Jump!DestReads, Jump!Keepalive
<1>4. /\ Sound(g) /\ hop2.up /\ g.up /\ p \in Int /\ Jump!UnderWay(hop2, "in") # <<>>
      /\ p = Head(Jump!UnderWay(hop2, "in")) /\ Jump!UnderWay(g, "in") = Tail(Jump!UnderWay(hop2, "in"))
      /\ Jump!UnderWay(g, "out") = Jump!UnderWay(hop2, "out")
  BY <1>1, <1>2, TypesOf, TakenIn, Zenon
<1>5. /\ Sound(hop2') /\ Jump!UnderWay(hop2', "in") = Tail(Jump!UnderWay(hop2, "in"))
      /\ IF p = 0 THEN Jump!UnderWay(hop2', "out") = Append(Jump!UnderWay(hop2, "out"), 0)
         ELSE Jump!UnderWay(hop2', "out") = Jump!UnderWay(hop2, "out")
  <2>1. CASE p = 0
    <3>1. hop2' = Jump!Put(g, "out", 0) /\ 0 \in Int
      BY <1>3, <2>1
    <3>2. /\ Sound(hop2') /\ Jump!UnderWay(hop2', "out") = Append(Jump!UnderWay(g, "out"), 0)
          /\ Jump!UnderWay(hop2', "in") = Jump!UnderWay(g, "in")
      BY <1>4, <3>1, PutOut
    <3> QED BY <1>4, <2>1, <3>2, Zenon
  <2>2. CASE p # 0
    BY <1>3, <1>4, <2>2, Zenon
  <2> QED BY <2>1, <2>2
<1>6. /\ hop1' = hop1 /\ pipe' = pipe /\ hand' = hand /\ phase' = phase /\ sawFd' = sawFd /\ isRec' = isRec
      /\ thread' = thread /\ server' = server /\ over' = over /\ fatal' = fatal /\ faults' = faults /\ sent' = sent
  BY DEF Jump!DestReads, Jump!Relay, Jump!Ends
<1>7. /\ got' \in Lines /\ got'["out"] = got["out"]
      /\ IF Jump!IsData(p) THEN got'["in"] = Append(got["in"], p) ELSE got'["in"] = got["in"]
  BY <1>2, <1>4, TypesOf, ReceivedOne, DirsAre
<1>8. JumpTypes'
  BY <1>5, <1>6, <1>7, TypesOf, TypesKept
<1>9. JumpControl'
  BY <1>4, <1>6 DEF JumpInd, JumpControl, Jump!OneReconnection
<1>10. Jump!RelayInOrder'
  <2>1. InParts \in Ways /\ InParts' \in Ways /\ OutParts \in Ways /\ OutParts' \in Ways
    BY <1>8, TypesOf, InPartsAreNext, OutPartsAreNext
  <2>2. /\ InParts[2] # <<>> /\ Head(InParts[2]) = p /\ InParts'[2] = Tail(InParts[2])
        /\ InParts'[3] = InParts[3] /\ InParts'[4] = InParts[4] /\ InParts'[5] = InParts[5]
    BY <1>4, <1>5, <1>6 DEF InParts
  <2>3. IF Jump!IsData(p) THEN InParts'[1] = Append(InParts[1], p) ELSE InParts'[1] = InParts[1]
    BY <1>7 DEF InParts
  <2>4. Jump!InOrder(Way(InParts), sent["in"]) => Jump!InOrder(Way(InParts'), sent["in"])
    <3>1. CASE Jump!IsData(p)
      BY <2>1, <2>2, <2>3, <3>1, WayReceived, Zenon
    <3>2. CASE ~Jump!IsData(p)
      BY <2>1, <2>2, <2>3, <3>2, TypesOf, DropsSecond, Zenon
    <3> QED BY <3>1, <3>2
  <2>5. Jump!InOrder(Way(OutParts), sent["out"]) => Jump!InOrder(Way(OutParts'), sent["out"])
    <3>1. CASE p = 0
      <4>1. /\ OutParts'[5] = Append(OutParts[5], 0) /\ OutParts'[1] = OutParts[1]
            /\ OutParts'[2] = OutParts[2] /\ OutParts'[3] = OutParts[3] /\ OutParts'[4] = OutParts[4]
        BY <1>5, <1>6, <1>7, <3>1 DEF OutParts
      <4>2. 0 \in Int /\ ~Jump!IsData(0)
        BY DEF Jump!IsData
      <4>3. Way(OutParts') = Append(Way(OutParts), 0)
        BY <2>1, <4>1, <4>2, WaySent, Zenon
      <4> QED BY <4>2, <4>3, TypesOf, OrderJoined
    <3>2. CASE p # 0
      <4>1. OutParts' = OutParts
        BY <1>5, <1>6, <1>7, <3>2 DEF OutParts
      <4> QED BY <4>1, Zenon
    <3> QED BY <3>1, <3>2
  <2> QED BY <1>6, <2>4, <2>5, TypesOf, OrderNext, Zenon
<1> QED BY <1>8, <1>9, <1>10 DEF JumpInd

-----------------------------------------------------------------------------
(* The jump host.                                                          *)

LEMMA JumpStarts ==
    ASSUME Jump!JumpAssumption, Jump!Init
    PROVE  JumpInd
<1>1. PICK f : f = [Jump!None EXCEPT !["in"] = <<-2>>]
  OBVIOUS
<1>2. pipe = f /\ hand = Jump!None /\ got = Jump!None
  BY <1>1 DEF Jump!Init, Jump!JumpInit
<1>3. f \in Lines /\ f["in"] = <<-2>> /\ f["out"] = <<>>
  <2>1. <<-2>> \in Seq(Int)
    OBVIOUS
  <2>2. f \in Lines /\ f["in"] = <<-2>> /\ \A e \in Jump!Dirs \ {"in"} : f[e] = Jump!None[e]
    BY <1>1, <2>1, NoneIs, Updated, DirsAre DEF Lines
  <2> QED BY <2>2, NoneIs, DirsAre
<1>4. PICK n : n = Jump!None
  OBVIOUS
<1>5. n \in Lines
  BY <1>4, NoneIs
<1>6. hop1 = [up |-> TRUE, back |-> n, sock |-> n, local |-> n]
  BY <1>4 DEF Jump!Init, Jump!NewHop
<1>7. hop2 = [up |-> FALSE, back |-> n, sock |-> n, local |-> n]
  BY <1>4 DEF Jump!Init, Jump!NewHop
<1>8. /\ hop1 \in HopsOver(BOOLEAN, Lines) /\ hop1.up = TRUE /\ hop1.back = n /\ hop1.sock = n /\ hop1.local = n
      /\ hop2 \in HopsOver(BOOLEAN, Lines) /\ hop2.up = FALSE /\ hop2.back = n /\ hop2.sock = n /\ hop2.local = n
  BY <1>5, <1>6, <1>7 DEF HopsOver
<1>9. Sound(hop1) /\ Sound(hop2)
  BY <1>4, <1>8, Zenon DEF Sound
<1>10. /\ phase = "init" /\ sawFd = FALSE /\ isRec = FALSE /\ thread = FALSE /\ server = "first" /\ over = "no"
       /\ sent = [d \in Jump!Dirs |-> 0] /\ fatal = FALSE /\ faults = 0
  BY DEF Jump!Init
<1>11. \A d \in Jump!Dirs : Len(pipe[d]) <= PipeCap /\ Len(hand[d]) <= 1
  <2>1. Len(<<>>) <= PipeCap /\ Len(<<-2>>) <= PipeCap /\ Len(<<>>) <= 1
    BY DEF Jump!JumpAssumption
  <2> QED BY <1>2, <1>3, <2>1, NoneIs, DirsAre, Zenon
<1>12. sent \in [Jump!Dirs -> 0..MaxMany] /\ (\E d \in Jump!Dirs : sent[d] <= MaxFew) /\ faults \in 0..MaxFaults
       /\ sent["in"] = 0 /\ sent["out"] = 0
  BY <1>10, DirsAre DEF Jump!JumpAssumption
<1>13. JumpTypes
  <2>1. Jump!TypeOK
    BY <1>8, <1>10, <1>11, <1>12 DEF Jump!TypeOK
  <2> QED BY <1>2, <1>3, <1>4, <1>5, <1>9, <2>1 DEF JumpTypes
<1>14. JumpControl
  BY <1>8, <1>10 DEF JumpControl, Jump!OneReconnection
<1>15. Jump!RelayInOrder
  <2>1. \A d \in Jump!Dirs : n[d] = <<>>
    BY <1>4, NoneIs
  <2>2. Jump!UnderWay(hop1, "in") = <<>> /\ Jump!UnderWay(hop1, "out") = <<>>
        /\ Jump!UnderWay(hop2, "in") = <<>> /\ Jump!UnderWay(hop2, "out") = <<>>
    BY <1>8, <2>1, DirsAre DEF Jump!UnderWay
  <2>3. got["in"] = <<>> /\ got["out"] = <<>> /\ hand["in"] = <<>> /\ hand["out"] = <<>>
    BY <1>2, <1>4, <2>1, DirsAre
  <2>4. pipe["in"] = <<-2>> /\ pipe["out"] = <<>>
    BY <1>2, <1>3
  <2>5. Jump!InWay = <<-2>> /\ Jump!OutWay = <<>>
    <3>1. PICK s \in Seq(Int), e \in Seq(Int) : s = <<-2>> /\ e = <<>>
      <4>1. <<-2>> \in Seq(Int) /\ <<>> \in Seq(Int)
        OBVIOUS
      <4> QED BY <4>1, Zenon
    <3>2. e \o e = e /\ s \o e = s /\ e \o s = s
      BY <3>1
    <3>3. Jump!InWay = e \o (e \o (s \o (e \o e))) /\ Jump!OutWay = e \o (e \o (e \o (e \o e)))
      BY <2>2, <2>3, <2>4, <3>1, Zenon DEF Jump!InWay, Jump!OutWay
    <3> QED BY <3>1, <3>2, <3>3, Zenon
  <2>6. Jump!InOrder(<<-2>>, 0) /\ Jump!InOrder(<<>>, 0)
    BY DEF Jump!InOrder, Jump!IsData
  <2> QED BY <1>12, <2>5, <2>6 DEF Jump!RelayInOrder
<1> QED BY <1>13, <1>14, <1>15 DEF JumpInd

LEMMA JumpStutters ==
    ASSUME JumpInd, UNCHANGED Jump!vars
    PROVE  JumpInd'
<1>1. /\ hop1' = hop1 /\ hop2' = hop2 /\ pipe' = pipe /\ hand' = hand /\ got' = got /\ phase' = phase /\ sawFd' = sawFd
      /\ isRec' = isRec /\ thread' = thread /\ server' = server /\ over' = over /\ fatal' = fatal /\ faults' = faults
      /\ sent' = sent
  BY DEF Jump!vars
<1>2. JumpTypes'
  BY <1>1, TypesOf, TypesKept
<1>3. JumpControl'
  BY <1>1 DEF JumpInd, JumpControl, Jump!OneReconnection
<1>4. Jump!RelayInOrder'
  <2>1. InParts' = InParts /\ OutParts' = OutParts
    BY <1>1 DEF InParts, OutParts
  <2> QED BY <1>1, <2>1, TypesOf, OrderKept, Zenon
<1> QED BY <1>2, <1>3, <1>4 DEF JumpInd

LEMMA JumpSteps ==
    ASSUME Jump!JumpAssumption, JumpInd, [Jump!Next]_(Jump!vars)
    PROVE  JumpInd'
<1>1. CASE Jump!ClientSends \/ Jump!ClientKeepalive \/ Jump!ClientReads \/ Jump!Link1Fails \/ Jump!ClientReconnects \/ Jump!ClientTold
  BY <1>1, ClientSendsKeeps, ClientKeepaliveKeeps, ClientReadsKeeps, LinkOneFailsKeeps, ClientReconnectsKeeps,
     ClientToldKeeps
<1>2. CASE Jump!Jump
  BY <1>2, WriteContinuesKeeps, JumpToClientKeeps, JumpFromClientKeeps, JumpEndsKeeps, DirsAre DEF Jump!Jump
<1>3. CASE Jump!RelayPass
  BY <1>3, RelayStartsKeeps, RelayStuckTakesKeeps, RelayConnectedKeeps, RelayThrowsKeeps, RelayJoinsKeeps, RelayWakesKeeps, RelayLooksKeeps, RelayToDestKeeps,
     RelayFromDestKeeps, WriteContinuesKeeps, DirsAre DEF Jump!RelayPass
<1>4. CASE \/ Jump!RelayConnectFails \/ Jump!RelayGivesUpWaiting \/ Jump!RelayIdle
           \/ Jump!Reconnected \/ Jump!RelayRefused
  BY <1>4, RelayConnectFailsKeeps, RelayGivesUpWaitingKeeps, RelayIdleKeeps, ReconnectedKeeps, RelayRefusedKeeps
<1>5. CASE Jump!DestFirst \/ Jump!DestRefuses \/ Jump!DestReads \/ Jump!DestSends \/ Jump!DestEnds \/ Jump!DestEof \/ Jump!Link2Fails
  BY <1>5, DestFirstKeeps, DestReadsKeeps, DestSendsKeeps, DestEndsKeeps, DestEofKeeps, LinkTwoFailsKeeps
<1>6. CASE UNCHANGED Jump!vars
  BY <1>6, JumpStutters
<1> QED BY <1>1, <1>2, <1>3, <1>4, <1>5, <1>6 DEF Jump!Next

\* While the relay and the destination's session last, every packet is somewhere
\* exactly once and in order through both sessions, the pipe and the hands of
\* the two relays, for any number of packets and faults and any capacity of the
\* pipe, also when connect() of the relay failed; and the second session of the
\* jump host never has a socket together with a thread that is about to make one.
THEOREM RelayCorrect ==
    ASSUME Jump!JumpAssumption
    PROVE  Jump!Spec => []RelayInv
<1>1. Jump!Init => JumpInd
  BY JumpStarts
<1>2. JumpInd /\ [Jump!Next]_(Jump!vars) => JumpInd'
  BY JumpSteps
<1>3. JumpInd => RelayInv
  BY DEF JumpInd, JumpTypes, JumpControl, RelayInv
<1> QED BY <1>1, <1>2, <1>3, PTL DEF Jump!Spec

-----------------------------------------------------------------------------
(* The elements of a queue, and which of them is before which.             *)

Elems(q) == {q[i] : i \in DOMAIN q}
Earlier(q, x, y) == \E i, j \in DOMAIN q : i < j /\ q[i] = x /\ q[j] = y

LEMMA ElemsEmpty == Elems(<<>>) = {} /\ \A x, y : ~Earlier(<<>>, x, y)
  BY DEF Elems, Earlier

LEMMA ElemsTyped == ASSUME NEW S, NEW q \in Seq(S) PROVE Elems(q) \subseteq S
  BY DEF Elems

LEMMA EarlierTyped ==
    ASSUME NEW S, NEW q \in Seq(S), NEW x, NEW y, Earlier(q, x, y)
    PROVE  x \in Elems(q) /\ y \in Elems(q)
  BY DEF Elems, Earlier

LEMMA AppendElems ==
    ASSUME NEW S, NEW q \in Seq(S), NEW z \in S, NEW r, r = Append(q, z)
    PROVE  /\ r \in Seq(S) /\ Elems(r) = Elems(q) \cup {z}
           /\ \A x, y : Earlier(r, x, y) <=> Earlier(q, x, y) \/ (x \in Elems(q) /\ y = z)
<1>1. /\ r \in Seq(S) /\ DOMAIN r = 1..(Len(q) + 1) /\ DOMAIN q = 1..Len(q) /\ Len(q) \in Nat
      /\ r[Len(q) + 1] = z /\ \A i \in 1..Len(q) : r[i] = q[i]
  OBVIOUS
<1>2. Elems(r) = Elems(q) \cup {z}
  <2>1. ASSUME NEW x \in Elems(r) PROVE x \in Elems(q) \cup {z}
    <3>1. PICK i \in DOMAIN r : x = r[i]
      BY DEF Elems
    <3> QED BY <1>1, <3>1 DEF Elems
  <2>2. ASSUME NEW x \in Elems(q) PROVE x \in Elems(r)
    <3>1. PICK i \in DOMAIN q : x = q[i]
      BY DEF Elems
    <3>2. i \in DOMAIN r /\ x = r[i]
      BY <1>1, <3>1
    <3> QED BY <3>2 DEF Elems
  <2>3. z \in Elems(r)
    <3>1. Len(q) + 1 \in DOMAIN r
      BY <1>1
    <3> QED BY <1>1, <3>1 DEF Elems
  <2> QED BY <2>1, <2>2, <2>3
<1>3. ASSUME NEW x, NEW y, Earlier(r, x, y) PROVE Earlier(q, x, y) \/ (x \in Elems(q) /\ y = z)
  <2>1. PICK i \in DOMAIN r, j \in DOMAIN r : i < j /\ r[i] = x /\ r[j] = y
    BY <1>3 DEF Earlier
  <2>2. i \in DOMAIN q /\ q[i] = x
    BY <1>1, <2>1
  <2>3. CASE j = Len(q) + 1
    BY <1>1, <2>1, <2>2, <2>3 DEF Elems
  <2>4. CASE j # Len(q) + 1
    <3>1. j \in DOMAIN q /\ q[j] = y
      BY <1>1, <2>1, <2>4
    <3> QED BY <2>1, <2>2, <3>1 DEF Earlier
  <2> QED BY <2>3, <2>4
<1>4. ASSUME NEW x, NEW y, Earlier(q, x, y) PROVE Earlier(r, x, y)
  <2>1. PICK i \in DOMAIN q, j \in DOMAIN q : i < j /\ q[i] = x /\ q[j] = y
    BY <1>4 DEF Earlier
  <2>2. i \in DOMAIN r /\ j \in DOMAIN r /\ r[i] = x /\ r[j] = y
    BY <1>1, <2>1
  <2> QED BY <2>1, <2>2 DEF Earlier
<1>5. ASSUME NEW x \in Elems(q) PROVE Earlier(r, x, z)
  <2>1. PICK i \in DOMAIN q : q[i] = x
    BY DEF Elems
  <2>2. i \in DOMAIN r /\ Len(q) + 1 \in DOMAIN r /\ i < Len(q) + 1 /\ r[i] = x /\ r[Len(q) + 1] = z
    BY <1>1, <2>1
  <2> QED BY <2>2 DEF Earlier
<1> QED BY <1>1, <1>2, <1>3, <1>4, <1>5

LEMMA TailElems ==
    ASSUME NEW S, NEW q \in Seq(S), q # <<>>, NEW r, r = Tail(q), NEW z, z = Head(q)
    PROVE  /\ r \in Seq(S) /\ z \in S /\ Elems(q) = Elems(r) \cup {z}
           /\ \A x, y : Earlier(q, x, y) <=> Earlier(r, x, y) \/ (x = z /\ y \in Elems(r))
<1>1. /\ Len(q) \in Nat /\ Len(q) > 0 /\ DOMAIN q = 1..Len(q) /\ z = q[1] /\ z \in S
      /\ r \in Seq(S) /\ DOMAIN r = 1..(Len(q) - 1) /\ \A i \in 1..(Len(q) - 1) : r[i] = q[i + 1]
  OBVIOUS
<1>2. ASSUME NEW x \in Elems(r) PROVE \E i \in DOMAIN q : i > 1 /\ q[i] = x
  <2>1. PICK i \in DOMAIN r : r[i] = x
    BY DEF Elems
  <2>2. i + 1 \in DOMAIN q /\ i + 1 > 1 /\ q[i + 1] = x
    BY <1>1, <2>1
  <2> QED BY <2>2
<1>3. Elems(q) = Elems(r) \cup {z}
  <2>1. ASSUME NEW x \in Elems(q) PROVE x \in Elems(r) \cup {z}
    <3>1. PICK i \in DOMAIN q : q[i] = x
      BY DEF Elems
    <3>2. CASE i = 1
      BY <1>1, <3>1, <3>2
    <3>3. CASE i # 1
      <4>1. i - 1 \in DOMAIN r /\ (i - 1) + 1 = i
        BY <1>1, <3>1, <3>3
      <4>2. r[i - 1] = x
        BY <1>1, <3>1, <4>1
      <4> QED BY <4>1, <4>2 DEF Elems
    <3> QED BY <3>2, <3>3
  <2>2. z \in Elems(q)
    <3>1. 1 \in DOMAIN q
      BY <1>1
    <3> QED BY <1>1, <3>1 DEF Elems
  <2> QED BY <1>2, <2>1, <2>2 DEF Elems
<1>4. ASSUME NEW x, NEW y, Earlier(r, x, y) PROVE Earlier(q, x, y)
  <2>1. PICK i \in DOMAIN r, j \in DOMAIN r : i < j /\ r[i] = x /\ r[j] = y
    BY <1>4 DEF Earlier
  <2>2. i + 1 \in DOMAIN q /\ j + 1 \in DOMAIN q /\ i + 1 < j + 1 /\ q[i + 1] = x /\ q[j + 1] = y
    BY <1>1, <2>1
  <2> QED BY <2>2 DEF Earlier
<1>5. ASSUME NEW y \in Elems(r) PROVE Earlier(q, z, y)
  <2>1. PICK j \in DOMAIN q : j > 1 /\ q[j] = y
    BY <1>2
  <2>2. 1 \in DOMAIN q /\ 1 < j /\ q[1] = z
    BY <1>1, <2>1
  <2> QED BY <2>1, <2>2 DEF Earlier
<1>6. ASSUME NEW x, NEW y, Earlier(q, x, y) PROVE Earlier(r, x, y) \/ (x = z /\ y \in Elems(r))
  <2>1. PICK i \in DOMAIN q, j \in DOMAIN q : i < j /\ q[i] = x /\ q[j] = y
    BY <1>6 DEF Earlier
  <2>2. j - 1 \in DOMAIN r /\ (j - 1) + 1 = j
    BY <1>1, <2>1
  <2>3. r[j - 1] = y
    BY <1>1, <2>1, <2>2
  <2>4. CASE i = 1
    BY <1>1, <2>1, <2>2, <2>3, <2>4 DEF Elems
  <2>5. CASE i # 1
    <3>1. i - 1 \in DOMAIN r /\ (i - 1) + 1 = i /\ i - 1 < j - 1
      BY <1>1, <2>1, <2>5
    <3>2. r[i - 1] = x
      BY <1>1, <2>1, <3>1
    <3> QED BY <2>2, <2>3, <3>1, <3>2 DEF Earlier
  <2> QED BY <2>4, <2>5
<1> QED BY <1>1, <1>3, <1>4, <1>5, <1>6

LEMMA ConcatElems ==
    ASSUME NEW S, NEW q \in Seq(S), NEW p \in Seq(S), NEW r, r = q \o p
    PROVE  /\ r \in Seq(S) /\ Elems(r) = Elems(q) \cup Elems(p)
           /\ \A x, y : Earlier(r, x, y) <=>
                 Earlier(q, x, y) \/ Earlier(p, x, y) \/ (x \in Elems(q) /\ y \in Elems(p))
<1>1. PICK m \in Nat, n \in Nat : m = Len(q) /\ n = Len(p)
  OBVIOUS
<1>2. /\ r \in Seq(S) /\ DOMAIN q = 1..m /\ DOMAIN p = 1..n /\ DOMAIN r = 1..(m + n)
      /\ \A i \in 1..m : r[i] = q[i]
      /\ \A i \in 1..n : r[m + i] = p[i]
  BY <1>1
<1>3. ASSUME NEW i \in DOMAIN q PROVE i \in DOMAIN r /\ i <= m /\ r[i] = q[i]
  BY <1>2
<1>4. ASSUME NEW i \in DOMAIN p PROVE m + i \in DOMAIN r /\ m + i > m /\ r[m + i] = p[i]
  BY <1>2
<1>5. ASSUME NEW i \in DOMAIN r PROVE \/ i <= m /\ i \in DOMAIN q /\ r[i] = q[i]
                                      \/ i > m /\ i - m \in DOMAIN p /\ r[i] = p[i - m]
  <2>1. CASE i <= m
    BY <1>2, <2>1
  <2>2. CASE i > m
    <3>1. i - m \in 1..n /\ m + (i - m) = i
      BY <1>2, <2>2
    <3> QED BY <1>2, <2>2, <3>1
  <2> QED BY <1>2, <2>1, <2>2
<1>6. Elems(r) = Elems(q) \cup Elems(p)
  <2>1. ASSUME NEW x \in Elems(r) PROVE x \in Elems(q) \cup Elems(p)
    <3>1. PICK i \in DOMAIN r : r[i] = x
      BY DEF Elems
    <3> QED BY <1>5, <3>1 DEF Elems
  <2>2. ASSUME NEW x \in Elems(q) PROVE x \in Elems(r)
    <3>1. PICK i \in DOMAIN q : q[i] = x
      BY DEF Elems
    <3> QED BY <1>3, <3>1 DEF Elems
  <2>3. ASSUME NEW x \in Elems(p) PROVE x \in Elems(r)
    <3>1. PICK i \in DOMAIN p : p[i] = x
      BY DEF Elems
    <3> QED BY <1>4, <3>1 DEF Elems
  <2> QED BY <2>1, <2>2, <2>3
<1>7. ASSUME NEW x, NEW y, Earlier(r, x, y)
      PROVE  Earlier(q, x, y) \/ Earlier(p, x, y) \/ (x \in Elems(q) /\ y \in Elems(p))
  <2>1. PICK i \in DOMAIN r, j \in DOMAIN r : i < j /\ r[i] = x /\ r[j] = y
    BY <1>7 DEF Earlier
  <2>2. CASE i <= m /\ j <= m
    <3>1. i \in DOMAIN q /\ j \in DOMAIN q /\ q[i] = x /\ q[j] = y
      BY <1>2, <2>1, <2>2
    <3> QED BY <2>1, <3>1 DEF Earlier
  <2>3. CASE i <= m /\ j > m
    <3>1. i \in DOMAIN q /\ q[i] = x
      BY <1>2, <2>1, <2>3
    <3>2. j - m \in DOMAIN p /\ p[j - m] = y
      BY <1>2, <1>5, <2>1, <2>3
    <3> QED BY <3>1, <3>2 DEF Elems
  <2>4. CASE i > m /\ j > m
    <3>1. i - m \in DOMAIN p /\ p[i - m] = x /\ j - m \in DOMAIN p /\ p[j - m] = y
      BY <1>2, <1>5, <2>1, <2>4
    <3>2. i - m < j - m
      BY <1>2, <2>1
    <3> QED BY <3>1, <3>2 DEF Earlier
  <2> QED BY <1>2, <2>1, <2>2, <2>3, <2>4
<1>8. ASSUME NEW x, NEW y, Earlier(q, x, y) PROVE Earlier(r, x, y)
  <2>1. PICK i \in DOMAIN q, j \in DOMAIN q : i < j /\ q[i] = x /\ q[j] = y
    BY <1>8 DEF Earlier
  <2> QED BY <1>3, <2>1 DEF Earlier
<1>9. ASSUME NEW x, NEW y, Earlier(p, x, y) PROVE Earlier(r, x, y)
  <2>1. PICK i \in DOMAIN p, j \in DOMAIN p : i < j /\ p[i] = x /\ p[j] = y
    BY <1>9 DEF Earlier
  <2>2. m + i \in DOMAIN r /\ m + j \in DOMAIN r /\ m + i < m + j /\ r[m + i] = x /\ r[m + j] = y
    BY <1>2, <1>4, <2>1
  <2> QED BY <2>2 DEF Earlier
<1>10. ASSUME NEW x \in Elems(q), NEW y \in Elems(p) PROVE Earlier(r, x, y)
  <2>1. PICK i \in DOMAIN q, j \in DOMAIN p : q[i] = x /\ p[j] = y
    BY DEF Elems
  <2>2. i \in DOMAIN r /\ m + j \in DOMAIN r /\ i < m + j /\ r[i] = x /\ r[m + j] = y
    BY <1>2, <1>3, <1>4, <2>1
  <2> QED BY <2>2 DEF Earlier
<1> QED BY <1>2, <1>6, <1>7, <1>8, <1>9, <1>10

LEMMA ElemsAppend ==
    ASSUME NEW S, NEW q \in Seq(S), NEW z \in S
    PROVE  /\ Append(q, z) \in Seq(S) /\ Elems(Append(q, z)) = Elems(q) \cup {z}
           /\ \A x, y : Earlier(Append(q, z), x, y) <=> Earlier(q, x, y) \/ (x \in Elems(q) /\ y = z)
  BY AppendElems

LEMMA ElemsTail ==
    ASSUME NEW S, NEW q \in Seq(S), q # <<>>
    PROVE  /\ Tail(q) \in Seq(S) /\ Head(q) \in S /\ Elems(q) = Elems(Tail(q)) \cup {Head(q)}
           /\ \A x, y : Earlier(q, x, y) <=> Earlier(Tail(q), x, y) \/ (x = Head(q) /\ y \in Elems(Tail(q)))
  BY TailElems

LEMMA ElemsConcat ==
    ASSUME NEW S, NEW q \in Seq(S), NEW p \in Seq(S)
    PROVE  /\ q \o p \in Seq(S) /\ Elems(q \o p) = Elems(q) \cup Elems(p)
           /\ \A x, y : Earlier(q \o p, x, y) <=>
                 Earlier(q, x, y) \/ Earlier(p, x, y) \/ (x \in Elems(q) /\ y \in Elems(p))
  BY ConcatElems

-----------------------------------------------------------------------------
(* What one side of a connection writes: unread in u, under way in q, and  *)
(* received in g; w pieces were written, and s is the state of the socket. *)

Wire == [kind : {"request"}, fd : Fds, conn : Conns]
          \cup [kind : {"response"}, fd : Fds, id : Nat]
          \cup [kind : {"data"}, id : Nat, item : Items]

IsRequest(x) == x.kind = "request"
IsResponse(x) == x.kind = "response"
IsData(x) == x.kind = "data"
IsEnd(x) == x.kind = "data" /\ x.item.n = 0
Carries(x, c) == x.kind = "data" /\ x.item.conn = c

\* Of two pieces of a connection the first is before the second.
Goes(x, y) == x.n # 0 /\ (y.n = 0 \/ x.n < y.n)
Under(x, y) == x.n = 0 \/ y.n = 0 \/ x.n < y.n

UnreadOK(c, u, w, s) ==
    /\ \A x \in Elems(u) : x.conn = c /\ x.n <= w /\ (x.n = 0 => s = "closed")
    /\ \A x, y \in Elems(u) : Earlier(u, x, y) => Goes(x, y)

CarriedOK(c, u, q, w, s) ==
    /\ \A x \in Elems(q) : Carries(x, c) => x.item.n <= w /\ (x.item.n = 0 => s = "closed")
    /\ \A x \in Elems(q), y \in Elems(u) : Carries(x, c) => Goes(x.item, y)
    /\ \A x, y \in Elems(q) :
          Earlier(q, x, y) /\ Carries(x, c) /\ Carries(y, c) => Goes(x.item, y.item)

GotOK(c, u, q, g, w) ==
    /\ \A x \in Elems(g) : x.conn = c /\ x.n <= w
    /\ \A x \in Elems(g), y \in Elems(u) : Under(x, y)
    /\ \A x \in Elems(g), y \in Elems(q) : Carries(y, c) => Under(x, y.item)
    /\ \A x, y \in Elems(g) : Earlier(g, x, y) => Goes(x, y)

Flow(c, u, q, g, w, s) == UnreadOK(c, u, w, s) /\ CarriedOK(c, u, q, w, s) /\ GotOK(c, u, q, g, w)

LEMMA ItemParts == ASSUME MaxData \in Nat, NEW x \in Items PROVE x.n \in Nat /\ x.conn \in Conns
  BY DEF Items

LEMMA ItemIs ==
    ASSUME NEW c \in Conns, NEW n \in 0..MaxData, NEW x, x = [conn |-> c, n |-> n]
    PROVE  x \in Items /\ x.conn = c /\ x.n = n
  BY DEF Items

LEMMA WireItem == ASSUME NEW x \in Wire, NEW c, Carries(x, c) PROVE x.item \in Items
  BY DEF Wire, Carries

LEMMA FlowWrites ==
    ASSUME MaxData \in Nat, NEW c, NEW u \in Seq(Items), NEW q \in Seq(Wire), NEW g \in Seq(Items), NEW w \in Nat,
           NEW s, s # "closed", Flow(c, u, q, g, w, s),
           NEW x \in Items, x.conn = c, x.n = w + 1
    PROVE  Flow(c, Append(u, x), q, g, w + 1, s)
<1>0. PICK v : v = Append(u, x)
  OBVIOUS
<1>1. Elems(v) = Elems(u) \cup {x} /\ \A y, z : Earlier(v, y, z) <=> Earlier(u, y, z) \/ (y \in Elems(u) /\ z = x)
  BY <1>0, ElemsAppend
<1>2. Elems(u) \subseteq Items /\ Elems(g) \subseteq Items /\ Elems(q) \subseteq Wire
  BY ElemsTyped
<1>3. \A y \in Elems(u) \cup Elems(g) : y.n \in Nat
  BY <1>2, ItemParts
<1>4. \A y \in Elems(q) : Carries(y, c) => y.item.n \in Nat
  BY <1>2, WireItem, ItemParts
<1>8. \A y, z : Earlier(u, y, z) => y \in Elems(u) /\ z \in Elems(u)
  BY EarlierTyped
<1>5. UnreadOK(c, v, w + 1, s)
  BY <1>1, <1>3, <1>8 DEF Flow, UnreadOK, Goes
<1>6. CarriedOK(c, v, q, w + 1, s)
  BY <1>1, <1>4 DEF Flow, CarriedOK, Goes
<1>7. GotOK(c, v, q, g, w + 1)
  BY <1>1, <1>3, <1>4 DEF Flow, GotOK, Under
<1> QED BY <1>0, <1>5, <1>6, <1>7 DEF Flow

LEMMA FlowCloses ==
    ASSUME MaxData \in Nat, NEW c, NEW u \in Seq(Items), NEW q \in Seq(Wire), NEW g \in Seq(Items), NEW w \in Nat,
           NEW s, s # "closed", Flow(c, u, q, g, w, s),
           NEW x \in Items, x.conn = c, x.n = 0
    PROVE  Flow(c, Append(u, x), q, g, w, "closed")
<1>0. PICK v : v = Append(u, x)
  OBVIOUS
<1>1. Elems(v) = Elems(u) \cup {x} /\ \A y, z : Earlier(v, y, z) <=> Earlier(u, y, z) \/ (y \in Elems(u) /\ z = x)
  BY <1>0, ElemsAppend
<1>8. \A y, z : Earlier(u, y, z) => y \in Elems(u) /\ z \in Elems(u)
  BY EarlierTyped
<1>5. UnreadOK(c, v, w, "closed")
  BY <1>1, <1>8 DEF Flow, UnreadOK, Goes
<1>6. CarriedOK(c, v, q, w, "closed")
  BY <1>1 DEF Flow, CarriedOK, Goes
<1>7. GotOK(c, v, q, g, w)
  BY <1>1 DEF Flow, GotOK, Under
<1> QED BY <1>0, <1>5, <1>6, <1>7 DEF Flow

\* A socket that is not closed becomes open.
LEMMA FlowOpens ==
    ASSUME NEW c, NEW u, NEW q, NEW g, NEW w, NEW s, s # "closed", Flow(c, u, q, g, w, s)
    PROVE  Flow(c, u, q, g, w, "open")
<1>1. UnreadOK(c, u, w, "open")
  BY DEF Flow, UnreadOK
<1>2. CarriedOK(c, u, q, w, "open")
  BY DEF Flow, CarriedOK
<1> QED BY <1>1, <1>2 DEF Flow

\* What a hangup leaves unread is gone.
LEMMA FlowForgets ==
    ASSUME NEW c, NEW u, NEW q, NEW g, NEW w, NEW s, Flow(c, u, q, g, w, s)
    PROVE  Flow(c, <<>>, q, g, w, s)
<1>1. UnreadOK(c, <<>>, w, s)
  BY ElemsEmpty DEF UnreadOK
<1>2. CarriedOK(c, <<>>, q, w, s)
  BY ElemsEmpty DEF Flow, CarriedOK
<1>3. GotOK(c, <<>>, q, g, w)
  BY ElemsEmpty DEF Flow, GotOK
<1> QED BY <1>1, <1>2, <1>3 DEF Flow

\* A packet is taken.
LEMMA FlowTaken ==
    ASSUME NEW c, NEW u, NEW q \in Seq(Wire), NEW g, NEW w, NEW s, Flow(c, u, q, g, w, s), q # <<>>
    PROVE  Flow(c, u, Tail(q), g, w, s)
<1>0. PICK r : r = Tail(q)
  OBVIOUS
<1>1. Elems(r) \subseteq Elems(q) /\ \A x, y : Earlier(r, x, y) => Earlier(q, x, y)
  BY <1>0, ElemsTail
<1>2. CarriedOK(c, u, r, w, s)
  BY <1>1 DEF Flow, CarriedOK
<1>3. GotOK(c, u, r, g, w)
  BY <1>1 DEF Flow, GotOK
<1> QED BY <1>0, <1>2, <1>3 DEF Flow

\* Packets about other connections are sent.
LEMMA FlowPassed ==
    ASSUME NEW c, NEW u, NEW q \in Seq(Wire), NEW g, NEW w, NEW s, Flow(c, u, q, g, w, s),
           NEW p \in Seq(Wire), \A x \in Elems(p) : ~Carries(x, c)
    PROVE  Flow(c, u, q \o p, g, w, s)
<1>0. PICK r : r = q \o p
  OBVIOUS
<1>1. /\ Elems(r) = Elems(q) \cup Elems(p)
      /\ \A x, y : Earlier(r, x, y) =>
             Earlier(q, x, y) \/ Earlier(p, x, y) \/ (x \in Elems(q) /\ y \in Elems(p))
  BY <1>0, ElemsConcat
<1>2. \A x, y : Earlier(p, x, y) => x \in Elems(p) /\ y \in Elems(p)
  BY EarlierTyped
<1>3. CarriedOK(c, u, r, w, s)
  BY <1>1, <1>2 DEF Flow, CarriedOK
<1>4. GotOK(c, u, r, g, w)
  BY <1>1 DEF Flow, GotOK
<1> QED BY <1>0, <1>3, <1>4 DEF Flow

\* Everything unread is read, and sent.
LEMMA FlowRead ==
    ASSUME MaxData \in Nat, NEW c, NEW u \in Seq(Items), NEW q \in Seq(Wire), NEW g \in Seq(Items), NEW w \in Nat,
           NEW s, Flow(c, u, q, g, w, s),
           NEW p \in Seq(Wire), \A x \in Elems(p) : Carries(x, c) => x.item \in Elems(u),
           \A x, y \in Elems(p) : Earlier(p, x, y) /\ Carries(x, c) /\ Carries(y, c) => Earlier(u, x.item, y.item)
    PROVE  Flow(c, <<>>, q \o p, g, w, s)
<1>0. PICK r : r = q \o p
  OBVIOUS
<1>1. /\ Elems(r) = Elems(q) \cup Elems(p)
      /\ \A x, y : Earlier(r, x, y) =>
             Earlier(q, x, y) \/ Earlier(p, x, y) \/ (x \in Elems(q) /\ y \in Elems(p))
  BY <1>0, ElemsConcat
<1>2. \A x, y : Earlier(p, x, y) => x \in Elems(p) /\ y \in Elems(p)
  BY EarlierTyped
<1>3. \A x, y : Earlier(q, x, y) => x \in Elems(q) /\ y \in Elems(q)
  BY EarlierTyped
<1>4. UnreadOK(c, <<>>, w, s)
  BY ElemsEmpty DEF UnreadOK
<1>5. CarriedOK(c, <<>>, r, w, s)
  <2>1. ASSUME NEW x \in Elems(r), Carries(x, c) PROVE x.item.n <= w /\ (x.item.n = 0 => s = "closed")
    BY <1>1, <2>1 DEF Flow, CarriedOK, UnreadOK
  <2>2. ASSUME NEW x \in Elems(r), NEW y \in Elems(r), Earlier(r, x, y), Carries(x, c), Carries(y, c)
        PROVE  Goes(x.item, y.item)
    <3>1. CASE Earlier(q, x, y)
      BY <1>3, <2>2, <3>1 DEF Flow, CarriedOK
    <3>2. CASE Earlier(p, x, y)
      <4>1. x.item \in Elems(u) /\ y.item \in Elems(u) /\ Earlier(u, x.item, y.item)
        BY <1>2, <2>2, <3>2
      <4> QED BY <4>1 DEF Flow, UnreadOK
    <3>3. CASE x \in Elems(q) /\ y \in Elems(p)
      <4>1. y.item \in Elems(u)
        BY <2>2, <3>3
      <4> QED BY <2>2, <3>3, <4>1 DEF Flow, CarriedOK
    <3> QED BY <1>1, <2>2, <3>1, <3>2, <3>3
  <2> QED BY <2>1, <2>2, ElemsEmpty DEF CarriedOK
<1>6. GotOK(c, <<>>, r, g, w)
  <2>1. ASSUME NEW x \in Elems(g), NEW y \in Elems(r), Carries(y, c) PROVE Under(x, y.item)
    BY <1>1, <2>1 DEF Flow, GotOK
  <2> QED BY <2>1, ElemsEmpty DEF Flow, GotOK
<1> QED BY <1>0, <1>4, <1>5, <1>6 DEF Flow

\* A piece is received.
LEMMA FlowGiven ==
    ASSUME MaxData \in Nat, NEW c, NEW u \in Seq(Items), NEW q \in Seq(Wire), NEW g \in Seq(Items), NEW w \in Nat,
           NEW s, Flow(c, u, q, g, w, s), q # <<>>, Carries(Head(q), c), Head(q).item.n # 0,
           \A x \in Elems(g) : x.n # 0
    PROVE  Flow(c, u, Tail(q), Append(g, Head(q).item), w, s)
<1>0. PICK h, r, f : h = Head(q) /\ r = Tail(q) /\ f = Append(g, h.item)
  OBVIOUS
<1>11. Carries(h, c) /\ h.item.n # 0
  BY <1>0
<1>1. Flow(c, u, r, g, w, s)
  BY <1>0, FlowTaken
<1>2. h \in Wire /\ h \in Elems(q) /\ \A y \in Elems(r) : Earlier(q, h, y) /\ y \in Elems(q)
  BY <1>0, ElemsTail
<1>3. h.item \in Items
  BY <1>2, <1>11, WireItem
<1>4. /\ Elems(f) = Elems(g) \cup {h.item}
      /\ \A x, y : Earlier(f, x, y) <=> Earlier(g, x, y) \/ (x \in Elems(g) /\ y = h.item)
  BY <1>0, <1>3, ElemsAppend
<1>5. h.item.conn = c /\ h.item.n <= w
  BY <1>2, <1>11 DEF Flow, CarriedOK, Carries
<1>6. \A y \in Elems(u) : Under(h.item, y)
  BY <1>2, <1>11 DEF Flow, CarriedOK, Goes, Under
<1>7. \A y \in Elems(r) : Carries(y, c) => Under(h.item, y.item)
  BY <1>2, <1>11 DEF Flow, CarriedOK, Goes, Under
<1>8. \A x \in Elems(g) : Goes(x, h.item)
  BY <1>2, <1>11 DEF Flow, GotOK, Goes, Under
<1>9. \A x, y : Earlier(g, x, y) => x \in Elems(g) /\ y \in Elems(g)
  BY EarlierTyped
<1>10. GotOK(c, u, r, f, w)
  <2>1. \A x \in Elems(f) : x.conn = c /\ x.n <= w
    BY <1>1, <1>4, <1>5 DEF Flow, GotOK
  <2>2. \A x \in Elems(f), y \in Elems(u) : Under(x, y)
    BY <1>1, <1>4, <1>6 DEF Flow, GotOK
  <2>3. \A x \in Elems(f), y \in Elems(r) : Carries(y, c) => Under(x, y.item)
    <3>1. \A x \in Elems(g), y \in Elems(r) : Carries(y, c) => Under(x, y.item)
      BY <1>1 DEF Flow, GotOK
    <3> QED BY <1>4, <1>7, <3>1
  <2>4. \A x, y \in Elems(f) : Earlier(f, x, y) => Goes(x, y)
    BY <1>1, <1>4, <1>8, <1>9 DEF Flow, GotOK
  <2> QED BY <2>1, <2>2, <2>3, <2>4 DEF GotOK
<1> QED BY <1>0, <1>1, <1>10 DEF Flow

\* The end is received, or the socket closed.
LEMMA FlowEnds ==
    ASSUME NEW c, NEW u, NEW q, NEW g \in Seq(Items), NEW w \in Nat, NEW s, Flow(c, u, q, g, w, s),
           \A x \in Elems(g) : x.n # 0, NEW z \in Items, z.conn = c, z.n = 0
    PROVE  Flow(c, u, q, Append(g, z), w, s)
<1>0. PICK f : f = Append(g, z)
  OBVIOUS
<1>1. /\ Elems(f) = Elems(g) \cup {z}
      /\ \A x, y : Earlier(f, x, y) <=> Earlier(g, x, y) \/ (x \in Elems(g) /\ y = z)
  BY <1>0, ElemsAppend
<1>2. \A x, y : Earlier(g, x, y) => x \in Elems(g) /\ y \in Elems(g)
  BY EarlierTyped
<1>3. GotOK(c, u, q, f, w)
  <2>1. \A x \in Elems(f) : x.conn = c /\ x.n <= w
    BY <1>1 DEF Flow, GotOK
  <2>2. \A x \in Elems(f), y \in Elems(u) : Under(x, y)
    BY <1>1 DEF Flow, GotOK, Under
  <2>3. \A x \in Elems(f), y \in Elems(q) : Carries(y, c) => Under(x, y.item)
    BY <1>1 DEF Flow, GotOK, Under
  <2>4. \A x, y \in Elems(f) : Earlier(f, x, y) => Goes(x, y)
    BY <1>1, <1>2 DEF Flow, GotOK, Goes
  <2> QED BY <2>1, <2>2, <2>3, <2>4 DEF GotOK
<1> QED BY <1>0, <1>3 DEF Flow

-----------------------------------------------------------------------------
(* What FlattenSeq and ReadPackets give.                                   *)

\* The least of a set of numbers.
LEMMA LeastOf == ASSUME NEW S, S \subseteq Nat, S # {} PROVE \E x \in S : \A y \in S : x <= y
<1>1. \E x \in S : \A y \in S : ~ (<<y, x>> \in OpToRel(<, Nat))
  BY WFMin, NatLessThanWellFounded
<1>2. PICK x \in S : \A y \in S : ~ (<<y, x>> \in OpToRel(<, Nat))
  BY <1>1
<1>3. \A y \in S : ~ (y < x)
  BY <1>2 DEF OpToRel
<1>4. \A y \in S : x <= y
  BY <1>3
<1> QED BY <1>4

Flattens(q, n, f) == f = [i \in 1..n |-> IF i = 1 THEN q[i] ELSE f[i - 1] \o q[i]]

LEMMA FlattensExtends ==
    ASSUME NEW q, NEW n \in Nat, NEW f, Flattens(q, n, f)
    PROVE  \E g : Flattens(q, n + 1, g)
<1> DEFINE G(i) == IF i = 1 THEN q[i] ELSE f[i - 1] \o q[i]
<1>1. PICK g : g = [i \in 1..(n + 1) |-> G(i)]
  OBVIOUS
<1>2. ASSUME NEW i \in 1..n PROVE g[i] = f[i]
  <2>1. i \in 1..(n + 1)
    OBVIOUS
  <2>2. f[i] = G(i)
    BY DEF Flattens
  <2> QED BY <1>1, <2>1, <2>2
<1>3. ASSUME NEW i \in 1..(n + 1) PROVE G(i) = IF i = 1 THEN q[i] ELSE g[i - 1] \o q[i]
  <2>1. CASE i = 1
    BY <2>1
  <2>2. CASE i # 1
    <3>1. i - 1 \in 1..n
      BY <2>2
    <3> QED BY <1>2, <2>2, <3>1
  <2> QED BY <2>1, <2>2
<1>4. g = [i \in 1..(n + 1) |-> IF i = 1 THEN q[i] ELSE g[i - 1] \o q[i]]
  BY <1>1, <1>3
<1> QED BY <1>4 DEF Flattens

LEMMA FlattensExists == ASSUME NEW q, NEW n \in Nat PROVE \E f : Flattens(q, n, f)
<1>1. PICK T : T = {m \in Nat : ~\E f : Flattens(q, m, f)}
  OBVIOUS
<1>2. SUFFICES ASSUME T # {} PROVE FALSE
  BY <1>1
<1>3. PICK m \in T : \A k \in T : m <= k
  BY <1>1, <1>2, LeastOf
<1>4. m # 0
  <2>1. PICK f : f = [i \in 1..0 |-> 0]
    OBVIOUS
  <2>2. f = [i \in 1..0 |-> IF i = 1 THEN q[i] ELSE f[i - 1] \o q[i]]
    BY <2>1
  <2>3. Flattens(q, 0, f)
    BY ONLY <2>2 DEF Flattens
  <2>4. 0 \notin T
    BY ONLY <1>1, <2>3
  <2> QED BY ONLY <2>4, m \in T
<1>5. m \in Nat /\ m - 1 \in Nat /\ m - 1 \notin T /\ (m - 1) + 1 = m
  BY <1>1, <1>3, <1>4
<1>6. PICK f : Flattens(q, m - 1, f)
  BY <1>1, <1>5
<1>7. \E g : Flattens(q, (m - 1) + 1, g)
  BY <1>5, <1>6, FlattensExtends
<1> QED BY <1>1, <1>3, <1>5, <1>7

LEMMA FlattenIs ==
    ASSUME NEW S, NEW q \in Seq(S), Len(q) # 0
    PROVE  \E f : Flattens(q, Len(q), f) /\ FlattenSeq(q) = f[Len(q)]
<1> DEFINE f == CHOOSE f : f = [i \in 1..Len(q) |-> IF i = 1 THEN q[i] ELSE f[i - 1] \o q[i]]
<1>0. PICK n \in Nat : n = Len(q)
  OBVIOUS
<1>1. \E g : Flattens(q, Len(q), g)
  BY <1>0, FlattensExists
<1>2. Flattens(q, Len(q), f)
  BY <1>1 DEF Flattens
<1>3. FlattenSeq(q) = f[Len(q)]
  BY DEF FlattenSeq
<1> QED BY <1>2, <1>3

\* What i of the parts of q come to.
FlatOK(q, i, r) ==
    /\ \A x : x \in Elems(r) <=> \E k \in 1..i : x \in Elems(q[k])
    /\ \A x, y : Earlier(r, x, y) =>
          \/ \E k \in 1..i : Earlier(q[k], x, y)
          \/ \E k, l \in 1..i : k # l /\ x \in Elems(q[k]) /\ y \in Elems(q[l])

LEMMA FlatExtends ==
    ASSUME NEW S, NEW m \in Nat, NEW q \in [1..m -> Seq(S)], NEW i \in Nat, i + 1 \in 1..m,
           NEW r \in Seq(S), FlatOK(q, i, r)
    PROVE  r \o q[i + 1] \in Seq(S) /\ FlatOK(q, i + 1, r \o q[i + 1])
<1>1. PICK p, t : p \in Seq(S) /\ p = q[i + 1] /\ t = r \o p
  OBVIOUS
<1>2. /\ t \in Seq(S) /\ Elems(t) = Elems(r) \cup Elems(p)
      /\ \A x, y : Earlier(t, x, y) <=> Earlier(r, x, y) \/ Earlier(p, x, y) \/ (x \in Elems(r) /\ y \in Elems(p))
  BY <1>1, ElemsConcat
<1>3. /\ \A k \in 1..(i + 1) : k \in 1..i \/ k = i + 1
      /\ i + 1 \in 1..(i + 1) /\ \A k \in 1..i : k \in 1..(i + 1) /\ k # i + 1
  OBVIOUS
<1>4. ASSUME NEW x PROVE x \in Elems(t) <=> \E k \in 1..(i + 1) : x \in Elems(q[k])
  BY <1>1, <1>2, <1>3 DEF FlatOK
<1>5. ASSUME NEW x, NEW y, Earlier(t, x, y)
      PROVE  \/ \E k \in 1..(i + 1) : Earlier(q[k], x, y)
             \/ \E k, l \in 1..(i + 1) : k # l /\ x \in Elems(q[k]) /\ y \in Elems(q[l])
  <2>1. CASE Earlier(r, x, y)
    BY <1>3, <2>1 DEF FlatOK
  <2>2. CASE Earlier(p, x, y)
    BY <1>1, <1>3, <2>2
  <2>3. CASE x \in Elems(r) /\ y \in Elems(p)
    <3>1. PICK k \in 1..i : x \in Elems(q[k])
      BY <2>3 DEF FlatOK
    <3> QED BY <1>1, <1>3, <2>3, <3>1
  <2> QED BY <1>2, <1>5, <2>1, <2>2, <2>3
<1> QED BY <1>1, <1>2, <1>4, <1>5 DEF FlatOK

LEMMA FlattenOK ==
    ASSUME NEW S, NEW m \in Nat, NEW q \in [1..m -> Seq(S)]
    PROVE  FlattenSeq(q) \in Seq(S) /\ FlatOK(q, m, FlattenSeq(q))
<1>1. q \in Seq(Seq(S)) /\ Len(q) = m
  OBVIOUS
<1>2. CASE m = 0
  <2>1. FlattenSeq(q) = q
    BY <1>1, <1>2 DEF FlattenSeq
  <2>2. q = <<>>
    BY <1>1, <1>2
  <2>3. FlatOK(q, m, <<>>)
    BY <1>2, ElemsEmpty DEF FlatOK
  <2> QED BY <2>1, <2>2, <2>3
<1>3. CASE m # 0
  <2>1. PICK f : Flattens(q, m, f) /\ FlattenSeq(q) = f[m]
    BY <1>1, <1>3, FlattenIs
  <2>2. PICK T : T = {i \in 1..m : ~(f[i] \in Seq(S) /\ FlatOK(q, i, f[i]))}
    OBVIOUS
  <2>3. m \in 1..m
    BY <1>3
  <2>4. SUFFICES ASSUME T # {} PROVE FALSE
    BY <2>1, <2>2, <2>3
  <2>5. T \subseteq Nat
    BY <2>2
  <2>6. PICK i \in T : \A k \in T : i <= k
    BY <2>4, <2>5, LeastOf
  <2>7. i \in 1..m /\ ~(f[i] \in Seq(S) /\ FlatOK(q, i, f[i]))
    BY <2>2, <2>6
  <2>8. CASE i = 1
    <3>1. f[i] = q[1] /\ q[1] \in Seq(S)
      BY <2>1, <2>7, <2>8 DEF Flattens
    <3>2. FlatOK(q, 1, q[1])
      BY DEF FlatOK
    <3> QED BY <2>7, <2>8, <3>1, <3>2
  <2>9. CASE i # 1
    <3>1. PICK j \in Nat : j = i - 1
      BY <2>7
    <3>2. j \in 1..m /\ j \notin T /\ i = j + 1
      BY <2>6, <2>7, <2>9, <3>1
    <3>3. f[j] \in Seq(S) /\ FlatOK(q, j, f[j])
      BY <2>2, <3>2
    <3>4. f[i] = f[j] \o q[i]
      BY <2>1, <2>7, <2>9, <3>1 DEF Flattens
    <3>5. f[j] \o q[j + 1] \in Seq(S) /\ FlatOK(q, j + 1, f[j] \o q[j + 1])
      BY <2>7, <3>2, <3>3, FlatExtends
    <3> QED BY <2>7, <3>2, <3>4, <3>5
  <2> QED BY <2>8, <2>9
<1> QED BY <1>2, <1>3

LEMMA SetToSeqIs ==
    ASSUME NEW S, IsFiniteSet(S)
    PROVE  \E n \in Nat : /\ SetToSeq(S) \in [1..n -> S] /\ Len(SetToSeq(S)) = n
                          /\ \A i, j \in 1..n : SetToSeq(S)[i] = SetToSeq(S)[j] => i = j
                          /\ \A x \in S : \E i \in 1..n : SetToSeq(S)[i] = x
<1>1. PICK n \in Nat : ExistsBijection(1..n, S)
  BY FS_NatBijection
<1>2. Cardinality(S) = n
  BY <1>1, FS_CountingElements
<1>3. \E f \in [1..n -> S] : IsInjective(f)
  BY <1>1 DEF ExistsBijection, Bijection, Injection
<1>4. PICK f : f = SetToSeq(S)
  OBVIOUS
<1>5. f \in [1..n -> S] /\ IsInjective(f)
  BY <1>2, <1>3, <1>4 DEF SetToSeq
<1>6. f \in Injection(1..n, S)
  BY <1>5 DEF Injection
<1>7. Cardinality(1..n) = n
  BY FS_Interval
<1>8. f \in Surjection(1..n, S)
  BY <1>2, <1>6, <1>7, FS_Injection
<1>9. f \in Seq(S) /\ Len(f) = n
  BY <1>5
<1>10. \A i, j \in 1..n : f[i] = f[j] => i = j
  BY <1>5 DEF IsInjective
<1>11. \A x \in S : \E i \in 1..n : f[i] = x
  BY <1>8 DEF Surjection
<1> QED BY <1>4, <1>5, <1>9, <1>10, <1>11

Datum(id, y) == [kind |-> "data", id |-> id, item |-> y]

\* r holds what is in the sequences u has for the ids in D, each in order.
Sends(D, u, r) ==
    /\ r \in Seq([kind : {"data"}, id : D, item : Items])
    /\ \A x : x \in Elems(r) <=> \E id \in D : \E y \in Elems(u[id]) : x = Datum(id, y)
    /\ \A x, y : Earlier(r, x, y) /\ x.id = y.id => Earlier(u[x.id], x.item, y.item)

Labelled(id, s) == [j \in 1..Len(s) |-> [kind |-> "data", id |-> id, item |-> s[j]]]

LEMMA LabelledIs ==
    ASSUME NEW D, NEW id \in D, NEW s \in Seq(Items)
    PROVE  /\ Labelled(id, s) \in Seq([kind : {"data"}, id : D, item : Items])
           /\ \A x : x \in Elems(Labelled(id, s)) <=> \E y \in Elems(s) : x = Datum(id, y)
           /\ \A x, y : Earlier(Labelled(id, s), x, y) => Earlier(s, x.item, y.item)
<1>0. PICK n \in Nat : n = Len(s)
  OBVIOUS
<1>1. PICK r : r = Labelled(id, s)
  OBVIOUS
<1>2. /\ DOMAIN r = 1..n /\ DOMAIN s = 1..n /\ \A j \in 1..n : r[j] = Datum(id, s[j]) /\ s[j] \in Items
      /\ r = [j \in 1..n |-> Datum(id, s[j])]
  BY <1>0, <1>1 DEF Labelled, Datum
<1>3. \A j \in 1..n : Datum(id, s[j]) \in [kind : {"data"}, id : D, item : Items]
  BY <1>2 DEF Datum
<1>4. r \in Seq([kind : {"data"}, id : D, item : Items])
  BY <1>2, <1>3
<1>5. ASSUME NEW x PROVE x \in Elems(r) <=> \E y \in Elems(s) : x = Datum(id, y)
  BY <1>2 DEF Elems
<1>6. ASSUME NEW x, NEW y, Earlier(r, x, y) PROVE Earlier(s, x.item, y.item)
  <2>1. PICK i \in 1..n, j \in 1..n : i < j /\ r[i] = x /\ r[j] = y
    BY <1>2, <1>6 DEF Earlier
  <2>2. x.item = s[i] /\ y.item = s[j]
    BY <1>2, <2>1 DEF Datum
  <2> QED BY <1>2, <2>1, <2>2 DEF Earlier
<1> QED BY <1>1, <1>4, <1>5, <1>6

LEMMA ReadPacketsAre ==
    ASSUME NEW e, NEW conns, IsFiniteSet(DOMAIN conns),
           \A id \in DOMAIN conns : ends[e][conns[id]].unread \in Seq(Items)
    PROVE  Sends(DOMAIN conns, [id \in DOMAIN conns |-> ends[e][conns[id]].unread], ReadPackets(e, conns))
<1>1. PICK D, u : D = DOMAIN conns /\ u = [id \in DOMAIN conns |-> ends[e][conns[id]].unread]
  OBVIOUS
<1>0. PICK o : o = SetToSeq(D)
  OBVIOUS
<1>14. IsFiniteSet(D)
  BY <1>1
<1>15. \E n \in Nat : /\ SetToSeq(D) \in [1..n -> D] /\ Len(SetToSeq(D)) = n
                      /\ \A i, j \in 1..n : SetToSeq(D)[i] = SetToSeq(D)[j] => i = j
                      /\ \A x \in D : \E i \in 1..n : SetToSeq(D)[i] = x
  BY <1>14, SetToSeqIs, Zenon
<1>2. PICK n \in Nat : /\ o \in [1..n -> D] /\ Len(o) = n
                       /\ \A i, j \in 1..n : o[i] = o[j] => i = j
                       /\ \A x \in D : \E i \in 1..n : o[i] = x
  BY <1>0, <1>15
<1>3. PICK q : q = [i \in 1..n |-> Labelled(o[i], u[o[i]])]
  OBVIOUS
<1>4. ReadPackets(e, conns) = FlattenSeq(q)
  BY <1>0, <1>1, <1>2, <1>3 DEF ReadPackets, Labelled
<1>5. \A id \in D : u[id] \in Seq(Items)
  BY <1>1
<1>6. PICK W : W = [kind : {"data"}, id : D, item : Items]
  OBVIOUS
<1>7. \A i \in 1..n : /\ o[i] \in D /\ q[i] = Labelled(o[i], u[o[i]]) /\ q[i] \in Seq(W)
                      /\ \A x : x \in Elems(q[i]) <=> \E y \in Elems(u[o[i]]) : x = Datum(o[i], y)
                      /\ \A x, y : Earlier(q[i], x, y) => Earlier(u[o[i]], x.item, y.item)
  <2> SUFFICES ASSUME NEW i \in 1..n
               PROVE  /\ o[i] \in D /\ q[i] = Labelled(o[i], u[o[i]]) /\ q[i] \in Seq(W)
                      /\ \A x : x \in Elems(q[i]) <=> \E y \in Elems(u[o[i]]) : x = Datum(o[i], y)
                      /\ \A x, y : Earlier(q[i], x, y) => Earlier(u[o[i]], x.item, y.item)
    OBVIOUS
  <2>1. PICK id \in D, s \in Seq(Items) : id = o[i] /\ s = u[o[i]]
    BY <1>2, <1>5
  <2>2. q[i] = Labelled(id, s)
    BY <1>3, <2>1
  <2>3. /\ Labelled(id, s) \in Seq([kind : {"data"}, id : D, item : Items])
        /\ \A x : x \in Elems(Labelled(id, s)) <=> \E y \in Elems(s) : x = Datum(id, y)
        /\ \A x, y : Earlier(Labelled(id, s), x, y) => Earlier(s, x.item, y.item)
    BY LabelledIs
  <2> QED BY <1>6, <2>1, <2>2, <2>3, Zenon
<1>8. q \in [1..n -> Seq(W)]
  BY <1>3, <1>7
<1>9. PICK r : r = FlattenSeq(q)
  OBVIOUS
<1>10. r \in Seq(W) /\ FlatOK(q, n, r)
  BY <1>8, <1>9, FlattenOK
<1>11. ASSUME NEW x PROVE x \in Elems(r) <=> \E id \in D : \E y \in Elems(u[id]) : x = Datum(id, y)
  <2>1. x \in Elems(r) <=> \E k \in 1..n : x \in Elems(q[k])
    BY <1>10 DEF FlatOK
  <2>2. ASSUME NEW k \in 1..n, x \in Elems(q[k]) PROVE \E id \in D : \E y \in Elems(u[id]) : x = Datum(id, y)
    BY <1>7, <2>2
  <2>3. ASSUME NEW id \in D, NEW y \in Elems(u[id]), x = Datum(id, y) PROVE \E k \in 1..n : x \in Elems(q[k])
    <3>1. PICK k \in 1..n : o[k] = id
      BY <1>2
    <3> QED BY <1>7, <2>3, <3>1
  <2> QED BY <2>1, <2>2, <2>3
<1>12. ASSUME NEW x, NEW y, Earlier(r, x, y), x.id = y.id PROVE Earlier(u[x.id], x.item, y.item)
  <2>0. \A k \in 1..n : \A z \in Elems(q[k]) : z.id = o[k]
    BY <1>7 DEF Datum
  <2>1. CASE \E k \in 1..n : Earlier(q[k], x, y)
    <3>1. PICK k \in 1..n : Earlier(q[k], x, y)
      BY <2>1
    <3>2. x \in Elems(q[k])
      BY <1>7, <3>1, EarlierTyped
    <3> QED BY <1>7, <2>0, <3>1, <3>2
  <2>2. CASE \E k, l \in 1..n : k # l /\ x \in Elems(q[k]) /\ y \in Elems(q[l])
    BY <1>2, <1>12, <2>0, <2>2
  <2> QED BY <1>10, <1>12, <2>1, <2>2 DEF FlatOK
<1>13. Sends(D, u, r)
  BY <1>6, <1>10, <1>11, <1>12 DEF Sends
<1> QED BY <1>1, <1>4, <1>9, <1>13

-----------------------------------------------------------------------------
(* The inductive invariant.  names[id] is the connection a socket id was   *)
(* drawn for.                                                              *)

EndRec == [st : {"none", "open", "closed"}, wrote : 0..MaxData,
           unread : Seq(Items), got : Seq(Items)]

IsPartial(f, S, T) ==
    f = [x \in DOMAIN f |-> f[x]] /\ DOMAIN f \subseteq S /\ \A x \in DOMAIN f : f[x] \in T

IdsKnown(q) == \A x \in Elems(q) : /\ IsResponse(x) => x.id \in 0..lastId
                                   /\ IsData(x) => x.id \in 1..lastId

EndsTyped == ends \in [Sides -> [Conns -> EndRec]]
MapsTyped ==
    /\ backlog \in [Handlers -> Seq(Conns)]
    /\ IsPartial(fdConn, Fds, Conns)
    /\ unassignedFds \in [Handlers -> SUBSET Fds]
    /\ socketFdMap = [h \in Handlers |-> socketFdMap[h]]
    /\ \A h \in Handlers : IsPartial(socketFdMap[h], 1..lastId, Fds)
    /\ IsPartial(idHandler, 1..lastId, Handlers)
    /\ IsPartial(dests, 1..lastId, Conns)
    /\ lastId \in Nat /\ stalls \in 0..MaxStalls
WireTyped ==
    /\ toDest \in Seq(Wire) /\ toSource \in Seq(Wire)
    /\ IdsKnown(toDest) /\ IdsKnown(toSource)

Types == EndsTyped /\ MapsTyped /\ WireTyped

Carrier(e) == IF e = "src" THEN toDest ELSE toSource

FlowOK ==
    \A e \in Sides, c \in Conns :
        Flow(c, ends[e][c].unread, Carrier(e), ends[Other(e)][c].got, ends[e][c].wrote,
             ends[e][c].st)

Named(names, c) == \E id \in DOMAIN names : names[id] = c
Unended(g) == \A x \in Elems(g) : x.n # 0
NotEnded(e, c) == Unended(ends[e][c].got)
Idle(e, c) == ends[e][c].st = "none" /\ ends[e][c].unread = <<>> /\ ends[e][c].got = <<>>
Queued(c) == \E h \in Handlers : c \in Elems(backlog[h])
Accepted(c) == \E fd \in DOMAIN fdConn : fdConn[fd] = c
Awaited(fd) == \E h \in Handlers : fd \in unassignedFds[h]

NamesOK(names) ==
    /\ names = [id \in DOMAIN names |-> names[id]] /\ DOMAIN names = 1..lastId
    /\ \A id \in DOMAIN names : names[id] \in Conns
    /\ \A i, j \in DOMAIN names : names[i] = names[j] => i = j

\* A connection goes from the backlog to a descriptor and gets its id then.
NoneOK(names) ==
    \A c \in Conns : ends["src"][c].st = "none" =>
        Idle("src", c) /\ ~Named(names, c) /\ ~Queued(c) /\ ~Accepted(c)
QueuedOK(names) ==
    \A c \in Conns : Queued(c) => NotEnded("src", c) /\ ~Named(names, c) /\ ~Accepted(c)
QueuedOnce ==
    /\ \A h \in Handlers : \A c, d : Earlier(backlog[h], c, d) => c # d
    /\ \A h, k \in Handlers : \A c : c \in Elems(backlog[h]) /\ c \in Elems(backlog[k]) => h = k
UnnamedOK(names) == \A c \in Conns : ~Named(names, c) => Idle("dst", c)
DestsOK(names) == \A id \in DOMAIN dests : dests[id] = names[id] /\ NotEnded("dst", dests[id])

\* The descriptors of the listening side.
FdsOK ==
    /\ \A f, g \in DOMAIN fdConn : fdConn[f] = fdConn[g] => f = g
    /\ \A f \in DOMAIN fdConn : NotEnded("src", fdConn[f])
AwaitedOK ==
    /\ \A h \in Handlers : unassignedFds[h] \subseteq DOMAIN fdConn
    /\ \A h, k \in Handlers : \A fd : fd \in unassignedFds[h] /\ fd \in unassignedFds[k] => h = k
SocketsOK(names) ==
    \A h \in Handlers : \A id \in DOMAIN socketFdMap[h] :
        /\ id \in DOMAIN idHandler /\ idHandler[id] = h
        /\ socketFdMap[h][id] \in DOMAIN fdConn /\ fdConn[socketFdMap[h][id]] = names[id]
        /\ ~Awaited(socketFdMap[h][id])

\* What is under way.
RequestsOK(names) ==
    \A x \in Elems(toDest) : IsRequest(x) =>
        Awaited(x.fd) /\ fdConn[x.fd] = x.conn /\ ~Named(names, x.conn)
ResponsesOK(names) ==
    \A x \in Elems(toSource) : IsResponse(x) =>
        Awaited(x.fd) /\ (x.id # 0 => names[x.id] = fdConn[x.fd] /\ x.id \notin DOMAIN idHandler)
OneAnswer ==
    /\ \A x \in Elems(toDest), y \in Elems(toSource) : IsRequest(x) /\ IsResponse(y) => x.fd # y.fd
    /\ \A x, y \in Elems(toDest) :
          Earlier(toDest, x, y) /\ IsRequest(x) /\ IsRequest(y) => x.fd # y.fd
    /\ \A x, y \in Elems(toSource) :
          Earlier(toSource, x, y) /\ IsResponse(x) /\ IsResponse(y) => x.fd # y.fd
KindsOK ==
    /\ \A x \in Elems(toDest) : ~IsResponse(x)
    /\ \A x \in Elems(toSource) : ~IsRequest(x)
DataOK(names) ==
    /\ \A x \in Elems(toDest) : IsData(x) => x.item.conn = names[x.id]
    /\ \A x \in Elems(toSource) : IsData(x) => x.item.conn = names[x.id]

Answering(id) == \E y \in Elems(toSource) : IsResponse(y) /\ y.id = id
EndIn(q, id) == \E x \in Elems(q) : IsEnd(x) /\ x.id = id

DataAnswered ==
    /\ \A x \in Elems(toDest) : IsData(x) => ~Answering(x.id)
    /\ \A x \in Elems(toSource) : IsData(x) =>
          \/ x.id \in DOMAIN idHandler
          \/ \E y \in Elems(toSource) : IsResponse(y) /\ y.id = x.id /\ Earlier(toSource, y, x)

\* What one side still has of a socket.
EndsOnce ==
    /\ \A x \in Elems(toDest) : IsEnd(x) => ~SourceHas(x.id)
    /\ \A x \in Elems(toSource) : IsEnd(x) => x.id \notin DOMAIN dests
DestKept ==
    \A id \in DOMAIN dests : /\ SourceHas(id) \/ EndIn(toDest, id) \/ Answering(id)
                             /\ id \in DOMAIN idHandler \/ Answering(id)
SourceKept ==
    \A id \in 1..lastId : SourceHas(id) \/ Answering(id) => id \in DOMAIN dests \/ EndIn(toSource, id)

ConnsInv(names) == NoneOK(names) /\ QueuedOK(names) /\ QueuedOnce /\ UnnamedOK(names) /\ DestsOK(names)
FdsInv(names) == FdsOK /\ AwaitedOK /\ SocketsOK(names)
WireInv(names) ==
    /\ RequestsOK(names) /\ ResponsesOK(names) /\ OneAnswer /\ KindsOK /\ DataOK(names)
    /\ DataAnswered
PairInv == EndsOnce /\ DestKept /\ SourceKept

Linked(names) == NamesOK(names) /\ ConnsInv(names) /\ FdsInv(names) /\ WireInv(names) /\ PairInv

ForwardInd == Types /\ FlowOK /\ \E names : Linked(names)

LEMMA PartialIs == ASSUME NEW f, NEW S, NEW T, IsPartial(f, S, T) PROVE f \in Partial(S, T)
<1>1. f \in [DOMAIN f -> T] /\ DOMAIN f \in SUBSET S
  BY DEF IsPartial
<1> QED BY <1>1 DEF Partial

LEMMA WireParts ==
    ASSUME NEW x \in Wire
    PROVE  /\ IsRequest(x) \/ IsResponse(x) \/ IsData(x)
           /\ IsRequest(x) => x = [kind |-> "request", fd |-> x.fd, conn |-> x.conn] /\ x.fd \in Fds /\ x.conn \in Conns
           /\ IsResponse(x) => x = [kind |-> "response", fd |-> x.fd, id |-> x.id] /\ x.fd \in Fds /\ x.id \in Nat
           /\ IsData(x) => x = [kind |-> "data", id |-> x.id, item |-> x.item] /\ x.id \in Nat /\ x.item \in Items
  BY DEF Wire, IsRequest, IsResponse, IsData

LEMMA KindsApart ==
    \A x : ~(IsRequest(x) /\ IsResponse(x)) /\ ~(IsRequest(x) /\ IsData(x)) /\ ~(IsResponse(x) /\ IsData(x))
  BY DEF IsRequest, IsResponse, IsData

LEMMA EndsAt ==
    ASSUME EndsTyped, NEW e \in Sides, NEW c \in Conns
    PROVE  /\ ends[e][c] \in EndRec
           /\ ends[e][c].st \in {"none", "open", "closed"} /\ ends[e][c].wrote \in 0..MaxData
           /\ ends[e][c].unread \in Seq(Items) /\ ends[e][c].got \in Seq(Items)
  BY DEF EndsTyped, EndRec

LEMMA SidesAre == Sides = {"src", "dst"} /\ \A e \in Sides : Other(e) \in Sides /\ Other(e) # e /\ Other(Other(e)) = e
  BY DEF Sides, Other

LEMMA TypesAre == ASSUME Types, redraws \in 0..MaxRedraws PROVE TypeOK
<1>1. ASSUME NEW q \in Seq(Wire), IdsKnown(q) PROVE q \in Seq(Packets)
  <2>1. ASSUME NEW i \in DOMAIN q PROVE q[i] \in Packets
    <3>1. PICK x \in Wire : x = q[i] /\ x \in Elems(q)
      BY DEF Elems
    <3>2. CASE IsRequest(x)
      BY <3>1, <3>2, WireParts DEF Packets
    <3>3. CASE IsResponse(x)
      BY <1>1, <3>1, <3>3, WireParts DEF Packets, IdsKnown
    <3>4. CASE IsData(x)
      BY <1>1, <3>1, <3>4, WireParts DEF Packets, IdsKnown
    <3> QED BY <3>2, <3>3, <3>4, WireParts
  <2> QED BY <2>1
<1>2. toDest \in Seq(Packets) /\ toSource \in Seq(Packets)
  BY <1>1 DEF Types, WireTyped
<1>3. /\ fdConn \in Partial(Fds, Conns) /\ idHandler \in Partial(1..lastId, Handlers)
      /\ dests \in Partial(1..lastId, Conns)
      /\ \A h \in Handlers : socketFdMap[h] \in Partial(1..lastId, Fds)
  BY PartialIs DEF Types, MapsTyped
<1>4. socketFdMap \in [Handlers -> Partial(1..lastId, Fds)]
  BY <1>3 DEF Types, MapsTyped
<1> QED BY <1>2, <1>3, <1>4 DEF Types, EndsTyped, MapsTyped, TypeOK, EndRec

LEMMA WithoutIs ==
    ASSUME NEW f, NEW S
    PROVE  /\ Without(f, S) = [x \in DOMAIN Without(f, S) |-> Without(f, S)[x]]
           /\ DOMAIN Without(f, S) = DOMAIN f \ S
           /\ \A x \in DOMAIN f \ S : Without(f, S)[x] = f[x]
  BY DEF Without, Restrict

LEMMA WithoutPartial ==
    ASSUME NEW f, NEW S, NEW T, NEW D, IsPartial(f, S, T) PROVE IsPartial(Without(f, D), S, T)
<1>1. /\ Without(f, D) = [x \in DOMAIN Without(f, D) |-> Without(f, D)[x]]
      /\ DOMAIN Without(f, D) = DOMAIN f \ D
      /\ \A x \in DOMAIN f \ D : Without(f, D)[x] = f[x]
  BY WithoutIs
<1>2. DOMAIN Without(f, D) \subseteq S /\ \A x \in DOMAIN Without(f, D) : Without(f, D)[x] \in T
  BY <1>1 DEF IsPartial
<1> QED BY <1>1, <1>2 DEF IsPartial

LEMMA WithIs ==
    ASSUME NEW f, NEW x, NEW v
    PROVE  /\ With(f, x, v) = [y \in DOMAIN With(f, x, v) |-> With(f, x, v)[y]]
           /\ DOMAIN With(f, x, v) = DOMAIN f \cup {x}
           /\ \A y \in DOMAIN f : y # x => With(f, x, v)[y] = f[y]
           /\ With(f, x, v)[x] = v
  BY DEF With

LEMMA WithPartial ==
    ASSUME NEW f, NEW S, NEW T, IsPartial(f, S, T), NEW x \in S, NEW v \in T
    PROVE  IsPartial(With(f, x, v), S, T)
<1>1. /\ With(f, x, v) = [y \in DOMAIN With(f, x, v) |-> With(f, x, v)[y]]
      /\ DOMAIN With(f, x, v) = DOMAIN f \cup {x}
      /\ \A y \in DOMAIN f : y # x => With(f, x, v)[y] = f[y]
      /\ With(f, x, v)[x] = v
  BY DEF With
<1>2. DOMAIN With(f, x, v) \subseteq S /\ \A y \in DOMAIN With(f, x, v) : With(f, x, v)[y] \in T
  BY <1>1 DEF IsPartial
<1> QED BY <1>1, <1>2 DEF IsPartial

\* Two pieces of an end's state change, or one.
LEMMA EndsSet ==
    ASSUME EndsTyped, NEW e \in Sides, NEW c \in Conns, NEW r \in EndRec, ends' = [ends EXCEPT ![e][c] = r]
    PROVE  /\ EndsTyped' /\ ends'[e][c] = r
           /\ \A d \in Sides, b \in Conns : d # e \/ b # c => ends'[d][b] = ends[d][b]
  BY DEF EndsTyped

-----------------------------------------------------------------------------
(* The applications' steps.                                                *)

\* An end that is in use changes, but not what it has received.
LEMMA EndChanges ==
    ASSUME Types, NEW names, Linked(names), NEW e \in Sides, NEW c \in Conns, ends[e][c].st # "none",
           ends'[e][c].st # "none", ends'[e][c].got = ends[e][c].got,
           \A d \in Sides, b \in Conns : d # e \/ b # c => ends'[d][b] = ends[d][b],
           UNCHANGED <<backlog, fdConn, unassignedFds, socketFdMap, idHandler, dests, lastId, toDest,
                       toSource>>
    PROVE  Linked(names)'
<1>1. \A d \in Sides, b \in Conns : ends'[d][b].got = ends[d][b].got
  OBVIOUS
<1>2. \A d \in Sides, b \in Conns : NotEnded(d, b)' <=> NotEnded(d, b)
  BY <1>1 DEF NotEnded
<1>3. \A b \in Conns : (Queued(b)' <=> Queued(b)) /\ (Accepted(b)' <=> Accepted(b))
  BY DEF Queued, Accepted
<1>4. "src" \in Sides /\ "dst" \in Sides
  BY SidesAre
<1>5. NoneOK(names)'
  <2>1. ASSUME NEW b \in Conns, ends'["src"][b].st = "none"
        PROVE  Idle("src", b)' /\ ~Named(names, b) /\ ~Queued(b)' /\ ~Accepted(b)'
    <3>1. ends'["src"][b] = ends["src"][b]
      BY <1>4, <2>1
    <3> QED BY <1>3, <2>1, <3>1 DEF Linked, ConnsInv, NoneOK, Idle
  <2> QED BY <2>1 DEF NoneOK, Named
<1>6. QueuedOK(names)'
  BY <1>2, <1>3, <1>4 DEF Linked, ConnsInv, QueuedOK, Named
<1>7. UnnamedOK(names)'
  <2>1. ASSUME NEW b \in Conns, ~Named(names, b) PROVE Idle("dst", b)'
    <3>1. Idle("dst", b)
      BY <2>1 DEF Linked, ConnsInv, UnnamedOK
    <3>2. ends'["dst"][b] = ends["dst"][b]
      BY <1>4, <3>1 DEF Idle
    <3> QED BY <3>1, <3>2 DEF Idle
  <2> QED BY <2>1 DEF UnnamedOK, Named
<1>8. DestsOK(names)' /\ QueuedOnce'
  <2>1. \A id \in DOMAIN dests : dests[id] \in Conns
    BY DEF Types, MapsTyped, IsPartial
  <2> QED BY <1>2, <1>4, <2>1 DEF Linked, ConnsInv, DestsOK, QueuedOnce
<1>9. FdsInv(names)'
  <2>1. \A fd \in DOMAIN fdConn : fdConn[fd] \in Conns
    BY DEF Types, MapsTyped, IsPartial
  <2>2. FdsOK'
    BY <1>2, <1>4, <2>1 DEF Linked, FdsInv, FdsOK
  <2>3. AwaitedOK' /\ SocketsOK(names)'
    BY DEF Linked, FdsInv, AwaitedOK, SocketsOK, Awaited
  <2> QED BY <2>2, <2>3 DEF FdsInv
<1>10. WireInv(names)'
  BY DEF Linked, WireInv, RequestsOK, ResponsesOK, OneAnswer, KindsOK, DataOK, DataAnswered, Awaited, Named, Answering
<1>11. PairInv' /\ NamesOK(names)'
  BY DEF Linked, PairInv, EndsOnce, DestKept, SourceKept, SourceHas, EndIn, Answering, NamesOK
<1> QED BY <1>5, <1>6, <1>7, <1>8, <1>9, <1>10, <1>11 DEF Linked, ConnsInv

\* The packets stay as they are, and each end but one.
LEMMA FlowElsewhere ==
    ASSUME FlowOK, NEW e \in Sides, NEW c \in Conns, UNCHANGED <<toDest, toSource>>,
           ends'[e][c].got = ends[e][c].got,
           \A d \in Sides, b \in Conns : d # e \/ b # c => ends'[d][b] = ends[d][b],
           Flow(c, ends'[e][c].unread, Carrier(e), ends[Other(e)][c].got, ends'[e][c].wrote, ends'[e][c].st)
    PROVE  FlowOK'
<1>1. Carrier("src")' = Carrier("src") /\ Carrier("dst")' = Carrier("dst")
  BY DEF Carrier
<1>2. \A d \in Sides : Carrier(d)' = Carrier(d)
  BY <1>1, SidesAre
<1>3. \A d \in Sides, b \in Conns : ends'[Other(d)][b].got = ends[Other(d)][b].got
  BY SidesAre
<1>4. ASSUME NEW d \in Sides, NEW b \in Conns
      PROVE  Flow(b, ends'[d][b].unread, Carrier(d)', ends'[Other(d)][b].got, ends'[d][b].wrote, ends'[d][b].st)
  <2>1. CASE d = e /\ b = c
    BY <1>2, <1>3, <2>1
  <2>2. CASE d # e \/ b # c
    BY <1>2, <1>3, <2>2 DEF FlowOK
  <2> QED BY <2>1, <2>2
<1> QED BY <1>4, Zenon DEF FlowOK, Flow, UnreadOK, CarriedOK, GotOK, Elems, Earlier, Carries, Goes, Under

LEMMA TypesElsewhere ==
    ASSUME Types, EndsTyped', UNCHANGED <<backlog, fdConn, unassignedFds, socketFdMap, idHandler, dests, lastId,
                                          toDest, toSource, stalls>>
    PROVE  Types'
  BY DEF Types, MapsTyped, WireTyped, IsPartial, IdsKnown

LEMMA CarrierTyped == ASSUME Types, NEW e \in Sides PROVE Carrier(e) \in Seq(Wire)
  BY DEF Types, WireTyped, Carrier

LEMMA AppWritesKeeps ==
    ASSUME ForwardAssumption, Types, FlowOK, NEW names, Linked(names), NEW e \in Sides, NEW c \in Conns,
           AppWrites(e, c)
    PROVE  Types' /\ FlowOK' /\ Linked(names)'
<1>1. PICK n : n = ends[e][c].wrote + 1
  OBVIOUS
<1>2. PICK o \in EndRec : o = ends[e][c]
  BY EndsAt DEF Types
<1>3. n \in 0..MaxData /\ n # 0 /\ MaxData \in Nat /\ o.wrote \in Nat
  BY <1>1, <1>2 DEF AppWrites, ForwardAssumption, EndRec
<1>4. PICK x : x = [conn |-> c, n |-> n]
  OBVIOUS
<1>5. x \in Items /\ x.conn = c /\ x.n = n
  BY <1>3, <1>4, ItemIs
<1>6. PICK r : r = [o EXCEPT !.wrote = n, !.unread = Append(@, x)]
  OBVIOUS
<1>7. /\ r \in EndRec /\ r.got = o.got /\ r.st = o.st /\ r.wrote = n /\ r.unread = Append(o.unread, x)
      /\ o.unread \in Seq(Items) /\ o.st = "open"
  <2>1. o.unread \in Seq(Items) /\ o.st = "open"
    BY <1>2 DEF EndRec, AppWrites
  <2>2. PICK v \in Seq(Items) : v = Append(o.unread, x)
    BY <1>5, <2>1, ElemsAppend, Zenon
  <2>3. r = [o EXCEPT !.wrote = n, !.unread = v]
    BY <1>6, <2>2
  <2> QED BY <1>3, <2>1, <2>2, <2>3 DEF EndRec
<1>8. ends' = [ends EXCEPT ![e][c] = r]
  BY <1>1, <1>2, <1>4, <1>6 DEF AppWrites
<1>9. /\ EndsTyped' /\ ends'[e][c] = r
      /\ \A d \in Sides, b \in Conns : d # e \/ b # c => ends'[d][b] = ends[d][b]
  BY <1>7, <1>8, EndsSet DEF Types
<1>10. Types'
  BY <1>9, TypesElsewhere DEF AppWrites, ids
<1>18. ends[e][c].st # "none" /\ ends'[e][c].st # "none" /\ ends'[e][c].got = ends[e][c].got
  BY <1>2, <1>7, <1>9
<1>19. UNCHANGED <<backlog, fdConn, unassignedFds, socketFdMap, idHandler, dests, lastId, toDest, toSource>>
  BY DEF AppWrites, ids
<1>11. Linked(names)'
  BY <1>9, <1>18, <1>19, EndChanges
<1>12. PICK g \in Seq(Items) : g = ends[Other(e)][c].got
  BY SidesAre, EndsAt DEF Types
<1>13. PICK q \in Seq(Wire) : q = Carrier(e)
  BY CarrierTyped
<1>14. Flow(c, o.unread, q, g, o.wrote, o.st)
  BY <1>2, <1>12, <1>13 DEF FlowOK
<1>15. Flow(c, Append(o.unread, x), q, g, o.wrote + 1, o.st)
  BY <1>1, <1>2, <1>3, <1>5, <1>7, <1>14, FlowWrites
<1>16. Flow(c, r.unread, q, g, r.wrote, r.st)
  BY <1>1, <1>2, <1>7, <1>15
<1>20. Flow(c, ends'[e][c].unread, Carrier(e), ends[Other(e)][c].got, ends'[e][c].wrote, ends'[e][c].st)
  BY <1>7, <1>9, <1>12, <1>13, <1>16
<1>17. FlowOK'
  BY <1>9, <1>18, <1>19, <1>20, FlowElsewhere
<1> QED BY <1>10, <1>11, <1>17

LEMMA AppClosesKeeps ==
    ASSUME ForwardAssumption, Types, FlowOK, NEW names, Linked(names), NEW e \in Sides, NEW c \in Conns,
           AppCloses(e, c)
    PROVE  Types' /\ FlowOK' /\ Linked(names)'
<1>2. PICK o \in EndRec : o = ends[e][c]
  BY EndsAt DEF Types
<1>3. MaxData \in Nat /\ o.wrote \in Nat
  BY <1>2 DEF ForwardAssumption, EndRec
<1>4. PICK x : x = End(c)
  OBVIOUS
<1>5. x \in Items /\ x.conn = c /\ x.n = 0
  BY <1>3, <1>4, ItemIs DEF End
<1>6. PICK r : r = [o EXCEPT !.st = "closed", !.unread = Append(@, x)]
  OBVIOUS
<1>7. /\ r \in EndRec /\ r.got = o.got /\ r.st = "closed" /\ r.wrote = o.wrote /\ r.unread = Append(o.unread, x)
      /\ o.unread \in Seq(Items) /\ o.st = "open"
  <2>1. o.unread \in Seq(Items) /\ o.st = "open"
    BY <1>2 DEF EndRec, AppCloses
  <2>2. PICK v \in Seq(Items) : v = Append(o.unread, x)
    BY <1>5, <2>1, ElemsAppend, Zenon
  <2>3. r = [o EXCEPT !.st = "closed", !.unread = v]
    BY <1>6, <2>2
  <2> QED BY <1>3, <2>1, <2>2, <2>3 DEF EndRec
<1>8. ends' = [ends EXCEPT ![e][c] = r]
  BY <1>2, <1>4, <1>6 DEF AppCloses
<1>9. /\ EndsTyped' /\ ends'[e][c] = r
      /\ \A d \in Sides, b \in Conns : d # e \/ b # c => ends'[d][b] = ends[d][b]
  BY <1>7, <1>8, EndsSet DEF Types
<1>10. Types'
  BY <1>9, TypesElsewhere DEF AppCloses, ids
<1>18. ends[e][c].st # "none" /\ ends'[e][c].st # "none" /\ ends'[e][c].got = ends[e][c].got
  BY <1>2, <1>7, <1>9
<1>19. UNCHANGED <<backlog, fdConn, unassignedFds, socketFdMap, idHandler, dests, lastId, toDest, toSource>>
  BY DEF AppCloses, ids
<1>11. Linked(names)'
  BY <1>9, <1>18, <1>19, EndChanges
<1>12. PICK g \in Seq(Items) : g = ends[Other(e)][c].got
  BY SidesAre, EndsAt DEF Types
<1>13. PICK q \in Seq(Wire) : q = Carrier(e)
  BY CarrierTyped
<1>14. Flow(c, o.unread, q, g, o.wrote, o.st)
  BY <1>2, <1>12, <1>13 DEF FlowOK
<1>15. Flow(c, Append(o.unread, x), q, g, o.wrote, "closed")
  BY <1>3, <1>5, <1>7, <1>14, FlowCloses
<1>20. Flow(c, ends'[e][c].unread, Carrier(e), ends[Other(e)][c].got, ends'[e][c].wrote, ends'[e][c].st)
  BY <1>7, <1>9, <1>12, <1>13, <1>15
<1>17. FlowOK'
  BY <1>9, <1>18, <1>19, <1>20, FlowElsewhere
<1> QED BY <1>10, <1>11, <1>17

LEMMA AppConnectsKeeps ==
    ASSUME ForwardAssumption, Types, FlowOK, NEW names, Linked(names), NEW c \in Conns, NEW h \in Handlers,
           AppConnects(c, h)
    PROVE  Types' /\ FlowOK' /\ Linked(names)'
<1>1. "src" \in Sides /\ "dst" \in Sides
  BY SidesAre
<1>2. PICK o \in EndRec : o = ends["src"][c]
  BY <1>1, EndsAt DEF Types
<1>3. PICK r : r = [o EXCEPT !.st = "open"]
  OBVIOUS
<1>4. /\ r \in EndRec /\ r.got = o.got /\ r.st = "open" /\ r.wrote = o.wrote /\ r.unread = o.unread
      /\ o.st = "none"
  BY <1>2, <1>3 DEF EndRec, AppConnects
<1>5. ends' = [ends EXCEPT !["src"][c] = r]
  BY <1>2, <1>3 DEF AppConnects
<1>6. /\ EndsTyped' /\ ends'["src"][c] = r
      /\ \A d \in Sides, b \in Conns : d # "src" \/ b # c => ends'[d][b] = ends[d][b]
  BY <1>1, <1>4, <1>5, EndsSet DEF Types
<1>7. /\ backlog \in [Handlers -> Seq(Conns)] /\ backlog' = [backlog EXCEPT ![h] = Append(backlog[h], c)]
      /\ UNCHANGED <<fdConn, unassignedFds, socketFdMap, idHandler, dests, lastId, toDest, toSource, stalls>>
  BY DEF Types, MapsTyped, AppConnects, ids
<1>8. PICK q \in Seq(Conns) : q = backlog[h]
  BY <1>7
<1>29. PICK p : p = Append(q, c)
  OBVIOUS
<1>9. /\ p \in Seq(Conns) /\ Elems(p) = Elems(q) \cup {c}
      /\ \A x, y : Earlier(p, x, y) <=> Earlier(q, x, y) \/ (x \in Elems(q) /\ y = c)
  BY <1>29, ElemsAppend
<1>10. /\ backlog' \in [Handlers -> Seq(Conns)] /\ backlog'[h] = p
       /\ \A k \in Handlers : k # h => backlog'[k] = backlog[k]
  BY <1>7, <1>8, <1>9, <1>29
<1>11. Types'
  BY <1>6, <1>7, <1>10 DEF Types, MapsTyped, WireTyped, IsPartial, IdsKnown
<1>12. Flow(c, o.unread, Carrier("src"), ends[Other("src")][c].got, o.wrote, o.st)
  BY <1>1, <1>2 DEF FlowOK
<1>13. Flow(c, o.unread, Carrier("src"), ends[Other("src")][c].got, o.wrote, "open")
  BY <1>4, <1>12, FlowOpens
<1>14. Flow(c, ends'["src"][c].unread, Carrier("src"), ends[Other("src")][c].got, ends'["src"][c].wrote, ends'["src"][c].st)
  BY <1>4, <1>6, <1>13
<1>15. FlowOK'
  BY <1>1, <1>2, <1>4, <1>6, <1>7, <1>14, FlowElsewhere
<1>16. \A b : Queued(b)' <=> Queued(b) \/ b = c
  BY <1>8, <1>9, <1>10 DEF Queued
<1>17. \A d \in Sides, b \in Conns : NotEnded(d, b)' <=> NotEnded(d, b)
  BY <1>2, <1>4, <1>6 DEF NotEnded
<1>18. /\ Idle("src", c) /\ ~Named(names, c) /\ ~Queued(c) /\ ~Accepted(c)
  BY <1>2, <1>4 DEF Linked, ConnsInv, NoneOK
<1>19. NotEnded("src", c)
  BY <1>18, ElemsEmpty DEF Idle, NotEnded, Unended
<1>20. \A b : Accepted(b)' <=> Accepted(b)
  BY <1>7 DEF Accepted
<1>21. NoneOK(names)'
  <2>1. ASSUME NEW b \in Conns, ends'["src"][b].st = "none"
        PROVE  Idle("src", b)' /\ ~Named(names, b) /\ ~Queued(b)' /\ ~Accepted(b)'
    <3>1. b # c /\ ends'["src"][b] = ends["src"][b]
      BY <1>1, <1>4, <1>6, <2>1
    <3> QED BY <1>16, <1>20, <2>1, <3>1 DEF Linked, ConnsInv, NoneOK, Idle
  <2> QED BY <2>1 DEF NoneOK, Named
<1>22. QueuedOK(names)'
  BY <1>1, <1>16, <1>17, <1>18, <1>19, <1>20 DEF Linked, ConnsInv, QueuedOK, Named
<1>23. QueuedOnce'
  <2>1. \A k \in Handlers : c \notin Elems(backlog[k])
    BY <1>18 DEF Queued
  <2>4. QueuedOnce
    BY DEF Linked, ConnsInv
  <2>2. ASSUME NEW k \in Handlers, NEW x, NEW y, Earlier(backlog'[k], x, y) PROVE x # y
    <3>1. CASE k = h
      <4>1. Earlier(q, x, y) \/ (x \in Elems(q) /\ y = c)
        BY <1>9, <1>10, <2>2, <3>1
      <4>2. CASE Earlier(q, x, y)
        BY <1>8, <2>4, <4>2 DEF QueuedOnce
      <4>3. CASE x \in Elems(q) /\ y = c
        BY <1>8, <2>1, <4>3
      <4> QED BY <4>1, <4>2, <4>3
    <3>2. CASE k # h
      BY <1>10, <2>2, <2>4, <3>2 DEF QueuedOnce
    <3> QED BY <3>1, <3>2
  <2>5. \A k \in Handlers : Elems(backlog'[k]) = Elems(backlog[k]) \/ (k = h /\ Elems(backlog'[k]) = Elems(backlog[k]) \cup {c})
    BY <1>8, <1>9, <1>10
  <2>3. ASSUME NEW k \in Handlers, NEW l \in Handlers, NEW x, x \in Elems(backlog'[k]), x \in Elems(backlog'[l])
        PROVE  k = l
    <3>1. CASE x = c
      BY <2>1, <2>3, <2>5, <3>1
    <3>2. CASE x # c
      <4>1. x \in Elems(backlog[k]) /\ x \in Elems(backlog[l])
        BY <2>3, <2>5, <3>2
      <4> QED BY <2>4, <4>1 DEF QueuedOnce
    <3> QED BY <3>1, <3>2
  <2> QED BY <2>2, <2>3 DEF QueuedOnce, Earlier, Elems
<1>24. UnnamedOK(names)'
  BY <1>1, <1>6 DEF Linked, ConnsInv, UnnamedOK, Named, Idle
<1>25. DestsOK(names)'
  <2>1. \A id \in DOMAIN dests : dests[id] \in Conns
    BY DEF Types, MapsTyped, IsPartial
  <2> QED BY <1>1, <1>7, <1>17, <2>1 DEF Linked, ConnsInv, DestsOK
<1>26. FdsInv(names)'
  <2>1. \A fd \in DOMAIN fdConn : fdConn[fd] \in Conns
    BY DEF Types, MapsTyped, IsPartial
  <2>2. FdsOK'
    BY <1>1, <1>7, <1>17, <2>1 DEF Linked, FdsInv, FdsOK
  <2>3. AwaitedOK' /\ SocketsOK(names)'
    BY <1>7 DEF Linked, FdsInv, AwaitedOK, SocketsOK, Awaited
  <2> QED BY <2>2, <2>3 DEF FdsInv
<1>27. WireInv(names)'
  BY <1>7 DEF Linked, WireInv, RequestsOK, ResponsesOK, OneAnswer, KindsOK, DataOK, DataAnswered, Awaited, Named, Answering
<1>28. PairInv' /\ NamesOK(names)'
  BY <1>7 DEF Linked, PairInv, EndsOnce, DestKept, SourceKept, SourceHas, EndIn, Answering, NamesOK
<1> QED BY <1>11, <1>15, <1>21, <1>22, <1>23, <1>24, <1>25, <1>26, <1>27, <1>28 DEF Linked, ConnsInv

-----------------------------------------------------------------------------
(* Packets that are taken and sent.                                        *)

LEMMA FlowParts ==
    ASSUME FlowOK, NEW c \in Conns
    PROVE  /\ Flow(c, ends["src"][c].unread, toDest, ends["dst"][c].got, ends["src"][c].wrote, ends["src"][c].st)
           /\ Flow(c, ends["dst"][c].unread, toSource, ends["src"][c].got, ends["dst"][c].wrote, ends["dst"][c].st)
<1>1. /\ "src" \in Sides /\ "dst" \in Sides /\ Other("src") = "dst" /\ Other("dst") = "src"
      /\ Carrier("src") = toDest /\ Carrier("dst") = toSource
  BY DEF Sides, Other, Carrier
<1> QED BY <1>1 DEF FlowOK

LEMMA FlowPartsNext ==
    ASSUME \A c \in Conns :
             /\ Flow(c, ends'["src"][c].unread, toDest', ends'["dst"][c].got, ends'["src"][c].wrote, ends'["src"][c].st)
             /\ Flow(c, ends'["dst"][c].unread, toSource', ends'["src"][c].got, ends'["dst"][c].wrote, ends'["dst"][c].st)
    PROVE  FlowOK'
<1>1. /\ Other("src") = "dst" /\ Other("dst") = "src"
      /\ Carrier("src")' = toDest' /\ Carrier("dst")' = toSource'
  BY DEF Other, Carrier
<1>2. ASSUME NEW d \in Sides, NEW b \in Conns
      PROVE  Flow(b, ends'[d][b].unread, Carrier(d)', ends'[Other(d)][b].got, ends'[d][b].wrote, ends'[d][b].st)
  <2>1. CASE d = "src"
    BY <1>1, <2>1
  <2>2. CASE d = "dst"
    BY <1>1, <2>2
  <2> QED BY <2>1, <2>2, SidesAre
<1> QED BY <1>2, Zenon DEF FlowOK, Flow, UnreadOK, CarriedOK, GotOK, Elems, Earlier, Carries, Goes, Under

\* A packet that carries nothing is sent.
LEMMA FlowPosted ==
    ASSUME NEW c, NEW u, NEW q \in Seq(Wire), NEW g, NEW w, NEW s, Flow(c, u, q, g, w, s),
           NEW z \in Wire, ~IsData(z)
    PROVE  Flow(c, u, Append(q, z), g, w, s)
<1>1. PICK r : r = Append(q, z)
  OBVIOUS
<1>2. /\ Elems(r) = Elems(q) \cup {z}
      /\ \A x, y : Earlier(r, x, y) <=> Earlier(q, x, y) \/ (x \in Elems(q) /\ y = z)
  BY <1>1, ElemsAppend
<1>3. \A b : ~Carries(z, b)
  BY DEF Carries, IsData
<1>4. \A x, y : Earlier(q, x, y) => x \in Elems(q) /\ y \in Elems(q)
  BY EarlierTyped
<1>5. CarriedOK(c, u, r, w, s)
  BY <1>2, <1>3, <1>4 DEF Flow, CarriedOK
<1>6. GotOK(c, u, r, g, w)
  BY <1>2, <1>3 DEF Flow, GotOK
<1>7. Flow(c, u, r, g, w, s)
  BY <1>5, <1>6 DEF Flow
<1> QED BY <1>1, <1>7

\* q loses its first element p.
Takes(q, r, p) ==
    /\ r \in Seq(Wire) /\ p \in Wire /\ p \in Elems(q)
    /\ \A x : x \in Elems(q) <=> x = p \/ x \in Elems(r)
    /\ \A x, y : Earlier(r, x, y) => Earlier(q, x, y)
    /\ \A x, y : Earlier(q, x, y) => Earlier(r, x, y) \/ (x = p /\ y \in Elems(r))
    /\ \A y \in Elems(r) : Earlier(q, p, y)

LEMMA TakesIs == ASSUME NEW q \in Seq(Wire), q # <<>> PROVE Takes(q, Tail(q), Head(q))
<1>1. PICK r, p : r = Tail(q) /\ p = Head(q)
  OBVIOUS
<1>2. /\ r \in Seq(Wire) /\ p \in Wire /\ Elems(q) = Elems(r) \cup {p}
      /\ \A x, y : Earlier(q, x, y) <=> Earlier(r, x, y) \/ (x = p /\ y \in Elems(r))
  BY <1>1, ElemsTail
<1>3. Takes(q, r, p)
  BY <1>2 DEF Takes
<1> QED BY <1>1, <1>3

\* q gets z as its last element.
Gains(q, r, z) ==
    /\ r \in Seq(Wire)
    /\ \A x : x \in Elems(r) <=> x = z \/ x \in Elems(q)
    /\ \A x, y : Earlier(q, x, y) => Earlier(r, x, y)
    /\ \A x, y : Earlier(r, x, y) => Earlier(q, x, y) \/ (x \in Elems(q) /\ y = z)
    /\ \A x \in Elems(q) : Earlier(r, x, z)

LEMMA GainsIs == ASSUME NEW q \in Seq(Wire), NEW z \in Wire PROVE Gains(q, Append(q, z), z)
<1>1. PICK r : r = Append(q, z)
  OBVIOUS
<1>2. /\ r \in Seq(Wire) /\ Elems(r) = Elems(q) \cup {z}
      /\ \A x, y : Earlier(r, x, y) <=> Earlier(q, x, y) \/ (x \in Elems(q) /\ y = z)
  BY <1>1, ElemsAppend
<1>3. Gains(q, r, z)
  BY <1>2 DEF Gains
<1> QED BY <1>1, <1>3

-----------------------------------------------------------------------------
(* The connecting side answers a request.                                  *)

\* A response takes the place of a request.
LEMMA Answered ==
    ASSUME Types, NEW names, Linked(names), NEW p, NEW z, IsRequest(p), IsResponse(z), z.fd = p.fd,
           Takes(toDest, toDest', p), Gains(toSource, toSource', z)
    PROVE  OneAnswer' /\ KindsOK'
<1>1. OneAnswer /\ KindsOK
  BY DEF Linked, WireInv
<1>2. /\ \A x : x \in Elems(toDest') => x \in Elems(toDest)
      /\ \A x : x \in Elems(toSource') => x = z \/ x \in Elems(toSource)
      /\ p \in Elems(toDest)
  BY DEF Takes, Gains
<1>3. ~IsRequest(z)
  BY KindsApart
<1>4. ASSUME NEW x \in Elems(toDest'), NEW y \in Elems(toSource'), IsRequest(x), IsResponse(y) PROVE x.fd # y.fd
  <2>1. CASE y = z
    <3>1. Earlier(toDest, p, x)
      BY DEF Takes
    <3> QED BY <1>1, <1>2, <1>4, <2>1, <3>1 DEF OneAnswer
  <2>2. CASE y # z
    BY <1>1, <1>2, <1>4, <2>2 DEF OneAnswer
  <2> QED BY <2>1, <2>2
<1>5. ASSUME NEW x \in Elems(toDest'), NEW y \in Elems(toDest'), Earlier(toDest', x, y), IsRequest(x), IsRequest(y)
      PROVE  x.fd # y.fd
  <2>1. Earlier(toDest, x, y)
    BY <1>5 DEF Takes
  <2> QED BY <1>1, <1>2, <1>5, <2>1 DEF OneAnswer
<1>6. ASSUME NEW x \in Elems(toSource'), NEW y \in Elems(toSource'), Earlier(toSource', x, y), IsResponse(x), IsResponse(y)
      PROVE  x.fd # y.fd
  <2>0. toSource \in Seq(Wire)
    BY DEF Types, WireTyped
  <2>1. CASE Earlier(toSource, x, y)
    <3>1. x \in Elems(toSource) /\ y \in Elems(toSource)
      BY <2>0, <2>1, EarlierTyped
    <3> QED BY <1>1, <1>6, <2>1, <3>1 DEF OneAnswer
  <2>2. CASE x \in Elems(toSource) /\ y = z
    BY <1>1, <1>2, <1>6, <2>2 DEF OneAnswer
  <2> QED BY <1>6, <2>1, <2>2 DEF Gains
<1>7. OneAnswer'
  BY <1>4, <1>5, <1>6, Zenon DEF OneAnswer, Elems, Earlier, IsRequest, IsResponse
<1>8. KindsOK'
  BY <1>1, <1>2, <1>3 DEF KindsOK, Elems, IsRequest, IsResponse
<1> QED BY <1>7, <1>8

LEMMA DestRefuses ==
    ASSUME ForwardAssumption, Types, FlowOK, NEW names, Linked(names), DestHandlesRequest,
           RefuseDestination(Head(toDest))
    PROVE  Types' /\ FlowOK' /\ Linked(names)'
<1>1. PICK p : p = Head(toDest)
  OBVIOUS
<1>2. toDest \in Seq(Wire) /\ toSource \in Seq(Wire) /\ toDest # <<>> /\ toDest' = Tail(toDest) /\ IsRequest(p)
  BY <1>1 DEF Types, WireTyped, DestHandlesRequest, IsRequest
<1>3. Takes(toDest, toDest', p)
  BY <1>1, <1>2, TakesIs
<1>4. p \in Wire /\ p.fd \in Fds /\ p.conn \in Conns /\ p \in Elems(toDest)
  BY <1>2, <1>3, WireParts DEF Takes
<1>5. PICK z : z = [kind |-> "response", fd |-> p.fd, id |-> 0]
  OBVIOUS
<1>6. z \in Wire /\ IsResponse(z) /\ z.fd = p.fd /\ z.id = 0 /\ ~IsData(z) /\ ~IsEnd(z) /\ ~IsRequest(z)
  BY <1>4, <1>5 DEF Wire, IsResponse, IsData, IsEnd, IsRequest
<1>7. toSource' = Append(toSource, z)
  BY <1>1, <1>5 DEF RefuseDestination
<1>8. Gains(toSource, toSource', z)
  BY <1>2, <1>6, <1>7, GainsIs
<1>9. UNCHANGED <<ends, backlog, fdConn, unassignedFds, socketFdMap, idHandler, dests, lastId, stalls>>
  BY DEF DestHandlesRequest, RefuseDestination, ids
<1>10. /\ toDest' \in Seq(Wire) /\ toSource' \in Seq(Wire)
       /\ \A x : x \in Elems(toDest') => x \in Elems(toDest)
       /\ \A x : x \in Elems(toSource') <=> x = z \/ x \in Elems(toSource)
       /\ \A x : x \in Elems(toDest) <=> x = p \/ x \in Elems(toDest')
       /\ \A x, y : Earlier(toSource, x, y) => Earlier(toSource', x, y)
  BY <1>3, <1>8 DEF Takes, Gains
<1>11. Types'
  <2>1. EndsTyped' /\ MapsTyped'
    BY <1>9 DEF Types, EndsTyped, MapsTyped, IsPartial
  <2>2. IdsKnown(toDest)' /\ IdsKnown(toSource)'
    <3>1. IdsKnown(toDest) /\ IdsKnown(toSource) /\ lastId \in Nat
      BY DEF Types, WireTyped, MapsTyped
    <3>2. \A x \in Elems(toDest') : (IsResponse(x) => x.id \in 0..lastId) /\ (IsData(x) => x.id \in 1..lastId)
      BY <1>10, <3>1 DEF IdsKnown
    <3>3. \A x \in Elems(toSource') : (IsResponse(x) => x.id \in 0..lastId) /\ (IsData(x) => x.id \in 1..lastId)
      BY <1>6, <1>10, <3>1 DEF IdsKnown
    <3> QED BY <1>9, <3>2, <3>3 DEF IdsKnown, Elems, IsResponse, IsData
  <2> QED BY <1>10, <2>1, <2>2 DEF Types, WireTyped
<1>12. FlowOK'
  <2>1. ASSUME NEW c \in Conns
        PROVE  /\ Flow(c, ends'["src"][c].unread, toDest', ends'["dst"][c].got, ends'["src"][c].wrote, ends'["src"][c].st)
               /\ Flow(c, ends'["dst"][c].unread, toSource', ends'["src"][c].got, ends'["dst"][c].wrote, ends'["dst"][c].st)
    <3>1. Flow(c, ends["src"][c].unread, Tail(toDest), ends["dst"][c].got, ends["src"][c].wrote, ends["src"][c].st)
      BY <1>2, FlowParts, FlowTaken
    <3>2. Flow(c, ends["dst"][c].unread, Append(toSource, z), ends["src"][c].got, ends["dst"][c].wrote, ends["dst"][c].st)
      BY <1>2, <1>6, FlowParts, FlowPosted
    <3> QED BY <1>2, <1>7, <1>9, <3>1, <3>2
  <2> QED BY <2>1, FlowPartsNext
<1>13. ConnsInv(names)' /\ FdsInv(names)' /\ NamesOK(names)'
  BY <1>9 DEF Linked, ConnsInv, NoneOK, QueuedOK, QueuedOnce, UnnamedOK, DestsOK, FdsInv, FdsOK, AwaitedOK, SocketsOK,
     NamesOK, Named, Idle, NotEnded, Queued, Accepted, Awaited
<1>14. WireInv(names)
  BY DEF Linked
<1>15. Awaited(p.fd) /\ \A fd : Awaited(fd)' <=> Awaited(fd)
  BY <1>2, <1>4, <1>9, <1>14 DEF WireInv, RequestsOK, Awaited
<1>16. OneAnswer' /\ KindsOK'
  BY <1>2, <1>3, <1>6, <1>8, Answered
<1>17. RequestsOK(names)' /\ DataOK(names)'
  <2>1. /\ \A x \in Elems(toDest') : IsRequest(x) =>
              Awaited(x.fd)' /\ fdConn[x.fd] = x.conn /\ ~Named(names, x.conn)
        /\ \A x \in Elems(toDest') : IsData(x) => x.item.conn = names[x.id]
        /\ \A x \in Elems(toSource') : IsData(x) => x.item.conn = names[x.id]
    BY <1>6, <1>10, <1>14, <1>15 DEF WireInv, RequestsOK, DataOK
  <2> QED BY <1>9, <2>1 DEF RequestsOK, DataOK, Named, Elems, IsRequest, IsData
<1>18. ResponsesOK(names)'
  <2>1. \A x \in Elems(toSource') : IsResponse(x) =>
           Awaited(x.fd)' /\ (x.id # 0 => names[x.id] = fdConn[x.fd] /\ x.id \notin DOMAIN idHandler)
    BY <1>6, <1>10, <1>14, <1>15 DEF WireInv, ResponsesOK
  <2> QED BY <1>9, <2>1 DEF ResponsesOK, Elems, IsResponse
<1>19. \A id : id # 0 => (Answering(id)' <=> Answering(id))
  BY <1>6, <1>10 DEF Answering
<1>20. \A id : (EndIn(toDest, id)' <=> EndIn(toDest, id)) /\ (EndIn(toSource, id)' <=> EndIn(toSource, id))
  <2>1. ~IsEnd(p)
    BY <1>2 DEF IsRequest, IsEnd
  <2> QED BY <1>6, <1>10, <2>1 DEF EndIn
<1>21. \A id : SourceHas(id)' <=> SourceHas(id)
  BY <1>9 DEF SourceHas
<1>22. DataAnswered'
  <2>1. \A x \in Elems(toDest') : IsData(x) => ~Answering(x.id)'
    <3>1. \A x \in Elems(toDest') : IsData(x) => x.id # 0
      BY <1>10 DEF Types, WireTyped, IdsKnown, MapsTyped
    <3> QED BY <1>10, <1>14, <1>19, <3>1 DEF WireInv, DataAnswered
  <2>2. ASSUME NEW x \in Elems(toSource'), IsData(x)
        PROVE  \/ x.id \in DOMAIN idHandler
               \/ \E y \in Elems(toSource') : IsResponse(y) /\ y.id = x.id /\ Earlier(toSource', y, x)
    <3>1. x \in Elems(toSource)
      BY <1>6, <1>10, <2>2
    <3> QED BY <1>10, <1>14, <2>2, <3>1 DEF WireInv, DataAnswered
  <2> QED BY <1>9, <2>1, <2>2 DEF DataAnswered, Elems, IsData, IsResponse, Earlier
<1>23. EndsOnce'
  <2>1. /\ \A x \in Elems(toDest') : IsEnd(x) => ~SourceHas(x.id)'
        /\ \A x \in Elems(toSource') : IsEnd(x) => x.id \notin DOMAIN dests
    BY <1>6, <1>10, <1>21 DEF Linked, PairInv, EndsOnce
  <2> QED BY <1>9, <2>1 DEF EndsOnce, Elems, IsEnd
<1>24. \A id \in 1..lastId : id # 0
  OBVIOUS
<1>25. DOMAIN dests \subseteq 1..lastId
  BY DEF Types, MapsTyped, IsPartial
<1>26. DestKept' /\ SourceKept'
  BY <1>9, <1>19, <1>20, <1>21, <1>24, <1>25 DEF Linked, PairInv, DestKept, SourceKept
<1> QED BY <1>11, <1>12, <1>13, <1>16, <1>17, <1>18, <1>22, <1>23, <1>26 DEF Linked, WireInv, PairInv

\* The draw while no id has come a second time.
DrawsNew(p) ==
    /\ lastId' = lastId + 1
    /\ dests' = With(dests, lastId + 1, p.conn)
    /\ ends' = [ends EXCEPT !["dst"][p.conn].st = "open"]
    /\ toSource' = Append(toSource, [kind |-> "response", fd |-> p.fd, id |-> lastId + 1])

LEMMA DrawIsNew ==
    ASSUME lastId \in Nat, redraws \in Nat, redraws' = 0, NEW p, CreateDestination(p) PROVE DrawsNew(p)
<1>1. PICK id \in 1..(lastId + 1) \ DOMAIN dests :
         /\ lastId' = IF id > lastId THEN id ELSE lastId
         /\ redraws' = IF id <= lastId THEN redraws + 1 ELSE redraws
         /\ dests' = With(dests, id, p.conn)
         /\ ends' = [ends EXCEPT !["dst"][p.conn].st = "open"]
         /\ toSource' = Append(toSource, [kind |-> "response", fd |-> p.fd, id |-> id])
  BY DEF CreateDestination
<1>2. id = lastId + 1 /\ lastId' = lastId + 1
  <2>1. id \in Nat /\ 1 <= id /\ id <= lastId + 1
    BY <1>1
  <2>2. ~(id <= lastId)
    BY <1>1, <2>1
  <2> QED BY <1>1, <2>1, <2>2
<1> QED BY <1>1, <1>2 DEF DrawsNew

LEMMA DestCreates ==
    ASSUME ForwardAssumption, Types, FlowOK, NEW names, Linked(names), DestHandlesRequest,
           DrawsNew(Head(toDest))
    PROVE  Types' /\ FlowOK' /\ \E more : Linked(more)'
<1>1. PICK p : p = Head(toDest)
  OBVIOUS
<1>2. toDest \in Seq(Wire) /\ toSource \in Seq(Wire) /\ toDest # <<>> /\ toDest' = Tail(toDest) /\ IsRequest(p)
  BY <1>1 DEF Types, WireTyped, DestHandlesRequest, IsRequest
<1>3. Takes(toDest, toDest', p)
  BY <1>1, <1>2, TakesIs
<1>4. p \in Wire /\ p.fd \in Fds /\ p.conn \in Conns /\ p \in Elems(toDest)
  BY <1>2, <1>3, WireParts DEF Takes
<1>5. PICK i \in Nat : i = lastId + 1
  BY DEF Types, MapsTyped
<1>6. lastId \in Nat /\ lastId' = i /\ i # 0 /\ i \notin 1..lastId /\ i \notin 0..lastId /\ i \in 1..i
      /\ 1..lastId \subseteq 1..i /\ 0..lastId \subseteq 0..i /\ 1..i = 1..lastId \cup {i}
  BY <1>5 DEF Types, MapsTyped, DrawsNew
<1>7. PICK z : z = [kind |-> "response", fd |-> p.fd, id |-> i]
  OBVIOUS
<1>8. z \in Wire /\ IsResponse(z) /\ z.fd = p.fd /\ z.id = i /\ ~IsData(z) /\ ~IsEnd(z) /\ ~IsRequest(z)
  BY <1>4, <1>7 DEF Wire, IsResponse, IsData, IsEnd, IsRequest
<1>9. toSource' = Append(toSource, z)
  BY <1>1, <1>6, <1>7 DEF DrawsNew
<1>10. Gains(toSource, toSource', z)
  BY <1>2, <1>8, <1>9, GainsIs
<1>11. UNCHANGED <<backlog, fdConn, unassignedFds, socketFdMap, idHandler, stalls>>
  BY DEF DestHandlesRequest
<1>12. /\ toDest' \in Seq(Wire) /\ toSource' \in Seq(Wire)
       /\ \A x : x \in Elems(toDest') => x \in Elems(toDest)
       /\ \A x : x \in Elems(toSource') <=> x = z \/ x \in Elems(toSource)
       /\ \A x : x \in Elems(toDest) <=> x = p \/ x \in Elems(toDest')
       /\ \A x, y : Earlier(toSource, x, y) => Earlier(toSource', x, y)
       /\ \A x \in Elems(toDest') : Earlier(toDest, p, x)
  BY <1>3, <1>10 DEF Takes, Gains
<1>13. dests' = With(dests, i, p.conn)
  BY <1>1, <1>6 DEF DrawsNew
<1>14. IsPartial(dests, 1..lastId, Conns)
  BY DEF Types, MapsTyped
<1>15. /\ DOMAIN dests' = DOMAIN dests \cup {i} /\ dests'[i] = p.conn /\ i \notin DOMAIN dests
       /\ \A j \in DOMAIN dests : j # i /\ dests'[j] = dests[j]
  BY <1>6, <1>13, <1>14 DEF With, IsPartial
<1>16. IsPartial(dests', 1..i, Conns)
  BY <1>4, <1>6, <1>13, <1>14, <1>15 DEF With, IsPartial
<1>17. WireInv(names) /\ NamesOK(names) /\ ConnsInv(names) /\ FdsInv(names) /\ PairInv
  BY DEF Linked
<1>18. Awaited(p.fd) /\ fdConn[p.fd] = p.conn /\ ~Named(names, p.conn) /\ p.fd \in DOMAIN fdConn
  BY <1>2, <1>4, <1>17 DEF WireInv, RequestsOK, FdsInv, AwaitedOK, Awaited
<1>19. Accepted(p.conn) /\ Idle("dst", p.conn)
  BY <1>4, <1>17, <1>18 DEF Accepted, ConnsInv, UnnamedOK
<1>20. "src" \in Sides /\ "dst" \in Sides
  BY SidesAre
<1>21. PICK o \in EndRec : o = ends["dst"][p.conn]
  BY <1>4, <1>20, EndsAt DEF Types
<1>22. PICK r : r = [o EXCEPT !.st = "open"]
  OBVIOUS
<1>23. /\ r \in EndRec /\ r.got = o.got /\ r.st = "open" /\ r.wrote = o.wrote /\ r.unread = o.unread
       /\ o.st = "none" /\ o.got = <<>>
  BY <1>19, <1>21, <1>22 DEF EndRec, Idle
<1>24. ends' = [ends EXCEPT !["dst"][p.conn] = r]
  BY <1>1, <1>21, <1>22 DEF DrawsNew
<1>25. /\ EndsTyped' /\ ends'["dst"][p.conn] = r
       /\ \A d \in Sides, b \in Conns : d # "dst" \/ b # p.conn => ends'[d][b] = ends[d][b]
  BY <1>4, <1>20, <1>23, <1>24, EndsSet DEF Types
<1>26. \A d \in Sides, b \in Conns : ends'[d][b].got = ends[d][b].got /\ (NotEnded(d, b)' <=> NotEnded(d, b))
  BY <1>21, <1>23, <1>25 DEF NotEnded
<1>27. Types'
  <2>1. MapsTyped'
    <3>1. /\ IsPartial(fdConn', Fds, Conns) /\ \A h \in Handlers : IsPartial(socketFdMap'[h], 1..i, Fds)
          /\ IsPartial(idHandler', 1..i, Handlers)
      BY <1>6, <1>11 DEF Types, MapsTyped, IsPartial
    <3>2. /\ backlog' \in [Handlers -> Seq(Conns)] /\ unassignedFds' \in [Handlers -> SUBSET Fds]
          /\ socketFdMap' = [h \in Handlers |-> socketFdMap'[h]] /\ stalls' \in 0..MaxStalls
      BY <1>11 DEF Types, MapsTyped
    <3> QED BY <1>6, <1>16, <3>1, <3>2 DEF MapsTyped, IsPartial
  <2>2. IdsKnown(toDest)' /\ IdsKnown(toSource)'
    <3>1. IdsKnown(toDest) /\ IdsKnown(toSource)
      BY DEF Types, WireTyped
    <3>2. \A x \in Elems(toDest') : (IsResponse(x) => x.id \in 0..i) /\ (IsData(x) => x.id \in 1..i)
      BY <1>6, <1>12, <3>1 DEF IdsKnown
    <3>3. \A x \in Elems(toSource') : (IsResponse(x) => x.id \in 0..i) /\ (IsData(x) => x.id \in 1..i)
      BY <1>6, <1>8, <1>12, <3>1 DEF IdsKnown
    <3> QED BY <1>6, <3>2, <3>3 DEF IdsKnown, Elems, IsResponse, IsData
  <2> QED BY <1>12, <1>25, <2>1, <2>2 DEF Types, WireTyped
<1>28. FlowOK'
  <2>1. ASSUME NEW c \in Conns
        PROVE  /\ Flow(c, ends'["src"][c].unread, toDest', ends'["dst"][c].got, ends'["src"][c].wrote, ends'["src"][c].st)
               /\ Flow(c, ends'["dst"][c].unread, toSource', ends'["src"][c].got, ends'["dst"][c].wrote, ends'["dst"][c].st)
    <3>1. Flow(c, ends["src"][c].unread, Tail(toDest), ends["dst"][c].got, ends["src"][c].wrote, ends["src"][c].st)
      BY <1>2, FlowParts, FlowTaken
    <3>2. Flow(c, ends["dst"][c].unread, Append(toSource, z), ends["src"][c].got, ends["dst"][c].wrote, ends["dst"][c].st)
      BY <1>2, <1>8, FlowParts, FlowPosted
    <3>3. ends'["src"][c] = ends["src"][c] /\ ends'["dst"][c].got = ends["dst"][c].got
      BY <1>20, <1>25, <1>26
    <3>4. Flow(c, ends'["dst"][c].unread, Append(toSource, z), ends["src"][c].got, ends'["dst"][c].wrote, ends'["dst"][c].st)
      <4>1. CASE c = p.conn
        <5>1. ends["dst"][c].st # "closed"
          BY <1>21, <1>23, <4>1
        <5>2. Flow(c, ends["dst"][c].unread, Append(toSource, z), ends["src"][c].got, ends["dst"][c].wrote, "open")
          BY <3>2, <5>1, FlowOpens
        <5> QED BY <1>21, <1>23, <1>25, <4>1, <5>2
      <4>2. CASE c # p.conn
        BY <1>20, <1>25, <3>2, <4>2
      <4> QED BY <4>1, <4>2
    <3> QED BY <1>2, <1>9, <3>1, <3>3, <3>4
  <2> QED BY <2>1, FlowPartsNext
<1>29. PICK more : more = With(names, i, p.conn)
  OBVIOUS
<1>30. /\ DOMAIN more = 1..i /\ more[i] = p.conn /\ more = [j \in DOMAIN more |-> more[j]]
       /\ \A j \in 1..lastId : more[j] = names[j] /\ j # i
  BY <1>6, <1>17, <1>29 DEF With, NamesOK
<1>31. \A c : Named(more, c) <=> Named(names, c) \/ c = p.conn
  BY <1>6, <1>17, <1>30 DEF Named, NamesOK
<1>32. NamesOK(more)'
  <2>1. \A j \in 1..i : more[j] \in Conns
    BY <1>4, <1>6, <1>17, <1>30 DEF NamesOK
  <2>2. ASSUME NEW j \in 1..i, NEW k \in 1..i, more[j] = more[k] PROVE j = k
    <3>1. \A l \in 1..lastId : names[l] # p.conn
      BY <1>17, <1>18 DEF Named, NamesOK
    <3> QED BY <1>6, <1>17, <1>30, <2>2, <3>1 DEF NamesOK
  <2> QED BY <1>6, <1>30, <2>1, <2>2 DEF NamesOK
<1>33. /\ \A c : (Queued(c)' <=> Queued(c)) /\ (Accepted(c)' <=> Accepted(c))
       /\ \A fd : Awaited(fd)' <=> Awaited(fd)
  BY <1>11 DEF Queued, Accepted, Awaited
<1>34. ConnsInv(more)'
  <2>1. \A c \in Conns : ends'["src"][c].st = "none" =>
            Idle("src", c)' /\ ~Named(more, c) /\ ~Queued(c)' /\ ~Accepted(c)'
    BY <1>17, <1>19, <1>20, <1>25, <1>31, <1>33 DEF ConnsInv, NoneOK, Idle
  <2>2. \A c \in Conns : Queued(c)' => NotEnded("src", c)' /\ ~Named(more, c) /\ ~Accepted(c)'
    BY <1>17, <1>19, <1>20, <1>26, <1>31, <1>33 DEF ConnsInv, QueuedOK
  <2>3. \A c \in Conns : ~Named(more, c) => Idle("dst", c)'
    BY <1>17, <1>20, <1>25, <1>31 DEF ConnsInv, UnnamedOK, Idle
  <2>4. \A j \in DOMAIN dests' : dests'[j] = more[j] /\ Unended(ends'["dst"][dests'[j]].got)
    <3>1. Unended(ends'["dst"][p.conn].got)
      BY <1>23, <1>25, ElemsEmpty DEF Unended
    <3>2. \A j \in DOMAIN dests : j \in 1..lastId /\ dests[j] \in Conns
      BY <1>14 DEF IsPartial
    <3>3. \A j \in DOMAIN dests : dests[j] = more[j] /\ Unended(ends'["dst"][dests[j]].got)
      BY <1>17, <1>20, <1>26, <1>30, <3>2 DEF ConnsInv, DestsOK, NotEnded
    <3>4. ASSUME NEW j \in DOMAIN dests' PROVE dests'[j] = more[j] /\ Unended(ends'["dst"][dests'[j]].got)
      <4>1. CASE j = i
        BY <1>15, <1>30, <3>1, <4>1
      <4>2. CASE j # i
        BY <1>15, <3>3, <3>4, <4>2
      <4> QED BY <4>1, <4>2
    <3> QED BY <3>4
  <2>5. QueuedOnce'
    BY <1>11, <1>17 DEF ConnsInv, QueuedOnce
  <2>6. NoneOK(more)' /\ QueuedOK(more)' /\ UnnamedOK(more)'
    BY <2>1, <2>2, <2>3 DEF NoneOK, QueuedOK, UnnamedOK, Named
  <2>7. DestsOK(more)'
    BY <2>4 DEF DestsOK, NotEnded, Unended, Elems
  <2> QED BY <2>5, <2>6, <2>7 DEF ConnsInv
<1>35. FdsInv(more)'
  <2>1. \A fd \in DOMAIN fdConn : fdConn[fd] \in Conns
    BY DEF Types, MapsTyped, IsPartial
  <2>2. \A h \in Handlers : DOMAIN socketFdMap[h] \subseteq 1..lastId
    BY DEF Types, MapsTyped, IsPartial
  <2>3. FdsOK'
    BY <1>11, <1>17, <1>20, <1>26, <2>1 DEF FdsInv, FdsOK, NotEnded
  <2>4. AwaitedOK'
    BY <1>11, <1>17 DEF FdsInv, AwaitedOK
  <2>5. SocketsOK(more)'
    BY <1>11, <1>17, <1>30, <2>2 DEF FdsInv, SocketsOK, Awaited
  <2> QED BY <2>3, <2>4, <2>5 DEF FdsInv
<1>36. OneAnswer' /\ KindsOK'
  BY <1>2, <1>3, <1>8, <1>10, Answered
<1>37. /\ \A x \in Elems(toDest) : IsData(x) => x.id \in 1..lastId
       /\ \A x \in Elems(toSource) : /\ IsData(x) => x.id \in 1..lastId
                                     /\ IsResponse(x) /\ x.id # 0 => x.id \in 1..lastId
  BY <1>6 DEF Types, WireTyped, IdsKnown
<1>38. RequestsOK(more)'
  <2>1. ASSUME NEW x \in Elems(toDest'), IsRequest(x)
        PROVE  Awaited(x.fd)' /\ fdConn[x.fd] = x.conn /\ ~Named(more, x.conn)
    <3>1. x \in Elems(toDest) /\ Earlier(toDest, p, x)
      BY <1>12
    <3>2. Awaited(x.fd) /\ fdConn[x.fd] = x.conn /\ ~Named(names, x.conn)
      BY <1>17, <2>1, <3>1 DEF WireInv, RequestsOK
    <3>3. p.fd # x.fd
      BY <1>2, <1>4, <1>17, <2>1, <3>1 DEF WireInv, OneAnswer
    <3>4. x.fd \in DOMAIN fdConn
      BY <1>17, <3>2 DEF FdsInv, AwaitedOK, Awaited
    <3>5. x.conn # p.conn
      BY <1>17, <1>18, <3>2, <3>3, <3>4 DEF FdsInv, FdsOK
    <3> QED BY <1>31, <1>33, <3>2, <3>5
  <2> QED BY <1>11, <2>1 DEF RequestsOK, Named, Elems, IsRequest
<1>39. DataOK(more)'
  <2>1. /\ \A x \in Elems(toDest') : IsData(x) => x.item.conn = more[x.id]
        /\ \A x \in Elems(toSource') : IsData(x) => x.item.conn = more[x.id]
    BY <1>8, <1>12, <1>17, <1>30, <1>37 DEF WireInv, DataOK
  <2> QED BY <2>1 DEF DataOK, Elems, IsData
<1>40. ResponsesOK(more)'
  <2>1. DOMAIN idHandler \subseteq 1..lastId
    BY DEF Types, MapsTyped, IsPartial
  <2>2. ASSUME NEW x \in Elems(toSource'), IsResponse(x)
        PROVE  Awaited(x.fd)' /\ (x.id # 0 => more[x.id] = fdConn[x.fd] /\ x.id \notin DOMAIN idHandler)
    <3>1. CASE x = z
      BY <1>6, <1>8, <1>18, <1>30, <1>33, <2>1, <3>1
    <3>2. CASE x # z
      <4>1. x \in Elems(toSource)
        BY <1>12, <3>2
      <4>2. Awaited(x.fd) /\ (x.id # 0 => names[x.id] = fdConn[x.fd] /\ x.id \notin DOMAIN idHandler)
        BY <1>17, <2>2, <4>1 DEF WireInv, ResponsesOK
      <4> QED BY <1>30, <1>33, <1>37, <2>2, <4>1, <4>2
    <3> QED BY <3>1, <3>2
  <2> QED BY <1>11, <2>2 DEF ResponsesOK, Elems, IsResponse
<1>41. \A id : Answering(id)' <=> Answering(id) \/ id = i
  BY <1>8, <1>12 DEF Answering
<1>42. \A id : (EndIn(toDest, id)' <=> EndIn(toDest, id)) /\ (EndIn(toSource, id)' <=> EndIn(toSource, id))
  <2>1. ~IsEnd(p)
    BY <1>2 DEF IsRequest, IsEnd
  <2> QED BY <1>8, <1>12, <2>1 DEF EndIn
<1>43. \A id : SourceHas(id)' <=> SourceHas(id)
  BY <1>11 DEF SourceHas
<1>44. DataAnswered'
  <2>1. \A x \in Elems(toDest') : IsData(x) => ~Answering(x.id)'
    BY <1>6, <1>12, <1>17, <1>37, <1>41 DEF WireInv, DataAnswered
  <2>2. ASSUME NEW x \in Elems(toSource'), IsData(x)
        PROVE  \/ x.id \in DOMAIN idHandler
               \/ \E y \in Elems(toSource') : IsResponse(y) /\ y.id = x.id /\ Earlier(toSource', y, x)
    <3>1. x \in Elems(toSource)
      BY <1>8, <1>12, <2>2
    <3> QED BY <1>12, <1>17, <2>2, <3>1 DEF WireInv, DataAnswered
  <2> QED BY <1>11, <2>1, <2>2 DEF DataAnswered, Elems, IsData, IsResponse, Earlier
<1>45. EndsOnce'
  <2>1. /\ \A x \in Elems(toDest') : IsEnd(x) => ~SourceHas(x.id)'
        /\ \A x \in Elems(toSource') : IsEnd(x) => x.id \notin DOMAIN dests'
    <3>1. \A x : IsEnd(x) => IsData(x)
      BY DEF IsEnd, IsData
    <3> QED BY <1>6, <1>8, <1>12, <1>15, <1>17, <1>37, <1>43, <3>1 DEF PairInv, EndsOnce
  <2> QED BY <2>1 DEF EndsOnce, Elems, IsEnd
<1>46. DestKept'
  BY <1>11, <1>15, <1>17, <1>41, <1>42, <1>43 DEF PairInv, DestKept
<1>47. SourceKept'
  <2>1. ASSUME NEW id \in 1..i, SourceHas(id) \/ Answering(id) \/ id = i PROVE id \in DOMAIN dests' \/ EndIn(toSource, id)
    BY <1>6, <1>15, <1>17, <2>1 DEF PairInv, SourceKept
  <2> QED BY <1>6, <1>41, <1>42, <1>43, <2>1 DEF SourceKept
<1>48. Linked(more)'
  BY <1>32, <1>34, <1>35, <1>36, <1>38, <1>39, <1>40, <1>44, <1>45, <1>46, <1>47 DEF Linked, WireInv, PairInv
<1> QED BY <1>27, <1>28, <1>48

-----------------------------------------------------------------------------
(* Data reaches the connecting side.                                       *)

LEMMA DestDataTaken ==
    ASSUME Types, NEW names, Linked(names), NEW p, IsData(p), Takes(toDest, toDest', p),
           UNCHANGED <<backlog, fdConn, unassignedFds, socketFdMap, idHandler, lastId, toSource>>,
           DOMAIN dests' \subseteq DOMAIN dests, \A id \in DOMAIN dests' : ~(IsEnd(p) /\ p.id = id),
           \A id \in DOMAIN dests : id \in DOMAIN dests' \/ (IsEnd(p) /\ p.id = id)
    PROVE  NamesOK(names)' /\ QueuedOnce' /\ AwaitedOK' /\ SocketsOK(names)' /\ WireInv(names)' /\ PairInv'
<1>1. NamesOK(names)' /\ QueuedOnce' /\ AwaitedOK' /\ SocketsOK(names)'
  BY DEF Linked, ConnsInv, FdsInv, NamesOK, QueuedOnce, AwaitedOK, SocketsOK, Awaited
<1>2. /\ \A x : x \in Elems(toDest') => x \in Elems(toDest)
      /\ \A x : x \in Elems(toDest) <=> x = p \/ x \in Elems(toDest')
      /\ \A x, y : Earlier(toDest', x, y) => Earlier(toDest, x, y)
      /\ p \in Elems(toDest)
  BY DEF Takes
<1>3. WireInv(names)
  BY DEF Linked
<1>4. RequestsOK(names)' /\ DataOK(names)'
  <2>1. \A x \in Elems(toDest') : IsRequest(x) => Awaited(x.fd) /\ fdConn[x.fd] = x.conn /\ ~Named(names, x.conn)
    BY <1>2, <1>3 DEF WireInv, RequestsOK
  <2>2. /\ \A x \in Elems(toDest') : IsData(x) => x.item.conn = names[x.id]
        /\ \A x \in Elems(toSource) : IsData(x) => x.item.conn = names[x.id]
    BY <1>2, <1>3 DEF WireInv, DataOK
  <2> QED BY <2>1, <2>2 DEF RequestsOK, DataOK, Named, Elems, IsRequest, IsData, Awaited
<1>5. ResponsesOK(names)'
  BY <1>3 DEF WireInv, ResponsesOK, Awaited
<1>6. OneAnswer' /\ KindsOK'
  <2>1. \A x \in Elems(toDest'), y \in Elems(toSource) : IsRequest(x) /\ IsResponse(y) => x.fd # y.fd
    BY <1>2, <1>3 DEF WireInv, OneAnswer
  <2>2. \A x, y \in Elems(toDest') : Earlier(toDest', x, y) /\ IsRequest(x) /\ IsRequest(y) => x.fd # y.fd
    BY <1>2, <1>3 DEF WireInv, OneAnswer
  <2>3. \A x, y \in Elems(toSource) : Earlier(toSource, x, y) /\ IsResponse(x) /\ IsResponse(y) => x.fd # y.fd
    BY <1>3 DEF WireInv, OneAnswer
  <2>4. \A x \in Elems(toDest') : ~IsResponse(x)
    BY <1>2, <1>3 DEF WireInv, KindsOK
  <2>5. \A x \in Elems(toSource) : ~IsRequest(x)
    BY <1>3 DEF WireInv, KindsOK
  <2>6. OneAnswer'
    BY <2>1, <2>2, <2>3 DEF OneAnswer, Elems, IsRequest, IsResponse, Earlier
  <2>7. KindsOK'
    BY <2>4, <2>5 DEF KindsOK, Elems, IsRequest, IsResponse
  <2> QED BY <2>6, <2>7
<1>7. \A id : (Answering(id)' <=> Answering(id)) /\ (EndIn(toSource, id)' <=> EndIn(toSource, id)) /\ (SourceHas(id)' <=> SourceHas(id))
  BY DEF Answering, EndIn, SourceHas
<1>8. DataAnswered'
  <2>1. \A x \in Elems(toDest') : IsData(x) => ~Answering(x.id)'
    BY <1>2, <1>3, <1>7 DEF WireInv, DataAnswered
  <2>2. \A x \in Elems(toSource) : IsData(x) =>
          \/ x.id \in DOMAIN idHandler
          \/ \E y \in Elems(toSource) : IsResponse(y) /\ y.id = x.id /\ Earlier(toSource, y, x)
    BY <1>3 DEF WireInv, DataAnswered
  <2> QED BY <2>1, <2>2 DEF DataAnswered, Elems, IsData
<1>9. EndsOnce'
  <2>1. \A x \in Elems(toDest') : IsEnd(x) => ~SourceHas(x.id)'
    BY <1>2, <1>7 DEF Linked, PairInv, EndsOnce
  <2>2. \A x \in Elems(toSource) : IsEnd(x) => x.id \notin DOMAIN dests'
    BY DEF Linked, PairInv, EndsOnce
  <2> QED BY <2>1, <2>2 DEF EndsOnce, Elems, IsEnd
<1>10. DestKept'
  <2>1. ASSUME NEW id \in DOMAIN dests'
        PROVE  /\ SourceHas(id)' \/ EndIn(toDest, id)' \/ Answering(id)'
               /\ id \in DOMAIN idHandler \/ Answering(id)'
    <3>1. id \in DOMAIN dests
      OBVIOUS
    <3>2. EndIn(toDest, id) => EndIn(toDest, id)'
      BY <1>2 DEF EndIn
    <3> QED BY <1>7, <3>1, <3>2 DEF Linked, PairInv, DestKept
  <2> QED BY <2>1 DEF DestKept
<1>11. SourceKept'
  <2>1. ASSUME NEW id \in 1..lastId, SourceHas(id) \/ Answering(id) PROVE id \in DOMAIN dests' \/ EndIn(toSource, id)
    <3>1. id \in DOMAIN dests \/ EndIn(toSource, id)
      BY <2>1 DEF Linked, PairInv, SourceKept
    <3>2. IsEnd(p) => p.id # id
      BY <1>2, <1>3, <2>1 DEF Linked, PairInv, EndsOnce, WireInv, DataAnswered
    <3> QED BY <3>1, <3>2
  <2> QED BY <1>7, <2>1 DEF SourceKept
<1> QED BY <1>1, <1>4, <1>5, <1>6, <1>8, <1>9, <1>10, <1>11 DEF WireInv, PairInv

\* Only the end of a named connection on the connecting side changes.
LEMMA DestEndChanges ==
    ASSUME Types, NEW names, Linked(names), NEW c \in Conns, Named(names, c),
           \A b \in Conns : ends'["src"][b] = ends["src"][b] /\ (b # c => ends'["dst"][b] = ends["dst"][b]),
           UNCHANGED <<backlog, fdConn>>
    PROVE  NoneOK(names)' /\ QueuedOK(names)' /\ UnnamedOK(names)' /\ FdsOK'
<1>1. ConnsInv(names) /\ FdsInv(names)
  BY DEF Linked
<1>2. \A b : (Queued(b)' <=> Queued(b)) /\ (Accepted(b)' <=> Accepted(b))
  BY DEF Queued, Accepted
<1>3. \A b \in Conns : (NotEnded("src", b)' <=> NotEnded("src", b)) /\ (Idle("src", b)' <=> Idle("src", b))
  BY DEF NotEnded, Idle
<1>4. NoneOK(names)'
  BY <1>1, <1>2, <1>3 DEF ConnsInv, NoneOK, Named
<1>5. QueuedOK(names)'
  BY <1>1, <1>2, <1>3 DEF ConnsInv, QueuedOK, Named
<1>6. UnnamedOK(names)'
  BY <1>1 DEF ConnsInv, UnnamedOK, Named, Idle
<1>7. FdsOK'
  <2>1. \A fd \in DOMAIN fdConn : fdConn[fd] \in Conns
    BY DEF Types, MapsTyped, IsPartial
  <2> QED BY <1>1, <1>3, <2>1 DEF FdsInv, FdsOK, NotEnded
<1> QED BY <1>4, <1>5, <1>6, <1>7

LEMMA HangupIs ==
    ASSUME EndsTyped, MaxData \in Nat, NEW e \in Sides, NEW cs, ends' = Hangup(ends, e, cs)
    PROVE  /\ EndsTyped'
           /\ \A d \in Sides, b \in Conns : d # e \/ b \notin cs => ends'[d][b] = ends[d][b]
           /\ \A b \in Conns : b \in cs =>
                /\ ends'[e][b].st = ends[e][b].st /\ ends'[e][b].wrote = ends[e][b].wrote /\ ends'[e][b].unread = <<>>
                /\ ends[e][b].st = "open" => ends'[e][b].got = Append(ends[e][b].got, End(b))
                /\ ends[e][b].st # "open" => ends'[e][b].got = ends[e][b].got
<1> DEFINE N(b) == IF b \in cs
                   THEN [ends[e][b] EXCEPT !.unread = <<>>,
                             !.got = IF ends[e][b].st = "open" THEN Append(@, End(b)) ELSE @]
                   ELSE ends[e][b]
<1>1. ends' = [ends EXCEPT ![e] = [b \in Conns |-> N(b)]]
  BY DEF Hangup
<1>2. ASSUME NEW b \in Conns, b \in cs
      PROVE  /\ N(b) \in EndRec /\ N(b).st = ends[e][b].st /\ N(b).wrote = ends[e][b].wrote /\ N(b).unread = <<>>
             /\ ends[e][b].st = "open" => N(b).got = Append(ends[e][b].got, End(b))
             /\ ends[e][b].st # "open" => N(b).got = ends[e][b].got
  <2>1. PICK o \in EndRec : o = ends[e][b]
    BY EndsAt
  <2>2. PICK g \in Seq(Items) : g = o.got
    BY <2>1 DEF EndRec
  <2>3. End(b) \in Items
    BY ItemIs DEF End
  <2>4. PICK f \in Seq(Items) : f = Append(g, End(b))
    BY <2>3, ElemsAppend
  <2>8. <<>> \in Seq(Items)
    OBVIOUS
  <2>7. PICK m \in Seq(Items) : m = <<>>
    BY <2>8, Zenon
  <2>5. CASE o.st = "open"
    <3>1. N(b) = [o EXCEPT !.unread = m, !.got = f]
      BY <1>2, <2>1, <2>2, <2>4, <2>5, <2>7
    <3>2. [o EXCEPT !.unread = m, !.got = f] \in EndRec
      BY <2>1 DEF EndRec
    <3> QED BY <2>1, <2>2, <2>4, <2>5, <2>7, <3>1, <3>2 DEF EndRec
  <2>6. CASE o.st # "open"
    <3>1. N(b) = [o EXCEPT !.unread = m, !.got = g]
      BY <1>2, <2>1, <2>2, <2>6, <2>7
    <3>2. [o EXCEPT !.unread = m, !.got = g] \in EndRec
      BY <2>1 DEF EndRec
    <3> QED BY <2>1, <2>2, <2>6, <2>7, <3>1, <3>2 DEF EndRec
  <2> QED BY <2>5, <2>6
<1>3. ASSUME NEW b \in Conns, b \notin cs PROVE N(b) \in EndRec /\ N(b) = ends[e][b]
  BY <1>3, EndsAt
<1>4. \A b \in Conns : N(b) \in EndRec
  BY <1>2, <1>3
<1> HIDE DEF N
<1>5. /\ ends' \in [Sides -> [Conns -> EndRec]] /\ \A b \in Conns : ends'[e][b] = N(b)
      /\ \A d \in Sides, b \in Conns : d # e => ends'[d][b] = ends[d][b]
  BY <1>1, <1>4 DEF EndsTyped
<1>6. \A d \in Sides, b \in Conns : d # e \/ b \notin cs => ends'[d][b] = ends[d][b]
  BY <1>3, <1>5
<1>7. \A b \in Conns : b \in cs =>
                /\ ends'[e][b].st = ends[e][b].st /\ ends'[e][b].wrote = ends[e][b].wrote /\ ends'[e][b].unread = <<>>
                /\ ends[e][b].st = "open" => ends'[e][b].got = Append(ends[e][b].got, End(b))
                /\ ends[e][b].st # "open" => ends'[e][b].got = ends[e][b].got
  BY <1>2, <1>5
<1>8. EndsTyped'
  BY <1>5 DEF EndsTyped, EndRec, Items
<1> QED BY <1>6, <1>7, <1>8

LEMMA DestTypes ==
    ASSUME Types, NEW p, Takes(toDest, toDest', p), EndsTyped', IsPartial(dests', 1..lastId, Conns), stalls' \in 0..MaxStalls,
           UNCHANGED <<backlog, fdConn, unassignedFds, socketFdMap, idHandler, lastId, toSource>>
    PROVE  Types'
<1>1. MapsTyped'
  BY DEF Types, MapsTyped, IsPartial
<1>2. toDest' \in Seq(Wire) /\ \A x : x \in Elems(toDest') => x \in Elems(toDest)
  BY DEF Takes
<1>3. \A x \in Elems(toDest') : (IsResponse(x) => x.id \in 0..lastId) /\ (IsData(x) => x.id \in 1..lastId)
  BY <1>2 DEF Types, WireTyped, IdsKnown
<1>4. IdsKnown(toDest)'
  BY <1>3 DEF IdsKnown, Elems, IsResponse, IsData
<1>5. IdsKnown(toSource)'
  BY DEF Types, WireTyped, IdsKnown
<1> QED BY <1>1, <1>2, <1>4, <1>5 DEF Types, WireTyped

LEMMA DestDrops ==
    ASSUME ForwardAssumption, Types, FlowOK, NEW names, Linked(names), DestHandlesData, Head(toDest).id \notin DOMAIN dests
    PROVE  Types' /\ FlowOK' /\ Linked(names)'
<1>1. PICK p : p = Head(toDest)
  OBVIOUS
<1>2. toDest \in Seq(Wire) /\ toDest # <<>> /\ toDest' = Tail(toDest) /\ IsData(p) /\ p.id \notin DOMAIN dests
  BY <1>1 DEF Types, WireTyped, DestHandlesData, IsData
<1>3. Takes(toDest, toDest', p)
  BY <1>1, <1>2, TakesIs
<1>4. UNCHANGED <<ends, backlog, fdConn, unassignedFds, socketFdMap, idHandler, dests, lastId, toSource, stalls>>
  BY <1>1, <1>2 DEF DestHandlesData, ids
<1>5. Types'
  <2>1. EndsTyped' /\ IsPartial(dests', 1..lastId, Conns) /\ stalls' \in 0..MaxStalls
    BY <1>4 DEF Types, EndsTyped, MapsTyped
  <2> QED BY <1>3, <1>4, <2>1, DestTypes
<1>6. FlowOK'
  <2>1. ASSUME NEW c \in Conns
        PROVE  /\ Flow(c, ends'["src"][c].unread, toDest', ends'["dst"][c].got, ends'["src"][c].wrote, ends'["src"][c].st)
               /\ Flow(c, ends'["dst"][c].unread, toSource', ends'["src"][c].got, ends'["dst"][c].wrote, ends'["dst"][c].st)
    <3>1. Flow(c, ends["src"][c].unread, Tail(toDest), ends["dst"][c].got, ends["src"][c].wrote, ends["src"][c].st)
      BY <1>2, FlowParts, FlowTaken
    <3> QED BY <1>2, <1>4, <3>1, FlowParts
  <2> QED BY <2>1, FlowPartsNext
<1>7. NamesOK(names)' /\ QueuedOnce' /\ AwaitedOK' /\ SocketsOK(names)' /\ WireInv(names)' /\ PairInv'
  BY <1>2, <1>3, <1>4, DestDataTaken
<1>8. NoneOK(names)' /\ QueuedOK(names)' /\ UnnamedOK(names)' /\ DestsOK(names)' /\ FdsOK'
  BY <1>4 DEF Linked, ConnsInv, FdsInv, NoneOK, QueuedOK, UnnamedOK, DestsOK, FdsOK, Named, Idle, Queued, Accepted, NotEnded
<1> QED BY <1>5, <1>6, <1>7, <1>8 DEF Linked, ConnsInv, FdsInv

LEMMA DestHangsUp ==
    ASSUME ForwardAssumption, Types, FlowOK, NEW names, Linked(names), DestHandlesData, Head(toDest).id \in DOMAIN dests,
           Head(toDest).item.n = 0
    PROVE  Types' /\ FlowOK' /\ Linked(names)'
<1>1. PICK p : p = Head(toDest)
  OBVIOUS
<1>2. /\ toDest \in Seq(Wire) /\ toDest # <<>> /\ toDest' = Tail(toDest) /\ IsData(p) /\ p.id \in DOMAIN dests
      /\ p.item.n = 0
  BY <1>1 DEF Types, WireTyped, DestHandlesData, IsData
<1>3. Takes(toDest, toDest', p)
  BY <1>1, <1>2, TakesIs
<1>4. UNCHANGED <<backlog, fdConn, unassignedFds, socketFdMap, idHandler, lastId, toSource, stalls>>
  BY <1>1, <1>2 DEF DestHandlesData, ids
<1>5. PICK c : c = dests[p.id]
  OBVIOUS
<1>6. ends' = Hangup(ends, "dst", {c}) /\ dests' = Without(dests, {p.id})
  BY <1>1, <1>2, <1>5 DEF DestHandlesData
<1>7. IsPartial(dests, 1..lastId, Conns) /\ MaxData \in Nat
  BY DEF Types, MapsTyped, ForwardAssumption
<1>8. /\ DOMAIN dests' = DOMAIN dests \ {p.id} /\ \A id \in DOMAIN dests' : dests'[id] = dests[id]
      /\ IsPartial(dests', 1..lastId, Conns)
  BY <1>6, <1>7, WithoutPartial DEF Without, Restrict
<1>9. c \in Conns /\ c = names[p.id] /\ p.id \in 1..lastId /\ "src" \in Sides /\ "dst" \in Sides
  BY <1>2, <1>5, <1>7, SidesAre DEF Linked, ConnsInv, DestsOK, IsPartial
<1>10. NamesOK(names)
  BY DEF Linked
<1>11. Named(names, c)
  BY <1>9, <1>10 DEF Named, NamesOK
<1>12. Unended(ends["dst"][c].got)
  BY <1>2, <1>5 DEF Linked, ConnsInv, DestsOK, NotEnded
<1>13. /\ EndsTyped'
       /\ \A b \in Conns : ends'["src"][b] = ends["src"][b] /\ (b # c => ends'["dst"][b] = ends["dst"][b])
       /\ ends'["dst"][c].st = ends["dst"][c].st /\ ends'["dst"][c].wrote = ends["dst"][c].wrote
       /\ ends'["dst"][c].unread = <<>>
       /\ ends["dst"][c].st = "open" => ends'["dst"][c].got = Append(ends["dst"][c].got, End(c))
       /\ ends["dst"][c].st # "open" => ends'["dst"][c].got = ends["dst"][c].got
  <2>1. PICK cs : cs = {c}
    OBVIOUS
  <2>2. EndsTyped /\ ends' = Hangup(ends, "dst", cs)
    BY <1>6, <2>1 DEF Types
  <2>3. /\ EndsTyped'
        /\ \A d \in Sides, b \in Conns : d # "dst" \/ b \notin cs => ends'[d][b] = ends[d][b]
        /\ \A b \in Conns : b \in cs =>
              /\ ends'["dst"][b].st = ends["dst"][b].st /\ ends'["dst"][b].wrote = ends["dst"][b].wrote
              /\ ends'["dst"][b].unread = <<>>
              /\ ends["dst"][b].st = "open" => ends'["dst"][b].got = Append(ends["dst"][b].got, End(b))
              /\ ends["dst"][b].st # "open" => ends'["dst"][b].got = ends["dst"][b].got
    BY <1>7, <1>9, <2>2, HangupIs
  <2> QED BY <1>9, <2>1, <2>3
<1>14. Types'
  <2>1. stalls' \in 0..MaxStalls
    BY <1>4 DEF Types, MapsTyped
  <2> QED BY <1>3, <1>4, <1>8, <1>13, <2>1, DestTypes
<1>15. FlowOK'
  <2>1. ASSUME NEW b \in Conns
        PROVE  /\ Flow(b, ends'["src"][b].unread, toDest', ends'["dst"][b].got, ends'["src"][b].wrote, ends'["src"][b].st)
               /\ Flow(b, ends'["dst"][b].unread, toSource', ends'["src"][b].got, ends'["dst"][b].wrote, ends'["dst"][b].st)
    <3>1. Flow(b, ends["src"][b].unread, Tail(toDest), ends["dst"][b].got, ends["src"][b].wrote, ends["src"][b].st)
      BY <1>2, FlowParts, FlowTaken
    <3>2. Flow(b, ends["dst"][b].unread, toSource, ends["src"][b].got, ends["dst"][b].wrote, ends["dst"][b].st)
      BY FlowParts
    <3>3. CASE b # c
      BY <1>2, <1>4, <1>13, <3>1, <3>2, <3>3
    <3>4. CASE b = c
      <4>1. Flow(c, <<>>, toSource, ends["src"][c].got, ends["dst"][c].wrote, ends["dst"][c].st)
        BY <3>2, <3>4, FlowForgets
      <4>2. Flow(c, ends["src"][c].unread, Tail(toDest), ends'["dst"][c].got, ends["src"][c].wrote, ends["src"][c].st)
        <5>1. CASE ends["dst"][c].st = "open"
          <6>1. End(c) \in Items /\ End(c).conn = c /\ End(c).n = 0
            BY <1>7, <1>9, ItemIs DEF End
          <6>2. ends["dst"][c].got \in Seq(Items) /\ ends["src"][c].wrote \in Nat /\ \A x \in Elems(ends["dst"][c].got) : x.n # 0
            BY <1>7, <1>9, <1>12, EndsAt DEF Types, Unended
          <6>3. Flow(c, ends["src"][c].unread, Tail(toDest), Append(ends["dst"][c].got, End(c)), ends["src"][c].wrote, ends["src"][c].st)
            BY <3>1, <3>4, <6>1, <6>2, FlowEnds
          <6> QED BY <1>13, <5>1, <6>3
        <5>2. CASE ends["dst"][c].st # "open"
          BY <1>13, <3>1, <3>4, <5>2
        <5> QED BY <5>1, <5>2
      <4> QED BY <1>2, <1>4, <1>9, <1>13, <3>4, <4>1, <4>2
    <3> QED BY <3>3, <3>4
  <2> QED BY <2>1, FlowPartsNext
<1>16. NamesOK(names)' /\ QueuedOnce' /\ AwaitedOK' /\ SocketsOK(names)' /\ WireInv(names)' /\ PairInv'
  <2>1. IsEnd(p)
    BY <1>2 DEF IsData, IsEnd
  <2> QED BY <1>2, <1>3, <1>4, <1>8, <2>1, DestDataTaken
<1>17. NoneOK(names)' /\ QueuedOK(names)' /\ UnnamedOK(names)' /\ FdsOK'
  BY <1>4, <1>9, <1>11, <1>13, DestEndChanges
<1>18. DestsOK(names)'
  <2>1. ASSUME NEW id \in DOMAIN dests' PROVE dests'[id] = names[id] /\ Unended(ends'["dst"][dests'[id]].got)
    <3>1. id \in DOMAIN dests /\ id # p.id /\ dests'[id] = dests[id]
      BY <1>8
    <3>2. dests[id] = names[id] /\ Unended(ends["dst"][dests[id]].got) /\ dests[id] \in Conns /\ id \in 1..lastId
      BY <1>7, <3>1 DEF Linked, ConnsInv, DestsOK, NotEnded, IsPartial
    <3>3. dests[id] # c
      BY <1>9, <1>10, <3>1, <3>2 DEF NamesOK
    <3> QED BY <1>13, <3>1, <3>2, <3>3
  <2> QED BY <2>1 DEF DestsOK, NotEnded, Unended, Elems
<1> QED BY <1>14, <1>15, <1>16, <1>17, <1>18 DEF Linked, ConnsInv, FdsInv

LEMMA GiveIs ==
    ASSUME ForwardAssumption, EndsTyped, stalls \in 0..MaxStalls, NEW e \in Sides, NEW c \in Conns, NEW x \in Items, Give(e, c, x)
    PROVE  /\ EndsTyped' /\ stalls' \in 0..MaxStalls
           /\ \A d \in Sides, b \in Conns : d # e \/ b # c => ends'[d][b] = ends[d][b]
           /\ ends'[e][c].st = ends[e][c].st /\ ends'[e][c].wrote = ends[e][c].wrote
           /\ ends'[e][c].unread = ends[e][c].unread
           /\ ends'[e][c].got = ends[e][c].got \/ ends'[e][c].got = Append(ends[e][c].got, x)
<1>1. CASE ends' = ends /\ stalls' \in 0..MaxStalls
  BY <1>1 DEF EndsTyped
<1>2. CASE ends' = [ends EXCEPT ![e][c].got = Append(@, x)] /\ stalls' = stalls
  <2>1. PICK o \in EndRec : o = ends[e][c]
    BY EndsAt
  <2>2. PICK g \in Seq(Items) : g = o.got
    BY <2>1 DEF EndRec
  <2>3. PICK f \in Seq(Items) : f = Append(g, x)
    BY ElemsAppend
  <2>4. PICK r : r = [o EXCEPT !.got = f]
    OBVIOUS
  <2>5. r \in EndRec /\ r.st = o.st /\ r.wrote = o.wrote /\ r.unread = o.unread /\ r.got = f
    BY <2>4 DEF EndRec
  <2>6. ends' = [ends EXCEPT ![e][c] = r]
    BY <1>2, <2>1, <2>2, <2>3, <2>4
  <2>7. /\ EndsTyped' /\ ends'[e][c] = r
        /\ \A d \in Sides, b \in Conns : d # e \/ b # c => ends'[d][b] = ends[d][b]
    BY <2>5, <2>6, EndsSet
  <2> QED BY <1>2, <2>1, <2>2, <2>3, <2>5, <2>7
<1>3. (ends' = ends /\ stalls' \in 0..MaxStalls) \/ (ends' = [ends EXCEPT ![e][c].got = Append(@, x)] /\ stalls' = stalls)
  BY DEF Give, ForwardAssumption
<1> QED BY <1>1, <1>2, <1>3

LEMMA GivenKept ==
    ASSUME NEW g \in Seq(Items), NEW f, NEW x \in Items, x.n # 0, Unended(g), f = g \/ f = Append(g, x)
    PROVE  Unended(f)
<1>1. Elems(f) = Elems(g) \/ Elems(f) = Elems(g) \cup {x}
  BY ElemsAppend
<1> QED BY <1>1 DEF Unended

LEMMA DestGives ==
    ASSUME ForwardAssumption, Types, FlowOK, NEW names, Linked(names), DestHandlesData, Head(toDest).id \in DOMAIN dests,
           Head(toDest).item.n > 0
    PROVE  Types' /\ FlowOK' /\ Linked(names)'
<1>1. PICK p : p = Head(toDest)
  OBVIOUS
<1>2. /\ toDest \in Seq(Wire) /\ toDest # <<>> /\ toDest' = Tail(toDest) /\ IsData(p) /\ p.id \in DOMAIN dests
      /\ p.item.n # 0
  BY <1>1 DEF Types, WireTyped, DestHandlesData, IsData
<1>3. Takes(toDest, toDest', p)
  BY <1>1, <1>2, TakesIs
<1>4. UNCHANGED <<backlog, fdConn, unassignedFds, socketFdMap, idHandler, dests, lastId, toSource>>
  BY <1>1, <1>2 DEF DestHandlesData, ids
<1>5. PICK c : c = dests[p.id]
  OBVIOUS
<1>6. Give("dst", c, p.item)
  BY <1>1, <1>2, <1>5 DEF DestHandlesData
<1>7. IsPartial(dests, 1..lastId, Conns) /\ MaxData \in Nat /\ stalls \in 0..MaxStalls
  BY DEF Types, MapsTyped, ForwardAssumption
<1>8. p \in Wire /\ p \in Elems(toDest) /\ p.item \in Items
  BY <1>2, <1>3, WireParts DEF Takes
<1>9. c \in Conns /\ c = names[p.id] /\ p.id \in 1..lastId /\ "src" \in Sides /\ "dst" \in Sides
  BY <1>2, <1>5, <1>7, SidesAre DEF Linked, ConnsInv, DestsOK, IsPartial
<1>10. NamesOK(names)
  BY DEF Linked
<1>11. Named(names, c)
  BY <1>9, <1>10 DEF Named, NamesOK
<1>12. Unended(ends["dst"][c].got)
  BY <1>2, <1>5 DEF Linked, ConnsInv, DestsOK, NotEnded
<1>13. /\ EndsTyped' /\ stalls' \in 0..MaxStalls
       /\ \A b \in Conns : ends'["src"][b] = ends["src"][b] /\ (b # c => ends'["dst"][b] = ends["dst"][b])
       /\ ends'["dst"][c].st = ends["dst"][c].st /\ ends'["dst"][c].wrote = ends["dst"][c].wrote
       /\ ends'["dst"][c].unread = ends["dst"][c].unread
       /\ ends'["dst"][c].got = ends["dst"][c].got \/ ends'["dst"][c].got = Append(ends["dst"][c].got, p.item)
  <2>1. /\ EndsTyped' /\ stalls' \in 0..MaxStalls
        /\ \A d \in Sides, b \in Conns : d # "dst" \/ b # c => ends'[d][b] = ends[d][b]
        /\ ends'["dst"][c].st = ends["dst"][c].st /\ ends'["dst"][c].wrote = ends["dst"][c].wrote
        /\ ends'["dst"][c].unread = ends["dst"][c].unread
        /\ ends'["dst"][c].got = ends["dst"][c].got \/ ends'["dst"][c].got = Append(ends["dst"][c].got, p.item)
    BY <1>6, <1>7, <1>8, <1>9, GiveIs DEF Types
  <2> QED BY <1>9, <2>1
<1>14. Types'
  BY <1>3, <1>4, <1>7, <1>13, DestTypes
<1>15. FlowOK'
  <2>1. ASSUME NEW b \in Conns
        PROVE  /\ Flow(b, ends'["src"][b].unread, toDest', ends'["dst"][b].got, ends'["src"][b].wrote, ends'["src"][b].st)
               /\ Flow(b, ends'["dst"][b].unread, toSource', ends'["src"][b].got, ends'["dst"][b].wrote, ends'["dst"][b].st)
    <3>1. Flow(b, ends["src"][b].unread, Tail(toDest), ends["dst"][b].got, ends["src"][b].wrote, ends["src"][b].st)
      BY <1>2, FlowParts, FlowTaken
    <3>2. Flow(b, ends["dst"][b].unread, toSource, ends["src"][b].got, ends["dst"][b].wrote, ends["dst"][b].st)
      BY FlowParts
    <3>3. CASE b # c
      BY <1>2, <1>4, <1>13, <3>1, <3>2, <3>3
    <3>4. CASE b = c /\ ends'["dst"][c].got = ends["dst"][c].got
      BY <1>2, <1>4, <1>13, <3>1, <3>2, <3>4
    <3>5. CASE b = c /\ ends'["dst"][c].got = Append(ends["dst"][c].got, p.item)
      <4>1. Carries(p, c)
        BY <1>2, <1>8, <1>9 DEF Carries, IsData, Linked, WireInv, DataOK
      <4>2. PICK g \in Seq(Items), u \in Seq(Items), w \in Nat, s \in {"none", "open", "closed"} :
               g = ends["dst"][c].got /\ u = ends["src"][c].unread /\ w = ends["src"][c].wrote /\ s = ends["src"][c].st
        <5>1. ends["dst"][c].got \in Seq(Items) /\ ends["src"][c].unread \in Seq(Items) /\ ends["src"][c].wrote \in Nat
              /\ ends["src"][c].st \in {"none", "open", "closed"}
          BY <1>7, <1>9, EndsAt DEF Types
        <5> QED BY <5>1, Zenon
      <4>3. Flow(c, u, toDest, g, w, s)
        BY <1>9, <4>2, FlowParts
      <4>4. \A x \in Elems(g) : x.n # 0
        BY <1>12, <4>2 DEF Unended
      <4>5. Flow(c, u, Tail(toDest), Append(g, Head(toDest).item), w, s)
        BY <1>1, <1>2, <1>7, <4>1, <4>3, <4>4, FlowGiven
      <4> QED BY <1>1, <1>2, <1>4, <1>13, <3>2, <3>5, <4>2, <4>5
    <3> QED BY <1>13, <3>3, <3>4, <3>5
  <2> QED BY <2>1, FlowPartsNext
<1>16. NamesOK(names)' /\ QueuedOnce' /\ AwaitedOK' /\ SocketsOK(names)' /\ WireInv(names)' /\ PairInv'
  <2>1. ~IsEnd(p)
    BY <1>2 DEF IsEnd
  <2> QED BY <1>2, <1>3, <1>4, <2>1, DestDataTaken
<1>17. NoneOK(names)' /\ QueuedOK(names)' /\ UnnamedOK(names)' /\ FdsOK'
  BY <1>4, <1>9, <1>11, <1>13, DestEndChanges
<1>18. DestsOK(names)'
  <2>0. Unended(ends'["dst"][c].got)
    <3>1. ends["dst"][c].got \in Seq(Items)
      BY <1>9, EndsAt DEF Types
    <3> QED BY <1>2, <1>8, <1>12, <1>13, <3>1, GivenKept
  <2>1. ASSUME NEW id \in DOMAIN dests PROVE dests[id] = names[id] /\ Unended(ends'["dst"][dests[id]].got)
    <3>2. dests[id] = names[id] /\ Unended(ends["dst"][dests[id]].got) /\ dests[id] \in Conns
      BY <1>7 DEF Linked, ConnsInv, DestsOK, NotEnded, IsPartial
    <3> QED BY <1>13, <2>0, <3>2
  <2> QED BY <1>4, <2>1 DEF DestsOK, NotEnded, Unended, Elems
<1> QED BY <1>14, <1>15, <1>16, <1>17, <1>18 DEF Linked, ConnsInv, FdsInv

-----------------------------------------------------------------------------
(* The listening side handles a response.                                  *)

\* What is taken from toSource leaves the rest as it was.
LEMMA SourceTaken ==
    ASSUME Types, NEW names, Linked(names), NEW p, Takes(toSource, toSource', p), UNCHANGED toDest
    PROVE  /\ OneAnswer' /\ KindsOK' /\ DataOK(names)'
           /\ \A id : Answering(id)' => Answering(id)
           /\ \A id : Answering(id) => Answering(id)' \/ (IsResponse(p) /\ p.id = id)
           /\ \A id : EndIn(toSource, id)' => EndIn(toSource, id)
           /\ \A id : EndIn(toSource, id) => EndIn(toSource, id)' \/ (IsEnd(p) /\ p.id = id)
           /\ \A id : EndIn(toDest, id)' <=> EndIn(toDest, id)
<1>1. WireInv(names)
  BY DEF Linked
<1>2. /\ \A x : x \in Elems(toSource') => x \in Elems(toSource)
      /\ \A x : x \in Elems(toSource) <=> x = p \/ x \in Elems(toSource')
      /\ \A x, y : Earlier(toSource', x, y) => Earlier(toSource, x, y)
  BY DEF Takes
<1>3. OneAnswer'
  <2>1. \A x \in Elems(toDest), y \in Elems(toSource') : IsRequest(x) /\ IsResponse(y) => x.fd # y.fd
    BY <1>1, <1>2 DEF WireInv, OneAnswer
  <2>2. \A x, y \in Elems(toDest) : Earlier(toDest, x, y) /\ IsRequest(x) /\ IsRequest(y) => x.fd # y.fd
    BY <1>1 DEF WireInv, OneAnswer
  <2>3. \A x, y \in Elems(toSource') : Earlier(toSource', x, y) /\ IsResponse(x) /\ IsResponse(y) => x.fd # y.fd
    BY <1>1, <1>2 DEF WireInv, OneAnswer
  <2> QED BY <2>1, <2>2, <2>3 DEF OneAnswer, Elems, IsRequest, IsResponse, Earlier
<1>4. KindsOK'
  <2>1. \A x \in Elems(toDest) : ~IsResponse(x)
    BY <1>1 DEF WireInv, KindsOK
  <2>2. \A x \in Elems(toSource') : ~IsRequest(x)
    BY <1>1, <1>2 DEF WireInv, KindsOK
  <2> QED BY <2>1, <2>2 DEF KindsOK, Elems, IsRequest, IsResponse
<1>5. DataOK(names)'
  <2>1. \A x \in Elems(toDest) : IsData(x) => x.item.conn = names[x.id]
    BY <1>1 DEF WireInv, DataOK
  <2>2. \A x \in Elems(toSource') : IsData(x) => x.item.conn = names[x.id]
    BY <1>1, <1>2 DEF WireInv, DataOK
  <2> QED BY <2>1, <2>2 DEF DataOK, Elems, IsData
<1>6. /\ \A id : Answering(id)' => Answering(id)
      /\ \A id : Answering(id) => Answering(id)' \/ (IsResponse(p) /\ p.id = id)
  BY <1>2 DEF Answering
<1>7. /\ \A id : EndIn(toSource, id)' => EndIn(toSource, id)
      /\ \A id : EndIn(toSource, id) => EndIn(toSource, id)' \/ (IsEnd(p) /\ p.id = id)
  BY <1>2 DEF EndIn
<1>8. \A id : EndIn(toDest, id)' <=> EndIn(toDest, id)
  BY DEF EndIn
<1> QED BY <1>3, <1>4, <1>5, <1>6, <1>7, <1>8

LEMMA SourceTypes ==
    ASSUME Types, NEW p, Takes(toSource, toSource', p), EndsTyped', IsPartial(fdConn', Fds, Conns),
           unassignedFds' \in [Handlers -> SUBSET Fds], socketFdMap' = [h \in Handlers |-> socketFdMap'[h]],
           \A h \in Handlers : IsPartial(socketFdMap'[h], 1..lastId, Fds), IsPartial(idHandler', 1..lastId, Handlers),
           stalls' \in 0..MaxStalls, UNCHANGED <<backlog, dests, lastId, toDest>>
    PROVE  Types'
<1>1. MapsTyped'
  BY DEF Types, MapsTyped, IsPartial
<1>2. toSource' \in Seq(Wire) /\ \A x : x \in Elems(toSource') => x \in Elems(toSource)
  BY DEF Takes
<1>3. \A x \in Elems(toSource') : (IsResponse(x) => x.id \in 0..lastId) /\ (IsData(x) => x.id \in 1..lastId)
  BY <1>2 DEF Types, WireTyped, IdsKnown
<1>4. IdsKnown(toSource)'
  BY <1>3 DEF IdsKnown, Elems, IsResponse, IsData
<1>5. IdsKnown(toDest)'
  BY DEF Types, WireTyped, IdsKnown
<1> QED BY <1>1, <1>2, <1>4, <1>5 DEF Types, WireTyped

\* The descriptor fd of handler h is not awaited any more.
LEMMA NotAwaited ==
    ASSUME Types, AwaitedOK, NEW h \in Handlers, NEW fd \in unassignedFds[h],
           unassignedFds' = [unassignedFds EXCEPT ![h] = @ \ {fd}]
    PROVE  /\ unassignedFds' \in [Handlers -> SUBSET Fds]
           /\ \A f : Awaited(f)' <=> Awaited(f) /\ f # fd
           /\ \A k \in Handlers : unassignedFds'[k] \subseteq unassignedFds[k]
           /\ fd \in DOMAIN fdConn /\ fd \in Fds
<1>1. unassignedFds \in [Handlers -> SUBSET Fds]
  BY DEF Types, MapsTyped
<1>2. /\ unassignedFds' \in [Handlers -> SUBSET Fds] /\ unassignedFds'[h] = unassignedFds[h] \ {fd}
      /\ \A k \in Handlers : k # h => unassignedFds'[k] = unassignedFds[k]
  BY <1>1
<1>3. \A k \in Handlers : unassignedFds'[k] = unassignedFds[k] \ {fd}
  BY <1>2 DEF AwaitedOK
<1>4. \A f : Awaited(f)' <=> Awaited(f) /\ f # fd
  BY <1>3 DEF Awaited
<1> QED BY <1>1, <1>2, <1>3, <1>4 DEF AwaitedOK

\* The socket of an accepted connection c of the listening side changes, or is closed.
LEMMA SourceEndChanges ==
    ASSUME Types, NEW names, Linked(names), NEW c \in Conns, Accepted(c),
           \A b \in Conns : ends'["dst"][b] = ends["dst"][b] /\ (b # c => ends'["src"][b] = ends["src"][b]),
           ends'["src"][c].st = ends["src"][c].st,
           DOMAIN fdConn' \subseteq DOMAIN fdConn, \A f \in DOMAIN fdConn' : fdConn'[f] = fdConn[f],
           (\E f \in DOMAIN fdConn' : fdConn'[f] = c) => Unended(ends'["src"][c].got),
           UNCHANGED <<backlog, dests, lastId>>
    PROVE  NamesOK(names)' /\ ConnsInv(names)' /\ FdsOK'
<1>1. NamesOK(names) /\ NoneOK(names) /\ QueuedOK(names) /\ QueuedOnce /\ UnnamedOK(names) /\ DestsOK(names) /\ FdsOK
  BY DEF Linked, ConnsInv, FdsInv
<1>2. NamesOK(names)' /\ QueuedOnce'
  BY <1>1 DEF NamesOK, QueuedOnce
<1>3. /\ \A b : Queued(b)' <=> Queued(b)
      /\ \A b : Accepted(b)' => Accepted(b)
  BY DEF Queued, Accepted
<1>4. NoneOK(names)'
  <2>1. ASSUME NEW b \in Conns, ends'["src"][b].st = "none"
        PROVE  ends["src"][b].st = "none" /\ ends'["src"][b] = ends["src"][b]
    BY <1>1, <2>1 DEF NoneOK
  <2>2. \A b \in Conns : ends'["src"][b].st = "none" =>
           Idle("src", b)' /\ ~Named(names, b) /\ ~Queued(b)' /\ ~Accepted(b)'
    BY <1>1, <1>3, <2>1 DEF NoneOK, Idle
  <2> QED BY <2>2 DEF NoneOK, Named
<1>5. QueuedOK(names)'
  <2>1. ASSUME NEW b \in Conns, Queued(b)'
        PROVE  Unended(ends'["src"][b].got) /\ ~Named(names, b) /\ ~Accepted(b)'
    <3>1. Queued(b) /\ Unended(ends["src"][b].got) /\ ~Named(names, b) /\ ~Accepted(b)
      BY <1>1, <1>3, <2>1 DEF QueuedOK, NotEnded
    <3> QED BY <1>3, <3>1
  <2> QED BY <2>1 DEF QueuedOK, NotEnded, Named, Unended, Elems
<1>6. UnnamedOK(names)'
  BY <1>1 DEF UnnamedOK, Idle, Named
<1>7. DestsOK(names)'
  <2>1. \A id \in DOMAIN dests : dests[id] \in Conns
    BY DEF Types, MapsTyped, IsPartial
  <2> QED BY <1>1, <2>1 DEF DestsOK, NotEnded, Unended, Elems
<1>8. FdsOK'
  <2>1. \A f \in DOMAIN fdConn : fdConn[f] \in Conns
    BY DEF Types, MapsTyped, IsPartial
  <2>2. ASSUME NEW f \in DOMAIN fdConn' PROVE Unended(ends'["src"][fdConn'[f]].got)
    <3>1. CASE fdConn'[f] = c
      BY <3>1
    <3>2. CASE fdConn'[f] # c
      BY <1>1, <2>1, <3>2 DEF FdsOK, NotEnded
    <3> QED BY <3>1, <3>2
  <2>3. \A f, g \in DOMAIN fdConn' : fdConn'[f] = fdConn'[g] => f = g
    BY <1>1 DEF FdsOK
  <2> QED BY <2>2, <2>3 DEF FdsOK, NotEnded, Unended, Elems
<1> QED BY <1>2, <1>4, <1>5, <1>6, <1>7, <1>8 DEF ConnsInv

\* The listening side takes a packet and closes the socket with descriptor fd.
SourceCloses(fd) ==
    /\ toSource # <<>> /\ toSource' = Tail(toSource) /\ ends' = Hangup(ends, "src", {fdConn[fd]})
    /\ fdConn' = Without(fdConn, {fd}) /\ UNCHANGED <<backlog, dests, lastId, toDest>>

LEMMA SourceHangsUp ==
    ASSUME ForwardAssumption, Types, FlowOK, NEW names, Linked(names), NEW fd \in DOMAIN fdConn, SourceCloses(fd)
    PROVE  /\ EndsTyped' /\ FlowOK' /\ NamesOK(names)' /\ ConnsInv(names)' /\ FdsOK'
           /\ IsPartial(fdConn', Fds, Conns) /\ DOMAIN fdConn' = DOMAIN fdConn \ {fd}
           /\ \A f \in DOMAIN fdConn' : fdConn'[f] = fdConn[f]
<1>1. /\ toSource \in Seq(Wire) /\ FdsOK /\ toSource # <<>> /\ toSource' = Tail(toSource)
      /\ UNCHANGED <<backlog, dests, lastId, toDest>>
  BY DEF Types, WireTyped, Linked, FdsInv, SourceCloses
<1>2. IsPartial(fdConn, Fds, Conns) /\ MaxData \in Nat
  BY DEF Types, MapsTyped, ForwardAssumption
<1>3. PICK c \in Conns : c = fdConn[fd]
  BY <1>2 DEF IsPartial
<1>4. /\ DOMAIN fdConn' = DOMAIN fdConn \ {fd} /\ \A f \in DOMAIN fdConn' : fdConn'[f] = fdConn[f]
      /\ IsPartial(fdConn', Fds, Conns)
  BY <1>2, WithoutPartial DEF SourceCloses, Without, Restrict
<1>5. "src" \in Sides /\ "dst" \in Sides
  BY SidesAre
<1>6. /\ EndsTyped'
      /\ \A b \in Conns : ends'["dst"][b] = ends["dst"][b] /\ (b # c => ends'["src"][b] = ends["src"][b])
      /\ ends'["src"][c].st = ends["src"][c].st /\ ends'["src"][c].wrote = ends["src"][c].wrote
      /\ ends'["src"][c].unread = <<>>
      /\ ends["src"][c].st = "open" => ends'["src"][c].got = Append(ends["src"][c].got, End(c))
      /\ ends["src"][c].st # "open" => ends'["src"][c].got = ends["src"][c].got
  <2>1. PICK cs : cs = {c}
    OBVIOUS
  <2>2. EndsTyped /\ ends' = Hangup(ends, "src", cs)
    BY <1>3, <2>1 DEF Types, SourceCloses
  <2>3. /\ EndsTyped'
        /\ \A d \in Sides, b \in Conns : d # "src" \/ b \notin cs => ends'[d][b] = ends[d][b]
        /\ \A b \in Conns : b \in cs =>
              /\ ends'["src"][b].st = ends["src"][b].st /\ ends'["src"][b].wrote = ends["src"][b].wrote
              /\ ends'["src"][b].unread = <<>>
              /\ ends["src"][b].st = "open" => ends'["src"][b].got = Append(ends["src"][b].got, End(b))
              /\ ends["src"][b].st # "open" => ends'["src"][b].got = ends["src"][b].got
    BY <1>2, <1>5, <2>2, HangupIs
  <2> QED BY <1>5, <2>1, <2>3
<1>7. Unended(ends["src"][c].got)
  BY <1>1, <1>3 DEF FdsOK, NotEnded
<1>8. FlowOK'
  <2>1. ASSUME NEW b \in Conns
        PROVE  /\ Flow(b, ends'["src"][b].unread, toDest', ends'["dst"][b].got, ends'["src"][b].wrote, ends'["src"][b].st)
               /\ Flow(b, ends'["dst"][b].unread, toSource', ends'["src"][b].got, ends'["dst"][b].wrote, ends'["dst"][b].st)
    <3>1. Flow(b, ends["dst"][b].unread, Tail(toSource), ends["src"][b].got, ends["dst"][b].wrote, ends["dst"][b].st)
      BY <1>1, FlowParts, FlowTaken
    <3>2. Flow(b, ends["src"][b].unread, toDest, ends["dst"][b].got, ends["src"][b].wrote, ends["src"][b].st)
      BY FlowParts
    <3>3. CASE b # c
      BY <1>1, <1>6, <3>1, <3>2, <3>3
    <3>4. CASE b = c
      <4>1. Flow(c, <<>>, toDest, ends["dst"][c].got, ends["src"][c].wrote, ends["src"][c].st)
        BY <3>2, <3>4, FlowForgets
      <4>2. Flow(c, ends["dst"][c].unread, Tail(toSource), ends'["src"][c].got, ends["dst"][c].wrote, ends["dst"][c].st)
        <5>1. CASE ends["src"][c].st = "open"
          <6>1. End(c) \in Items /\ End(c).conn = c /\ End(c).n = 0
            BY <1>2, ItemIs DEF End
          <6>2. ends["src"][c].got \in Seq(Items) /\ ends["dst"][c].wrote \in Nat /\ \A x \in Elems(ends["src"][c].got) : x.n # 0
            BY <1>2, <1>5, <1>7, EndsAt DEF Types, Unended
          <6>3. Flow(c, ends["dst"][c].unread, Tail(toSource), Append(ends["src"][c].got, End(c)), ends["dst"][c].wrote, ends["dst"][c].st)
            BY <3>1, <3>4, <6>1, <6>2, FlowEnds
          <6> QED BY <1>6, <5>1, <6>3
        <5>2. CASE ends["src"][c].st # "open"
          BY <1>1, <1>6, <3>1, <3>4, <5>2
        <5> QED BY <5>1, <5>2
      <4> QED BY <1>1, <1>6, <3>4, <4>1, <4>2
    <3> QED BY <3>3, <3>4
  <2> QED BY <2>1, FlowPartsNext
<1>9. NamesOK(names)' /\ ConnsInv(names)' /\ FdsOK'
  <2>1. Accepted(c)
    BY <1>3 DEF Accepted
  <2>2. ~\E f \in DOMAIN fdConn' : fdConn'[f] = c
    BY <1>1, <1>3, <1>4 DEF FdsOK
  <2>3. DOMAIN fdConn' \subseteq DOMAIN fdConn /\ \A f \in DOMAIN fdConn' : fdConn'[f] = fdConn[f]
    BY <1>4
  <2> QED BY <1>1, <1>3, <1>6, <2>1, <2>2, <2>3, SourceEndChanges
<1> QED BY <1>4, <1>6, <1>8, <1>9

LEMMA SourceRefused ==
    ASSUME ForwardAssumption, Types, FlowOK, NEW names, Linked(names), SourceHandlesResponse, ErrorResponse(Head(toSource)),
           Head(toSource).id = 0
    PROVE  Types' /\ FlowOK' /\ Linked(names)'
<1>1. PICK p : p = Head(toSource)
  OBVIOUS
<1>2. toSource \in Seq(Wire) /\ toSource # <<>> /\ toSource' = Tail(toSource) /\ IsResponse(p) /\ p.id = 0
  BY <1>1 DEF Types, WireTyped, SourceHandlesResponse, IsResponse
<1>3. Takes(toSource, toSource', p)
  BY <1>1, <1>2, TakesIs
<1>4. PICK h \in Handlers : /\ p.fd \in unassignedFds[h]
                            /\ ends' = Hangup(ends, "src", {fdConn[p.fd]}) /\ fdConn' = Without(fdConn, {p.fd})
                            /\ unassignedFds' = [unassignedFds EXCEPT ![h] = @ \ {p.fd}]
                            /\ UNCHANGED <<socketFdMap, idHandler>>
  BY <1>1 DEF ErrorResponse
<1>5. UNCHANGED <<backlog, dests, lastId, toDest, stalls>>
  BY DEF SourceHandlesResponse, ids
<1>6. ConnsInv(names) /\ FdsInv(names) /\ WireInv(names) /\ PairInv /\ NamesOK(names) /\ AwaitedOK /\ FdsOK
  BY DEF Linked, FdsInv
<1>7. PICK fd \in unassignedFds[h] : fd = p.fd
  BY <1>4
<1>8. /\ unassignedFds' \in [Handlers -> SUBSET Fds]
      /\ \A f : Awaited(f)' <=> Awaited(f) /\ f # fd
      /\ \A k \in Handlers : unassignedFds'[k] \subseteq unassignedFds[k]
      /\ fd \in DOMAIN fdConn /\ fd \in Fds
  BY <1>4, <1>6, <1>7, NotAwaited
<1>11. /\ EndsTyped' /\ FlowOK' /\ NamesOK(names)' /\ ConnsInv(names)' /\ FdsOK'
       /\ IsPartial(fdConn', Fds, Conns) /\ DOMAIN fdConn' = DOMAIN fdConn \ {fd}
       /\ \A f \in DOMAIN fdConn' : fdConn'[f] = fdConn[f]
  <2>1. SourceCloses(fd)
    BY <1>2, <1>4, <1>5, <1>7 DEF SourceCloses
  <2> QED BY <1>8, <2>1, SourceHangsUp
<1>14. Types'
  <2>1. /\ socketFdMap' = [k \in Handlers |-> socketFdMap'[k]] /\ stalls' \in 0..MaxStalls
        /\ \A k \in Handlers : IsPartial(socketFdMap'[k], 1..lastId, Fds)
        /\ IsPartial(idHandler', 1..lastId, Handlers)
    BY <1>4, <1>5 DEF Types, MapsTyped
  <2> QED BY <1>3, <1>5, <1>8, <1>11, <2>1, SourceTypes
<1>18. /\ OneAnswer' /\ KindsOK' /\ DataOK(names)'
       /\ \A id : Answering(id)' => Answering(id)
       /\ \A id : Answering(id) => Answering(id)' \/ (IsResponse(p) /\ p.id = id)
       /\ \A id : EndIn(toSource, id)' => EndIn(toSource, id)
       /\ \A id : EndIn(toSource, id) => EndIn(toSource, id)' \/ (IsEnd(p) /\ p.id = id)
       /\ \A id : EndIn(toDest, id)' <=> EndIn(toDest, id)
  BY <1>3, <1>5, SourceTaken
<1>19. AwaitedOK'
  <2>1. ASSUME NEW k \in Handlers, NEW f \in unassignedFds'[k] PROVE f \in DOMAIN fdConn'
    <3>1. Awaited(f)'
      BY <2>1 DEF Awaited
    <3>2. f # fd /\ f \in unassignedFds[k]
      BY <1>8, <3>1
    <3> QED BY <1>6, <1>11, <3>2 DEF AwaitedOK
  <2> QED BY <1>6, <1>8, <2>1 DEF AwaitedOK
<1>20. SocketsOK(names)'
  <2>1. SocketsOK(names) /\ Awaited(fd)
    BY <1>6, <1>7 DEF FdsInv, Awaited
  <2>2. \A k \in Handlers : \A id \in DOMAIN socketFdMap[k] :
        /\ id \in DOMAIN idHandler /\ idHandler[id] = k
        /\ socketFdMap[k][id] \in DOMAIN fdConn' /\ fdConn'[socketFdMap[k][id]] = names[id]
        /\ ~Awaited(socketFdMap[k][id])'
    <3> SUFFICES ASSUME NEW k \in Handlers, NEW id \in DOMAIN socketFdMap[k]
                 PROVE  /\ id \in DOMAIN idHandler /\ idHandler[id] = k
                        /\ socketFdMap[k][id] \in DOMAIN fdConn' /\ fdConn'[socketFdMap[k][id]] = names[id]
                        /\ ~Awaited(socketFdMap[k][id])'
      OBVIOUS
    <3>1. PICK f : f = socketFdMap[k][id]
      OBVIOUS
    <3>2. id \in DOMAIN idHandler /\ idHandler[id] = k /\ f \in DOMAIN fdConn' /\ fdConn'[f] = names[id] /\ ~Awaited(f)'
      <4>1. id \in DOMAIN idHandler /\ idHandler[id] = k /\ f \in DOMAIN fdConn /\ fdConn[f] = names[id] /\ ~Awaited(f)
        BY <2>1, <3>1 DEF SocketsOK
      <4> QED BY <1>8, <1>11, <2>1, <4>1
    <3>3. ~Awaited(f)' => ~Awaited(socketFdMap[k][id])'
      BY <1>4, <3>1 DEF Awaited
    <3> QED BY <3>1, <3>2, <3>3
  <2> QED BY <1>4, <2>2 DEF SocketsOK, Awaited
<1>21. \A x, y \in Elems(toSource) : Earlier(toSource, x, y) /\ IsResponse(x) /\ IsResponse(y) => x.fd # y.fd
  BY <1>6 DEF WireInv, OneAnswer
<1>22. RequestsOK(names)'
  <2>1. ASSUME NEW x \in Elems(toDest), IsRequest(x)
        PROVE  Awaited(x.fd)' /\ fdConn'[x.fd] = x.conn /\ ~Named(names, x.conn)
    <3>1. Awaited(x.fd) /\ fdConn[x.fd] = x.conn /\ ~Named(names, x.conn)
      BY <1>6, <2>1 DEF WireInv, RequestsOK
    <3>2. x.fd # fd
      BY <1>2, <1>3, <1>6, <1>7, <2>1 DEF WireInv, OneAnswer, Takes
    <3>3. x.fd \in DOMAIN fdConn
      BY <1>6, <3>1 DEF Awaited, AwaitedOK
    <3> QED BY <1>8, <1>11, <3>1, <3>2, <3>3
  <2> QED BY <1>5, <2>1 DEF RequestsOK, Elems, IsRequest, Awaited, Named
<1>23. ResponsesOK(names)'
  <2>1. ASSUME NEW x \in Elems(toSource'), IsResponse(x)
        PROVE  Awaited(x.fd)' /\ (x.id # 0 => names[x.id] = fdConn'[x.fd] /\ x.id \notin DOMAIN idHandler')
    <3>0. x \in Elems(toSource) /\ p \in Elems(toSource) /\ Earlier(toSource, p, x)
      BY <1>3, <2>1 DEF Takes
    <3>1. Awaited(x.fd) /\ (x.id # 0 => names[x.id] = fdConn[x.fd] /\ x.id \notin DOMAIN idHandler)
      BY <1>6, <2>1, <3>0 DEF WireInv, ResponsesOK
    <3>2. x.fd # fd
      BY <1>2, <1>7, <1>21, <2>1, <3>0
    <3>3. x.fd \in DOMAIN fdConn
      BY <1>6, <3>1 DEF Awaited, AwaitedOK
    <3> QED BY <1>4, <1>8, <1>11, <3>1, <3>2, <3>3
  <2> QED BY <2>1 DEF ResponsesOK, Elems, IsResponse, Awaited
<1>24. DataAnswered'
  <2>1. DataAnswered
    BY <1>6 DEF WireInv
  <2>2. \A x \in Elems(toDest) : IsData(x) => ~Answering(x.id)'
    BY <1>18, <2>1 DEF DataAnswered
  <2>3. ASSUME NEW x \in Elems(toSource'), IsData(x)
        PROVE  \/ x.id \in DOMAIN idHandler
               \/ \E y \in Elems(toSource') : IsResponse(y) /\ y.id = x.id /\ Earlier(toSource', y, x)
    <3>1. x \in Elems(toSource) /\ x.id \in 1..lastId /\ lastId \in Nat
      BY <1>3, <2>3 DEF Takes, Types, WireTyped, MapsTyped, IdsKnown
    <3>2. CASE x.id \in DOMAIN idHandler
      BY <3>2
    <3>3. ASSUME NEW y \in Elems(toSource), IsResponse(y), y.id = x.id, Earlier(toSource, y, x)
          PROVE  y \in Elems(toSource') /\ Earlier(toSource', y, x)
      <4>1. y # p
        BY <1>2, <3>1, <3>3
      <4>2. Earlier(toSource', y, x)
        BY <1>3, <3>3, <4>1 DEF Takes
      <4> QED BY <1>3, <3>3, <4>1, <4>2 DEF Takes
    <3> QED BY <2>1, <2>3, <3>1, <3>2, <3>3 DEF DataAnswered
  <2> QED BY <1>4, <1>5, <2>2, <2>3 DEF DataAnswered, Elems, IsData, IsResponse, Earlier
<1>25. \A id : SourceHas(id)' <=> SourceHas(id)
  BY <1>4 DEF SourceHas
<1>26. PairInv'
  <2>0. ~IsEnd(p)
    BY <1>2 DEF IsResponse, IsEnd
  <2>1. EndsOnce /\ DestKept /\ SourceKept
    BY <1>6 DEF PairInv
  <2>2. /\ \A x \in Elems(toDest) : IsEnd(x) => ~SourceHas(x.id)'
        /\ \A x \in Elems(toSource') : IsEnd(x) => x.id \notin DOMAIN dests'
    BY <1>3, <1>5, <1>25, <2>1 DEF EndsOnce, Takes
  <2>3. \A id \in DOMAIN dests : id # 0
    BY DEF Types, MapsTyped, IsPartial
  <2>4. DestKept'
    <3>1. \A id \in DOMAIN dests : /\ SourceHas(id)' \/ EndIn(toDest, id)' \/ Answering(id)'
                                   /\ id \in DOMAIN idHandler' \/ Answering(id)'
      BY <1>2, <1>4, <1>18, <1>25, <2>1, <2>3 DEF DestKept
    <3> QED BY <1>5, <3>1 DEF DestKept
  <2>5. SourceKept'
    BY <1>5, <1>18, <1>25, <2>0, <2>1 DEF SourceKept
  <2> QED BY <1>5, <2>2, <2>4, <2>5 DEF PairInv, EndsOnce, Elems, IsEnd
<1> QED BY <1>11, <1>14, <1>18, <1>19, <1>20, <1>22, <1>23, <1>24, <1>26 DEF Linked, FdsInv, WireInv

LEMMA SourceAdds ==
    ASSUME ForwardAssumption, Types, FlowOK, NEW names, Linked(names), SourceHandlesResponse, AddSourceSocketId(Head(toSource)),
           Head(toSource).id # 0
    PROVE  Types' /\ FlowOK' /\ Linked(names)'
<1>1. PICK p : p = Head(toSource)
  OBVIOUS
<1>2. toSource \in Seq(Wire) /\ toSource # <<>> /\ toSource' = Tail(toSource) /\ IsResponse(p) /\ p.id # 0
  BY <1>1 DEF Types, WireTyped, SourceHandlesResponse, IsResponse
<1>3. Takes(toSource, toSource', p)
  BY <1>1, <1>2, TakesIs
<1>4. PICK h \in Handlers : /\ p.fd \in unassignedFds[h]
                            /\ unassignedFds' = [unassignedFds EXCEPT ![h] = @ \ {p.fd}]
                            /\ socketFdMap' = [socketFdMap EXCEPT ![h] = With(@, p.id, p.fd)]
                            /\ idHandler' = With(idHandler, p.id, h)
                            /\ UNCHANGED <<ends, fdConn>>
  BY <1>1 DEF AddSourceSocketId
<1>5. UNCHANGED <<backlog, dests, lastId, toDest, stalls>>
  BY DEF SourceHandlesResponse, ids
<1>6. /\ ConnsInv(names) /\ FdsInv(names) /\ WireInv(names) /\ PairInv /\ NamesOK(names) /\ AwaitedOK /\ FdsOK
      /\ SocketsOK(names) /\ RequestsOK(names) /\ ResponsesOK(names) /\ OneAnswer /\ DataAnswered
      /\ EndsOnce /\ DestKept /\ SourceKept
  BY DEF Linked, FdsInv, WireInv, PairInv
<1>7. PICK fd \in unassignedFds[h] : fd = p.fd
  BY <1>4
<1>8. /\ unassignedFds' \in [Handlers -> SUBSET Fds]
      /\ \A f : Awaited(f)' <=> Awaited(f) /\ f # fd
      /\ \A k \in Handlers : unassignedFds'[k] \subseteq unassignedFds[k]
      /\ fd \in DOMAIN fdConn /\ fd \in Fds
  BY <1>4, <1>6, <1>7, NotAwaited
<1>9. p \in Elems(toSource) /\ p.id \in 1..lastId /\ lastId \in Nat
  BY <1>2, <1>3 DEF Takes, Types, WireTyped, MapsTyped, IdsKnown
<1>10. Awaited(fd) /\ names[p.id] = fdConn[fd] /\ p.id \notin DOMAIN idHandler
  BY <1>2, <1>6, <1>7, <1>9 DEF ResponsesOK
<1>11. PICK id \in 1..lastId : id = p.id
  BY <1>9
<1>12. /\ DOMAIN idHandler' = DOMAIN idHandler \cup {id} /\ idHandler'[id] = h
       /\ \A i \in DOMAIN idHandler : i # id => idHandler'[i] = idHandler[i]
       /\ IsPartial(idHandler', 1..lastId, Handlers)
  <2>1. IsPartial(idHandler, 1..lastId, Handlers) /\ idHandler' = With(idHandler, id, h)
    BY <1>4, <1>11 DEF Types, MapsTyped
  <2>2. IsPartial(idHandler', 1..lastId, Handlers)
    BY <2>1, WithPartial
  <2> QED BY <2>1, <2>2 DEF With
<1>13. /\ socketFdMap' = [k \in Handlers |-> socketFdMap'[k]]
       /\ socketFdMap'[h] = With(socketFdMap[h], id, fd)
       /\ \A k \in Handlers : k # h => socketFdMap'[k] = socketFdMap[k]
  BY <1>4, <1>7, <1>11 DEF Types, MapsTyped
<1>14. /\ DOMAIN socketFdMap'[h] = DOMAIN socketFdMap[h] \cup {id} /\ socketFdMap'[h][id] = fd
       /\ \A i \in DOMAIN socketFdMap[h] : i # id => socketFdMap'[h][i] = socketFdMap[h][i]
       /\ IsPartial(socketFdMap'[h], 1..lastId, Fds)
  <2>1. IsPartial(socketFdMap[h], 1..lastId, Fds)
    BY DEF Types, MapsTyped
  <2>2. IsPartial(socketFdMap'[h], 1..lastId, Fds)
    BY <1>8, <1>13, <2>1, WithPartial
  <2> QED BY <1>13, <2>2 DEF With
<1>15. Types'
  <2>1. /\ EndsTyped' /\ IsPartial(fdConn', Fds, Conns) /\ stalls' \in 0..MaxStalls
        /\ \A k \in Handlers : IsPartial(socketFdMap'[k], 1..lastId, Fds)
    BY <1>4, <1>5, <1>13, <1>14 DEF Types, EndsTyped, MapsTyped
  <2> QED BY <1>3, <1>5, <1>8, <1>12, <1>13, <2>1, SourceTypes
<1>16. FlowOK'
  <2>1. ASSUME NEW b \in Conns
        PROVE  /\ Flow(b, ends'["src"][b].unread, toDest', ends'["dst"][b].got, ends'["src"][b].wrote, ends'["src"][b].st)
               /\ Flow(b, ends'["dst"][b].unread, toSource', ends'["src"][b].got, ends'["dst"][b].wrote, ends'["dst"][b].st)
    <3>1. Flow(b, ends["dst"][b].unread, Tail(toSource), ends["src"][b].got, ends["dst"][b].wrote, ends["dst"][b].st)
      BY <1>2, FlowParts, FlowTaken
    <3> QED BY <1>2, <1>4, <1>5, <3>1, FlowParts
  <2> QED BY <2>1, FlowPartsNext
<1>17. NamesOK(names)' /\ ConnsInv(names)' /\ FdsOK'
  BY <1>4, <1>5, <1>6 DEF NamesOK, ConnsInv, NoneOK, QueuedOK, QueuedOnce, UnnamedOK, DestsOK, FdsOK, Named, Idle, Queued,
     Accepted, NotEnded
<1>18. /\ OneAnswer' /\ KindsOK' /\ DataOK(names)'
       /\ \A i : Answering(i)' => Answering(i)
       /\ \A i : Answering(i) => Answering(i)' \/ (IsResponse(p) /\ p.id = i)
       /\ \A i : EndIn(toSource, i)' => EndIn(toSource, i)
       /\ \A i : EndIn(toSource, i) => EndIn(toSource, i)' \/ (IsEnd(p) /\ p.id = i)
       /\ \A i : EndIn(toDest, i)' <=> EndIn(toDest, i)
  BY <1>3, <1>5, SourceTaken
<1>19. AwaitedOK'
  BY <1>4, <1>6, <1>8 DEF AwaitedOK
<1>20. SocketsOK(names)'
  <2>1. ASSUME NEW k \in Handlers, NEW i \in DOMAIN socketFdMap'[k], NEW f
        PROVE  f = socketFdMap'[k][i] =>
                 /\ i \in DOMAIN idHandler' /\ idHandler'[i] = k /\ f \in DOMAIN fdConn' /\ fdConn'[f] = names[i]
                 /\ ~Awaited(f)'
    <3>1. CASE k = h /\ i = id
      BY <1>4, <1>8, <1>10, <1>11, <1>12, <1>14, <3>1
    <3>2. CASE ~(k = h /\ i = id)
      <4>1. i \in DOMAIN socketFdMap[k] /\ socketFdMap'[k][i] = socketFdMap[k][i]
        BY <1>13, <1>14, <3>2
      <4>2. SUFFICES ASSUME f = socketFdMap[k][i]
                     PROVE  /\ i \in DOMAIN idHandler' /\ idHandler'[i] = k /\ f \in DOMAIN fdConn' /\ fdConn'[f] = names[i]
                            /\ ~Awaited(f)'
        BY <4>1
      <4>3. i \in DOMAIN idHandler /\ idHandler[i] = k /\ f \in DOMAIN fdConn /\ fdConn[f] = names[i] /\ ~Awaited(f)
        BY <1>6, <4>1, <4>2 DEF SocketsOK
      <4> QED BY <1>4, <1>8, <1>10, <1>11, <1>12, <4>3
    <3> QED BY <3>1, <3>2
  <2>2. ASSUME NEW k \in Handlers, NEW i \in DOMAIN socketFdMap'[k]
        PROVE  /\ i \in DOMAIN idHandler' /\ idHandler'[i] = k
               /\ socketFdMap'[k][i] \in DOMAIN fdConn' /\ fdConn'[socketFdMap'[k][i]] = names[i]
               /\ \A g \in Handlers : socketFdMap'[k][i] \notin unassignedFds'[g]
    <3>1. PICK f : f = socketFdMap'[k][i]
      OBVIOUS
    <3>2. i \in DOMAIN idHandler' /\ idHandler'[i] = k /\ f \in DOMAIN fdConn' /\ fdConn'[f] = names[i] /\ ~Awaited(f)'
      BY <2>1, <3>1
    <3> QED BY <3>1, <3>2 DEF Awaited
  <2> QED BY <2>2 DEF SocketsOK, Awaited
<1>21. \A x \in Elems(toSource) : x \in Elems(toSource') => Earlier(toSource, p, x)
  BY <1>3 DEF Takes
<1>22. RequestsOK(names)'
  <2>1. ASSUME NEW x \in Elems(toDest), IsRequest(x)
        PROVE  Awaited(x.fd)' /\ fdConn'[x.fd] = x.conn /\ ~Named(names, x.conn)
    <3>1. Awaited(x.fd) /\ fdConn[x.fd] = x.conn /\ ~Named(names, x.conn)
      BY <1>6, <2>1 DEF RequestsOK
    <3>2. x.fd # fd
      BY <1>2, <1>6, <1>7, <1>9, <2>1 DEF OneAnswer
    <3> QED BY <1>4, <1>8, <3>1, <3>2
  <2> QED BY <1>5, <2>1 DEF RequestsOK, Elems, IsRequest, Awaited, Named
<1>23. ResponsesOK(names)'
  <2>1. ASSUME NEW x \in Elems(toSource'), IsResponse(x)
        PROVE  Awaited(x.fd)' /\ (x.id # 0 => names[x.id] = fdConn'[x.fd] /\ x.id \notin DOMAIN idHandler')
    <3>0. x \in Elems(toSource) /\ Earlier(toSource, p, x)
      BY <1>3, <2>1 DEF Takes
    <3>1. Awaited(x.fd) /\ (x.id # 0 => names[x.id] = fdConn[x.fd] /\ x.id \notin DOMAIN idHandler)
      BY <1>6, <2>1, <3>0 DEF ResponsesOK
    <3>2. x.fd # fd
      BY <1>2, <1>6, <1>7, <1>9, <2>1, <3>0 DEF OneAnswer
    <3>3. x.fd \in DOMAIN fdConn
      BY <1>6, <3>1 DEF Awaited, AwaitedOK
    <3>4. x.id # 0 => x.id # id
      BY <1>6, <1>8, <1>10, <1>11, <3>1, <3>2, <3>3 DEF FdsOK
    <3> QED BY <1>4, <1>8, <1>12, <3>1, <3>2, <3>4
  <2> QED BY <2>1 DEF ResponsesOK, Elems, IsResponse, Awaited
<1>24. DataAnswered'
  <2>2. \A x \in Elems(toDest) : IsData(x) => ~Answering(x.id)'
    BY <1>6, <1>18 DEF DataAnswered
  <2>3. ASSUME NEW x \in Elems(toSource'), IsData(x)
        PROVE  \/ x.id \in DOMAIN idHandler'
               \/ \E y \in Elems(toSource') : IsResponse(y) /\ y.id = x.id /\ Earlier(toSource', y, x)
    <3>1. x \in Elems(toSource)
      BY <1>3, <2>3 DEF Takes
    <3>2. CASE x.id \in DOMAIN idHandler \/ x.id = id
      BY <1>12, <3>2
    <3>3. ASSUME x.id # id, NEW y \in Elems(toSource), IsResponse(y), y.id = x.id, Earlier(toSource, y, x)
          PROVE  y \in Elems(toSource') /\ Earlier(toSource', y, x)
      <4>1. y # p
        BY <1>11, <3>3
      <4>2. Earlier(toSource', y, x)
        BY <1>3, <3>3, <4>1 DEF Takes
      <4> QED BY <1>3, <3>3, <4>1, <4>2 DEF Takes
    <3> QED BY <1>6, <2>3, <3>1, <3>2, <3>3 DEF DataAnswered
  <2> QED BY <1>5, <2>2, <2>3 DEF DataAnswered, Elems, IsData, IsResponse, Earlier
<1>25. \A i : SourceHas(i)' <=> SourceHas(i) \/ i = id
  BY <1>13, <1>14 DEF SourceHas
<1>26. PairInv'
  <2>0. ~IsEnd(p) /\ Answering(id)
    BY <1>2, <1>9, <1>11 DEF IsResponse, IsEnd, Answering
  <2>1. ASSUME NEW x \in Elems(toDest), IsEnd(x) PROVE ~SourceHas(x.id)'
    <3>1. IsData(x) /\ ~SourceHas(x.id)
      BY <1>6, <2>1 DEF EndsOnce, IsEnd, IsData
    <3>2. x.id # id
      BY <1>6, <2>0, <3>1 DEF DataAnswered
    <3>3. (~SourceHas(x.id)') <=> ~\E k \in Handlers : x.id \in DOMAIN socketFdMap'[k]
      BY <1>5 DEF SourceHas
    <3> QED BY <1>25, <3>1, <3>2
  <2>2. \A x \in Elems(toSource') : IsEnd(x) => x.id \notin DOMAIN dests'
    BY <1>3, <1>5, <1>6 DEF EndsOnce, Takes
  <2>4. DestKept'
    <3>1. \A i \in DOMAIN dests : /\ SourceHas(i)' \/ EndIn(toDest, i)' \/ Answering(i)'
                                  /\ i \in DOMAIN idHandler' \/ Answering(i)'
      BY <1>6, <1>11, <1>12, <1>18, <1>25 DEF DestKept
    <3> QED BY <1>5, <3>1 DEF DestKept
  <2>5. SourceKept'
    <3>1. \A i \in 1..lastId : SourceHas(i)' \/ Answering(i)' => i \in DOMAIN dests \/ EndIn(toSource, i)'
      BY <1>6, <1>18, <1>25, <2>0 DEF SourceKept
    <3> QED BY <1>5, <3>1 DEF SourceKept
  <2> QED BY <1>5, <2>1, <2>2, <2>4, <2>5 DEF PairInv, EndsOnce, Elems, IsEnd
<1> QED BY <1>15, <1>16, <1>17, <1>18, <1>19, <1>20, <1>22, <1>23, <1>24, <1>26 DEF Linked, FdsInv, WireInv

LEMMA ResponseKeeps ==
    ASSUME ForwardAssumption, Types, FlowOK, NEW names, Linked(names), SourceHandlesResponse
    PROVE  Types' /\ FlowOK' /\ Linked(names)'
<1>1. PICK p : p = Head(toSource)
  OBVIOUS
<1>2. toSource \in Seq(Wire) /\ toSource # <<>> /\ IsResponse(p)
  BY <1>1 DEF Types, WireTyped, SourceHandlesResponse, IsResponse
<1>3. Takes(toSource, Tail(toSource), p)
  BY <1>1, <1>2, TakesIs
<1>4. Awaited(p.fd)
  BY <1>2, <1>3 DEF Takes, Linked, WireInv, ResponsesOK
<1>5. IF p.id = 0 THEN ErrorResponse(p) ELSE AddSourceSocketId(p)
  BY <1>1, <1>4 DEF SourceHandlesResponse, Awaited
<1> QED BY <1>1, <1>5, SourceRefused, SourceAdds

-----------------------------------------------------------------------------
(* The listening side handles data and the end of a socket.                *)

\* An id that data from the connecting side names is known, and nothing of
\* a connection comes after its end.
LEMMA DataFromDest ==
    ASSUME Types, FlowOK, NEW names, Linked(names), NEW p, NEW r, Takes(toSource, r, p), IsData(p)
    PROVE  /\ p.id \in DOMAIN idHandler /\ p.id \in 1..lastId /\ p.item.conn = names[p.id] /\ names[p.id] \in Conns
           /\ p.item \in Items
           /\ IsEnd(p) => \A y \in Elems(r) : IsData(y) => y.id # p.id
<1>1. /\ p \in Elems(toSource) /\ p \in Wire /\ \A y \in Elems(r) : y \in Elems(toSource) /\ Earlier(toSource, p, y)
      /\ \A x, y : Earlier(toSource, x, y) => Earlier(r, x, y) \/ (x = p /\ y \in Elems(r))
      /\ r \in Seq(Wire)
  BY DEF Takes
<1>2. NamesOK(names) /\ DataOK(names) /\ DataAnswered
  BY DEF Linked, WireInv
<1>3. p.id \in 1..lastId
  BY <1>1 DEF Types, WireTyped, IdsKnown
<1>4. p.item.conn = names[p.id] /\ names[p.id] \in Conns /\ p.item \in Items
  BY <1>1, <1>2, <1>3, WireParts DEF DataOK, NamesOK
<1>5. PICK c \in Conns : c = names[p.id]
  BY <1>4
<1>6. \A y \in Elems(r) : Carries(y, c) => Goes(p.item, y.item)
  <2>1. CarriedOK(c, ends["dst"][c].unread, toSource, ends["dst"][c].wrote, ends["dst"][c].st)
    BY FlowParts DEF Flow
  <2>2. Carries(p, c)
    BY <1>4, <1>5 DEF Carries, IsData
  <2> QED BY <1>1, <2>1, <2>2 DEF CarriedOK
<1>7. ASSUME IsEnd(p), NEW y \in Elems(r), IsData(y) PROVE y.id # p.id
  <2>1. y.item.conn = names[y.id]
    BY <1>1, <1>2, <1>7 DEF DataOK
  <2>2. SUFFICES ASSUME y.id = p.id PROVE FALSE
    OBVIOUS
  <2>3. Carries(y, c)
    BY <1>5, <1>7, <2>1, <2>2 DEF Carries, IsData
  <2> QED BY <1>6, <1>7, <2>3 DEF Goes, IsEnd
<1>8. p \notin Elems(r)
  <2>1. SUFFICES ASSUME p \in Elems(r) PROVE FALSE
    OBVIOUS
  <2>2. Carries(p, c)
    BY <1>4, <1>5 DEF Carries, IsData
  <2>3. Goes(p.item, p.item)
    BY <1>6, <2>1, <2>2
  <2> QED BY <1>4, <2>3 DEF Goes, Items
<1>9. p.id \in DOMAIN idHandler
  <2>1. SUFFICES ASSUME NEW y \in Elems(toSource), IsResponse(y), Earlier(toSource, y, p) PROVE FALSE
    BY <1>1, <1>2 DEF DataAnswered
  <2>2. y # p
    BY <2>1, KindsApart
  <2>3. Earlier(r, y, p)
    BY <1>1, <2>1, <2>2
  <2> QED BY <1>1, <1>8, <2>3, EarlierTyped
<1> QED BY <1>3, <1>4, <1>7, <1>9

\* What becomes of the sockets when p is taken: its own goes if p is an end.
SocketsLose(p) ==
    /\ socketFdMap' = [k \in Handlers |-> socketFdMap'[k]]
    /\ \A k \in Handlers :
          /\ DOMAIN socketFdMap'[k] = {i \in DOMAIN socketFdMap[k] : ~(IsEnd(p) /\ i = p.id)}
          /\ \A i \in DOMAIN socketFdMap'[k] : socketFdMap'[k][i] = socketFdMap[k][i]
    /\ DOMAIN idHandler' = {i \in DOMAIN idHandler : ~(IsEnd(p) /\ i = p.id)}
    /\ \A i \in DOMAIN idHandler' : idHandler'[i] = idHandler[i]
    /\ DOMAIN fdConn' \subseteq DOMAIN fdConn /\ \A f \in DOMAIN fdConn' : fdConn'[f] = fdConn[f]
    /\ \A f \in DOMAIN fdConn : f \notin DOMAIN fdConn' =>
          IsEnd(p) /\ \E k \in Handlers : p.id \in DOMAIN socketFdMap[k] /\ socketFdMap[k][p.id] = f
    /\ UNCHANGED <<unassignedFds, dests, lastId, toDest>>

LEMMA SourceDataTaken ==
    ASSUME Types, FlowOK, NEW names, Linked(names), NEW p, Takes(toSource, toSource', p), IsData(p), SocketsLose(p)
    PROVE  AwaitedOK' /\ SocketsOK(names)' /\ WireInv(names)' /\ PairInv'
<1>1. /\ p.id \in DOMAIN idHandler /\ p.id \in 1..lastId
      /\ IsEnd(p) => \A y \in Elems(toSource') : IsData(y) => y.id # p.id
  BY DataFromDest
<1>2. /\ NamesOK(names) /\ AwaitedOK /\ SocketsOK(names) /\ RequestsOK(names) /\ ResponsesOK(names) /\ DataAnswered
      /\ EndsOnce /\ DestKept /\ SourceKept
  BY DEF Linked, FdsInv, WireInv, PairInv
<1>3. UNCHANGED <<unassignedFds, dests, lastId, toDest>>
  BY DEF SocketsLose
<1>4. /\ OneAnswer' /\ KindsOK' /\ DataOK(names)'
      /\ \A i : Answering(i)' => Answering(i)
      /\ \A i : Answering(i) => Answering(i)' \/ (IsResponse(p) /\ p.id = i)
      /\ \A i : EndIn(toSource, i)' => EndIn(toSource, i)
      /\ \A i : EndIn(toSource, i) => EndIn(toSource, i)' \/ (IsEnd(p) /\ p.id = i)
      /\ \A i : EndIn(toDest, i)' <=> EndIn(toDest, i)
  BY <1>3, SourceTaken
<1>5. ~IsResponse(p)
  BY KindsApart
<1>6. \A f : Awaited(f)' <=> Awaited(f)
  BY <1>3 DEF Awaited
<1>7. ASSUME NEW f, Awaited(f) PROVE f \in DOMAIN fdConn' /\ fdConn'[f] = fdConn[f]
  <2>1. f \in DOMAIN fdConn
    BY <1>2, <1>7 DEF Awaited, AwaitedOK
  <2>2. \A k \in Handlers : p.id \in DOMAIN socketFdMap[k] => socketFdMap[k][p.id] # f
    BY <1>2, <1>7 DEF SocketsOK
  <2> QED BY <2>1, <2>2 DEF SocketsLose
<1>8. AwaitedOK'
  <2>1. ASSUME NEW k \in Handlers, NEW f \in unassignedFds[k] PROVE f \in DOMAIN fdConn'
    BY <1>7 DEF Awaited
  <2> QED BY <1>2, <1>3, <2>1 DEF AwaitedOK
<1>9. SocketsOK(names)'
  <2>1. ASSUME NEW k \in Handlers, NEW i \in DOMAIN socketFdMap'[k]
        PROVE  /\ i \in DOMAIN idHandler' /\ idHandler'[i] = k
               /\ socketFdMap'[k][i] \in DOMAIN fdConn' /\ fdConn'[socketFdMap'[k][i]] = names[i]
               /\ \A g \in Handlers : socketFdMap'[k][i] \notin unassignedFds'[g]
    <3>1. PICK f : f = socketFdMap'[k][i]
      OBVIOUS
    <3>2. i \in DOMAIN socketFdMap[k] /\ ~(IsEnd(p) /\ i = p.id) /\ f = socketFdMap[k][i]
      BY <3>1 DEF SocketsLose
    <3>3. i \in DOMAIN idHandler /\ idHandler[i] = k /\ f \in DOMAIN fdConn /\ fdConn[f] = names[i] /\ ~Awaited(f)
      BY <1>2, <3>2 DEF SocketsOK
    <3>4. i \in DOMAIN idHandler' /\ idHandler'[i] = k
      BY <3>2, <3>3 DEF SocketsLose
    <3>5. f \in DOMAIN fdConn'
      <4>1. SUFFICES ASSUME f \notin DOMAIN fdConn' PROVE FALSE
        OBVIOUS
      <4>2. PICK g \in Handlers : IsEnd(p) /\ p.id \in DOMAIN socketFdMap[g] /\ socketFdMap[g][p.id] = f
        BY <3>3, <4>1 DEF SocketsLose
      <4>3. names[p.id] = names[i]
        BY <1>2, <3>3, <4>2 DEF SocketsOK
      <4>4. i \in 1..lastId
        BY <3>3 DEF Types, MapsTyped, IsPartial
      <4>5. i = p.id
        BY <1>1, <1>2, <4>3, <4>4 DEF NamesOK
      <4> QED BY <3>2, <4>2, <4>5
    <3>6. fdConn'[f] = names[i]
      BY <3>3, <3>5 DEF SocketsLose
    <3>7. \A g \in Handlers : f \notin unassignedFds'[g]
      BY <1>3, <3>3 DEF Awaited
    <3> QED BY <3>1, <3>4, <3>5, <3>6, <3>7
  <2> QED BY <2>1 DEF SocketsOK, Awaited
<1>10. RequestsOK(names)'
  <2>1. ASSUME NEW x \in Elems(toDest), IsRequest(x)
        PROVE  Awaited(x.fd)' /\ fdConn'[x.fd] = x.conn /\ ~Named(names, x.conn)
    <3>1. Awaited(x.fd) /\ fdConn[x.fd] = x.conn /\ ~Named(names, x.conn)
      BY <1>2, <2>1 DEF RequestsOK
    <3> QED BY <1>6, <1>7, <3>1
  <2> QED BY <1>3, <2>1 DEF RequestsOK, Elems, IsRequest, Awaited, Named
<1>11. ResponsesOK(names)'
  <2>1. ASSUME NEW x \in Elems(toSource'), IsResponse(x)
        PROVE  Awaited(x.fd)' /\ (x.id # 0 => names[x.id] = fdConn'[x.fd] /\ x.id \notin DOMAIN idHandler')
    <3>0. x \in Elems(toSource)
      BY <2>1 DEF Takes
    <3>1. Awaited(x.fd) /\ (x.id # 0 => names[x.id] = fdConn[x.fd] /\ x.id \notin DOMAIN idHandler)
      BY <1>2, <2>1, <3>0 DEF ResponsesOK
    <3>2. DOMAIN idHandler' \subseteq DOMAIN idHandler
      BY DEF SocketsLose
    <3> QED BY <1>6, <1>7, <3>1, <3>2
  <2> QED BY <2>1 DEF ResponsesOK, Elems, IsResponse, Awaited
<1>12. DataAnswered'
  <2>1. \A x \in Elems(toDest) : IsData(x) => ~Answering(x.id)'
    BY <1>2, <1>4 DEF DataAnswered
  <2>2. ASSUME NEW x \in Elems(toSource'), IsData(x)
        PROVE  \/ x.id \in DOMAIN idHandler'
               \/ \E y \in Elems(toSource') : IsResponse(y) /\ y.id = x.id /\ Earlier(toSource', y, x)
    <3>1. x \in Elems(toSource)
      BY <2>2 DEF Takes
    <3>2. CASE x.id \in DOMAIN idHandler
      BY <1>1, <2>2, <3>2 DEF SocketsLose
    <3>3. ASSUME NEW y \in Elems(toSource), IsResponse(y), y.id = x.id, Earlier(toSource, y, x)
          PROVE  y \in Elems(toSource') /\ Earlier(toSource', y, x)
      <4>1. y # p
        BY <1>5, <3>3
      <4>2. Earlier(toSource', y, x)
        BY <3>3, <4>1 DEF Takes
      <4> QED BY <3>3, <4>1, <4>2 DEF Takes
    <3> QED BY <1>2, <2>2, <3>1, <3>2, <3>3 DEF DataAnswered
  <2> QED BY <1>3, <2>1, <2>2 DEF DataAnswered, Elems, IsData, IsResponse, Earlier
<1>13. \A i : SourceHas(i)' <=> SourceHas(i) /\ ~(IsEnd(p) /\ i = p.id)
  BY DEF SourceHas, SocketsLose
<1>14. IsEnd(p) => p.id \notin DOMAIN dests /\ ~Answering(p.id)
  <2>1. p \in Elems(toSource)
    BY DEF Takes
  <2>2. IsEnd(p) => p.id \notin DOMAIN dests
    BY <1>2, <2>1 DEF EndsOnce
  <2>3. ~Answering(p.id)
    <3>1. p.id # 0
      BY <1>1 DEF Types, MapsTyped
    <3> QED BY <1>1, <1>2, <3>1 DEF Answering, ResponsesOK
  <2> QED BY <2>2, <2>3
<1>15. PairInv'
  <2>1. /\ \A x \in Elems(toDest) : IsEnd(x) => ~SourceHas(x.id)'
        /\ \A x \in Elems(toSource') : IsEnd(x) => x.id \notin DOMAIN dests
    <3>1. ASSUME NEW x \in Elems(toDest), IsEnd(x) PROVE ~SourceHas(x.id)'
      BY <1>2, <1>13, <3>1 DEF EndsOnce
    <3> QED BY <1>2, <3>1 DEF EndsOnce, Takes
  <2>2. DOMAIN idHandler' = {i \in DOMAIN idHandler : ~(IsEnd(p) /\ i = p.id)}
    BY DEF SocketsLose
  <2>3. DestKept'
    <3>1. \A i \in DOMAIN dests : /\ SourceHas(i)' \/ EndIn(toDest, i)' \/ Answering(i)'
                                  /\ i \in DOMAIN idHandler' \/ Answering(i)'
      BY <1>2, <1>4, <1>5, <1>13, <1>14, <2>2 DEF DestKept
    <3> QED BY <1>3, <3>1 DEF DestKept
  <2>4. SourceKept'
    <3>1. \A i \in 1..lastId : SourceHas(i)' \/ Answering(i)' => i \in DOMAIN dests \/ EndIn(toSource, i)'
      BY <1>2, <1>4, <1>13, <1>14 DEF SourceKept
    <3> QED BY <1>3, <3>1 DEF SourceKept
  <2> QED BY <1>3, <2>1, <2>3, <2>4 DEF PairInv, EndsOnce, Elems, IsEnd
<1> QED BY <1>4, <1>8, <1>9, <1>10, <1>11, <1>12, <1>15 DEF WireInv

LEMMA SourceEndKeeps ==
    ASSUME ForwardAssumption, Types, FlowOK, NEW names, Linked(names), SourceHandlesEnd
    PROVE  Types' /\ FlowOK' /\ Linked(names)'
<1>1. PICK p : p = Head(toSource)
  OBVIOUS
<1>2. toSource \in Seq(Wire) /\ toSource # <<>> /\ toSource' = Tail(toSource) /\ IsData(p) /\ IsEnd(p)
  BY <1>1 DEF Types, WireTyped, SourceHandlesEnd, IsData, IsEnd
<1>3. Takes(toSource, toSource', p)
  BY <1>1, <1>2, TakesIs
<1>4. UNCHANGED <<backlog, dests, lastId, toDest, stalls>>
  BY DEF SourceHandlesEnd, ids
<1>5. p.id \in DOMAIN idHandler /\ p.id \in 1..lastId
  BY <1>2, <1>3, DataFromDest
<1>6. PICK h \in Handlers, id \in 1..lastId : h = idHandler[p.id] /\ id = p.id
  BY <1>5 DEF Types, MapsTyped, IsPartial
<1>7. PICK gone : gone = {socketFdMap[h][i] : i \in {id} \cap DOMAIN socketFdMap[h]}
  OBVIOUS
<1>8. /\ ends' = Hangup(ends, "src", {fdConn[fd] : fd \in gone}) /\ fdConn' = Without(fdConn, gone)
      /\ socketFdMap' = [socketFdMap EXCEPT ![h] = Without(@, {id})]
      /\ idHandler' = Without(idHandler, {id}) /\ UNCHANGED unassignedFds
  BY <1>1, <1>5, <1>6, <1>7 DEF SourceHandlesEnd, EndFromDest
<1>9. /\ DOMAIN idHandler' = DOMAIN idHandler \ {id} /\ \A i \in DOMAIN idHandler' : idHandler'[i] = idHandler[i]
      /\ IsPartial(idHandler', 1..lastId, Handlers)
  <2>1. IsPartial(idHandler, 1..lastId, Handlers) /\ idHandler' = Without(idHandler, {id})
    BY <1>8 DEF Types, MapsTyped
  <2>2. IsPartial(idHandler', 1..lastId, Handlers)
    BY <2>1, WithoutPartial
  <2> QED BY <2>1, <2>2 DEF Without, Restrict
<1>10. /\ socketFdMap' = [k \in Handlers |-> socketFdMap'[k]]
       /\ socketFdMap'[h] = Without(socketFdMap[h], {id})
       /\ \A k \in Handlers : k # h => socketFdMap'[k] = socketFdMap[k]
  BY <1>8 DEF Types, MapsTyped
<1>11. /\ DOMAIN socketFdMap'[h] = DOMAIN socketFdMap[h] \ {id}
       /\ \A i \in DOMAIN socketFdMap'[h] : socketFdMap'[h][i] = socketFdMap[h][i]
       /\ IsPartial(socketFdMap'[h], 1..lastId, Fds)
  <2>1. IsPartial(socketFdMap[h], 1..lastId, Fds)
    BY DEF Types, MapsTyped
  <2>2. IsPartial(socketFdMap'[h], 1..lastId, Fds)
    BY <1>10, <2>1, WithoutPartial
  <2> QED BY <1>10, <2>2 DEF Without, Restrict
<1>12. \A k \in Handlers : id \in DOMAIN socketFdMap[k] => k = h
  BY <1>6 DEF Linked, FdsInv, SocketsOK
<1>13. /\ EndsTyped' /\ FlowOK' /\ NamesOK(names)' /\ ConnsInv(names)' /\ FdsOK' /\ IsPartial(fdConn', Fds, Conns)
       /\ DOMAIN fdConn' \subseteq DOMAIN fdConn /\ \A f \in DOMAIN fdConn' : fdConn'[f] = fdConn[f]
       /\ \A f \in DOMAIN fdConn : f \notin DOMAIN fdConn' => id \in DOMAIN socketFdMap[h] /\ socketFdMap[h][id] = f
  <2>1. CASE id \in DOMAIN socketFdMap[h]
    <3>1. PICK fd : fd = socketFdMap[h][id]
      OBVIOUS
    <3>2. fd \in DOMAIN fdConn
      BY <2>1, <3>1 DEF Linked, FdsInv, SocketsOK
    <3>3. gone = {fd} /\ {fdConn[f] : f \in gone} = {fdConn[fd]}
      BY <1>7, <2>1, <3>1
    <3>4. SourceCloses(fd)
      BY <1>2, <1>4, <1>8, <3>3 DEF SourceCloses
    <3>5. /\ EndsTyped' /\ FlowOK' /\ NamesOK(names)' /\ ConnsInv(names)' /\ FdsOK'
          /\ IsPartial(fdConn', Fds, Conns) /\ DOMAIN fdConn' = DOMAIN fdConn \ {fd}
          /\ \A f \in DOMAIN fdConn' : fdConn'[f] = fdConn[f]
      BY <3>2, <3>4, SourceHangsUp
    <3> QED BY <2>1, <3>1, <3>5
  <2>2. CASE id \notin DOMAIN socketFdMap[h]
    <3>1. gone = {} /\ {fdConn[fd] : fd \in gone} = {}
      BY <1>7, <2>2
    <3>2. IsPartial(fdConn, Fds, Conns) /\ fdConn' = Without(fdConn, {})
      BY <1>8, <3>1 DEF Types, MapsTyped
    <3>3. fdConn' = fdConn
      BY <3>2 DEF IsPartial, Without, Restrict
    <3>4. ends' = ends
      <4>1. EndsTyped /\ MaxData \in Nat /\ "src" \in Sides
        BY SidesAre DEF Types, ForwardAssumption
      <4>2. PICK cs : cs = {}
        OBVIOUS
      <4>3. ends' = Hangup(ends, "src", cs)
        BY <1>8, <3>1, <4>2
      <4>4. EndsTyped' /\ \A d \in Sides, b \in Conns : d # "src" \/ b \notin cs => ends'[d][b] = ends[d][b]
        BY <4>1, <4>3, HangupIs
      <4>5. ends' \in [Sides -> [Conns -> EndRec]] /\ ends \in [Sides -> [Conns -> EndRec]]
        BY <4>1, <4>4 DEF EndsTyped, EndRec, Items
      <4>6. \A d \in Sides : ends'[d] = ends[d]
        BY <4>2, <4>4, <4>5
      <4> QED BY <4>5, <4>6
    <3>5. EndsTyped'
      BY <3>4 DEF Types, EndsTyped
    <3>6. FlowOK'
      <4>1. ASSUME NEW b \in Conns
            PROVE  /\ Flow(b, ends'["src"][b].unread, toDest', ends'["dst"][b].got, ends'["src"][b].wrote, ends'["src"][b].st)
                   /\ Flow(b, ends'["dst"][b].unread, toSource', ends'["src"][b].got, ends'["dst"][b].wrote, ends'["dst"][b].st)
        <5>1. Flow(b, ends["dst"][b].unread, Tail(toSource), ends["src"][b].got, ends["dst"][b].wrote, ends["dst"][b].st)
          BY <1>2, FlowParts, FlowTaken
        <5> QED BY <1>2, <1>4, <3>4, <5>1, FlowParts
      <4> QED BY <4>1, FlowPartsNext
    <3>7. NamesOK(names)' /\ ConnsInv(names)' /\ FdsOK'
      BY <1>4, <3>3, <3>4 DEF Linked, FdsInv, NamesOK, ConnsInv, NoneOK, QueuedOK, QueuedOnce, UnnamedOK, DestsOK, FdsOK,
         Named, Idle, Queued, Accepted, NotEnded
    <3> QED BY <3>2, <3>3, <3>5, <3>6, <3>7
  <2> QED BY <2>1, <2>2
<1>14. SocketsLose(p)
  <2>1. /\ DOMAIN idHandler' = {i \in DOMAIN idHandler : ~(IsEnd(p) /\ i = p.id)}
        /\ \A f \in DOMAIN fdConn : f \notin DOMAIN fdConn' =>
             IsEnd(p) /\ \E k \in Handlers : p.id \in DOMAIN socketFdMap[k] /\ socketFdMap[k][p.id] = f
    BY <1>2, <1>6, <1>9, <1>13
  <2>2. ASSUME NEW k \in Handlers
        PROVE  /\ DOMAIN socketFdMap'[k] = {i \in DOMAIN socketFdMap[k] : ~(IsEnd(p) /\ i = p.id)}
               /\ \A i \in DOMAIN socketFdMap'[k] : socketFdMap'[k][i] = socketFdMap[k][i]
    <3>1. CASE k = h
      BY <1>2, <1>6, <1>11, <3>1
    <3>2. CASE k # h
      BY <1>2, <1>6, <1>10, <1>12, <3>2
    <3> QED BY <3>1, <3>2
  <2> QED BY <1>4, <1>8, <1>9, <1>10, <1>13, <2>1, <2>2 DEF SocketsLose
<1>15. Types'
  <2>1. /\ unassignedFds' \in [Handlers -> SUBSET Fds] /\ stalls' \in 0..MaxStalls
        /\ \A k \in Handlers : IsPartial(socketFdMap'[k], 1..lastId, Fds)
    BY <1>4, <1>8, <1>10, <1>11 DEF Types, MapsTyped
  <2> QED BY <1>3, <1>4, <1>9, <1>10, <1>13, <2>1, SourceTypes
<1>16. AwaitedOK' /\ SocketsOK(names)' /\ WireInv(names)' /\ PairInv'
  BY <1>2, <1>3, <1>14, SourceDataTaken
<1> QED BY <1>13, <1>15, <1>16 DEF Linked, FdsInv

LEMMA SourceDataKeeps ==
    ASSUME ForwardAssumption, Types, FlowOK, NEW names, Linked(names), SourceHandlesData
    PROVE  Types' /\ FlowOK' /\ Linked(names)'
<1>1. PICK p : p = Head(toSource)
  OBVIOUS
<1>2. toSource \in Seq(Wire) /\ toSource # <<>> /\ toSource' = Tail(toSource) /\ IsData(p) /\ p.item.n > 0
  BY <1>1 DEF Types, WireTyped, SourceHandlesData, IsData
<1>3. Takes(toSource, toSource', p)
  BY <1>1, <1>2, TakesIs
<1>4. UNCHANGED <<backlog, fdConn, unassignedFds, socketFdMap, idHandler, dests, lastId, toDest>>
  BY DEF SourceHandlesData, ids
<1>5. p.id \in DOMAIN idHandler /\ p.id \in 1..lastId /\ p.item.conn = names[p.id] /\ p.item \in Items
  BY <1>2, <1>3, DataFromDest
<1>6. PICK h \in Handlers, id \in 1..lastId : h = idHandler[p.id] /\ id = p.id
  BY <1>5 DEF Types, MapsTyped, IsPartial
<1>7. p.item.n # 0 /\ ~IsEnd(p)
  BY <1>2 DEF IsEnd
<1>8. /\ stalls \in 0..MaxStalls /\ MaxData \in Nat /\ "src" \in Sides /\ "dst" \in Sides
      /\ unassignedFds' \in [Handlers -> SUBSET Fds] /\ IsPartial(fdConn', Fds, Conns)
      /\ socketFdMap' = [k \in Handlers |-> socketFdMap'[k]]
      /\ \A k \in Handlers : IsPartial(socketFdMap'[k], 1..lastId, Fds)
      /\ IsPartial(idHandler', 1..lastId, Handlers)
  BY <1>4, SidesAre DEF Types, MapsTyped, ForwardAssumption
<1>9. SocketsLose(p)
  BY <1>4, <1>7, <1>8 DEF SocketsLose
<1>10. AwaitedOK' /\ SocketsOK(names)' /\ WireInv(names)' /\ PairInv'
  BY <1>2, <1>3, <1>9, SourceDataTaken
<1>11. \A b \in Conns :
          Flow(b, ends["dst"][b].unread, Tail(toSource), ends["src"][b].got, ends["dst"][b].wrote, ends["dst"][b].st)
  BY <1>2, FlowParts, FlowTaken
<1>12. CASE id \notin DOMAIN socketFdMap[h]
  <2>1. UNCHANGED <<ends, stalls>>
    BY <1>1, <1>5, <1>6, <1>12 DEF SourceHandlesData
  <2>2. EndsTyped' /\ stalls' \in 0..MaxStalls
    BY <2>1 DEF Types, EndsTyped, MapsTyped
  <2>3. Types'
    BY <1>3, <1>4, <1>8, <2>2, SourceTypes
  <2>4. FlowOK'
    <3>1. \A b \in Conns :
            /\ Flow(b, ends'["src"][b].unread, toDest', ends'["dst"][b].got, ends'["src"][b].wrote, ends'["src"][b].st)
            /\ Flow(b, ends'["dst"][b].unread, toSource', ends'["src"][b].got, ends'["dst"][b].wrote, ends'["dst"][b].st)
      BY <1>2, <1>4, <1>11, <2>1, FlowParts
    <3> QED BY <3>1, FlowPartsNext
  <2>5. NamesOK(names)' /\ ConnsInv(names)' /\ FdsOK'
    BY <1>4, <2>1 DEF Linked, FdsInv, NamesOK, ConnsInv, NoneOK, QueuedOK, QueuedOnce, UnnamedOK, DestsOK, FdsOK,
       Named, Idle, Queued, Accepted, NotEnded
  <2> QED BY <1>10, <2>3, <2>4, <2>5 DEF Linked, FdsInv
<1>13. CASE id \in DOMAIN socketFdMap[h]
  <2>1. PICK fd : fd = socketFdMap[h][id]
    OBVIOUS
  <2>2. fd \in DOMAIN fdConn /\ fdConn[fd] = names[id] /\ fdConn[fd] \in Conns
    BY <1>13, <2>1 DEF Linked, FdsInv, SocketsOK, Types, MapsTyped, IsPartial
  <2>3. PICK c \in Conns : c = fdConn[fd]
    BY <2>2
  <2>4. Give("src", c, p.item)
    BY <1>1, <1>5, <1>6, <1>13, <2>1, <2>3 DEF SourceHandlesData
  <2>5. Unended(ends["src"][c].got) /\ Accepted(c)
    BY <2>2, <2>3 DEF Linked, FdsInv, FdsOK, NotEnded, Accepted
  <2>6. /\ EndsTyped' /\ stalls' \in 0..MaxStalls
        /\ \A b \in Conns : ends'["dst"][b] = ends["dst"][b] /\ (b # c => ends'["src"][b] = ends["src"][b])
        /\ ends'["src"][c].st = ends["src"][c].st /\ ends'["src"][c].wrote = ends["src"][c].wrote
        /\ ends'["src"][c].unread = ends["src"][c].unread
        /\ ends'["src"][c].got = ends["src"][c].got \/ ends'["src"][c].got = Append(ends["src"][c].got, p.item)
    <3>1. /\ EndsTyped' /\ stalls' \in 0..MaxStalls
          /\ \A d \in Sides, b \in Conns : d # "src" \/ b # c => ends'[d][b] = ends[d][b]
          /\ ends'["src"][c].st = ends["src"][c].st /\ ends'["src"][c].wrote = ends["src"][c].wrote
          /\ ends'["src"][c].unread = ends["src"][c].unread
          /\ ends'["src"][c].got = ends["src"][c].got \/ ends'["src"][c].got = Append(ends["src"][c].got, p.item)
      BY <1>5, <1>8, <2>4, GiveIs DEF Types
    <3> QED BY <1>8, <3>1
  <2>7. Types'
    BY <1>3, <1>4, <1>8, <2>6, SourceTypes
  <2>8. FlowOK'
    <3>1. ASSUME NEW b \in Conns
          PROVE  /\ Flow(b, ends'["src"][b].unread, toDest', ends'["dst"][b].got, ends'["src"][b].wrote, ends'["src"][b].st)
                 /\ Flow(b, ends'["dst"][b].unread, toSource', ends'["src"][b].got, ends'["dst"][b].wrote, ends'["dst"][b].st)
      <4>1. Flow(b, ends["src"][b].unread, toDest, ends["dst"][b].got, ends["src"][b].wrote, ends["src"][b].st)
        BY FlowParts
      <4>2. CASE b # c
        BY <1>2, <1>4, <1>11, <2>6, <4>1, <4>2
      <4>3. CASE b = c /\ ends'["src"][c].got = ends["src"][c].got
        BY <1>2, <1>4, <1>11, <2>6, <4>1, <4>3
      <4>4. CASE b = c /\ ends'["src"][c].got = Append(ends["src"][c].got, p.item)
        <5>1. Carries(p, c)
          BY <1>2, <1>5, <1>6, <2>2, <2>3 DEF Carries, IsData
        <5>2. PICK g \in Seq(Items), u \in Seq(Items), w \in Nat, s \in {"none", "open", "closed"} :
                 g = ends["src"][c].got /\ u = ends["dst"][c].unread /\ w = ends["dst"][c].wrote /\ s = ends["dst"][c].st
          <6>1. ends["src"][c].got \in Seq(Items) /\ ends["dst"][c].unread \in Seq(Items) /\ ends["dst"][c].wrote \in Nat
                /\ ends["dst"][c].st \in {"none", "open", "closed"}
            BY <1>8, EndsAt DEF Types
          <6> QED BY <6>1, Zenon
        <5>3. Flow(c, u, toSource, g, w, s)
          BY <5>2, FlowParts
        <5>4. \A x \in Elems(g) : x.n # 0
          BY <2>5, <5>2 DEF Unended
        <5>5. Flow(c, u, Tail(toSource), Append(g, Head(toSource).item), w, s)
          BY <1>1, <1>2, <1>7, <1>8, <5>1, <5>3, <5>4, FlowGiven
        <5> QED BY <1>1, <1>2, <1>4, <2>6, <4>1, <4>4, <5>2, <5>5
      <4> QED BY <2>6, <4>2, <4>3, <4>4
    <3> QED BY <3>1, FlowPartsNext
  <2>9. Unended(ends'["src"][c].got)
    <3>1. ends["src"][c].got \in Seq(Items)
      BY <1>8, EndsAt DEF Types
    <3> QED BY <1>5, <1>7, <2>5, <2>6, <3>1, GivenKept
  <2>10. NamesOK(names)' /\ ConnsInv(names)' /\ FdsOK'
    <3>1. DOMAIN fdConn' \subseteq DOMAIN fdConn /\ \A f \in DOMAIN fdConn' : fdConn'[f] = fdConn[f]
      BY <1>4
    <3> QED BY <1>4, <2>5, <2>6, <2>9, <3>1, SourceEndChanges
  <2> QED BY <1>10, <2>7, <2>8, <2>10 DEF Linked, FdsInv
<1> QED BY <1>12, <1>13

-----------------------------------------------------------------------------
(* Both sides read their sockets.                                          *)

LEMMA ReadAllIs ==
    ASSUME EndsTyped, NEW e \in Sides, NEW cs, ends' = ReadAll(ends, e, cs)
    PROVE  /\ EndsTyped'
           /\ \A d \in Sides, b \in Conns : d # e \/ b \notin cs => ends'[d][b] = ends[d][b]
           /\ \A d \in Sides, b \in Conns :
                ends'[d][b].st = ends[d][b].st /\ ends'[d][b].wrote = ends[d][b].wrote /\ ends'[d][b].got = ends[d][b].got
           /\ \A b \in Conns : b \in cs => ends'[e][b].unread = <<>>
<1> DEFINE N(b) == IF b \in cs THEN [ends[e][b] EXCEPT !.unread = <<>>] ELSE ends[e][b]
<1>1. ends' = [ends EXCEPT ![e] = [b \in Conns |-> N(b)]]
  BY DEF ReadAll
<1>2. ASSUME NEW b \in Conns, b \in cs
      PROVE  /\ N(b) \in EndRec /\ N(b).st = ends[e][b].st /\ N(b).wrote = ends[e][b].wrote /\ N(b).unread = <<>>
             /\ N(b).got = ends[e][b].got
  <2>1. PICK o \in EndRec : o = ends[e][b]
    BY EndsAt
  <2>2. <<>> \in Seq(Items)
    OBVIOUS
  <2>3. PICK m \in Seq(Items) : m = <<>>
    BY <2>2, Zenon
  <2>4. N(b) = [o EXCEPT !.unread = m]
    BY <1>2, <2>1, <2>3
  <2>5. [o EXCEPT !.unread = m] \in EndRec
    BY <2>1 DEF EndRec
  <2> QED BY <2>1, <2>3, <2>4, <2>5 DEF EndRec
<1>3. ASSUME NEW b \in Conns, b \notin cs PROVE N(b) \in EndRec /\ N(b) = ends[e][b]
  BY <1>3, EndsAt
<1>4. \A b \in Conns : N(b) \in EndRec
  BY <1>2, <1>3
<1> HIDE DEF N
<1>5. /\ ends' \in [Sides -> [Conns -> EndRec]] /\ \A b \in Conns : ends'[e][b] = N(b)
      /\ \A d \in Sides, b \in Conns : d # e => ends'[d][b] = ends[d][b]
  BY <1>1, <1>4 DEF EndsTyped
<1>6. \A d \in Sides, b \in Conns : d # e \/ b \notin cs => ends'[d][b] = ends[d][b]
  BY <1>3, <1>5
<1>7. \A b \in Conns : b \in cs =>
         /\ ends'[e][b].st = ends[e][b].st /\ ends'[e][b].wrote = ends[e][b].wrote /\ ends'[e][b].unread = <<>>
         /\ ends'[e][b].got = ends[e][b].got
  BY <1>2, <1>5
<1>8. EndsTyped'
  BY <1>5 DEF EndsTyped, EndRec, Items
<1> QED BY <1>6, <1>7, <1>8

\* The end of a socket is the last thing it reads.
LEMMA EndIsLast ==
    ASSUME NEW c, NEW u \in Seq(Items), NEW w, NEW s, UnreadOK(c, u, w, s)
    PROVE  EndsWithEnd(u) <=> \E x \in Elems(u) : x.n = 0
<1>1. PICK n \in Nat : n = Len(u) /\ DOMAIN u = 1..n
  OBVIOUS
<1>2. ASSUME EndsWithEnd(u) PROVE \E x \in Elems(u) : x.n = 0
  <2>1. u # <<>> /\ u[n].n = 0
    BY <1>1, <1>2 DEF EndsWithEnd, Last
  <2>2. n \in DOMAIN u
    BY <1>1, <2>1
  <2> QED BY <2>1, <2>2 DEF Elems
<1>3. ASSUME NEW x \in Elems(u), x.n = 0 PROVE EndsWithEnd(u)
  <2>1. PICK i \in 1..n : u[i] = x
    BY <1>1 DEF Elems
  <2>2. CASE i = n
    BY <1>1, <1>3, <2>1, <2>2 DEF EndsWithEnd, Last
  <2>3. CASE i # n
    <3>1. u[n] \in Elems(u) /\ Earlier(u, x, u[n])
      BY <1>1, <2>1, <2>3 DEF Elems, Earlier
    <3> QED BY <1>3, <3>1 DEF UnreadOK, Goes
  <2> QED BY <2>2, <2>3
<1> QED BY <1>2, <1>3

\* What the side e reads from the sockets conns, and sends after q.
LEMMA FlowAllRead ==
    ASSUME MaxData \in Nat, EndsTyped, NEW e \in Sides, NEW conns, NEW data,
           Sends(DOMAIN conns, [id \in DOMAIN conns |-> ends[e][conns[id]].unread], data),
           DOMAIN conns \subseteq Nat, \A id \in DOMAIN conns : conns[id] \in Conns,
           \A i, j \in DOMAIN conns : conns[i] = conns[j] => i = j,
           \A b \in Conns : UnreadOK(b, ends[e][b].unread, ends[e][b].wrote, ends[e][b].st),
           NEW c \in Conns, NEW q \in Seq(Wire), NEW g \in Seq(Items),
           Flow(c, ends[e][c].unread, q, g, ends[e][c].wrote, ends[e][c].st)
    PROVE  /\ c \in Range(conns) => Flow(c, <<>>, q \o data, g, ends[e][c].wrote, ends[e][c].st)
           /\ c \notin Range(conns) => Flow(c, ends[e][c].unread, q \o data, g, ends[e][c].wrote, ends[e][c].st)
<1>1. PICK D, u : D = DOMAIN conns /\ u = [id \in DOMAIN conns |-> ends[e][conns[id]].unread]
  OBVIOUS
<1>2. \A id \in D : u[id] = ends[e][conns[id]].unread
  BY <1>1
<1>3. Sends(D, u, data)
  BY <1>1
<1>4. data \in Seq(Wire)
  <2>1. PICK W : W = [kind : {"data"}, id : D, item : Items]
    OBVIOUS
  <2>2. W \subseteq Wire
    BY <1>1, <2>1 DEF Wire
  <2>3. data \in Seq(W)
    BY <1>3, <2>1 DEF Sends
  <2> QED BY <2>2, <2>3, SeqDef
<1>5. ASSUME NEW x \in Elems(data), Carries(x, c)
      PROVE  x.id \in D /\ conns[x.id] = c /\ x.item \in Elems(u[x.id])
  <2>0. PICK id \in D : \E y \in Elems(u[id]) : x = Datum(id, y)
    BY <1>3 DEF Sends
  <2>1. PICK y \in Elems(u[id]) : x = Datum(id, y)
    BY <2>0
  <2>2. y.conn = conns[id]
    BY <1>1, <1>2, <2>1 DEF UnreadOK
  <2> QED BY <1>5, <2>1, <2>2 DEF Datum, Carries
<1>6. ASSUME c \in Range(conns) PROVE Flow(c, <<>>, q \o data, g, ends[e][c].wrote, ends[e][c].st)
  <2>1. PICK id \in D : conns[id] = c
    BY <1>1, <1>6 DEF Range
  <2>2. PICK v \in Seq(Items), w \in Nat, s \in {"none", "open", "closed"} : v = ends[e][c].unread /\ w = ends[e][c].wrote /\ s = ends[e][c].st
    <3>1. ends[e][c].unread \in Seq(Items) /\ ends[e][c].wrote \in Nat /\ ends[e][c].st \in {"none", "open", "closed"}
      BY EndsAt
    <3> QED BY <3>1, Zenon
  <2>3. \A x \in Elems(data) : Carries(x, c) => x.id = id /\ x.item \in Elems(v)
    BY <1>1, <1>2, <1>5, <2>1, <2>2
  <2>4. u[id] = v
    BY <1>2, <2>1, <2>2
  <2>5. \A x, y \in Elems(data) : Earlier(data, x, y) /\ Carries(x, c) /\ Carries(y, c) => Earlier(v, x.item, y.item)
    BY <1>3, <2>3, <2>4 DEF Sends
  <2>6. Flow(c, v, q, g, w, s)
    BY <2>2
  <2>7. Flow(c, <<>>, q \o data, g, w, s)
    BY <1>4, <2>3, <2>5, <2>6, FlowRead
  <2> QED BY <2>2, <2>7
<1>7. ASSUME c \notin Range(conns) PROVE Flow(c, ends[e][c].unread, q \o data, g, ends[e][c].wrote, ends[e][c].st)
  <2>1. \A x \in Elems(data) : ~Carries(x, c)
    BY <1>1, <1>5, <1>7 DEF Range
  <2> QED BY <1>4, <2>1, FlowPassed
<1> QED BY <1>6, <1>7

\* r is q with the data after it.
Joins(q, r, data) ==
    /\ r \in Seq(Wire)
    /\ \A x : x \in Elems(r) <=> x \in Elems(q) \/ x \in Elems(data)
    /\ \A x, y : Earlier(q, x, y) => Earlier(r, x, y)
    /\ \A x, y : Earlier(r, x, y) => Earlier(q, x, y) \/ y \in Elems(data)
    /\ \A x \in Elems(q), y \in Elems(data) : Earlier(r, x, y)

LEMMA JoinsIs ==
    ASSUME NEW q \in Seq(Wire), NEW data \in Seq(Wire) PROVE Joins(q, q \o data, data)
<1>1. PICK r : r = q \o data
  OBVIOUS
<1>2. /\ r \in Seq(Wire) /\ Elems(r) = Elems(q) \cup Elems(data)
      /\ \A x, y : Earlier(r, x, y) <=> Earlier(q, x, y) \/ Earlier(data, x, y) \/ (x \in Elems(q) /\ y \in Elems(data))
  BY <1>1, ElemsConcat
<1>3. \A x, y : Earlier(data, x, y) => y \in Elems(data)
  BY EarlierTyped
<1>4. Joins(q, r, data)
  BY <1>2, <1>3 DEF Joins
<1> QED BY <1>1, <1>4

LEMMA IdsFinite == ASSUME Types, NEW D, D \subseteq 1..lastId PROVE IsFiniteSet(D) /\ D \subseteq Nat
<1>1. lastId \in Nat /\ 0 \in Int /\ lastId \in Int
  BY DEF Types, MapsTyped
<1>2. IsFiniteSet(1..lastId)
  BY <1>1, FS_Interval
<1>3. IsFiniteSet(D)
  BY <1>2, FS_Subset
<1>4. D \subseteq Nat
  BY <1>1
<1> QED BY <1>3, <1>4

LEMMA UnreadParts ==
    ASSUME FlowOK, NEW e \in Sides, NEW c \in Conns
    PROVE  UnreadOK(c, ends[e][c].unread, ends[e][c].wrote, ends[e][c].st)
  BY DEF FlowOK, Flow

\* What one side sends when it reads the sockets conns: nothing but data of
\* these connections, and the end of those that have ended.
LEMMA ReadsAre ==
    ASSUME Types, FlowOK, NEW names, NamesOK(names), NEW e \in Sides, NEW conns,
           DOMAIN conns \subseteq 1..lastId, \A id \in DOMAIN conns : conns[id] = names[id]
    PROVE  /\ Sends(DOMAIN conns, [id \in DOMAIN conns |-> ends[e][conns[id]].unread], ReadPackets(e, conns))
           /\ ReadPackets(e, conns) \in Seq(Wire)
           /\ DOMAIN conns \subseteq Nat /\ \A id \in DOMAIN conns : conns[id] \in Conns
           /\ \A i, j \in DOMAIN conns : conns[i] = conns[j] => i = j
           /\ \A x \in Elems(ReadPackets(e, conns)) :
                 /\ IsData(x) /\ x.id \in DOMAIN conns /\ x.item.conn = names[x.id]
                 /\ IsEnd(x) => EndsWithEnd(ends[e][conns[x.id]].unread)
           /\ \A id \in DOMAIN conns : EndsWithEnd(ends[e][conns[id]].unread) => EndIn(ReadPackets(e, conns), id)
<1>1. PICK data, D, u : data = ReadPackets(e, conns) /\ D = DOMAIN conns /\ u = [id \in DOMAIN conns |-> ends[e][conns[id]].unread]
  OBVIOUS
<1>2. D \subseteq 1..lastId /\ IsFiniteSet(D) /\ D \subseteq Nat
  BY <1>1, IdsFinite
<1>3. \A id \in D : conns[id] = names[id] /\ conns[id] \in Conns
  BY <1>1, <1>2 DEF NamesOK
<1>4. \A i, j \in D : conns[i] = conns[j] => i = j
  BY <1>1, <1>2 DEF NamesOK
<1>5. \A id \in D : u[id] = ends[e][conns[id]].unread /\ u[id] \in Seq(Items)
  BY <1>1, <1>3, EndsAt DEF Types
<1>6. Sends(D, u, data)
  BY <1>1, <1>2, <1>5, ReadPacketsAre
<1>7. data \in Seq(Wire)
  <2>1. PICK W : W = [kind : {"data"}, id : D, item : Items]
    OBVIOUS
  <2>2. W \subseteq Wire
    BY <1>2, <2>1 DEF Wire
  <2>3. data \in Seq(W)
    BY <1>6, <2>1 DEF Sends
  <2> QED BY <2>2, <2>3, SeqDef
<1>8. ASSUME NEW id \in D
      PROVE  /\ EndsWithEnd(u[id]) <=> \E y \in Elems(u[id]) : y.n = 0
             /\ \A y \in Elems(u[id]) : y.conn = names[id]
  <2>1. PICK c \in Conns : c = conns[id]
    BY <1>3
  <2>2. UnreadOK(c, ends[e][c].unread, ends[e][c].wrote, ends[e][c].st)
    BY UnreadParts
  <2>3. u[id] = ends[e][c].unread /\ u[id] \in Seq(Items)
    BY <1>5, <2>1
  <2>4. UnreadOK(c, u[id], ends[e][c].wrote, ends[e][c].st)
    BY <2>2, <2>3
  <2>5. \A y \in Elems(u[id]) : y.conn = names[id]
    BY <1>3, <2>1, <2>4 DEF UnreadOK
  <2> QED BY <2>3, <2>4, <2>5, EndIsLast
<1>9. ASSUME NEW x \in Elems(data)
      PROVE  IsData(x) /\ x.id \in D /\ x.item.conn = names[x.id] /\ (IsEnd(x) => EndsWithEnd(ends[e][conns[x.id]].unread))
  <2>0. PICK id \in D : \E y \in Elems(u[id]) : x = Datum(id, y)
    BY <1>6 DEF Sends
  <2>1. PICK y \in Elems(u[id]) : x = Datum(id, y)
    BY <2>0
  <2>2. x.kind = "data" /\ x.id = id /\ x.item = y
    BY <2>1 DEF Datum
  <2>3. IsEnd(x) => EndsWithEnd(u[id])
    BY <1>8, <2>2 DEF IsEnd
  <2> QED BY <1>5, <1>8, <2>2, <2>3 DEF IsData
<1>10. ASSUME NEW id \in D, EndsWithEnd(ends[e][conns[id]].unread) PROVE EndIn(data, id)
  <2>1. PICK y \in Elems(u[id]) : y.n = 0
    BY <1>5, <1>8, <1>10
  <2>2. PICK x : x = Datum(id, y)
    OBVIOUS
  <2>3. x \in Elems(data) /\ x.kind = "data" /\ x.id = id /\ x.item = y
    BY <1>6, <2>2 DEF Sends, Datum
  <2> QED BY <2>1, <2>3 DEF EndIn, IsEnd
<1> QED BY <1>1, <1>2, <1>3, <1>4, <1>6, <1>7, <1>9, <1>10

\* Only what is unread changes.
LEMMA ReadingKeeps ==
    ASSUME Types, NEW names, Linked(names), EndsTyped',
           \A d \in Sides, b \in Conns : ends'[d][b].st = ends[d][b].st /\ ends'[d][b].got = ends[d][b].got,
           \A d \in Sides, b \in Conns : ends'[d][b].unread = ends[d][b].unread \/ ends'[d][b].unread = <<>>
    PROVE  /\ \A b \in Conns : ends'["src"][b].st = "none" => Idle("src", b)' /\ ~Named(names, b)
           /\ \A b \in Conns : ~Named(names, b) => Idle("dst", b)'
           /\ \A d \in Sides, b \in Conns : Unended(ends'[d][b].got) <=> Unended(ends[d][b].got)
<1>1. "src" \in Sides /\ "dst" \in Sides
  BY SidesAre
<1>2. NoneOK(names) /\ UnnamedOK(names)
  BY DEF Linked, ConnsInv
<1>3. \A d \in Sides, b \in Conns : Idle(d, b) => Idle(d, b)'
  BY DEF Idle
<1>4. \A b \in Conns : ends'["src"][b].st = "none" => Idle("src", b) /\ ~Named(names, b)
  BY <1>1, <1>2 DEF NoneOK
<1>5. \A b \in Conns : ~Named(names, b) => Idle("dst", b)
  BY <1>2 DEF UnnamedOK
<1>6. \A b \in Conns : ends'["src"][b].st = "none" => Idle("src", b)' /\ ~Named(names, b)
  BY <1>1, <1>3, <1>4
<1>7. \A b \in Conns : ~Named(names, b) => Idle("dst", b)'
  BY <1>1, <1>3, <1>5
<1> QED BY <1>6, <1>7

LEMMA DestUpdateKeeps ==
    ASSUME ForwardAssumption, Types, FlowOK, NEW names, Linked(names), DestUpdate
    PROVE  Types' /\ FlowOK' /\ Linked(names)'
<1>1. PICK ended : ended = {id \in DOMAIN dests : EndsWithEnd(ends["dst"][dests[id]].unread)}
  OBVIOUS
<1>2. \E dead \in {{id} : id \in ended} \cup (IF ended = {} THEN {{}} ELSE {}) :
          \E live \in SUBSET (DOMAIN dests \ ended) :
            /\ toSource' = toSource \o DestReads(Restrict(dests, live \cup dead))
            /\ ends' = ReadAll(ends, "dst", Range(Restrict(dests, live \cup dead)))
            /\ dests' = Without(dests, dead)
            /\ UNCHANGED <<backlog, fdConn, unassignedFds, socketFdMap, idHandler, lastId, toDest, stalls>>
  BY <1>1 DEF DestUpdate, ids
<1>3. PICK dead \in SUBSET ended, live \in SUBSET (DOMAIN dests \ ended) :
            /\ toSource' = toSource \o DestReads(Restrict(dests, live \cup dead))
            /\ ends' = ReadAll(ends, "dst", Range(Restrict(dests, live \cup dead)))
            /\ dests' = Without(dests, dead)
            /\ UNCHANGED <<backlog, fdConn, unassignedFds, socketFdMap, idHandler, lastId, toDest, stalls>>
  <2>1. \A dead \in {{id} : id \in ended} \cup (IF ended = {} THEN {{}} ELSE {}) : dead \in SUBSET ended
    OBVIOUS
  <2> QED BY <1>2, <2>1
<1>4. PICK read : read = Restrict(dests, live \cup dead)
  OBVIOUS
<1>5. PICK data : data = ReadPackets("dst", read)
  OBVIOUS
<1>6. UNCHANGED <<backlog, fdConn, unassignedFds, socketFdMap, idHandler, lastId, toDest, stalls>>
  BY <1>3
<1>7. toSource' = toSource \o data /\ ends' = ReadAll(ends, "dst", Range(read)) /\ dests' = Without(dests, dead)
  BY <1>3, <1>4, <1>5 DEF DestReads
<1>8. /\ NamesOK(names) /\ ConnsInv(names) /\ FdsInv(names) /\ WireInv(names) /\ PairInv
      /\ "src" \in Sides /\ "dst" \in Sides /\ MaxData \in Nat
      /\ IsPartial(dests, 1..lastId, Conns) /\ EndsTyped /\ toSource \in Seq(Wire)
  BY SidesAre DEF Linked, ForwardAssumption, Types, MapsTyped, WireTyped
<1>9. /\ DOMAIN read = live \cup dead /\ \A id \in DOMAIN read : read[id] = dests[id] /\ id \in DOMAIN dests
      /\ \A id \in DOMAIN read : read[id] = names[id]
      /\ DOMAIN read \subseteq 1..lastId
  <2>1. live \cup dead \subseteq DOMAIN dests
    BY <1>1, <1>3
  <2>2. DOMAIN read = live \cup dead /\ \A id \in DOMAIN read : read[id] = dests[id] /\ id \in DOMAIN dests
    BY <1>4, <2>1 DEF Restrict
  <2>3. \A id \in DOMAIN read : read[id] = names[id]
    BY <1>8, <2>2 DEF ConnsInv, DestsOK
  <2>4. DOMAIN read \subseteq 1..lastId
    BY <1>8, <2>2 DEF IsPartial
  <2> QED BY <2>2, <2>3, <2>4
<1>10. /\ Sends(DOMAIN read, [id \in DOMAIN read |-> ends["dst"][read[id]].unread], data)
       /\ data \in Seq(Wire)
       /\ DOMAIN read \subseteq Nat /\ \A id \in DOMAIN read : read[id] \in Conns
       /\ \A i, j \in DOMAIN read : read[i] = read[j] => i = j
       /\ \A x \in Elems(data) : /\ IsData(x) /\ x.id \in DOMAIN read /\ x.item.conn = names[x.id]
                                 /\ IsEnd(x) => EndsWithEnd(ends["dst"][read[x.id]].unread)
       /\ \A id \in DOMAIN read : EndsWithEnd(ends["dst"][read[id]].unread) => EndIn(data, id)
  <2>1. /\ Sends(DOMAIN read, [id \in DOMAIN read |-> ends["dst"][read[id]].unread], ReadPackets("dst", read))
        /\ ReadPackets("dst", read) \in Seq(Wire)
        /\ DOMAIN read \subseteq Nat /\ \A id \in DOMAIN read : read[id] \in Conns
        /\ \A i, j \in DOMAIN read : read[i] = read[j] => i = j
        /\ \A x \in Elems(ReadPackets("dst", read)) :
              /\ IsData(x) /\ x.id \in DOMAIN read /\ x.item.conn = names[x.id]
              /\ IsEnd(x) => EndsWithEnd(ends["dst"][read[x.id]].unread)
        /\ \A id \in DOMAIN read : EndsWithEnd(ends["dst"][read[id]].unread) => EndIn(ReadPackets("dst", read), id)
    <3>1. NamesOK(names) /\ "dst" \in Sides /\ DOMAIN read \subseteq 1..lastId /\ \A id \in DOMAIN read : read[id] = names[id]
      BY <1>8, <1>9
    <3> QED BY <3>1, ReadsAre, Zenon
  <2> QED BY <1>5, <2>1
<1>11. Joins(toSource, toSource', data)
  BY <1>7, <1>8, <1>10, JoinsIs
<1>12. /\ EndsTyped'
       /\ \A d \in Sides, b \in Conns : d # "dst" \/ b \notin Range(read) => ends'[d][b] = ends[d][b]
       /\ \A d \in Sides, b \in Conns :
            ends'[d][b].st = ends[d][b].st /\ ends'[d][b].wrote = ends[d][b].wrote /\ ends'[d][b].got = ends[d][b].got
       /\ \A b \in Conns : b \in Range(read) => ends'["dst"][b].unread = <<>>
  <2>1. PICK cs : cs = Range(read)
    OBVIOUS
  <2>2. ends' = ReadAll(ends, "dst", cs)
    BY <1>7, <2>1
  <2>3. /\ EndsTyped'
        /\ \A d \in Sides, b \in Conns : d # "dst" \/ b \notin cs => ends'[d][b] = ends[d][b]
        /\ \A d \in Sides, b \in Conns :
            ends'[d][b].st = ends[d][b].st /\ ends'[d][b].wrote = ends[d][b].wrote /\ ends'[d][b].got = ends[d][b].got
        /\ \A b \in Conns : b \in cs => ends'["dst"][b].unread = <<>>
    BY <1>8, <2>2, ReadAllIs
  <2> QED BY <2>1, <2>3
<1>13. /\ DOMAIN dests' = DOMAIN dests \ dead /\ \A id \in DOMAIN dests' : dests'[id] = dests[id]
       /\ IsPartial(dests', 1..lastId, Conns)
  <2>1. IsPartial(dests', 1..lastId, Conns)
    BY <1>7, <1>8, WithoutPartial
  <2> QED BY <1>7, <2>1 DEF Without, Restrict
<1>14. Types'
  <2>1. MapsTyped'
    BY <1>6, <1>13 DEF Types, MapsTyped, IsPartial
  <2>2. toSource' \in Seq(Wire) /\ toDest' \in Seq(Wire)
    BY <1>6, <1>11 DEF Joins, Types, WireTyped
  <2>3. \A x \in Elems(toSource') : (IsResponse(x) => x.id \in 0..lastId) /\ (IsData(x) => x.id \in 1..lastId)
    <3>1. \A x \in Elems(toSource) : (IsResponse(x) => x.id \in 0..lastId) /\ (IsData(x) => x.id \in 1..lastId)
      BY DEF Types, WireTyped, IdsKnown
    <3>2. \A x \in Elems(data) : ~IsResponse(x) /\ x.id \in 1..lastId
      BY <1>9, <1>10, KindsApart
    <3> QED BY <1>11, <3>1, <3>2 DEF Joins
  <2>4. IdsKnown(toSource)'
    BY <1>6, <2>3 DEF IdsKnown, Elems, IsResponse, IsData
  <2>5. IdsKnown(toDest)'
    BY <1>6 DEF Types, WireTyped, IdsKnown
  <2> QED BY <1>12, <2>1, <2>2, <2>4, <2>5 DEF Types, WireTyped
<1>15. FlowOK'
  <2>1. ASSUME NEW b \in Conns
        PROVE  /\ Flow(b, ends'["src"][b].unread, toDest', ends'["dst"][b].got, ends'["src"][b].wrote, ends'["src"][b].st)
               /\ Flow(b, ends'["dst"][b].unread, toSource', ends'["src"][b].got, ends'["dst"][b].wrote, ends'["dst"][b].st)
    <3>1. Flow(b, ends["src"][b].unread, toDest, ends["dst"][b].got, ends["src"][b].wrote, ends["src"][b].st)
      BY FlowParts
    <3>2. PICK g \in Seq(Items) : g = ends["src"][b].got
      BY <1>8, EndsAt
    <3>3. Flow(b, ends["dst"][b].unread, toSource, g, ends["dst"][b].wrote, ends["dst"][b].st)
      BY <3>2, FlowParts
    <3>4. \A d \in Conns : UnreadOK(d, ends["dst"][d].unread, ends["dst"][d].wrote, ends["dst"][d].st)
      BY <1>8, UnreadParts
    <3>5. /\ b \in Range(read) => Flow(b, <<>>, toSource \o data, g, ends["dst"][b].wrote, ends["dst"][b].st)
          /\ b \notin Range(read) => Flow(b, ends["dst"][b].unread, toSource \o data, g, ends["dst"][b].wrote, ends["dst"][b].st)
      BY <1>8, <1>10, <3>3, <3>4, FlowAllRead
    <3>6. toSource' = toSource \o data
      BY <1>7
    <3> QED BY <1>6, <1>8, <1>12, <3>1, <3>2, <3>5, <3>6
  <2> QED BY <2>1, FlowPartsNext
<1>16. /\ \A b \in Conns : ends'["src"][b].st = "none" => Idle("src", b)' /\ ~Named(names, b)
       /\ \A b \in Conns : ~Named(names, b) => Idle("dst", b)'
       /\ \A d \in Sides, b \in Conns : Unended(ends'[d][b].got) <=> Unended(ends[d][b].got)
  <2>1. \A d \in Sides, b \in Conns : ends'[d][b].unread = ends[d][b].unread \/ ends'[d][b].unread = <<>>
    BY <1>12
  <2> QED BY <1>12, <2>1, ReadingKeeps
<1>17. NamesOK(names)' /\ QueuedOnce' /\ AwaitedOK' /\ SocketsOK(names)'
  BY <1>6, <1>8 DEF NamesOK, ConnsInv, FdsInv, QueuedOnce, AwaitedOK, SocketsOK, Awaited
<1>18. (\A b : Queued(b)' <=> Queued(b)) /\ (\A b : Accepted(b)' <=> Accepted(b))
  BY <1>6 DEF Queued, Accepted
<1>19. NoneOK(names)'
  <2>1. \A b \in Conns : ends'["src"][b].st = "none" => Idle("src", b)' /\ ~Named(names, b) /\ ~Queued(b)' /\ ~Accepted(b)'
    BY <1>8, <1>12, <1>16, <1>18 DEF ConnsInv, NoneOK
  <2> QED BY <2>1 DEF NoneOK, Named
<1>20. QueuedOK(names)'
  <2>1. \A b \in Conns : Queued(b)' => Unended(ends'["src"][b].got) /\ ~Named(names, b) /\ ~Accepted(b)'
    BY <1>8, <1>16, <1>18 DEF ConnsInv, QueuedOK, NotEnded
  <2> QED BY <2>1 DEF QueuedOK, NotEnded, Named, Unended, Elems
<1>21. UnnamedOK(names)'
  BY <1>16 DEF UnnamedOK, Named
<1>22. DestsOK(names)'
  <2>1. ASSUME NEW id \in DOMAIN dests' PROVE dests'[id] = names[id] /\ Unended(ends'["dst"][dests'[id]].got)
    BY <1>8, <1>13, <1>16 DEF ConnsInv, DestsOK, NotEnded, IsPartial
  <2> QED BY <2>1 DEF DestsOK, NotEnded, Unended, Elems
<1>23. FdsOK'
  <2>1. \A f \in DOMAIN fdConn : fdConn[f] \in Conns
    BY DEF Types, MapsTyped, IsPartial
  <2>2. \A f \in DOMAIN fdConn : Unended(ends'["src"][fdConn[f]].got)
    BY <1>8, <1>16, <2>1 DEF FdsInv, FdsOK, NotEnded
  <2> QED BY <1>6, <1>8, <2>2 DEF FdsInv, FdsOK, NotEnded, Unended, Elems
<1>24. (\A x \in Elems(data) : ~IsResponse(x) /\ ~IsRequest(x)) /\ (\A id : Answering(id)' <=> Answering(id))
  <2>1. \A x \in Elems(data) : ~IsResponse(x) /\ ~IsRequest(x)
    BY <1>10, KindsApart
  <2> QED BY <1>11, <2>1 DEF Answering, Joins
<1>25. RequestsOK(names)'
  BY <1>6, <1>8 DEF WireInv, RequestsOK, Awaited, Named
<1>26. ResponsesOK(names)'
  <2>1. \A x \in Elems(toSource') : IsResponse(x) =>
          Awaited(x.fd) /\ (x.id # 0 => names[x.id] = fdConn[x.fd] /\ x.id \notin DOMAIN idHandler)
    BY <1>8, <1>11, <1>24 DEF WireInv, ResponsesOK, Joins
  <2> QED BY <1>6, <2>1 DEF ResponsesOK, Elems, IsResponse, Awaited
<1>27. OneAnswer'
  <2>1. \A x \in Elems(toDest), y \in Elems(toSource') : IsRequest(x) /\ IsResponse(y) => x.fd # y.fd
    BY <1>8, <1>11, <1>24 DEF WireInv, OneAnswer, Joins
  <2>2. \A x, y \in Elems(toDest) : Earlier(toDest, x, y) /\ IsRequest(x) /\ IsRequest(y) => x.fd # y.fd
    BY <1>8 DEF WireInv, OneAnswer
  <2>3. \A x, y \in Elems(toSource') : Earlier(toSource', x, y) /\ IsResponse(x) /\ IsResponse(y) => x.fd # y.fd
    BY <1>8, <1>11, <1>24 DEF WireInv, OneAnswer, Joins
  <2> QED BY <1>6, <2>1, <2>2, <2>3 DEF OneAnswer, Elems, IsRequest, IsResponse, Earlier
<1>28. KindsOK'
  <2>1. \A x \in Elems(toSource') : ~IsRequest(x)
    BY <1>8, <1>11, <1>24 DEF WireInv, KindsOK, Joins
  <2> QED BY <1>6, <1>8, <2>1 DEF WireInv, KindsOK, Elems, IsRequest, IsResponse
<1>29. DataOK(names)'
  <2>1. \A x \in Elems(toSource') : IsData(x) => x.item.conn = names[x.id]
    BY <1>8, <1>10, <1>11 DEF WireInv, DataOK, Joins
  <2> QED BY <1>6, <1>8, <2>1 DEF WireInv, DataOK, Elems, IsData
<1>30. DataAnswered'
  <2>1. \A x \in Elems(toDest) : IsData(x) => ~Answering(x.id)'
    BY <1>8, <1>24 DEF WireInv, DataAnswered
  <2>2. ASSUME NEW x \in Elems(toSource'), IsData(x)
        PROVE  \/ x.id \in DOMAIN idHandler
               \/ \E y \in Elems(toSource') : IsResponse(y) /\ y.id = x.id /\ Earlier(toSource', y, x)
    <3>1. CASE x \in Elems(toSource)
      BY <1>8, <1>11, <2>2, <3>1 DEF WireInv, DataAnswered, Joins
    <3>2. CASE x \in Elems(data)
      <4>1. x.id \in DOMAIN dests
        BY <1>9, <1>10, <3>2
      <4>2. x.id \in DOMAIN idHandler \/ \E y \in Elems(toSource) : IsResponse(y) /\ y.id = x.id
        BY <1>8, <4>1 DEF PairInv, DestKept, Answering
      <4> QED BY <1>11, <3>2, <4>2 DEF Joins
    <3> QED BY <1>11, <3>1, <3>2 DEF Joins
  <2> QED BY <1>6, <2>1, <2>2 DEF DataAnswered, Elems, IsData, IsResponse, Earlier
<1>31. PairInv'
  <2>1. EndsOnce /\ DestKept /\ SourceKept /\ (\A id : SourceHas(id)' <=> SourceHas(id))
    BY <1>6, <1>8 DEF PairInv, SourceHas
  <2>2. ASSUME NEW x \in Elems(toSource'), IsEnd(x) PROVE x.id \notin DOMAIN dests'
    <3>1. CASE x \in Elems(toSource)
      BY <1>13, <2>1, <2>2, <3>1 DEF EndsOnce
    <3>2. CASE x \in Elems(data)
      <4>1. x.id \in live \cup dead /\ EndsWithEnd(ends["dst"][dests[x.id]].unread) /\ x.id \in DOMAIN dests
        BY <1>9, <1>10, <2>2, <3>2
      <4>2. x.id \in dead
        BY <1>1, <1>3, <4>1
      <4> QED BY <1>13, <4>2
    <3> QED BY <1>11, <3>1, <3>2 DEF Joins
  <2>3. \A x \in Elems(toDest) : IsEnd(x) => ~SourceHas(x.id)
    BY <2>1 DEF EndsOnce
  <2>4. EndsOnce'
    BY <1>6, <2>2, <2>3 DEF EndsOnce, Elems, IsEnd, SourceHas
  <2>5. DestKept'
    <3>1. \A id \in DOMAIN dests : (EndIn(toDest, id)' <=> EndIn(toDest, id)) /\ (Answering(id)' <=> Answering(id))
      BY <1>6, <1>24 DEF EndIn
    <3> QED BY <1>6, <1>13, <2>1, <3>1 DEF DestKept
  <2>6. SourceKept'
    <3>1. ASSUME NEW id \in 1..lastId, SourceHas(id)' \/ Answering(id)' PROVE id \in DOMAIN dests' \/ EndIn(toSource, id)'
      <4>1. id \in DOMAIN dests \/ EndIn(toSource, id)
        BY <1>24, <2>1, <3>1 DEF SourceKept
      <4>2. ASSUME NEW q, q = toSource \/ q = data, EndIn(q, id) PROVE \E x \in Elems(toSource') : IsEnd(x) /\ x.id = id
        BY <1>11, <4>2 DEF EndIn, Joins
      <4>3. id \in dead => EndIn(data, id)
        BY <1>1, <1>3, <1>9, <1>10
      <4>4. id \in DOMAIN dests' \/ \E x \in Elems(toSource') : IsEnd(x) /\ x.id = id
        BY <1>13, <4>1, <4>2, <4>3
      <4> QED BY <4>4 DEF EndIn
    <3> QED BY <1>6, <3>1 DEF SourceKept
  <2> QED BY <2>4, <2>5, <2>6 DEF PairInv
<1> QED BY <1>14, <1>15, <1>17, <1>19, <1>20, <1>21, <1>22, <1>23, <1>25, <1>26, <1>27, <1>28, <1>29, <1>30, <1>31
        DEF Linked, ConnsInv, FdsInv, WireInv

Request(fd, c) == [kind |-> "request", fd |-> fd, conn |-> c]

\* update() of the source handler h: the sockets in ended are closed, and c is
\* accepted on the descriptor in N, if there is one.
SourceStep(names, h, ended, N, c, data) ==
    /\ /\ ended \subseteq DOMAIN socketFdMap[h] /\ DOMAIN socketFdMap'[h] = DOMAIN socketFdMap[h] \ ended
       /\ \A i \in DOMAIN socketFdMap'[h] : socketFdMap'[h][i] = socketFdMap[h][i]
       /\ \A k \in Handlers : k # h => socketFdMap'[k] = socketFdMap[k]
    /\ /\ \A f : f \in DOMAIN fdConn' <=> f \in N \/ (f \in DOMAIN fdConn /\ \A i \in ended : socketFdMap[h][i] # f)
       /\ \A f \in DOMAIN fdConn' : f \in N => fdConn'[f] = c
       /\ \A f \in DOMAIN fdConn' : f \notin N => fdConn'[f] = fdConn[f]
       /\ \A f \in N : f \in DOMAIN fdConn => \E i \in ended : socketFdMap[h][i] = f
       /\ \A f, g \in N : f = g
    /\ /\ \A k \in Handlers : \A b : b \in Elems(backlog'[k]) => b \in Elems(backlog[k])
       /\ \A k \in Handlers : \A b, d : Earlier(backlog'[k], b, d) => Earlier(backlog[k], b, d)
       /\ \A f \in N : c \in Conns /\ c \in Elems(backlog[h]) /\ c \notin Elems(backlog'[h])
    /\ /\ \A k \in Handlers : k # h => unassignedFds'[k] = unassignedFds[k]
       /\ unassignedFds'[h] = unassignedFds[h] \cup N
    /\ /\ \A x : x \in Elems(toDest') <=> x \in Elems(toDest) \/ x \in Elems(data) \/ \E f \in N : x = Request(f, c)
       /\ \A x, y : Earlier(toDest', x, y) =>
             Earlier(toDest, x, y) \/ IsData(y) \/ (x \in Elems(toDest) /\ \E f \in N : y = Request(f, c))
    /\ /\ \A x \in Elems(data) : /\ IsData(x) /\ x.id \in DOMAIN socketFdMap[h] /\ x.item.conn = names[x.id]
                                 /\ IsEnd(x) => x.id \in ended
       /\ \A id \in ended : EndIn(data, id)
    /\ UNCHANGED <<idHandler, dests, lastId, toSource>>

LEMMA SourceStepFds ==
    ASSUME Types, NEW names, Linked(names), NEW h \in Handlers, NEW ended, NEW N, NEW c, NEW data,
           SourceStep(names, h, ended, N, c, data)
    PROVE  /\ \A f : Awaited(f) => f \in DOMAIN fdConn /\ f \in DOMAIN fdConn' /\ f \notin N /\ fdConn'[f] = fdConn[f]
           /\ \A f : Awaited(f)' <=> Awaited(f) \/ f \in N
           /\ AwaitedOK' /\ SocketsOK(names)'
<1>1. NamesOK(names) /\ AwaitedOK /\ SocketsOK(names)
  BY DEF Linked, FdsInv
<1>2. ASSUME NEW f, Awaited(f) PROVE f \in DOMAIN fdConn /\ f \in DOMAIN fdConn' /\ f \notin N /\ fdConn'[f] = fdConn[f]
  <2>1. f \in DOMAIN fdConn
    BY <1>1, <1>2 DEF Awaited, AwaitedOK
  <2>2. \A i \in ended : socketFdMap[h][i] # f
    BY <1>1, <1>2 DEF SocketsOK, SourceStep
  <2> QED BY <2>1, <2>2 DEF SourceStep
<1>3. \A k \in Handlers : \A f : f \in unassignedFds'[k] <=> f \in unassignedFds[k] \/ (k = h /\ f \in N)
  BY DEF SourceStep
<1>4. \A f : Awaited(f)' <=> Awaited(f) \/ f \in N
  BY <1>3 DEF Awaited
<1>5. AwaitedOK'
  <2>1. \A k \in Handlers : \A f : f \in unassignedFds[k] => Awaited(f)
    BY DEF Awaited
  <2>2. \A k \in Handlers : \A f : f \in unassignedFds'[k] => f \in DOMAIN fdConn'
    <3>1. \A f \in N : f \in DOMAIN fdConn'
      BY DEF SourceStep
    <3> QED BY <1>2, <1>3, <2>1, <3>1
  <2>3. \A k, g \in Handlers : \A f : f \in unassignedFds'[k] /\ f \in unassignedFds'[g] => k = g
    BY <1>1, <1>2, <1>3, <2>1 DEF AwaitedOK
  <2> QED BY <2>2, <2>3 DEF AwaitedOK
<1>6. SocketsOK(names)'
  <2>1. ASSUME NEW k \in Handlers, NEW i \in DOMAIN socketFdMap'[k]
        PROVE  /\ i \in DOMAIN idHandler' /\ idHandler'[i] = k
               /\ socketFdMap'[k][i] \in DOMAIN fdConn' /\ fdConn'[socketFdMap'[k][i]] = names[i]
               /\ \A g \in Handlers : socketFdMap'[k][i] \notin unassignedFds'[g]
    <3>1. PICK f : f = socketFdMap'[k][i]
      OBVIOUS
    <3>2. i \in DOMAIN socketFdMap[k] /\ ~(k = h /\ i \in ended) /\ f = socketFdMap[k][i]
      BY <3>1 DEF SourceStep
    <3>3. i \in DOMAIN idHandler /\ idHandler[i] = k /\ f \in DOMAIN fdConn /\ fdConn[f] = names[i] /\ ~Awaited(f)
      BY <1>1, <3>2 DEF SocketsOK
    <3>4. \A j \in ended : socketFdMap[h][j] # f
      <4>1. SUFFICES ASSUME NEW j \in ended, socketFdMap[h][j] = f PROVE FALSE
        OBVIOUS
      <4>2. j \in DOMAIN socketFdMap[h]
        BY DEF SourceStep
      <4>3. names[j] = names[i] /\ j \in DOMAIN idHandler /\ idHandler[j] = h
        BY <1>1, <3>3, <4>1, <4>2 DEF SocketsOK
      <4>4. i \in 1..lastId /\ j \in 1..lastId
        BY <3>3, <4>3 DEF Types, MapsTyped, IsPartial
      <4>5. i = j
        BY <1>1, <4>3, <4>4 DEF NamesOK
      <4> QED BY <3>2, <3>3, <4>3, <4>5
    <3>5. f \in DOMAIN fdConn' /\ f \notin N /\ fdConn'[f] = names[i]
      BY <3>3, <3>4 DEF SourceStep
    <3>6. \A g \in Handlers : f \notin unassignedFds'[g]
      BY <1>3, <3>3, <3>5 DEF Awaited
    <3>7. i \in DOMAIN idHandler' /\ idHandler'[i] = k
      BY <3>3 DEF SourceStep
    <3> QED BY <3>1, <3>5, <3>6, <3>7
  <2> QED BY <2>1 DEF SocketsOK, Awaited
<1> QED BY <1>2, <1>4, <1>5, <1>6

LEMMA SourceStepConns ==
    ASSUME Types, NEW names, Linked(names), NEW h \in Handlers, NEW ended, NEW N, NEW c, NEW data,
           SourceStep(names, h, ended, N, c, data), EndsTyped',
           \A d \in Sides, b \in Conns : ends'[d][b].st = ends[d][b].st /\ ends'[d][b].got = ends[d][b].got,
           \A d \in Sides, b \in Conns : ends'[d][b].unread = ends[d][b].unread \/ ends'[d][b].unread = <<>>
    PROVE  NamesOK(names)' /\ ConnsInv(names)' /\ FdsOK'
<1>1. /\ NamesOK(names) /\ NoneOK(names) /\ QueuedOK(names) /\ QueuedOnce /\ UnnamedOK(names) /\ DestsOK(names) /\ FdsOK
      /\ "src" \in Sides /\ "dst" \in Sides
  BY SidesAre DEF Linked, ConnsInv, FdsInv
<1>2. /\ \A b \in Conns : ends'["src"][b].st = "none" => Idle("src", b)' /\ ~Named(names, b)
      /\ \A b \in Conns : ~Named(names, b) => Idle("dst", b)'
      /\ \A d \in Sides, b \in Conns : Unended(ends'[d][b].got) <=> Unended(ends[d][b].got)
  BY ReadingKeeps
<1>3. UNCHANGED <<dests, lastId>>
  BY DEF SourceStep
<1>4. \A f \in N : c \in Conns /\ Queued(c)
  BY DEF SourceStep, Queued
<1>5. \A b : Queued(b)' => Queued(b) /\ (N # {} => b # c)
  <2>1. ASSUME NEW b, NEW k \in Handlers, b \in Elems(backlog'[k]) PROVE b \in Elems(backlog[k]) /\ (N # {} => b # c)
    <3>1. b \in Elems(backlog[k])
      BY <2>1 DEF SourceStep
    <3>2. ASSUME N # {}, b = c PROVE FALSE
      <4>1. c \in Elems(backlog[h]) /\ c \notin Elems(backlog'[h])
        BY <3>2 DEF SourceStep
      <4> QED BY <1>1, <2>1, <3>1, <3>2, <4>1 DEF QueuedOnce
    <3> QED BY <3>1, <3>2
  <2> QED BY <2>1 DEF Queued
<1>6. \A b : Accepted(b)' => Accepted(b) \/ (N # {} /\ b = c)
  BY DEF Accepted, SourceStep
<1>7. NamesOK(names)'
  BY <1>1, <1>3 DEF NamesOK
<1>8. NoneOK(names)'
  <2>1. \A b \in Conns : ends'["src"][b].st = "none" => ~Queued(b) /\ ~Accepted(b)
    BY <1>1 DEF NoneOK
  <2>2. \A b \in Conns : ends'["src"][b].st = "none" => Idle("src", b)' /\ ~Named(names, b) /\ ~Queued(b)' /\ ~Accepted(b)'
    BY <1>2, <1>4, <1>5, <1>6, <2>1
  <2> QED BY <2>2 DEF NoneOK, Named
<1>9. QueuedOK(names)'
  <2>1. \A b \in Conns : Queued(b)' => Unended(ends'["src"][b].got) /\ ~Named(names, b) /\ ~Accepted(b)'
    BY <1>1, <1>2, <1>5, <1>6 DEF QueuedOK, NotEnded
  <2> QED BY <2>1 DEF QueuedOK, NotEnded, Named, Unended, Elems
<1>10. QueuedOnce'
  <2>1. /\ \A k \in Handlers : \A b, d : Earlier(backlog'[k], b, d) => b # d
        /\ \A k, g \in Handlers : \A b : b \in Elems(backlog'[k]) /\ b \in Elems(backlog'[g]) => k = g
    <3>1. \A k \in Handlers : \A b : b \in Elems(backlog'[k]) => b \in Elems(backlog[k])
      BY DEF SourceStep
    <3>2. \A k \in Handlers : \A b, d : Earlier(backlog'[k], b, d) => Earlier(backlog[k], b, d)
      BY DEF SourceStep
    <3>3. \A k \in Handlers : \A b, d : Earlier(backlog'[k], b, d) => b # d
      BY <1>1, <3>2 DEF QueuedOnce
    <3>4. \A k, g \in Handlers : \A b : b \in Elems(backlog'[k]) /\ b \in Elems(backlog'[g]) => k = g
      BY <1>1, <3>1 DEF QueuedOnce
    <3> QED BY <3>3, <3>4
  <2> QED BY <2>1 DEF QueuedOnce, Elems, Earlier
<1>11. UnnamedOK(names)'
  BY <1>2 DEF UnnamedOK, Named
<1>12. DestsOK(names)'
  <2>1. \A id \in DOMAIN dests : dests[id] = names[id] /\ Unended(ends'["dst"][dests[id]].got)
    BY <1>1, <1>2 DEF DestsOK, NotEnded, Types, MapsTyped, IsPartial
  <2> QED BY <1>3, <2>1 DEF DestsOK, NotEnded, Unended, Elems
<1>13. FdsOK'
  <2>1. \A f \in DOMAIN fdConn' : \/ f \in N /\ fdConn'[f] = c
                                  \/ f \in DOMAIN fdConn /\ fdConn'[f] = fdConn[f]
    BY DEF SourceStep
  <2>2. \A f \in N : c \in Conns /\ Unended(ends'["src"][c].got) /\ ~Accepted(c)
    BY <1>1, <1>2, <1>4 DEF QueuedOK, NotEnded
  <2>3. \A f \in DOMAIN fdConn : fdConn[f] \in Conns
    BY DEF Types, MapsTyped, IsPartial
  <2>4. \A f \in DOMAIN fdConn : Unended(ends'["src"][fdConn[f]].got)
    BY <1>1, <1>2, <2>3 DEF FdsOK, NotEnded
  <2>5. \A f \in DOMAIN fdConn' : Unended(ends'["src"][fdConn'[f]].got)
    BY <2>1, <2>2, <2>4
  <2>6. \A f, g \in N : f = g
    BY DEF SourceStep
  <2>7. \A f, g \in DOMAIN fdConn' : fdConn'[f] = fdConn'[g] => f = g
    BY <1>1, <2>1, <2>2, <2>6 DEF FdsOK, Accepted
  <2> QED BY <2>5, <2>7 DEF FdsOK, NotEnded, Unended, Elems
<1> QED BY <1>7, <1>8, <1>9, <1>10, <1>11, <1>12, <1>13 DEF ConnsInv

LEMMA SourceStepWire ==
    ASSUME Types, NEW names, Linked(names), NEW h \in Handlers, NEW ended, NEW N, NEW c, NEW data,
           SourceStep(names, h, ended, N, c, data)
    PROVE  WireInv(names)' /\ PairInv'
<1>1. /\ NamesOK(names) /\ QueuedOK(names) /\ AwaitedOK /\ SocketsOK(names) /\ RequestsOK(names) /\ ResponsesOK(names)
      /\ OneAnswer /\ KindsOK /\ DataOK(names) /\ DataAnswered /\ EndsOnce /\ DestKept /\ SourceKept
  BY DEF Linked, ConnsInv, FdsInv, WireInv, PairInv
<1>2. /\ \A f : Awaited(f) => f \in DOMAIN fdConn /\ f \in DOMAIN fdConn' /\ f \notin N /\ fdConn'[f] = fdConn[f]
      /\ \A f : Awaited(f)' <=> Awaited(f) \/ f \in N
  BY SourceStepFds
<1>3. UNCHANGED <<idHandler, dests, lastId, toSource>>
  BY DEF SourceStep
<1>4. /\ \A f \in N : c \in Conns /\ ~Named(names, c) /\ f \in DOMAIN fdConn' /\ fdConn'[f] = c
  <2>1. \A f \in N : c \in Conns /\ Queued(c) /\ f \in DOMAIN fdConn' /\ fdConn'[f] = c
    BY DEF SourceStep, Queued
  <2> QED BY <1>1, <2>1 DEF QueuedOK
<1>5. \A x \in Elems(data) : IsData(x) /\ ~IsResponse(x) /\ ~IsRequest(x)
  BY KindsApart DEF SourceStep
<1>6. \A f \in N : /\ IsRequest(Request(f, c)) /\ ~IsData(Request(f, c)) /\ ~IsResponse(Request(f, c)) /\ ~IsEnd(Request(f, c))
                   /\ Request(f, c).fd = f /\ Request(f, c).conn = c
  BY DEF Request, IsRequest, IsData, IsResponse, IsEnd
<1>7. \A x : x \in Elems(toDest') <=> x \in Elems(toDest) \/ x \in Elems(data) \/ \E f \in N : x = Request(f, c)
  BY DEF SourceStep
<1>8. RequestsOK(names)'
  <2>1. ASSUME NEW x \in Elems(toDest'), IsRequest(x)
        PROVE  Awaited(x.fd)' /\ fdConn'[x.fd] = x.conn /\ ~Named(names, x.conn)
    <3>1. CASE x \in Elems(toDest)
      <4>1. Awaited(x.fd) /\ fdConn[x.fd] = x.conn /\ ~Named(names, x.conn)
        BY <1>1, <2>1, <3>1 DEF RequestsOK
      <4> QED BY <1>2, <4>1
    <3>2. ASSUME NEW f \in N, x = Request(f, c) PROVE Awaited(f)' /\ x.fd = f /\ x.conn = c /\ fdConn'[f] = c /\ ~Named(names, c)
      BY <1>2, <1>4, <1>6, <3>2
    <3>3. ASSUME NEW f \in N, x = Request(f, c) PROVE Awaited(x.fd)' /\ fdConn'[x.fd] = x.conn /\ ~Named(names, x.conn)
      BY <3>2, <3>3
    <3> QED BY <1>5, <1>7, <2>1, <3>1, <3>3
  <2> QED BY <2>1 DEF RequestsOK, Elems, IsRequest, Awaited, Named
<1>9. ResponsesOK(names)'
  <2>1. ASSUME NEW x \in Elems(toSource), IsResponse(x)
        PROVE  Awaited(x.fd)' /\ (x.id # 0 => names[x.id] = fdConn'[x.fd] /\ x.id \notin DOMAIN idHandler)
    BY <1>1, <1>2, <2>1 DEF ResponsesOK
  <2> QED BY <1>3, <2>1 DEF ResponsesOK, Elems, IsResponse, Awaited
<1>10. OneAnswer'
  <2>1. ASSUME NEW x \in Elems(toDest'), NEW y \in Elems(toSource), IsRequest(x), IsResponse(y) PROVE x.fd # y.fd
    <3>1. Awaited(y.fd)
      BY <1>1, <2>1 DEF ResponsesOK
    <3>2. CASE x \in Elems(toDest)
      BY <1>1, <2>1, <3>2 DEF OneAnswer
    <3>3. ASSUME NEW f \in N, x = Request(f, c) PROVE x.fd # y.fd
      BY <1>2, <1>6, <3>1, <3>3
    <3> QED BY <1>5, <1>7, <2>1, <3>2, <3>3
  <2>2. ASSUME NEW x \in Elems(toDest'), NEW y \in Elems(toDest'), Earlier(toDest', x, y), IsRequest(x), IsRequest(y)
        PROVE  x.fd # y.fd
    <3>1. CASE Earlier(toDest, x, y)
      <4>1. x \in Elems(toDest) /\ y \in Elems(toDest)
        BY <3>1, EarlierTyped DEF Types, WireTyped
      <4> QED BY <1>1, <2>2, <3>1, <4>1 DEF OneAnswer
    <3>2. ASSUME x \in Elems(toDest), NEW f \in N, y = Request(f, c) PROVE x.fd # y.fd
      <4>1. Awaited(x.fd)
        BY <1>1, <2>2, <3>2 DEF RequestsOK
      <4> QED BY <1>2, <1>6, <3>2, <4>1
    <3>3. ~IsData(y)
      BY <2>2, KindsApart
    <3> QED BY <2>2, <3>1, <3>2, <3>3 DEF SourceStep
  <2>3. \A x, y \in Elems(toSource) : Earlier(toSource, x, y) /\ IsResponse(x) /\ IsResponse(y) => x.fd # y.fd
    BY <1>1 DEF OneAnswer
  <2> QED BY <1>3, <2>1, <2>2, <2>3 DEF OneAnswer, Elems, IsRequest, IsResponse, Earlier
<1>11. KindsOK'
  <2>1. \A x \in Elems(toDest') : ~IsResponse(x)
    BY <1>1, <1>5, <1>6, <1>7 DEF KindsOK
  <2> QED BY <1>1, <1>3, <2>1 DEF KindsOK, Elems, IsRequest, IsResponse
<1>12. DataOK(names)'
  <2>1. \A x \in Elems(data) : x.item.conn = names[x.id]
    BY DEF SourceStep
  <2>2. \A x \in Elems(toDest') : IsData(x) => x.item.conn = names[x.id]
    BY <1>1, <1>6, <1>7, <2>1 DEF DataOK
  <2> QED BY <1>1, <1>3, <2>2 DEF DataOK, Elems, IsData
<1>13. \A x \in Elems(data) : x.id \in DOMAIN socketFdMap[h] /\ (IsEnd(x) => x.id \in ended)
  BY DEF SourceStep
<1>14. DataAnswered'
  <2>1. ASSUME NEW x \in Elems(toDest'), IsData(x) PROVE ~Answering(x.id)
    <3>1. CASE x \in Elems(toDest)
      BY <1>1, <2>1, <3>1 DEF DataAnswered
    <3>2. CASE x \in Elems(data)
      <4>1. x.id \in DOMAIN idHandler
        BY <1>1, <1>13, <3>2 DEF SocketsOK
      <4>2. x.id # 0
        BY <4>1 DEF Types, MapsTyped, IsPartial
      <4> QED BY <1>1, <4>1, <4>2 DEF Answering, ResponsesOK
    <3> QED BY <1>6, <1>7, <2>1, <3>1, <3>2
  <2>2. \A x \in Elems(toSource) : IsData(x) =>
          \/ x.id \in DOMAIN idHandler
          \/ \E y \in Elems(toSource) : IsResponse(y) /\ y.id = x.id /\ Earlier(toSource, y, x)
    BY <1>1 DEF DataAnswered
  <2> QED BY <1>3, <2>1, <2>2 DEF DataAnswered, Answering, Elems, IsData, IsResponse, Earlier
<1>15. \A id : SourceHas(id)' <=> SourceHas(id) /\ id \notin ended
  <2>1. /\ \A k \in Handlers : \A id : id \in DOMAIN socketFdMap'[k] <=> id \in DOMAIN socketFdMap[k] /\ ~(k = h /\ id \in ended)
        /\ \A id \in ended : id \in DOMAIN socketFdMap[h]
    BY DEF SourceStep
  <2>2. \A k \in Handlers : \A id \in ended : id \in DOMAIN socketFdMap[k] => k = h
    BY <1>1, <2>1 DEF SocketsOK
  <2> QED BY <2>1, <2>2 DEF SourceHas
<1>16. EndsOnce'
  <2>1. ASSUME NEW x \in Elems(toDest'), IsEnd(x) PROVE ~SourceHas(x.id)'
    <3>1. CASE x \in Elems(toDest)
      BY <1>1, <1>15, <2>1, <3>1 DEF EndsOnce
    <3>2. CASE x \in Elems(data)
      BY <1>13, <1>15, <2>1, <3>2
    <3> QED BY <1>6, <1>7, <2>1, <3>1, <3>2
  <2> QED BY <1>1, <1>3, <2>1 DEF EndsOnce, Elems, IsEnd
<1>17. (\A id : Answering(id)' <=> Answering(id)) /\ (\A id : EndIn(toSource, id)' <=> EndIn(toSource, id))
  BY <1>3 DEF Answering, EndIn
<1>18. \A id : EndIn(toDest, id) \/ id \in ended => EndIn(toDest, id)'
  <2>1. \A id : EndIn(toDest, id) \/ EndIn(data, id) => \E x \in Elems(toDest') : IsEnd(x) /\ x.id = id
    BY <1>7 DEF EndIn
  <2>2. \A id \in ended : EndIn(data, id)
    BY DEF SourceStep
  <2> QED BY <2>1, <2>2 DEF EndIn
<1>19. DestKept'
  <2>1. \A id \in DOMAIN dests : /\ SourceHas(id)' \/ EndIn(toDest, id)' \/ Answering(id)'
                                 /\ id \in DOMAIN idHandler \/ Answering(id)'
    BY <1>1, <1>15, <1>17, <1>18 DEF DestKept
  <2> QED BY <1>3, <2>1 DEF DestKept
<1>20. SourceKept'
  <2>1. \A id \in 1..lastId : SourceHas(id)' \/ Answering(id)' => id \in DOMAIN dests \/ EndIn(toSource, id)'
    BY <1>1, <1>15, <1>17 DEF SourceKept
  <2> QED BY <1>3, <2>1 DEF SourceKept
<1> QED BY <1>8, <1>9, <1>10, <1>11, <1>12, <1>14, <1>16, <1>19, <1>20 DEF WireInv, PairInv

LEMMA SourceUpdateKeeps ==
    ASSUME ForwardAssumption, Types, FlowOK, NEW names, Linked(names), NEW h \in Handlers, SourceUpdate(h)
    PROVE  Types' /\ FlowOK' /\ Linked(names)'
<1>1. PICK conns : conns = [id \in DOMAIN socketFdMap[h] |-> fdConn[socketFdMap[h][id]]]
  OBVIOUS
<1>2. PICK ended : ended = {id \in DOMAIN conns : EndsWithEnd(ends["src"][conns[id]].unread)}
  OBVIOUS
<1>3. PICK open : open = Without(fdConn, {socketFdMap[h][id] : id \in ended})
  OBVIOUS
<1>4. PICK data : data = ReadPackets("src", conns)
  OBVIOUS
<1>5. /\ socketFdMap' = [socketFdMap EXCEPT ![h] = Without(@, ended)]
      /\ ends' = ReadAll(ends, "src", Range(conns))
      /\ \/ fdConn' = open /\ toDest' = toDest \o data /\ UNCHANGED <<unassignedFds, backlog>>
         \/ \E fd \in Fds \ DOMAIN open :
                /\ backlog[h] # <<>>
                /\ fdConn' = With(open, fd, Head(backlog[h]))
                /\ unassignedFds' = [unassignedFds EXCEPT ![h] = @ \cup {fd}]
                /\ toDest' = Append(toDest, [kind |-> "request", fd |-> fd, conn |-> Head(backlog[h])]) \o data
                /\ backlog' = [backlog EXCEPT ![h] = Tail(@)]
      /\ UNCHANGED <<idHandler, dests, lastId, toSource, stalls>>
  BY <1>1, <1>2, <1>3, <1>4 DEF SourceUpdate, ids
<1>6. UNCHANGED <<idHandler, dests, lastId, toSource, stalls>>
  BY <1>5
<1>7. /\ NamesOK(names) /\ SocketsOK(names) /\ "src" \in Sides /\ "dst" \in Sides /\ MaxData \in Nat /\ EndsTyped
      /\ IsPartial(fdConn, Fds, Conns) /\ socketFdMap = [k \in Handlers |-> socketFdMap[k]]
      /\ \A k \in Handlers : IsPartial(socketFdMap[k], 1..lastId, Fds)
      /\ unassignedFds \in [Handlers -> SUBSET Fds] /\ backlog \in [Handlers -> Seq(Conns)] /\ toDest \in Seq(Wire)
  BY SidesAre DEF Linked, FdsInv, ForwardAssumption, Types, MapsTyped, WireTyped
<1>8. /\ DOMAIN conns = DOMAIN socketFdMap[h] /\ DOMAIN conns \subseteq 1..lastId
      /\ \A id \in DOMAIN conns : conns[id] = names[id]
  <2>1. DOMAIN conns = DOMAIN socketFdMap[h] /\ \A id \in DOMAIN conns : conns[id] = fdConn[socketFdMap[h][id]]
    BY <1>1
  <2> QED BY <1>7, <2>1 DEF SocketsOK, IsPartial
<1>9. /\ Sends(DOMAIN conns, [id \in DOMAIN conns |-> ends["src"][conns[id]].unread], data)
      /\ data \in Seq(Wire)
      /\ DOMAIN conns \subseteq Nat /\ \A id \in DOMAIN conns : conns[id] \in Conns
      /\ \A i, j \in DOMAIN conns : conns[i] = conns[j] => i = j
      /\ \A x \in Elems(data) : /\ IsData(x) /\ x.id \in DOMAIN conns /\ x.item.conn = names[x.id]
                                /\ IsEnd(x) => EndsWithEnd(ends["src"][conns[x.id]].unread)
      /\ \A id \in DOMAIN conns : EndsWithEnd(ends["src"][conns[id]].unread) => EndIn(data, id)
  <2>2. NamesOK(names) /\ "src" \in Sides /\ DOMAIN conns \subseteq 1..lastId /\ \A id \in DOMAIN conns : conns[id] = names[id]
    BY <1>7, <1>8
  <2>3. /\ Sends(DOMAIN conns, [id \in DOMAIN conns |-> ends["src"][conns[id]].unread], ReadPackets("src", conns))
        /\ ReadPackets("src", conns) \in Seq(Wire)
        /\ DOMAIN conns \subseteq Nat /\ \A id \in DOMAIN conns : conns[id] \in Conns
        /\ \A i, j \in DOMAIN conns : conns[i] = conns[j] => i = j
        /\ \A x \in Elems(ReadPackets("src", conns)) :
              /\ IsData(x) /\ x.id \in DOMAIN conns /\ x.item.conn = names[x.id]
              /\ IsEnd(x) => EndsWithEnd(ends["src"][conns[x.id]].unread)
        /\ \A id \in DOMAIN conns : EndsWithEnd(ends["src"][conns[id]].unread) => EndIn(ReadPackets("src", conns), id)
    BY <2>2, ReadsAre, Zenon
  <2> QED BY <1>4, <2>3
<1>10. /\ EndsTyped'
       /\ \A d \in Sides, b \in Conns : d # "src" \/ b \notin Range(conns) => ends'[d][b] = ends[d][b]
       /\ \A d \in Sides, b \in Conns :
            ends'[d][b].st = ends[d][b].st /\ ends'[d][b].wrote = ends[d][b].wrote /\ ends'[d][b].got = ends[d][b].got
       /\ \A b \in Conns : b \in Range(conns) => ends'["src"][b].unread = <<>>
  <2>1. PICK cs : cs = Range(conns)
    OBVIOUS
  <2>2. ends' = ReadAll(ends, "src", cs)
    BY <1>5, <2>1
  <2>3. /\ EndsTyped'
        /\ \A d \in Sides, b \in Conns : d # "src" \/ b \notin cs => ends'[d][b] = ends[d][b]
        /\ \A d \in Sides, b \in Conns :
            ends'[d][b].st = ends[d][b].st /\ ends'[d][b].wrote = ends[d][b].wrote /\ ends'[d][b].got = ends[d][b].got
        /\ \A b \in Conns : b \in cs => ends'["src"][b].unread = <<>>
    BY <1>7, <2>2, ReadAllIs
  <2> QED BY <2>1, <2>3
<1>11. /\ ended \subseteq DOMAIN socketFdMap[h] /\ DOMAIN socketFdMap'[h] = DOMAIN socketFdMap[h] \ ended
       /\ \A i \in DOMAIN socketFdMap'[h] : socketFdMap'[h][i] = socketFdMap[h][i]
       /\ \A k \in Handlers : k # h => socketFdMap'[k] = socketFdMap[k]
       /\ socketFdMap' = [k \in Handlers |-> socketFdMap'[k]]
       /\ \A k \in Handlers : IsPartial(socketFdMap'[k], 1..lastId, Fds)
  <2>1. /\ socketFdMap'[h] = Without(socketFdMap[h], ended) /\ socketFdMap' = [k \in Handlers |-> socketFdMap'[k]]
        /\ \A k \in Handlers : k # h => socketFdMap'[k] = socketFdMap[k]
    BY <1>5, <1>7
  <2>2. IsPartial(socketFdMap'[h], 1..lastId, Fds)
    BY <1>7, <2>1, WithoutPartial
  <2>3. ended \subseteq DOMAIN socketFdMap[h]
    BY <1>2, <1>8
  <2>4. DOMAIN socketFdMap'[h] = DOMAIN socketFdMap[h] \ ended /\ \A i \in DOMAIN socketFdMap'[h] : socketFdMap'[h][i] = socketFdMap[h][i]
    BY <2>1 DEF Without, Restrict
  <2> QED BY <1>7, <2>1, <2>2, <2>3, <2>4
<1>12. /\ IsPartial(open, Fds, Conns)
       /\ \A f : f \in DOMAIN open <=> f \in DOMAIN fdConn /\ \A i \in ended : socketFdMap[h][i] # f
       /\ \A f \in DOMAIN open : open[f] = fdConn[f]
  <2>1. IsPartial(open, Fds, Conns)
    BY <1>3, <1>7, WithoutPartial
  <2> QED BY <1>3, <2>1 DEF Without, Restrict
<1>13. /\ \A x \in Elems(data) : /\ IsData(x) /\ x.id \in DOMAIN socketFdMap[h] /\ x.item.conn = names[x.id]
                                 /\ IsEnd(x) => x.id \in ended
       /\ \A id \in ended : EndIn(data, id)
  BY <1>2, <1>8, <1>9
<1>14. ASSUME NEW q \in Seq(Wire), NEW b \in Conns,
              Flow(b, ends["src"][b].unread, q, ends["dst"][b].got, ends["src"][b].wrote, ends["src"][b].st)
       PROVE  Flow(b, ends'["src"][b].unread, q \o data, ends'["dst"][b].got, ends'["src"][b].wrote, ends'["src"][b].st)
  <2>1. PICK g \in Seq(Items) : g = ends["dst"][b].got
    BY <1>7, EndsAt
  <2>2. Flow(b, ends["src"][b].unread, q, g, ends["src"][b].wrote, ends["src"][b].st)
    BY <1>14, <2>1
  <2>3. \A d \in Conns : UnreadOK(d, ends["src"][d].unread, ends["src"][d].wrote, ends["src"][d].st)
    BY <1>7, UnreadParts
  <2>4. /\ b \in Range(conns) => Flow(b, <<>>, q \o data, g, ends["src"][b].wrote, ends["src"][b].st)
        /\ b \notin Range(conns) => Flow(b, ends["src"][b].unread, q \o data, g, ends["src"][b].wrote, ends["src"][b].st)
    BY <1>7, <1>9, <2>2, <2>3, FlowAllRead
  <2>5. ends'["dst"][b].got = g
    BY <1>7, <1>10, <2>1
  <2> QED BY <1>7, <1>10, <2>4, <2>5
<1>15. \A d \in Sides, b \in Conns : ends'[d][b].unread = ends[d][b].unread \/ ends'[d][b].unread = <<>>
  BY <1>10
<1>16. ASSUME NEW q \in Seq(Wire), toDest' = q \o data,
              \A b \in Conns : Flow(b, ends["src"][b].unread, q, ends["dst"][b].got, ends["src"][b].wrote, ends["src"][b].st)
       PROVE  FlowOK'
  <2>1. ASSUME NEW b \in Conns
        PROVE  /\ Flow(b, ends'["src"][b].unread, toDest', ends'["dst"][b].got, ends'["src"][b].wrote, ends'["src"][b].st)
               /\ Flow(b, ends'["dst"][b].unread, toSource', ends'["src"][b].got, ends'["dst"][b].wrote, ends'["dst"][b].st)
    <3>1. Flow(b, ends'["src"][b].unread, q \o data, ends'["dst"][b].got, ends'["src"][b].wrote, ends'["src"][b].st)
      BY <1>14, <1>16
    <3>2. Flow(b, ends["dst"][b].unread, toSource, ends["src"][b].got, ends["dst"][b].wrote, ends["dst"][b].st)
      BY FlowParts
    <3>3. ends'["dst"][b] = ends["dst"][b] /\ ends'["src"][b].got = ends["src"][b].got
      BY <1>7, <1>10
    <3> QED BY <1>6, <1>16, <3>1, <3>2, <3>3
  <2> QED BY <2>1, FlowPartsNext
<1>17. ASSUME NEW N, NEW c, SourceStep(names, h, ended, N, c, data) PROVE Linked(names)'
  <2>1. AwaitedOK' /\ SocketsOK(names)'
    BY <1>17, SourceStepFds
  <2>2. WireInv(names)' /\ PairInv'
    BY <1>17, SourceStepWire
  <2>3. NamesOK(names)' /\ ConnsInv(names)' /\ FdsOK'
    BY <1>10, <1>15, <1>17, SourceStepConns
  <2> QED BY <2>1, <2>2, <2>3 DEF Linked, FdsInv
<1>18. ASSUME toDest' \in Seq(Wire), IsPartial(fdConn', Fds, Conns), unassignedFds' \in [Handlers -> SUBSET Fds],
              backlog' \in [Handlers -> Seq(Conns)],
              \A x \in Elems(toDest') : x \in Elems(toDest) \/ x \in Elems(data) \/ IsRequest(x)
       PROVE  Types'
  <2>1. MapsTyped'
    BY <1>6, <1>11, <1>18 DEF Types, MapsTyped, IsPartial
  <2>2. \A x \in Elems(toDest') : (IsResponse(x) => x.id \in 0..lastId) /\ (IsData(x) => x.id \in 1..lastId)
    <3>1. \A x \in Elems(toDest) : (IsResponse(x) => x.id \in 0..lastId) /\ (IsData(x) => x.id \in 1..lastId)
      BY DEF Types, WireTyped, IdsKnown
    <3>2. \A x \in Elems(data) : ~IsResponse(x) /\ x.id \in 1..lastId
      BY <1>8, <1>9, KindsApart
    <3> QED BY <1>18, <3>1, <3>2, KindsApart
  <2>3. IdsKnown(toDest)'
    BY <1>6, <2>2 DEF IdsKnown, Elems, IsResponse, IsData
  <2>4. IdsKnown(toSource)' /\ toSource' \in Seq(Wire)
    BY <1>6 DEF Types, WireTyped, IdsKnown
  <2> QED BY <1>10, <1>18, <2>1, <2>3, <2>4 DEF Types, WireTyped
<1>19. CASE fdConn' = open /\ toDest' = toDest \o data /\ UNCHANGED <<unassignedFds, backlog>>
  <2>1. Joins(toDest, toDest', data)
    BY <1>7, <1>9, <1>19, JoinsIs
  <2>2. FlowOK'
    <3>1. \A b \in Conns : Flow(b, ends["src"][b].unread, toDest, ends["dst"][b].got, ends["src"][b].wrote, ends["src"][b].st)
      BY FlowParts
    <3> QED BY <1>7, <1>16, <1>19, <3>1
  <2>3. Types'
    <3>1. toDest' \in Seq(Wire) /\ \A x \in Elems(toDest') : x \in Elems(toDest) \/ x \in Elems(data) \/ IsRequest(x)
      BY <2>1 DEF Joins
    <3>2. IsPartial(fdConn', Fds, Conns) /\ unassignedFds' \in [Handlers -> SUBSET Fds] /\ backlog' \in [Handlers -> Seq(Conns)]
      BY <1>7, <1>12, <1>19
    <3> QED BY <1>18, <3>1, <3>2
  <2>4. PICK N : N = {}
    OBVIOUS
  <2>5. SourceStep(names, h, ended, N, names, data)
    <3>1. \A f : f \in DOMAIN fdConn' <=> f \in N \/ (f \in DOMAIN fdConn /\ \A i \in ended : socketFdMap[h][i] # f)
      BY <1>12, <1>19, <2>4
    <3>2. \A f \in DOMAIN fdConn' : fdConn'[f] = fdConn[f]
      BY <1>12, <1>19
    <3>3. unassignedFds'[h] = unassignedFds[h] \cup N /\ \A k \in Handlers : k # h => unassignedFds'[k] = unassignedFds[k]
      BY <1>19, <2>4
    <3>4. /\ \A k \in Handlers : \A b : b \in Elems(backlog'[k]) => b \in Elems(backlog[k])
          /\ \A k \in Handlers : \A b, d : Earlier(backlog'[k], b, d) => Earlier(backlog[k], b, d)
      BY <1>19
    <3>5. /\ \A x : x \in Elems(toDest') <=> x \in Elems(toDest) \/ x \in Elems(data)
          /\ \A x, y : Earlier(toDest', x, y) => Earlier(toDest, x, y) \/ y \in Elems(data)
      BY <2>1 DEF Joins
    <3>6. \A f : f \notin N
      BY <2>4
    <3> QED BY <1>6, <1>11, <1>13, <3>1, <3>2, <3>3, <3>4, <3>5, <3>6 DEF SourceStep
  <2> QED BY <1>17, <2>2, <2>3, <2>5
<1>20. ASSUME NEW fd \in Fds \ DOMAIN open, backlog[h] # <<>>, fdConn' = With(open, fd, Head(backlog[h])),
              unassignedFds' = [unassignedFds EXCEPT ![h] = @ \cup {fd}],
              toDest' = Append(toDest, [kind |-> "request", fd |-> fd, conn |-> Head(backlog[h])]) \o data,
              backlog' = [backlog EXCEPT ![h] = Tail(@)]
       PROVE  Types' /\ FlowOK' /\ Linked(names)'
  <2>1. PICK c : c = Head(backlog[h])
    OBVIOUS
  <2>2. PICK r : r = Append(toDest, Request(fd, c))
    OBVIOUS
  <2>3. /\ toDest' = r \o data /\ fdConn' = With(open, fd, c) /\ fd \in Fds /\ fd \notin DOMAIN open
        /\ backlog'[h] = Tail(backlog[h]) /\ \A k \in Handlers : k # h => backlog'[k] = backlog[k]
        /\ unassignedFds' \in [Handlers -> SUBSET Fds] /\ unassignedFds'[h] = unassignedFds[h] \cup {fd}
        /\ \A k \in Handlers : k # h => unassignedFds'[k] = unassignedFds[k]
    BY <1>7, <1>20, <2>1, <2>2 DEF Request
  <2>4. PICK t, u : t = Tail(backlog[h]) /\ u = backlog[h]
    OBVIOUS
  <2>5. u \in Seq(Conns) /\ u # <<>> /\ t = Tail(u) /\ c = Head(u)
    BY <1>7, <1>20, <2>1, <2>4
  <2>6. /\ t \in Seq(Conns) /\ c \in Conns /\ c \in Elems(u) /\ (\A b : b \in Elems(t) => b \in Elems(u))
        /\ (\A b, d : Earlier(t, b, d) => Earlier(u, b, d)) /\ (\A b \in Elems(t) : Earlier(u, c, b))
    BY <2>5, ElemsTail
  <2>7. backlog' \in [Handlers -> Seq(Conns)]
    <3>1. backlog' = [backlog EXCEPT ![h] = t]
      BY <1>20, <2>4
    <3> QED BY <1>7, <2>6, <3>1
  <2>8. Request(fd, c) \in Wire /\ IsRequest(Request(fd, c)) /\ ~IsData(Request(fd, c))
    BY <2>3, <2>6 DEF Request, Wire, IsRequest, IsData
  <2>9. Gains(toDest, r, Request(fd, c)) /\ r \in Seq(Wire)
    <3>1. Gains(toDest, r, Request(fd, c))
      BY <1>7, <2>2, <2>8, GainsIs
    <3> QED BY <3>1 DEF Gains
  <2>10. Joins(r, toDest', data)
    BY <1>9, <2>3, <2>9, JoinsIs
  <2>11. FlowOK'
    <3>1. \A b \in Conns : Flow(b, ends["src"][b].unread, r, ends["dst"][b].got, ends["src"][b].wrote, ends["src"][b].st)
      BY <1>7, <2>2, <2>8, FlowParts, FlowPosted
    <3>2. toDest' = r \o data
      BY <2>3
    <3> QED BY <1>16, <2>9, <3>1, <3>2
  <2>12. /\ DOMAIN fdConn' = DOMAIN open \cup {fd} /\ fdConn'[fd] = c /\ \A f \in DOMAIN open : fdConn'[f] = open[f]
         /\ IsPartial(fdConn', Fds, Conns)
    <3>1. IsPartial(fdConn', Fds, Conns)
      BY <1>12, <2>3, <2>6, WithPartial
    <3> QED BY <2>3, <3>1 DEF With
  <2>13. Types'
    <3>1. toDest' \in Seq(Wire) /\ \A x \in Elems(toDest') : x \in Elems(toDest) \/ x \in Elems(data) \/ IsRequest(x)
      BY <2>8, <2>9, <2>10 DEF Joins, Gains
    <3> QED BY <1>18, <2>3, <2>7, <2>12, <3>1
  <2>14. PICK N : N = {fd}
    OBVIOUS
  <2>15. SourceStep(names, h, ended, N, c, data)
    <3>0. fd \in N /\ \A f \in N : f = fd
      BY <2>14
    <3>1. /\ \A f : f \in DOMAIN fdConn' <=> f \in N \/ (f \in DOMAIN fdConn /\ \A i \in ended : socketFdMap[h][i] # f)
          /\ \A f \in DOMAIN fdConn' : f \in N => fdConn'[f] = c
          /\ \A f \in DOMAIN fdConn' : f \notin N => fdConn'[f] = fdConn[f]
      BY <1>12, <2>12, <3>0
    <3>2. \A f \in N : f \in DOMAIN fdConn => \E i \in ended : socketFdMap[h][i] = f
      BY <1>12, <2>3, <3>0
    <3>3. unassignedFds'[h] = unassignedFds[h] \cup N /\ \A k \in Handlers : k # h => unassignedFds'[k] = unassignedFds[k]
      BY <2>3, <2>14
    <3>4. backlog'[h] = t /\ backlog[h] = u /\ \A k \in Handlers : k # h => backlog'[k] = backlog[k]
      BY <2>3, <2>4
    <3>5. /\ \A k \in Handlers : \A b : b \in Elems(backlog'[k]) => b \in Elems(backlog[k])
          /\ \A k \in Handlers : \A b, d : Earlier(backlog'[k], b, d) => Earlier(backlog[k], b, d)
      BY <2>6, <3>4
    <3>6. c \in Conns /\ c \in Elems(backlog[h]) /\ c \notin Elems(backlog'[h])
      <4>1. \A b, d : Earlier(u, b, d) => b # d
        BY <3>4 DEF Linked, ConnsInv, QueuedOnce
      <4> QED BY <2>6, <3>4, <4>1
    <3>7. \A x : x \in Elems(toDest') <=> x \in Elems(toDest) \/ x \in Elems(data) \/ \E f \in N : x = Request(f, c)
      <4>1. \A x : (\E f \in N : x = Request(f, c)) <=> x = Request(fd, c)
        BY <3>0
      <4> QED BY <2>9, <2>10, <4>1 DEF Joins, Gains
    <3>8. \A x, y : Earlier(toDest', x, y) =>
             Earlier(toDest, x, y) \/ IsData(y) \/ (x \in Elems(toDest) /\ \E f \in N : y = Request(f, c))
      <4>1. \A y \in Elems(data) : IsData(y)
        BY <1>13
      <4>2. \A x, y : Earlier(toDest', x, y) => Earlier(r, x, y) \/ IsData(y)
        BY <2>10, <4>1 DEF Joins
      <4>3. \A x, y : Earlier(r, x, y) => Earlier(toDest, x, y) \/ (x \in Elems(toDest) /\ y = Request(fd, c))
        BY <2>9 DEF Gains
      <4> QED BY <3>0, <4>2, <4>3
    <3> QED BY <1>6, <1>11, <1>13, <3>0, <3>1, <3>2, <3>3, <3>5, <3>6, <3>7, <3>8 DEF SourceStep
  <2> QED BY <1>17, <2>11, <2>13, <2>15
<1> QED BY <1>5, <1>19, <1>20

-----------------------------------------------------------------------------
(* The invariant holds initially, every step keeps it, and it implies what *)
(* the run checks.                                                         *)

LEMMA ForwardInit == ASSUME ForwardAssumption, Init PROVE ForwardInd
<1>1. PICK names : names = [x \in {} |-> x]
  OBVIOUS
<1>2. DOMAIN names = {} /\ names = [x \in DOMAIN names |-> names[x]]
  BY <1>1
<1>3. \A e \in Sides, c \in Conns : ends[e][c] = Fresh
  BY DEF Init
<1>4. Fresh.st = "none" /\ Fresh.unread = <<>> /\ Fresh.got = <<>> /\ Fresh.wrote = 0
  BY DEF Fresh
<1>5. Fresh \in EndRec
  <2>1. 0 \in 0..MaxData
    BY DEF ForwardAssumption
  <2>2. <<>> \in Seq(Items)
    OBVIOUS
  <2> QED BY <2>1, <2>2 DEF Fresh, EndRec
<1>6. EndsTyped
  BY <1>5 DEF Init, EndsTyped
<1>7. /\ lastId = 0 /\ toDest = <<>> /\ toSource = <<>> /\ stalls = 0
      /\ DOMAIN fdConn = {} /\ DOMAIN idHandler = {} /\ DOMAIN dests = {}
      /\ \A h \in Handlers : unassignedFds[h] = {} /\ backlog[h] = <<>> /\ DOMAIN socketFdMap[h] = {}
  BY DEF Init, Empty
<1>8. \A S, T : IsPartial(Empty, S, T)
  BY DEF IsPartial, Empty
<1>9. MapsTyped
  <2>1. backlog \in [Handlers -> Seq(Conns)] /\ unassignedFds \in [Handlers -> SUBSET Fds]
    BY DEF Init
  <2>2. socketFdMap = [h \in Handlers |-> socketFdMap[h]] /\ \A h \in Handlers : socketFdMap[h] = Empty
    BY DEF Init
  <2>3. fdConn = Empty /\ idHandler = Empty /\ dests = Empty
    BY DEF Init
  <2>4. lastId \in Nat /\ stalls \in 0..MaxStalls
    BY <1>7 DEF ForwardAssumption
  <2> QED BY <1>8, <2>1, <2>2, <2>3, <2>4 DEF MapsTyped
<1>10. Elems(toDest) = {} /\ Elems(toSource) = {} /\ \A h \in Handlers : Elems(backlog[h]) = {}
  BY <1>7, ElemsEmpty
<1>11. WireTyped
  <2>1. <<>> \in Seq(Wire)
    OBVIOUS
  <2> QED BY <1>7, <1>10, <2>1 DEF WireTyped, IdsKnown
<1>12. FlowOK
  <2>1. ASSUME NEW c \in Conns PROVE Flow(c, <<>>, <<>>, <<>>, 0, "none")
    BY ElemsEmpty DEF Flow, UnreadOK, CarriedOK, GotOK
  <2>2. \A e \in Sides : Carrier(e) = <<>>
    BY <1>7 DEF Carrier
  <2>3. ASSUME NEW e \in Sides, NEW c \in Conns
        PROVE  Flow(c, ends[e][c].unread, Carrier(e), ends[Other(e)][c].got, ends[e][c].wrote, ends[e][c].st)
    <3>1. Other(e) \in Sides
      BY SidesAre
    <3>2. /\ ends[e][c].unread = <<>> /\ ends[Other(e)][c].got = <<>> /\ ends[e][c].wrote = 0
          /\ ends[e][c].st = "none"
      BY <1>3, <1>4, <3>1
    <3> QED BY <2>1, <2>2, <3>2
  <2> QED BY <2>3 DEF FlowOK
<1>13. NamesOK(names)
  <2>1. 1..lastId = {}
    BY <1>7
  <2> QED BY <1>2, <2>1 DEF NamesOK
<1>14. ConnsInv(names)
  <2>1. \A c \in Conns : Idle("src", c) /\ Idle("dst", c)
    BY <1>3, <1>4, SidesAre DEF Idle
  <2>2. \A c : ~Named(names, c) /\ ~Queued(c) /\ ~Accepted(c)
    BY <1>2, <1>7, <1>10 DEF Named, Queued, Accepted
  <2>3. \A h \in Handlers : \A c, d : ~Earlier(backlog[h], c, d)
    BY <1>7, ElemsEmpty
  <2> QED BY <1>7, <1>10, <2>1, <2>2, <2>3 DEF ConnsInv, NoneOK, QueuedOK, QueuedOnce, UnnamedOK, DestsOK
<1>15. FdsInv(names)
  BY <1>7 DEF FdsInv, FdsOK, AwaitedOK, SocketsOK
<1>16. WireInv(names)
  BY <1>10 DEF WireInv, RequestsOK, ResponsesOK, OneAnswer, KindsOK, DataOK, DataAnswered
<1>17. PairInv
  <2>1. 1..lastId = {}
    BY <1>7
  <2> QED BY <1>7, <1>10, <2>1 DEF PairInv, EndsOnce, DestKept, SourceKept
<1> QED BY <1>6, <1>9, <1>11, <1>12, <1>13, <1>14, <1>15, <1>16, <1>17 DEF ForwardInd, Types, Linked

LEMMA ForwardStutters ==
    ASSUME ForwardInd, UNCHANGED vars PROVE ForwardInd'
<1>1. PICK names : Linked(names)
  BY DEF ForwardInd
<1>2. /\ ends' = ends /\ backlog' = backlog /\ fdConn' = fdConn /\ unassignedFds' = unassignedFds
      /\ socketFdMap' = socketFdMap /\ idHandler' = idHandler /\ dests' = dests /\ lastId' = lastId
      /\ toDest' = toDest /\ toSource' = toSource /\ stalls' = stalls
  BY DEF vars
<1>3. Types'
  BY <1>2 DEF ForwardInd, Types, EndsTyped, MapsTyped, WireTyped, IdsKnown
<1>4. FlowOK'
  BY <1>2 DEF ForwardInd, FlowOK, Carrier
<1>5. NamesOK(names)'
  BY <1>1, <1>2 DEF Linked, NamesOK
<1>6. ConnsInv(names)'
  BY <1>1, <1>2 DEF Linked, ConnsInv, NoneOK, QueuedOK, QueuedOnce, UnnamedOK, DestsOK, Idle, NotEnded, Queued,
                    Accepted
<1>7. FdsInv(names)'
  BY <1>1, <1>2 DEF Linked, FdsInv, FdsOK, AwaitedOK, SocketsOK, NotEnded, Awaited
<1>8. WireInv(names)'
  BY <1>1, <1>2 DEF Linked, WireInv, RequestsOK, ResponsesOK, OneAnswer, KindsOK, DataOK, DataAnswered, Awaited,
                    Answering
<1>9. PairInv'
  BY <1>1, <1>2 DEF Linked, PairInv, EndsOnce, DestKept, SourceKept, SourceHas, Answering
<1> QED BY <1>3, <1>4, <1>5, <1>6, <1>7, <1>8, <1>9 DEF ForwardInd, Linked

LEMMA ForwardStep ==
    ASSUME ForwardAssumption, ForwardInd, redraws \in Nat, redraws' = 0, Next PROVE ForwardInd'
<1>1. PICK names : Linked(names)
  BY DEF ForwardInd
<1>2. Types /\ FlowOK
  BY DEF ForwardInd
<1>3. SUFFICES Types' /\ FlowOK' /\ \E more : Linked(more)'
  BY DEF ForwardInd
<1>4. SUFFICES \/ Types' /\ FlowOK' /\ Linked(names)'
               \/ Types' /\ FlowOK' /\ \E more : Linked(more)'
  OBVIOUS
<1>5. ASSUME NEW c \in Conns, NEW h \in Handlers, AppConnects(c, h) PROVE Types' /\ FlowOK' /\ Linked(names)'
  BY <1>1, <1>2, <1>5, AppConnectsKeeps
<1>6. ASSUME NEW e \in Sides, NEW c \in Conns, AppWrites(e, c) PROVE Types' /\ FlowOK' /\ Linked(names)'
  BY <1>1, <1>2, <1>6, AppWritesKeeps
<1>7. ASSUME NEW e \in Sides, NEW c \in Conns, AppCloses(e, c) PROVE Types' /\ FlowOK' /\ Linked(names)'
  BY <1>1, <1>2, <1>7, AppClosesKeeps
<1>8. ASSUME NEW h \in Handlers, SourceUpdate(h) PROVE Types' /\ FlowOK' /\ Linked(names)'
  BY <1>1, <1>2, <1>8, SourceUpdateKeeps
<1>9. CASE DestUpdate
  BY <1>1, <1>2, <1>9, DestUpdateKeeps
<1>10. CASE DestHandlesRequest
  <2>1. CASE CreateDestination(Head(toDest))
    <3>1. DrawsNew(Head(toDest))
      BY <1>2, <2>1, DrawIsNew DEF Types, MapsTyped
    <3> QED BY <1>1, <1>2, <1>10, <3>1, DestCreates
  <2>2. CASE RefuseDestination(Head(toDest))
    BY <1>1, <1>2, <1>10, <2>2, DestRefuses
  <2> QED BY <1>10, <2>1, <2>2 DEF DestHandlesRequest
<1>11. CASE DestHandlesData
  <2>1. CASE Head(toDest).id \notin DOMAIN dests
    BY <1>1, <1>2, <1>11, <2>1, DestDrops
  <2>2. CASE Head(toDest).id \in DOMAIN dests /\ Head(toDest).item.n = 0
    BY <1>1, <1>2, <1>11, <2>2, DestHangsUp
  <2>3. CASE Head(toDest).id \in DOMAIN dests /\ Head(toDest).item.n > 0
    BY <1>1, <1>2, <1>11, <2>3, DestGives
  <2> QED BY <1>11, <2>1, <2>2, <2>3 DEF DestHandlesData
<1>12. CASE SourceHandlesResponse
  BY <1>1, <1>2, <1>12, ResponseKeeps
<1>13. CASE SourceHandlesEnd
  BY <1>1, <1>2, <1>13, SourceEndKeeps
<1>14. CASE SourceHandlesData
  BY <1>1, <1>2, <1>14, SourceDataKeeps
<1> QED BY <1>5, <1>6, <1>7, <1>8, <1>9, <1>10, <1>11, <1>12, <1>13, <1>14 DEF Next, Handle

LEMMA DataIsOwn == ASSUME ForwardAssumption, ForwardInd PROVE OwnDataInOrder
<1> SUFFICES ASSUME NEW e \in Sides, NEW c \in Conns, NEW g, g = ends[e][c].got
             PROVE  /\ \A i \in DOMAIN g : g[i].conn = c
                    /\ \A i \in DOMAIN g : g[i].n = 0 => i = Len(g)
                    /\ \A i, j \in DOMAIN g : i < j /\ g[j].n > 0 => g[i].n < g[j].n
  BY DEF OwnDataInOrder
<1>1. PICK d \in Sides : Other(d) = e
  BY SidesAre
<1>2. GotOK(c, ends[d][c].unread, Carrier(d), g, ends[d][c].wrote)
  BY <1>1 DEF ForwardInd, FlowOK, Flow
<1>3. g \in Seq(Items)
  BY EndsAt DEF ForwardInd, Types
<1>4. \A i \in DOMAIN g : g[i] \in Elems(g) /\ g[i] \in Items /\ g[i].n \in Nat
  BY <1>3, ItemParts DEF Elems, ForwardAssumption
<1>5. \A i, j \in DOMAIN g : i < j => Goes(g[i], g[j])
  <2>1. ASSUME NEW i \in DOMAIN g, NEW j \in DOMAIN g, i < j PROVE Goes(g[i], g[j])
    <3>1. Earlier(g, g[i], g[j])
      BY <2>1 DEF Earlier
    <3> QED BY <1>2, <1>4, <3>1 DEF GotOK
  <2> QED BY <2>1
<1>6. \A i \in DOMAIN g : g[i].conn = c
  BY <1>2, <1>4 DEF GotOK
<1>7. ASSUME NEW i \in DOMAIN g, g[i].n = 0 PROVE i = Len(g)
  <2>1. SUFFICES ASSUME i # Len(g) PROVE FALSE
    OBVIOUS
  <2>2. i \in 1..Len(g) /\ Len(g) \in DOMAIN g /\ i < Len(g)
    BY <1>3, <2>1
  <2> QED BY <1>5, <1>7, <2>2 DEF Goes
<1>8. \A i, j \in DOMAIN g : i < j /\ g[j].n > 0 => g[i].n < g[j].n
  BY <1>4, <1>5 DEF Goes
<1> QED BY <1>6, <1>7, <1>8

LEMMA PairedSockets == ASSUME ForwardInd PROVE SocketsPaired
<1>1. PairInv
  BY DEF ForwardInd, Linked
<1>2. ASSUME NEW q, NEW id, EndIn(q, id) PROVE EndUnderWay(q, id)
  BY <1>2 DEF EndIn, EndUnderWay, Elems, IsEnd
<1>3. ASSUME NEW id, Answering(id) PROVE \E i \in DOMAIN toSource : toSource[i].kind = "response" /\ toSource[i].id = id
  BY <1>3 DEF Answering, Elems, IsResponse
<1>4. ASSUME NEW id \in DOMAIN dests
      PROVE  \/ SourceHas(id)
             \/ EndUnderWay(toDest, id)
             \/ \E i \in DOMAIN toSource : toSource[i].kind = "response" /\ toSource[i].id = id
  BY <1>1, <1>2, <1>3 DEF PairInv, DestKept
<1>5. ASSUME NEW id \in 1..lastId, SourceHas(id) PROVE id \in DOMAIN dests \/ EndUnderWay(toSource, id)
  BY <1>1, <1>2, <1>5 DEF PairInv, SourceKept
<1> QED BY <1>4, <1>5 DEF SocketsPaired

LEMMA NoneUnexpected == ASSUME ForwardInd PROVE NothingUnexpected
<1> SUFFICES ASSUME toSource # <<>>, NEW p, p = Head(toSource)
             PROVE  IF p.kind = "response"
                    THEN \E h \in Handlers : p.fd \in unassignedFds[h] /\ p.fd \in DOMAIN fdConn
                    ELSE p.id \in DOMAIN idHandler
  BY DEF NothingUnexpected
<1>1. PICK names : Linked(names)
  BY DEF ForwardInd
<1>2. Types /\ FlowOK /\ toSource \in Seq(Wire)
  BY DEF ForwardInd, Types, WireTyped
<1>3. Takes(toSource, Tail(toSource), p)
  BY <1>2, TakesIs
<1>4. p \in Elems(toSource) /\ p \in Wire
  BY <1>2, ElemsTail
<1>5. CASE p.kind = "response"
  <2>1. Awaited(p.fd)
    BY <1>1, <1>4, <1>5 DEF Linked, WireInv, ResponsesOK, IsResponse
  <2> QED BY <1>1, <1>5, <2>1 DEF Awaited, Linked, FdsInv, AwaitedOK
<1>6. CASE p.kind # "response"
  <2>1. ~IsRequest(p) /\ ~IsResponse(p)
    BY <1>1, <1>4, <1>6 DEF Linked, WireInv, KindsOK, IsResponse
  <2>2. IsData(p)
    BY <1>4, <2>1, WireParts
  <2>3. p.id \in DOMAIN idHandler
    BY <1>1, <1>2, <1>3, <2>2, DataFromDest
  <2> QED BY <1>6, <2>3
<1> QED BY <1>5, <1>6

LEMMA ForwardIndImplies ==
    ASSUME ForwardAssumption, ForwardInd, redraws \in 0..MaxRedraws PROVE ForwardInv
<1>1. TypeOK
  BY TypesAre DEF ForwardInd
<1> QED BY <1>1, DataIsOwn, PairedSockets, NoneUnexpected DEF ForwardInv

LEMMA RedrawsCounted ==
    ASSUME redraws \in 0..MaxRedraws, MaxRedraws \in Nat, [Next]_vars
    PROVE  redraws' \in 0..MaxRedraws /\ redraws <= redraws'
<1>1. CASE redraws' = redraws
  BY <1>1
<1>2. ASSUME NEW p, CreateDestination(p) PROVE redraws' \in 0..MaxRedraws /\ redraws <= redraws'
  BY <1>2 DEF CreateDestination
<1>3. CASE UNCHANGED vars
  BY <1>1, <1>3 DEF vars
<1>4. CASE DestHandlesRequest
  <2>1. CASE RefuseDestination(Head(toDest))
    BY <1>1, <2>1 DEF RefuseDestination, ids
  <2> QED BY <1>2, <1>4, <2>1 DEF DestHandlesRequest
<1>5. ASSUME NEW c \in Conns, NEW h \in Handlers, AppConnects(c, h) PROVE redraws' = redraws
  BY <1>5 DEF AppConnects, ids
<1>6. ASSUME NEW e \in Sides, NEW c \in Conns, AppWrites(e, c) \/ AppCloses(e, c) PROVE redraws' = redraws
  BY <1>6 DEF AppWrites, AppCloses, ids
<1>7. ASSUME NEW h \in Handlers, SourceUpdate(h) PROVE redraws' = redraws
  BY <1>7 DEF SourceUpdate, ids
<1>8. CASE DestUpdate
  BY <1>1, <1>8 DEF DestUpdate, ids
<1>9. CASE DestHandlesData \/ SourceHandlesResponse \/ SourceHandlesEnd \/ SourceHandlesData
  BY <1>1, <1>9 DEF DestHandlesData, SourceHandlesResponse, SourceHandlesEnd, SourceHandlesData, ids
<1> QED BY <1>1, <1>3, <1>4, <1>5, <1>6, <1>7, <1>8, <1>9 DEF Next, Handle

\* What every step keeps: the invariant above until an id is drawn a second time.
WhileNew == redraws \in 0..MaxRedraws /\ (redraws > 0 \/ ForwardInd)

\* For every number of handlers, connections, descriptors, pieces of data, stalls
\* and draws, and as long as createDestination draws no socket id a second time:
\* what PortForwardHandler and its source and destination handlers give
\* an application was written by the other end of its own connection, in order
\* and once, and nothing after the end; a socket that only one side still has is
\* about to be opened or closed by a packet on its way; and a response or a
\* packet of the connecting side always finds the descriptor or the id it names.
THEOREM ForwardCorrect == ASSUME ForwardAssumption PROVE Spec => []ForwardInv
<1>1. Init => WhileNew
  <2>1. ASSUME Init PROVE redraws \in 0..MaxRedraws
    BY <2>1 DEF Init, ForwardAssumption
  <2> QED BY <2>1, ForwardInit DEF WhileNew
<1>2. WhileNew /\ [Next]_vars => WhileNew'
  <2> SUFFICES ASSUME WhileNew, [Next]_vars PROVE WhileNew'
    OBVIOUS
  <2>1. redraws' \in 0..MaxRedraws /\ redraws <= redraws' /\ redraws \in Nat
    BY RedrawsCounted DEF WhileNew, ForwardAssumption
  <2>2. CASE redraws' = 0
    <3>1. ForwardInd
      <4>1. ~(redraws > 0)
        BY <2>1, <2>2
      <4> QED BY <4>1 DEF WhileNew
    <3>2. ForwardInd'
      BY <2>1, <2>2, <3>1, ForwardStep, ForwardStutters
    <3> QED BY <2>1, <3>2 DEF WhileNew
  <2>3. CASE redraws' # 0
    <3>1. redraws' > 0
      BY <2>1, <2>3
    <3> QED BY <2>1, <3>1 DEF WhileNew
  <2> QED BY <2>2, <2>3
<1>3. WhileNew => ForwardInv
  BY ForwardIndImplies DEF WhileNew, ForwardInv
<1> QED BY <1>1, <1>2, <1>3, PTL DEF Spec
=============================================================================
