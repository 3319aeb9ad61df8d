---------------------------- MODULE TerminalProofs ----------------------------
(***************************************************************************)
(* A terminal session above its connection: the invariant of               *)
(* TerminalPipeline for every capacity, chunk, rate limit and budget, and  *)
(* that of KeepaliveLoop for any amount of data and any number of failing  *)
(* links.  MCTerminal puts the two side by side; the definitions of the    *)
(* pipeline carry the prefix P.                                            *)
(***************************************************************************)
EXTENDS MCTerminal, SequenceTheorems, FiniteSetTheorems, TLAPS

\* The least of two numbers, as read() and write() of a bounded buffer have it.
LEMMA MinPair ==
    ASSUME NEW a \in Nat, NEW b \in Nat
    PROVE  /\ P!Min({a, b}) \in Nat
           /\ P!Min({a, b}) <= a /\ P!Min({a, b}) <= b
           /\ P!Min({a, b}) \in {a, b}
<1> DEFINE Least(x) == x \in {a, b} /\ \A y \in {a, b} : x <= y
<1>1. \E x : Least(x)
  <2>1. CASE a <= b
    BY <2>1
  <2>2. CASE b <= a
    BY <2>2
  <2> QED BY <2>1, <2>2
<1>2. P!Min({a, b}) = CHOOSE x : Least(x)
  BY DEF P!Min
<1>3. Least(P!Min({a, b}))
  BY <1>1, <1>2
<1> QED BY <1>3

-----------------------------------------------------------------------------
(* Each action keeps the invariant.                                        *)

\* The client, its link, and the death of the server.
LEMMA ClientKeeps ==
    ASSUME P!PipelineAssumption, P!PipelineInv,
           P!Send \/ P!LinkFails \/ P!Reconnect \/ P!ServerCrashes
    PROVE  P!PipelineInv'
<1> USE DEF P!PipelineInv, P!TypeOK, P!OutputAccounted, P!InputBounded, P!LoopsAgree,
            P!LastOutputDelivered, P!Unread, P!MaxOutput, P!client, P!session,
            P!handler, P!pty, P!PipelineAssumption
<1>1. CASE P!Send
  BY <1>1 DEF P!Send
<1>2. CASE P!LinkFails
  <2>1. up' \in BOOLEAN /\ hung' \in BOOLEAN /\ shell' \in BOOLEAN /\ dropped' \in BOOLEAN
    BY <1>2, Zenon DEF P!LinkFails
  <2> QED BY <1>2, <2>1 DEF P!LinkFails
<1>3. CASE P!Reconnect
  <2>1. up' \in BOOLEAN /\ hung' \in BOOLEAN /\ shell' \in BOOLEAN /\ dropped' \in BOOLEAN
    BY <1>3, Zenon DEF P!Reconnect
  <2> QED BY <1>3, <2>1 DEF P!Reconnect
<1>4. CASE P!ServerCrashes
  <2>1. up' \in BOOLEAN /\ hung' \in BOOLEAN /\ shell' \in BOOLEAN /\ dropped' \in BOOLEAN
    BY <1>4, Zenon DEF P!ServerCrashes
  <2> QED BY <1>4, <2>1 DEF P!ServerCrashes
<1> QED BY <1>1, <1>2, <1>3, <1>4

\* The session thread of the server.
LEMMA SessionKeeps ==
    ASSUME P!PipelineAssumption, P!PipelineInv, P!SessionThread
    PROVE  P!PipelineInv'
<1> USE DEF P!PipelineInv, P!TypeOK, P!OutputAccounted, P!InputBounded, P!LoopsAgree,
            P!LastOutputDelivered, P!Unread, P!MaxOutput, P!client, P!session,
            P!handler, P!pty, P!PipelineAssumption
<1>1. CASE P!SessionOutput
  <2>1. PICK n \in Nat : n = P!Min({outPipe, Chunk}) /\ n <= outPipe /\ n <= Chunk
    BY MinPair
  <2> QED BY <1>1, <2>1 DEF P!SessionOutput, P!CanBuffer
<1>2. CASE P!SessionNoOutput
  BY <1>2 DEF P!SessionNoOutput
<1>3. CASE P!SessionEof
  BY <1>3 DEF P!SessionEof
<1>4. CASE P!SessionInput
  BY <1>4 DEF P!SessionInput
<1>5. CASE P!SessionWrite
  <2>1. up' \in BOOLEAN /\ hung' \in BOOLEAN /\ shell' \in BOOLEAN /\ dropped' \in BOOLEAN
    BY <1>5, Zenon DEF P!SessionWrite
  <2> QED BY <1>5, <2>1 DEF P!SessionWrite
<1> QED BY <1>1, <1>2, <1>3, <1>4, <1>5 DEF P!SessionThread

\* UserTerminalHandler.
LEMMA HandlerKeeps ==
    ASSUME P!PipelineAssumption, P!PipelineInv, P!TerminalHandler
    PROVE  P!PipelineInv'
<1> USE DEF P!PipelineInv, P!TypeOK, P!OutputAccounted, P!InputBounded, P!LoopsAgree,
            P!LastOutputDelivered, P!Unread, P!MaxOutput, P!client, P!session,
            P!handler, P!pty, P!PipelineAssumption
<1>0. RateLimit \in Nat /\ Chunk \in Nat /\ perSecond \in 0..(RateLimit + Chunk)
  OBVIOUS
<1>1. CASE P!Select
  <2>1. up' \in BOOLEAN /\ hung' \in BOOLEAN /\ shell' \in BOOLEAN /\ dropped' \in BOOLEAN
    BY <1>1, Zenon DEF P!Select
  <2>2. sel' \subseteq {"pty", "router"} /\ ("router" \in sel' => pending < MaxPending)
    BY <1>1 DEF P!Select, P!Selected
  <2>3. perSecond' \in 0..(RateLimit + Chunk)
    <3> HIDE DEF P!PipelineInv, P!PipelineAssumption
    <3>1. perSecond' = 0 \/ perSecond' = perSecond
      BY <1>1 DEF P!Select
    <3> QED BY <1>0, <3>1
  <2> QED BY <1>1, <2>1, <2>2, <2>3 DEF P!Select
<1>2. CASE P!PtyRead
  <2>1. PICK n \in Nat : n = P!Min({ptyOut, Chunk}) /\ n <= ptyOut /\ n <= Chunk
    BY MinPair
  <2>2. up' \in BOOLEAN /\ hung' \in BOOLEAN /\ shell' \in BOOLEAN /\ dropped' \in BOOLEAN
    BY <1>2, Zenon DEF P!PtyRead
  <2>3. perSecond' \in 0..(RateLimit + Chunk)
    <3> HIDE DEF P!PipelineInv, P!PipelineAssumption
    <3>1. perSecond' = 0 \/ (perSecond' = perSecond + n /\ perSecond < RateLimit)
      BY <1>2, <2>1 DEF P!PtyRead, P!RateAllows
    <3> QED BY <1>0, <2>1, <3>1
  <2> QED BY <1>2, <2>1, <2>2, <2>3 DEF P!PtyRead
<1>3. CASE P!PtyEof
  <2>1. up' \in BOOLEAN /\ hung' \in BOOLEAN /\ shell' \in BOOLEAN /\ dropped' \in BOOLEAN
    BY <1>3, Zenon DEF P!PtyEof
  <2> QED BY <1>3, <2>1 DEF P!PtyEof
<1>4. CASE P!PtySkipped
  BY <1>4 DEF P!PtySkipped
<1>5. CASE P!OutWrite
  BY <1>5 DEF P!OutWrite
<1>6. CASE P!RouterRead
  BY <1>6 DEF P!RouterRead
<1>7. CASE P!Drain
  <2>1. PICK n \in Nat : n = P!Min({pending, PtyCap - ptyIn}) /\ n <= pending /\ n <= PtyCap - ptyIn
    BY MinPair
  <2>2. up' \in BOOLEAN /\ hung' \in BOOLEAN /\ shell' \in BOOLEAN /\ dropped' \in BOOLEAN
    BY <1>7, Zenon DEF P!Drain
  <2> QED BY <1>7, <2>1, <2>2 DEF P!Drain
<1> QED BY <1>1, <1>2, <1>3, <1>4, <1>5, <1>6, <1>7 DEF P!TerminalHandler

\* The shell.
LEMMA ShellKeeps ==
    ASSUME P!PipelineAssumption, P!PipelineInv, P!Echo \/ P!ShellPrints \/ P!ShellExits
    PROVE  P!PipelineInv'
<1> USE DEF P!PipelineInv, P!TypeOK, P!OutputAccounted, P!InputBounded, P!LoopsAgree,
            P!LastOutputDelivered, P!Unread, P!MaxOutput, P!client, P!session,
            P!handler, P!pty, P!PipelineAssumption
<1>1. CASE P!Echo
  BY <1>1 DEF P!Echo
<1>2. CASE P!ShellPrints
  BY <1>2 DEF P!ShellPrints
<1>3. CASE P!ShellExits
  <2>1. up' \in BOOLEAN /\ hung' \in BOOLEAN /\ shell' \in BOOLEAN /\ dropped' \in BOOLEAN
    BY <1>3, Zenon DEF P!ShellExits
  <2> QED BY <1>3, <2>1 DEF P!ShellExits
<1> QED BY <1>1, <1>2, <1>3

\* runTerminal and runUserTerminal: no output is lost or duplicated in the four
\* buffers between the shell and the client, every buffer keeps its bound, and
\* a session that ends in order has shown the shell's last words.
THEOREM PipelineCorrect ==
    ASSUME P!PipelineAssumption
    PROVE  P!Spec => []PipelineInv
<1>1. P!Init => P!PipelineInv
  <2> SUFFICES ASSUME P!Init PROVE P!PipelineInv
    OBVIOUS
  <2>1. up \in BOOLEAN /\ hung \in BOOLEAN /\ shell \in BOOLEAN /\ dropped \in BOOLEAN
    BY Zenon DEF P!Init
  <2> QED BY <2>1 DEF P!Init, P!PipelineInv, P!TypeOK, P!OutputAccounted, P!InputBounded, P!LoopsAgree,
         P!LastOutputDelivered, P!Unread, P!MaxOutput, P!PipelineAssumption
<1>2. P!PipelineInv /\ [P!Next]_P!vars => P!PipelineInv'
  <2>1. CASE UNCHANGED P!vars
    BY <2>1 DEF P!vars, P!PipelineInv, P!TypeOK, P!OutputAccounted, P!InputBounded, P!LoopsAgree,
                P!LastOutputDelivered, P!Unread
  <2>2. CASE P!Next
    BY <2>2, ClientKeeps, SessionKeeps, HandlerKeeps, ShellKeeps DEF P!Next
  <2> QED BY <2>1, <2>2
<1>3. PipelineInv <=> P!PipelineInv
  BY DEF PipelineInv
<1> QED BY <1>1, <1>2, <1>3, PTL DEF P!Spec

-----------------------------------------------------------------------------
(* Counting packets of a kind.                                             *)

\* A count is a number, and none is none.
LEMMA CountType ==
    ASSUME NEW S, NEW s \in Seq(S), NEW k
    PROVE  /\ Count(s, k) \in Nat
           /\ IsFiniteSet({i \in DOMAIN s : s[i] = k})
           /\ Count(s, k) = 0 <=> \A i \in 1..Len(s) : s[i] # k
<1> DEFINE A == {i \in DOMAIN s : s[i] = k}
<1>1. IsFiniteSet(1..Len(s)) /\ DOMAIN s = 1..Len(s)
  BY FS_Interval
<1>2. A \in SUBSET (1..Len(s))
  BY <1>1
<1>3. IsFiniteSet(A)
  BY <1>1, <1>2, FS_Subset
<1>4. Cardinality(A) \in Nat
  BY <1>3, FS_CardinalityType
<1>5. Cardinality(A) = 0 <=> A = {}
  BY <1>3, FS_EmptySet
<1>6. A = {} <=> \A i \in 1..Len(s) : s[i] # k
  BY <1>1
<1> QED BY <1>3, <1>4, <1>5, <1>6 DEF Count

\* The packets of two streams are counted apart.
LEMMA CountConcat ==
    ASSUME NEW S, NEW s \in Seq(S), NEW t \in Seq(S), NEW k
    PROVE  Count(s \o t, k) = Count(s, k) + Count(t, k)
<1> DEFINE A == {i \in DOMAIN s : s[i] = k}
           B == {i \in DOMAIN t : t[i] = k}
           C == {i \in DOMAIN (s \o t) : (s \o t)[i] = k}
           D == {i \in (Len(s) + 1)..(Len(s) + Len(t)) : t[i - Len(s)] = k}
           f == [i \in B |-> i + Len(s)]
<1>1. /\ IsFiniteSet(A) /\ IsFiniteSet(B)
      /\ Cardinality(A) = Count(s, k) /\ Cardinality(B) = Count(t, k)
      /\ Count(s, k) \in Nat /\ Count(t, k) \in Nat
  BY CountType DEF Count
<1>2. DOMAIN s = 1..Len(s) /\ DOMAIN t = 1..Len(t) /\ Len(s) \in Nat /\ Len(t) \in Nat
  OBVIOUS
<1>3. C = A \cup D
  BY <1>2
<1>4. A \cap D = {}
  BY <1>2
<1>5. IsFiniteSet(D) /\ Cardinality(D) = Cardinality(B)
  <2>1. \A i \in B : i + Len(s) \in D
    BY <1>2
  <2>2. \A j \in D : \E i \in B : j = i + Len(s)
    <3>1. TAKE j \in D
    <3>2. j - Len(s) \in B /\ j = (j - Len(s)) + Len(s)
      BY <1>2
    <3> QED BY <3>2
  <2>3. \A i, j \in B : i + Len(s) = j + Len(s) => i = j
    BY <1>2
  <2> HIDE DEF B, D
  <2>4. f \in [B -> D] /\ (\A j \in D : \E i \in B : f[i] = j)
        /\ (\A i, j \in B : f[i] = f[j] => i = j)
    BY <2>1, <2>2, <2>3
  <2> HIDE DEF f
  <2>5. f \in Bijection(B, D)
    BY <2>4 DEF Bijection, Injection, Surjection, IsInjective
  <2>6. ExistsBijection(B, D)
    BY <2>5 DEF ExistsBijection
  <2> QED BY <2>6, <1>1, FS_Bijection
<1>6. Cardinality(A \cup D) = Cardinality(A) + Cardinality(D) - Cardinality({})
  <2> HIDE DEF A, D
  <2> QED BY <1>1, <1>4, <1>5, FS_Union
<1>7. Cardinality({}) = 0
  BY FS_EmptySet
<1>8. Count(s \o t, k) = Cardinality(C)
  BY DEF Count
<1> HIDE DEF A, B, C, D, f
<1> QED BY <1>1, <1>3, <1>5, <1>6, <1>7, <1>8

\* One more packet, and one less.
LEMMA CountAppend ==
    ASSUME NEW S, NEW s \in Seq(S), NEW x \in S, NEW k
    PROVE  /\ x # k => Count(Append(s, x), k) = Count(s, k)
           /\ x = k => Count(Append(s, x), k) = Count(s, k) + 1
<1>1. Append(s, x) = s \o <<x>> /\ <<x>> \in Seq(S)
  BY AppendIsConcat
<1>2. Count(s \o <<x>>, k) = Count(s, k) + Count(<<x>>, k)
  BY <1>1, CountConcat
<1>3. x # k => Count(<<x>>, k) = 0
  <2>1. \A i \in 1..Len(<<x>>) : <<x>>[i] = x
    OBVIOUS
  <2> QED BY <1>1, <2>1, CountType
<1>4. x = k => Count(<<x>>, k) = 1
  <2> SUFFICES ASSUME x = k PROVE Cardinality({i \in DOMAIN <<x>> : <<x>>[i] = k}) = 1
    BY DEF Count
  <2>1. {i \in DOMAIN <<x>> : <<x>>[i] = k} = {1}
    OBVIOUS
  <2> QED BY <2>1, FS_Singleton
<1>5. Count(s, k) \in Nat
  BY CountType
<1> QED BY <1>1, <1>2, <1>3, <1>4, <1>5

LEMMA CountTail ==
    ASSUME NEW S, NEW s \in Seq(S), s # <<>>, NEW k
    PROVE  Count(Tail(s), k) <= Count(s, k)
<1>1. s = <<Head(s)>> \o Tail(s) /\ <<Head(s)>> \in Seq(S) /\ Tail(s) \in Seq(S)
  BY HeadTailProperties
<1>2. Count(s, k) = Count(<<Head(s)>>, k) + Count(Tail(s), k)
  BY <1>1, CountConcat
<1>3. Count(<<Head(s)>>, k) \in Nat /\ Count(Tail(s), k) \in Nat
  BY <1>1, CountType
<1> QED BY <1>2, <1>3

-----------------------------------------------------------------------------
(* What the operations of a session do to the packets under way.           *)

HopsOver(U, F) == [up : U, back : F, sock : F, local : F]
Lines == [Dirs -> Seq(Kinds)]

Sound(h) ==
    /\ h \in HopsOver(BOOLEAN, Lines)
    /\ IF h.up THEN h.back = None ELSE h.sock = None

\* A session and its fields.
LEMMA Fields ==
    ASSUME NEW U, NEW F, NEW h \in HopsOver(U, F)
    PROVE  h.up \in U /\ h.back \in F /\ h.sock \in F /\ h.local \in F
  BY DEF HopsOver

\* A session with some of its fields replaced.
WithSock(h, x) == [h EXCEPT !.sock = x]
WithBack(h, x) == [h EXCEPT !.back = x]
WithLocal(h, x) == [h EXCEPT !.local = x]
Failed(h, u, x, y) == [h EXCEPT !.up = u, !.sock = x, !.back = y]
Recovered(h, u, x, y) == [h EXCEPT !.up = u, !.back = x, !.local = y]
Emptied(h, x, y) == [h EXCEPT !.local = x, !.sock = y]

LEMMA SockSet ==
    ASSUME NEW U, NEW F, NEW h \in HopsOver(U, F), NEW x \in F
    PROVE  /\ WithSock(h, x) \in HopsOver(U, F) /\ WithSock(h, x).up = h.up /\ WithSock(h, x).back = h.back
           /\ WithSock(h, x).sock = x /\ WithSock(h, x).local = h.local
  BY DEF HopsOver, WithSock

LEMMA BackSet ==
    ASSUME NEW U, NEW F, NEW h \in HopsOver(U, F), NEW x \in F
    PROVE  /\ WithBack(h, x) \in HopsOver(U, F) /\ WithBack(h, x).up = h.up /\ WithBack(h, x).back = x
           /\ WithBack(h, x).sock = h.sock /\ WithBack(h, x).local = h.local
  BY DEF HopsOver, WithBack

LEMMA LocalSet ==
    ASSUME NEW U, NEW F, NEW h \in HopsOver(U, F), NEW x \in F
    PROVE  /\ WithLocal(h, x) \in HopsOver(U, F) /\ WithLocal(h, x).up = h.up /\ WithLocal(h, x).back = h.back
           /\ WithLocal(h, x).sock = h.sock /\ WithLocal(h, x).local = x
  BY DEF HopsOver, WithLocal

LEMMA FailSet ==
    ASSUME NEW U, NEW F, NEW h \in HopsOver(U, F), NEW x \in F, NEW y \in F, NEW u \in U
    PROVE  /\ Failed(h, u, x, y) \in HopsOver(U, F) /\ Failed(h, u, x, y).up = u /\ Failed(h, u, x, y).back = y
           /\ Failed(h, u, x, y).sock = x /\ Failed(h, u, x, y).local = h.local
  BY DEF HopsOver, Failed

LEMMA RecoverSet ==
    ASSUME NEW U, NEW F, NEW h \in HopsOver(U, F), NEW x \in F, NEW y \in F, NEW u \in U
    PROVE  /\ Recovered(h, u, x, y) \in HopsOver(U, F) /\ Recovered(h, u, x, y).up = u /\ Recovered(h, u, x, y).back = x
           /\ Recovered(h, u, x, y).sock = h.sock /\ Recovered(h, u, x, y).local = y
  BY DEF HopsOver, Recovered

LEMMA DrainSet ==
    ASSUME NEW U, NEW F, NEW h \in HopsOver(U, F), NEW x \in F, NEW y \in F
    PROVE  /\ Emptied(h, x, y) \in HopsOver(U, F) /\ Emptied(h, x, y).up = h.up /\ Emptied(h, x, y).back = h.back
           /\ Emptied(h, x, y).sock = y /\ Emptied(h, x, y).local = x
  BY DEF HopsOver, Emptied

\* Of an array of streams one is replaced.
LEMMA Updated ==
    ASSUME NEW D, NEW S, NEW f \in [D -> S], NEW d \in D, NEW x \in S,
           NEW t, t = [f EXCEPT ![d] = x]
    PROVE  t \in [D -> S] /\ t[d] = x /\ \A e \in D \ {d} : t[e] = f[e]
  OBVIOUS

LEMMA NoneIs == None \in Lines /\ \A d \in Dirs : None[d] = <<>>
  BY DEF None, Lines

LEMMA LineAt == ASSUME NEW f \in Lines, NEW d \in Dirs PROVE f[d] \in Seq(Kinds)
  BY DEF Lines

LEMMA WayType == ASSUME NEW h, Sound(h), NEW d \in Dirs PROVE UnderWay(h, d) \in Seq(Kinds)
<1>1. h.back[d] \in Seq(Kinds) /\ h.sock[d] \in Seq(Kinds) /\ h.local[d] \in Seq(Kinds)
  BY Fields, LineAt DEF Sound
<1> QED BY <1>1 DEF UnderWay

\* Concatenations of the three parts of a direction.
LEMMA AppendMiddle ==
    ASSUME NEW a \in Seq(Kinds), NEW b \in Seq(Kinds), NEW p \in Kinds
    PROVE  a \o Append(b, p) \o <<>> = Append(a \o b \o <<>>, p)
  OBVIOUS

LEMMA AppendLast ==
    ASSUME NEW a \in Seq(Kinds), NEW b \in Seq(Kinds), NEW p \in Kinds
    PROVE  a \o <<>> \o Append(b, p) = Append(a \o <<>> \o b, p)
  OBVIOUS

LEMMA Regrouped ==
    ASSUME NEW a \in Seq(Kinds), NEW b \in Seq(Kinds), NEW c \in Seq(Kinds)
    PROVE  a \o <<>> \o (b \o c) = a \o b \o c
  OBVIOUS

LEMMA Associated ==
    ASSUME NEW a \in Seq(Kinds), NEW b \in Seq(Kinds), NEW c \in Seq(Kinds)
    PROVE  a \o (b \o c) = (a \o b) \o c
  OBVIOUS

LEMMA Caught ==
    ASSUME NEW a \in Seq(Kinds), NEW b \in Seq(Kinds)
    PROVE  (a \o b) \o <<>> \o <<>> = a \o <<>> \o b /\ a \o b \o <<>> = a \o b
  OBVIOUS

LEMMA TailFirst ==
    ASSUME NEW a \in Seq(Kinds), NEW b \in Seq(Kinds), a # <<>>
    PROVE  Tail(a) \o b = Tail(a \o b)
  OBVIOUS

LEMMA TailSecond ==
    ASSUME NEW b \in Seq(Kinds), b # <<>>
    PROVE  <<>> \o Tail(b) = Tail(<<>> \o b)
  OBVIOUS

LEMMA AppendHead ==
    ASSUME NEW s \in Seq(Kinds), NEW p \in Kinds, s # <<>>
    PROVE  Append(s, p) # <<>> /\ Head(Append(s, p)) = Head(s)
  OBVIOUS

LEMMA ConcatEmpty ==
    ASSUME NEW a \in Seq(Kinds), NEW b \in Seq(Kinds), b # <<>>
    PROVE  a \o b # <<>>
  OBVIOUS

LEMMA HeadOfBoth ==
    ASSUME NEW a \in Seq(Kinds), NEW b \in Seq(Kinds), a \o b # <<>>
    PROVE  Head(a \o b) \in Kinds
<1>1. a \o b \in Seq(Kinds)
  OBVIOUS
<1> QED BY <1>1, HeadTailProperties

\* A packet that is put goes to the end of its direction.
LEMMA PutWay ==
    ASSUME NEW h, Sound(h), NEW d \in Dirs, NEW p \in Kinds
    PROVE  /\ Sound(Put(h, d, p)) /\ Put(h, d, p).up = h.up
           /\ UnderWay(Put(h, d, p), d) = Append(UnderWay(h, d), p)
           /\ \A e \in Dirs \ {d} : UnderWay(Put(h, d, p), e) = UnderWay(h, e)
<1>1. PICK g : g = Put(h, d, p)
  OBVIOUS
<1>2. h \in HopsOver(BOOLEAN, Lines)
  BY DEF Sound
<1>3. h.back \in Lines /\ h.sock \in Lines /\ h.local \in Lines
  BY <1>2, Fields
<1>4. h.back[d] \in Seq(Kinds) /\ h.sock[d] \in Seq(Kinds) /\ h.local[d] \in Seq(Kinds)
  BY <1>3, LineAt
<1>5. CASE h.up
  <2>1. PICK t : t = [h.sock EXCEPT ![d] = Append(h.sock[d], p)]
    OBVIOUS
  <2>2. t \in Lines /\ t[d] = Append(h.sock[d], p) /\ \A e \in Dirs \ {d} : t[e] = h.sock[e]
    <3>1. Append(h.sock[d], p) \in Seq(Kinds)
      BY <1>4
    <3> QED BY <1>3, <2>1, <3>1, Updated DEF Lines
  <2>3. g = WithSock(h, t)
    BY <1>1, <1>2, <1>5, <2>1 DEF Put, HopsOver, WithSock
  <2>4. /\ g \in HopsOver(BOOLEAN, Lines) /\ g.up = h.up /\ g.back = h.back
        /\ g.sock = t /\ g.local = h.local
    BY <1>2, <2>2, <2>3, SockSet
  <2>5. h.back = None /\ h.back[d] = <<>>
    BY <1>5, NoneIs DEF Sound
  <2>6. Sound(g)
    BY <1>5, <2>4, <2>5, Zenon DEF Sound
  <2>7. UnderWay(g, d) = h.local[d] \o Append(h.sock[d], p) \o <<>>
    BY <2>2, <2>4, <2>5 DEF UnderWay
  <2>8. UnderWay(h, d) = h.local[d] \o h.sock[d] \o <<>>
    BY <2>5 DEF UnderWay
  <2>9. UnderWay(g, d) = Append(UnderWay(h, d), p)
    BY <1>4, <2>7, <2>8, AppendMiddle, Zenon
  <2>10. \A e \in Dirs \ {d} : UnderWay(g, e) = UnderWay(h, e)
    BY <2>2, <2>4, Zenon DEF UnderWay
  <2> QED BY <1>1, <2>4, <2>6, <2>9, <2>10, Zenon
<1>6. CASE ~h.up
  <2>1. PICK t : t = [h.back EXCEPT ![d] = Append(h.back[d], p)]
    OBVIOUS
  <2>2. t \in Lines /\ t[d] = Append(h.back[d], p) /\ \A e \in Dirs \ {d} : t[e] = h.back[e]
    <3>1. Append(h.back[d], p) \in Seq(Kinds)
      BY <1>4
    <3> QED BY <1>3, <2>1, <3>1, Updated DEF Lines
  <2>3. g = WithBack(h, t)
    BY <1>1, <1>2, <1>6, <2>1 DEF Put, HopsOver, WithBack
  <2>4. /\ g \in HopsOver(BOOLEAN, Lines) /\ g.up = h.up /\ g.back = t
        /\ g.sock = h.sock /\ g.local = h.local
    BY <1>2, <2>2, <2>3, BackSet
  <2>5. h.sock = None /\ h.sock[d] = <<>>
    BY <1>6, NoneIs DEF Sound
  <2>6. Sound(g)
    BY <1>6, <2>4, <2>5, Zenon DEF Sound
  <2>7. UnderWay(g, d) = h.local[d] \o <<>> \o Append(h.back[d], p)
    BY <2>2, <2>4, <2>5 DEF UnderWay
  <2>8. UnderWay(h, d) = h.local[d] \o <<>> \o h.back[d]
    BY <2>5 DEF UnderWay
  <2>9. UnderWay(g, d) = Append(UnderWay(h, d), p)
    BY <1>4, <2>7, <2>8, AppendLast, Zenon
  <2>10. \A e \in Dirs \ {d} : UnderWay(g, e) = UnderWay(h, e)
    BY <2>2, <2>4, Zenon DEF UnderWay
  <2> QED BY <1>1, <2>4, <2>6, <2>9, <2>10, Zenon
<1> QED BY <1>5, <1>6

\* A link that fails loses nothing.
LEMMA FailWay ==
    ASSUME NEW h, Sound(h)
    PROVE  /\ Sound(Fail(h)) /\ ~Fail(h).up
           /\ \A d \in Dirs : UnderWay(Fail(h), d) = UnderWay(h, d)
<1>1. PICK g : g = Fail(h)
  OBVIOUS
<1>2. h \in HopsOver(BOOLEAN, Lines)
  BY DEF Sound
<1>3. h.back \in Lines /\ h.sock \in Lines /\ h.local \in Lines
  BY <1>2, Fields
<1>4. PICK t : t = [d \in Dirs |-> h.sock[d] \o h.back[d]]
  OBVIOUS
<1>5. t \in Lines /\ \A d \in Dirs : t[d] = h.sock[d] \o h.back[d]
  <2>1. ASSUME NEW d \in Dirs PROVE h.sock[d] \o h.back[d] \in Seq(Kinds)
    BY <1>3, LineAt
  <2> QED BY <1>4, <2>1 DEF Lines
<1>6. g = Failed(h, FALSE, None, t)
  BY <1>1, <1>4 DEF Fail, Failed
<1>7. /\ g \in HopsOver(BOOLEAN, Lines) /\ g.up = FALSE /\ g.back = t
      /\ g.sock = None /\ g.local = h.local
  <2>1. h \in HopsOver(BOOLEAN, Lines) /\ t \in Lines /\ None \in Lines
    BY <1>2, <1>5, NoneIs
  <2>2. PICK u \in BOOLEAN : u = FALSE
    OBVIOUS
  <2>3. g = Failed(h, u, None, t)
    BY <1>6, <2>2
  <2>4. /\ g \in HopsOver(BOOLEAN, Lines) /\ g.up = u /\ g.back = t
        /\ g.sock = None /\ g.local = h.local
    BY <2>1, <2>3, FailSet
  <2> QED BY <2>2, <2>4
<1>8. Sound(g) /\ ~g.up
  BY <1>7, Zenon DEF Sound
<1>9. ASSUME NEW d \in Dirs PROVE UnderWay(g, d) = UnderWay(h, d)
  <2>1. h.back[d] \in Seq(Kinds) /\ h.sock[d] \in Seq(Kinds) /\ h.local[d] \in Seq(Kinds)
    BY <1>3, LineAt
  <2>2. UnderWay(g, d) = h.local[d] \o <<>> \o (h.sock[d] \o h.back[d])
    BY <1>5, <1>7, NoneIs DEF UnderWay
  <2>3. "data" \in Kinds
    BY DEF Kinds
  <2>4. h.local[d] \o <<>> \o (h.sock[d] \o h.back[d]) = h.local[d] \o h.sock[d] \o h.back[d]
    BY <2>1, <2>3, Regrouped, Zenon
  <2> QED BY <2>2, <2>4 DEF UnderWay
<1> QED BY <1>1, <1>8, <1>9, Zenon

\* A recovery brings everything back.
LEMMA RecoverWay ==
    ASSUME NEW h, Sound(h), ~h.up
    PROVE  /\ Sound(Recover(h)) /\ Recover(h).up
           /\ \A d \in Dirs : UnderWay(Recover(h), d) = UnderWay(h, d)
<1>1. PICK g : g = Recover(h)
  OBVIOUS
<1>2. h \in HopsOver(BOOLEAN, Lines) /\ h.sock = None
  BY Zenon DEF Sound
<1>3. h.back \in Lines /\ h.local \in Lines
  BY <1>2, Fields
<1>4. PICK t : t = [d \in Dirs |-> h.local[d] \o h.back[d]]
  OBVIOUS
<1>5. t \in Lines /\ \A d \in Dirs : t[d] = h.local[d] \o h.back[d]
  <2>1. ASSUME NEW d \in Dirs PROVE h.local[d] \o h.back[d] \in Seq(Kinds)
    BY <1>3, LineAt
  <2> QED BY <1>4, <2>1 DEF Lines
<1>6. g = Recovered(h, TRUE, None, t)
  BY <1>1, <1>4 DEF Recover, Recovered
<1>7. /\ g \in HopsOver(BOOLEAN, Lines) /\ g.up = TRUE /\ g.back = None
      /\ g.sock = h.sock /\ g.local = t
  <2>1. h \in HopsOver(BOOLEAN, Lines) /\ t \in Lines /\ None \in Lines
    BY <1>2, <1>5, NoneIs
  <2>2. PICK u \in BOOLEAN : u = TRUE
    OBVIOUS
  <2>3. g = Recovered(h, u, None, t)
    BY <1>6, <2>2
  <2>4. /\ g \in HopsOver(BOOLEAN, Lines) /\ g.up = u /\ g.back = None
        /\ g.sock = h.sock /\ g.local = t
    BY <2>1, <2>3, RecoverSet
  <2> QED BY <2>2, <2>4
<1>8. Sound(g) /\ g.up
  BY <1>7, Zenon DEF Sound
<1>9. ASSUME NEW d \in Dirs PROVE UnderWay(g, d) = UnderWay(h, d)
  <2>1. h.back[d] \in Seq(Kinds) /\ h.sock[d] = <<>> /\ h.local[d] \in Seq(Kinds)
    BY <1>2, <1>3, LineAt, NoneIs
  <2>2. UnderWay(g, d) = (h.local[d] \o h.back[d]) \o <<>> \o <<>>
    BY <1>2, <1>5, <1>7, <2>1, NoneIs DEF UnderWay
  <2>3. "data" \in Kinds
    BY DEF Kinds
  <2> QED BY <2>1, <2>2, <2>3, Caught DEF UnderWay
<1> QED BY <1>1, <1>8, <1>9, Zenon

\* With a socket, everything under way waits at the reader.
LEMMA AllWaiting ==
    ASSUME NEW h, Sound(h), h.up, NEW d \in Dirs
    PROVE  UnderWay(h, d) = Waiting(h, d)
<1>1. h \in HopsOver(BOOLEAN, Lines) /\ h.back = None
  BY Zenon DEF Sound
<1>2. h.sock[d] \in Seq(Kinds) /\ h.local[d] \in Seq(Kinds) /\ h.back[d] = <<>>
  BY <1>1, Fields, LineAt, NoneIs
<1> QED BY <1>2, Caught DEF Waiting, UnderWay

\* What a read does to the parts it may touch.
LEMMA TakenParts ==
    ASSUME NEW h \in HopsOver(BOOLEAN, Lines), NEW d \in Dirs, Waiting(h, d) # <<>>
    PROVE  /\ Taken(h, d) \in HopsOver(BOOLEAN, Lines)
           /\ Taken(h, d).up = h.up /\ Taken(h, d).back = h.back
           /\ Head(Waiting(h, d)) \in Kinds
           /\ Waiting(Taken(h, d), d) = Tail(Waiting(h, d))
           /\ \A e \in Dirs \ {d} : Waiting(Taken(h, d), e) = Waiting(h, e)
<1>1. PICK g : g = Taken(h, d)
  OBVIOUS
<1>3. h.sock \in Lines /\ h.local \in Lines
  BY Fields
<1>4. h.sock[d] \in Seq(Kinds) /\ h.local[d] \in Seq(Kinds)
  BY <1>3, LineAt
<1>5. Waiting(h, d) = h.local[d] \o h.sock[d]
  BY DEF Waiting
<1>6. Head(Waiting(h, d)) \in Kinds
  BY <1>4, <1>5, HeadOfBoth
<1>7. CASE h.local[d] # <<>>
  <2>1. PICK t : t = [h.local EXCEPT ![d] = Tail(h.local[d])]
    OBVIOUS
  <2>2. t \in Lines /\ t[d] = Tail(h.local[d]) /\ \A e \in Dirs \ {d} : t[e] = h.local[e]
    <3>1. Tail(h.local[d]) \in Seq(Kinds)
      BY <1>4, <1>7
    <3> QED BY <1>3, <2>1, <3>1, Updated DEF Lines
  <2>3. g = WithLocal(h, t)
    BY <1>1, <1>7, <2>1 DEF Taken, HopsOver, WithLocal
  <2>4. /\ g \in HopsOver(BOOLEAN, Lines) /\ g.up = h.up /\ g.back = h.back
        /\ g.sock = h.sock /\ g.local = t
    BY <2>2, <2>3, LocalSet
  <2>5. Waiting(g, d) = Tail(h.local[d]) \o h.sock[d]
    BY <2>2, <2>4 DEF Waiting
  <2>6. Waiting(g, d) = Tail(Waiting(h, d))
    BY <1>4, <1>5, <1>7, <2>5, TailFirst
  <2>7. \A e \in Dirs \ {d} : Waiting(g, e) = Waiting(h, e)
    BY <2>2, <2>4, Zenon DEF Waiting
  <2> QED BY <1>1, <1>6, <2>4, <2>6, <2>7, Zenon
<1>8. CASE h.local[d] = <<>>
  <2>1. PICK t : t = [h.sock EXCEPT ![d] = Tail(h.sock[d])]
    OBVIOUS
  <2>2. h.sock[d] # <<>>
    BY <1>4, <1>5, <1>8
  <2>3. t \in Lines /\ t[d] = Tail(h.sock[d]) /\ \A e \in Dirs \ {d} : t[e] = h.sock[e]
    <3>1. Tail(h.sock[d]) \in Seq(Kinds)
      BY <1>4, <2>2
    <3> QED BY <1>3, <2>1, <3>1, Updated DEF Lines
  <2>4. g = WithSock(h, t)
    BY <1>1, <1>8, <2>1 DEF Taken, HopsOver, WithSock
  <2>5. /\ g \in HopsOver(BOOLEAN, Lines) /\ g.up = h.up /\ g.back = h.back
        /\ g.sock = t /\ g.local = h.local
    BY <2>3, <2>4, SockSet
  <2>6. Waiting(g, d) = <<>> \o Tail(h.sock[d])
    BY <1>8, <2>3, <2>5 DEF Waiting
  <2>7. Waiting(g, d) = Tail(Waiting(h, d))
    BY <1>4, <1>5, <1>8, <2>2, <2>6, TailSecond
  <2>8. \A e \in Dirs \ {d} : Waiting(g, e) = Waiting(h, e)
    BY <2>3, <2>5, Zenon DEF Waiting
  <2> QED BY <1>1, <1>6, <2>5, <2>7, <2>8, Zenon
<1> QED BY <1>7, <1>8

LEMMA DrainedParts ==
    ASSUME NEW h \in HopsOver(BOOLEAN, Lines), NEW d \in Dirs
    PROVE  /\ Drained(h, d) \in HopsOver(BOOLEAN, Lines)
           /\ Drained(h, d).up = h.up /\ Drained(h, d).back = h.back
           /\ Waiting(Drained(h, d), d) = <<>>
           /\ \A e \in Dirs \ {d} : Waiting(Drained(h, d), e) = Waiting(h, e)
<1>1. PICK g : g = Drained(h, d)
  OBVIOUS
<1>2. h.sock \in Lines /\ h.local \in Lines /\ <<>> \in Seq(Kinds)
  BY Fields
<1>3. PICK t : t = [h.sock EXCEPT ![d] = <<>>]
  OBVIOUS
<1>4. PICK m : m = [h.local EXCEPT ![d] = <<>>]
  OBVIOUS
<1>5. t \in Lines /\ t[d] = <<>> /\ \A e \in Dirs \ {d} : t[e] = h.sock[e]
  BY <1>2, <1>3, Updated DEF Lines
<1>6. m \in Lines /\ m[d] = <<>> /\ \A e \in Dirs \ {d} : m[e] = h.local[e]
  BY <1>2, <1>4, Updated DEF Lines
<1>7. g = Emptied(h, m, t)
  BY <1>1, <1>3, <1>4 DEF Drained, HopsOver, Emptied
<1>8. /\ g \in HopsOver(BOOLEAN, Lines) /\ g.up = h.up /\ g.back = h.back
      /\ g.sock = t /\ g.local = m
  <2>1. t \in Lines /\ m \in Lines
    BY <1>5, <1>6
  <2> QED BY <1>7, <2>1, DrainSet
<1>9. Waiting(g, d) = <<>>
  BY <1>5, <1>6, <1>8 DEF Waiting
<1>10. \A e \in Dirs \ {d} : Waiting(g, e) = Waiting(h, e)
  BY <1>5, <1>6, <1>8, Zenon DEF Waiting
<1> QED BY <1>1, <1>8, <1>9, <1>10, Zenon

Streamed(h, d, q) == [h EXCEPT !.sock[d] = @ \o q]

LEMMA StreamParts ==
    ASSUME NEW h \in HopsOver(BOOLEAN, Lines), NEW d \in Dirs, NEW q \in Seq(Kinds)
    PROVE  /\ Streamed(h, d, q) \in HopsOver(BOOLEAN, Lines)
           /\ Streamed(h, d, q).up = h.up /\ Streamed(h, d, q).back = h.back
           /\ Waiting(Streamed(h, d, q), d) = Waiting(h, d) \o q
           /\ \A e \in Dirs \ {d} : Waiting(Streamed(h, d, q), e) = Waiting(h, e)
<1>0. PICK g : g = Streamed(h, d, q)
  OBVIOUS
<1>1. h.sock \in Lines /\ h.local \in Lines
  BY Fields
<1>2. h.sock[d] \in Seq(Kinds) /\ h.local[d] \in Seq(Kinds)
  BY <1>1, LineAt
<1>3. PICK t : t = [h.sock EXCEPT ![d] = h.sock[d] \o q]
  OBVIOUS
<1>4. t \in Lines /\ t[d] = h.sock[d] \o q /\ \A e \in Dirs \ {d} : t[e] = h.sock[e]
  <2>1. h.sock[d] \o q \in Seq(Kinds)
    BY <1>2
  <2> QED BY <1>1, <1>3, <2>1, Updated DEF Lines
<1>5. g = WithSock(h, t)
  BY <1>0, <1>3 DEF Streamed, HopsOver, WithSock
<1>6. /\ g \in HopsOver(BOOLEAN, Lines) /\ g.up = h.up /\ g.back = h.back
      /\ g.sock = t /\ g.local = h.local
  BY <1>4, <1>5, SockSet
<1>7. Waiting(g, d) = h.local[d] \o (h.sock[d] \o q)
  BY <1>4, <1>6 DEF Waiting
<1>8. Waiting(g, d) = Waiting(h, d) \o q
  <2>1. h.local[d] \o (h.sock[d] \o q) = (h.local[d] \o h.sock[d]) \o q
    BY <1>2, Associated
  <2> QED BY <1>7, <2>1 DEF Waiting
<1>9. \A e \in Dirs \ {d} : Waiting(g, e) = Waiting(h, e)
  BY <1>4, <1>6, Zenon DEF Waiting
<1> QED BY <1>0, <1>6, <1>8, <1>9, Zenon

\* One read() takes the oldest packet.
LEMMA TakenWay ==
    ASSUME NEW h, Sound(h), h.up, NEW d \in Dirs, Waiting(h, d) # <<>>
    PROVE  /\ Sound(Taken(h, d)) /\ Taken(h, d).up
           /\ UnderWay(h, d) = Waiting(h, d) /\ Head(Waiting(h, d)) \in Kinds
           /\ UnderWay(Taken(h, d), d) = Tail(UnderWay(h, d))
           /\ \A e \in Dirs \ {d} : UnderWay(Taken(h, d), e) = UnderWay(h, e)
<1>1. h \in HopsOver(BOOLEAN, Lines) /\ h.back = None
  BY Zenon DEF Sound
<1>2. PICK g : g = Taken(h, d)
  OBVIOUS
<1>3. /\ g \in HopsOver(BOOLEAN, Lines) /\ g.up = h.up /\ g.back = h.back
      /\ Head(Waiting(h, d)) \in Kinds /\ Waiting(g, d) = Tail(Waiting(h, d))
      /\ \A e \in Dirs \ {d} : Waiting(g, e) = Waiting(h, e)
  BY <1>1, <1>2, TakenParts, Zenon
<1>4. Sound(g) /\ g.up
  BY <1>1, <1>3, Zenon DEF Sound
<1>5. \A e \in Dirs : UnderWay(g, e) = Waiting(g, e) /\ UnderWay(h, e) = Waiting(h, e)
  BY <1>4, AllWaiting, Zenon
<1> QED BY <1>2, <1>3, <1>4, <1>5, Zenon

\* Reading until hasData() is false takes them all.
LEMMA DrainedWay ==
    ASSUME NEW h, Sound(h), h.up, NEW d \in Dirs
    PROVE  /\ Sound(Drained(h, d)) /\ Drained(h, d).up
           /\ UnderWay(h, d) = Waiting(h, d)
           /\ UnderWay(Drained(h, d), d) = <<>>
           /\ \A e \in Dirs \ {d} : UnderWay(Drained(h, d), e) = UnderWay(h, e)
<1>1. h \in HopsOver(BOOLEAN, Lines) /\ h.back = None
  BY Zenon DEF Sound
<1>2. PICK g : g = Drained(h, d)
  OBVIOUS
<1>3. /\ g \in HopsOver(BOOLEAN, Lines) /\ g.up = h.up /\ g.back = h.back
      /\ Waiting(g, d) = <<>> /\ \A e \in Dirs \ {d} : Waiting(g, e) = Waiting(h, e)
  BY <1>1, <1>2, DrainedParts, Zenon
<1>4. Sound(g) /\ g.up
  BY <1>1, <1>3, Zenon DEF Sound
<1>5. \A e \in Dirs : UnderWay(g, e) = Waiting(g, e) /\ UnderWay(h, e) = Waiting(h, e)
  BY <1>4, AllWaiting, Zenon
<1> QED BY <1>2, <1>3, <1>4, <1>5, Zenon

\* Packets that are streamed onto the socket in one go follow what is there.
LEMMA StreamWay ==
    ASSUME NEW h, Sound(h), h.up, NEW d \in Dirs, NEW q \in Seq(Kinds)
    PROVE  /\ Sound(Streamed(h, d, q)) /\ Streamed(h, d, q).up
           /\ UnderWay(Streamed(h, d, q), d) = UnderWay(h, d) \o q
           /\ \A e \in Dirs \ {d} : UnderWay(Streamed(h, d, q), e) = UnderWay(h, e)
<1>0. PICK g : g = Streamed(h, d, q)
  OBVIOUS
<1>1. h \in HopsOver(BOOLEAN, Lines) /\ h.back = None
  BY Zenon DEF Sound
<1>2. /\ g \in HopsOver(BOOLEAN, Lines) /\ g.up = h.up /\ g.back = h.back
      /\ Waiting(g, d) = Waiting(h, d) \o q
      /\ \A e \in Dirs \ {d} : Waiting(g, e) = Waiting(h, e)
  BY <1>0, <1>1, StreamParts, Zenon
<1>3. Sound(g) /\ g.up
  BY <1>1, <1>2, Zenon DEF Sound
<1>4. \A e \in Dirs : UnderWay(g, e) = Waiting(g, e) /\ UnderWay(h, e) = Waiting(h, e)
  BY <1>3, AllWaiting, Zenon
<1> QED BY <1>0, <1>2, <1>3, <1>4, Zenon

-----------------------------------------------------------------------------
(* Which kinds of packets a stream holds.                                  *)

LEMMA HeldCounted ==
    ASSUME NEW s \in Seq(Kinds), NEW k, k \in Range(s)
    PROVE  Count(s, k) # 0
<1>1. PICK i \in DOMAIN s : s[i] = k
  BY DEF Range
<1>2. DOMAIN s = 1..Len(s) /\ Len(s) \in Nat
  OBVIOUS
<1>3. IsFiniteSet(1..Len(s))
  BY <1>2, FS_Interval
<1>4. PICK H : H = {j \in DOMAIN s : s[j] = k}
  OBVIOUS
<1>5. IsFiniteSet(H) /\ H # {}
  <2>1. H \subseteq 1..Len(s) /\ H # {}
    BY <1>1, <1>2, <1>4
  <2> QED BY <1>3, <2>1, FS_Subset
<1> QED BY <1>4, <1>5, FS_EmptySet DEF Count

LEMMA HeldAppend ==
    ASSUME NEW s \in Seq(Kinds), NEW p \in Kinds
    PROVE  /\ p \in Range(Append(s, p))
           /\ \A k \in Range(s) : k \in Range(Append(s, p))
<1>1. PICK q : q = Append(s, p)
  OBVIOUS
<1>2. /\ DOMAIN q = 1..(Len(s) + 1) /\ DOMAIN s = 1..Len(s) /\ Len(s) \in Nat
      /\ q[Len(s) + 1] = p /\ \A i \in 1..Len(s) : q[i] = s[i]
  BY <1>1
<1>3. Len(s) + 1 \in DOMAIN q
  BY <1>2
<1>4. ASSUME NEW k \in Range(s) PROVE k \in Range(q)
  <2>1. PICK i \in DOMAIN s : s[i] = k
    BY <1>4 DEF Range
  <2>2. i \in DOMAIN q /\ q[i] = k
    BY <1>2, <2>1
  <2> QED BY <2>2 DEF Range
<1>5. p \in Range(q)
  BY <1>2, <1>3 DEF Range
<1> QED BY <1>1, <1>4, <1>5

LEMMA HeldTail ==
    ASSUME NEW s \in Seq(Kinds), s # <<>>, NEW k \in Range(s), k # Head(s)
    PROVE  k \in Range(Tail(s))
<1>1. PICK i \in DOMAIN s : s[i] = k
  BY DEF Range
<1>2. PICK t : t = Tail(s)
  OBVIOUS
<1>3. /\ DOMAIN s = 1..Len(s) /\ Len(s) \in Nat /\ s[1] = Head(s)
      /\ DOMAIN t = 1..(Len(s) - 1) /\ \A j \in 1..(Len(s) - 1) : t[j] = s[j + 1]
  BY <1>2
<1>4. i # 1 /\ i \in Nat
  BY <1>1, <1>3
<1>5. i - 1 \in DOMAIN t /\ t[i - 1] = k
  BY <1>1, <1>3, <1>4
<1> QED BY <1>2, <1>5 DEF Range

LEMMA HeldConcat ==
    ASSUME NEW s \in Seq(Kinds), NEW q \in Seq(Kinds)
    PROVE  /\ \A k \in Range(s) : k \in Range(s \o q)
           /\ \A k \in Range(q) : k \in Range(s \o q)
<1>1. PICK c : c = s \o q
  OBVIOUS
<1>2. /\ DOMAIN s = 1..Len(s) /\ DOMAIN q = 1..Len(q) /\ Len(s) \in Nat /\ Len(q) \in Nat
      /\ DOMAIN c = 1..(Len(s) + Len(q))
      /\ \A i \in 1..Len(s) : c[i] = s[i]
      /\ \A i \in 1..Len(q) : c[Len(s) + i] = q[i]
  BY <1>1
<1>3. ASSUME NEW k \in Range(s) PROVE k \in Range(c)
  <2>1. PICK i \in DOMAIN s : s[i] = k
    BY <1>3 DEF Range
  <2>2. i \in DOMAIN c /\ c[i] = k
    BY <1>2, <2>1
  <2> QED BY <2>2 DEF Range
<1>4. ASSUME NEW k \in Range(q) PROVE k \in Range(c)
  <2>1. PICK i \in DOMAIN q : q[i] = k
    BY <1>4 DEF Range
  <2>2. Len(s) + i \in DOMAIN c /\ c[Len(s) + i] = k
    BY <1>2, <2>1
  <2> QED BY <2>2 DEF Range
<1> QED BY <1>1, <1>3, <1>4

\* The echoes of n keepalives.
LEMMA Echoes ==
    ASSUME NEW n \in Nat, NEW q, q = [i \in 1..n |-> "keepalive"]
    PROVE  /\ q \in Seq(Kinds) /\ Count(q, "data") = 0
           /\ n # 0 => "keepalive" \in Range(q)
<1>1. "keepalive" \in Kinds
  BY DEF Kinds
<1>2. q \in Seq(Kinds)
  BY <1>1
<1>3. {i \in DOMAIN q : q[i] = "data"} = {}
  OBVIOUS
<1>4. Count(q, "data") = 0
  BY <1>3, FS_EmptySet DEF Count
<1>5. n # 0 => 1 \in DOMAIN q /\ q[1] = "keepalive"
  OBVIOUS
<1> QED BY <1>2, <1>4, <1>5 DEF Range

-----------------------------------------------------------------------------
(* The two loops keep LoopInv.                                             *)

\* What is not about the packets under way.
Rest ==
    /\ phase \in {"constructor", "run", "exit", "fatal"} /\ looks \in 0..3
    /\ waiting \in BOOLEAN /\ serving \in {"first", "loop", "refused"}
    /\ sent \in [Dirs -> 0..MaxData]
    /\ got \in [Dirs -> 0..MaxData]
    /\ faults \in 0..MaxFaults
    /\ phase = "constructor" => ~waiting

LEMMA InvIs ==
    LoopInv <=> Sound(hop) /\ Rest /\ DataBounded /\ KeepaliveUnderWay /\ PayloadFirst
  BY Zenon DEF LoopInv, TypeOK, Settled, Sound, Rest, HopsOver, Lines

LEMMA InvIsNext ==
    LoopInv' <=> (Sound(hop) /\ Rest /\ DataBounded /\ KeepaliveUnderWay /\ PayloadFirst)'
  BY Zenon DEF LoopInv, TypeOK, Settled, Sound, Rest, HopsOver, Lines

\* Steps that move packets from one place to another, or none.
LEMMA WayKept ==
    ASSUME LoopInv, Sound(hop'), Rest',
           \A d \in Dirs : UnderWay(hop', d) = UnderWay(hop, d),
           sent' = sent, got' = got, serving' = serving,
           (waiting' /\ phase' = "run") => (waiting /\ phase = "run")
    PROVE  LoopInv'
<1>1. Sound(hop) /\ Rest /\ DataBounded /\ KeepaliveUnderWay /\ PayloadFirst
  BY InvIs
<1>2. DataBounded'
  BY <1>1, Zenon DEF DataBounded
<1>3. KeepaliveUnderWay'
  BY <1>1, Zenon DEF KeepaliveUnderWay
<1>4. PayloadFirst'
  <2>1. "in" \in Dirs
    BY DEF Dirs
  <2> QED BY <1>1, <2>1, Zenon DEF PayloadFirst
<1> QED BY <1>2, <1>3, <1>4, InvIsNext

LEMMA ConstructorWaitsKeeps == ASSUME LoopInv, ConstructorWaits PROVE LoopInv'
<1>1. Sound(hop) /\ Rest
  BY InvIs
<1>2. /\ hop' = hop /\ phase' = phase /\ looks < 3 /\ looks' = looks + 1
      /\ waiting' = waiting /\ serving' = serving /\ sent' = sent /\ got' = got /\ faults' = faults
  BY DEF ConstructorWaits
<1>3. looks \in 0..3
  BY <1>1 DEF Rest
<1>4. looks' \in 0..3
  BY <1>2, <1>3
<1>5. Rest'
  BY <1>1, <1>2, <1>4, Zenon DEF Rest
<1> QED BY <1>1, <1>2, <1>5, WayKept, Zenon

LEMMA ConstructorGivesUpKeeps == ASSUME LoopInv, ConstructorGivesUp PROVE LoopInv'
<1>1. Sound(hop) /\ Rest
  BY InvIs
<1>2. /\ hop' = hop /\ phase = "constructor" /\ phase' = "run" /\ looks' = looks
      /\ waiting' = waiting /\ serving' = serving /\ sent' = sent /\ got' = got /\ faults' = faults
  BY DEF ConstructorGivesUp
<1>3. ~waiting
  BY <1>1, <1>2, Zenon DEF Rest
<1>4. Rest'
  BY <1>1, <1>2, <1>3, Zenon DEF Rest
<1> QED BY <1>1, <1>2, <1>3, <1>4, WayKept, Zenon

LEMMA KeepaliveMissedKeeps == ASSUME KeepaliveAssumption, LoopInv, KeepaliveMissed PROVE LoopInv'
<1>1. Sound(hop) /\ Rest
  BY InvIs
<1>2. /\ hop' = Fail(hop) /\ phase' = phase /\ looks' = looks
      /\ waiting' = FALSE /\ serving' = serving /\ sent' = sent /\ got' = got
      /\ faults' = faults \/ (faults < MaxFaults /\ faults' = faults + 1)
  BY Zenon DEF KeepaliveMissed
<1>3. faults \in 0..MaxFaults
  BY <1>1 DEF Rest
<1>4. faults' \in 0..MaxFaults
  BY <1>2, <1>3 DEF KeepaliveAssumption
<1>5. Rest'
  BY <1>1, <1>2, <1>4, Zenon DEF Rest
<1>6. Sound(hop') /\ \A d \in Dirs : UnderWay(hop', d) = UnderWay(hop, d)
  BY <1>1, <1>2, FailWay, Zenon
<1> QED BY <1>2, <1>5, <1>6, WayKept, Zenon

LEMMA ClientDisconnectedKeeps == ASSUME LoopInv, ClientDisconnected PROVE LoopInv'
<1>1. Sound(hop) /\ Rest
  BY InvIs
<1>2. /\ hop' = hop /\ phase' = phase /\ looks' = looks /\ faults' = faults
      /\ waiting' = FALSE /\ serving' = serving /\ sent' = sent /\ got' = got
  BY Zenon DEF ClientDisconnected
<1>3. Rest'
  BY <1>1, <1>2, Zenon DEF Rest
<1> QED BY <1>1, <1>2, <1>3, WayKept, Zenon

LEMMA LinkFailsKeeps == ASSUME KeepaliveAssumption, LoopInv, LinkFails PROVE LoopInv'
<1>1. Sound(hop) /\ Rest
  BY InvIs
<1>2. /\ hop' = Fail(hop) /\ phase' = phase /\ looks' = looks
      /\ waiting' = waiting /\ serving' = serving /\ sent' = sent /\ got' = got
      /\ faults < MaxFaults /\ faults' = faults + 1
  BY Zenon DEF LinkFails
<1>3. faults \in 0..MaxFaults
  BY <1>1 DEF Rest
<1>4. faults' \in 0..MaxFaults
  BY <1>2, <1>3 DEF KeepaliveAssumption
<1>5. Rest'
  BY <1>1, <1>2, <1>4, Zenon DEF Rest
<1>6. Sound(hop') /\ \A d \in Dirs : UnderWay(hop', d) = UnderWay(hop, d)
  BY <1>1, <1>2, FailWay, Zenon
<1> QED BY <1>2, <1>5, <1>6, WayKept, Zenon

LEMMA ReconnectKeeps == ASSUME LoopInv, Reconnect PROVE LoopInv'
<1>1. Sound(hop) /\ Rest
  BY InvIs
<1>2. /\ hop' = Recover(hop) /\ ~hop.up /\ phase' = phase /\ looks' = looks
      /\ waiting' = waiting /\ serving' = serving /\ sent' = sent /\ got' = got /\ faults' = faults
  BY Zenon DEF Reconnect
<1>3. Rest'
  BY <1>1, <1>2, Zenon DEF Rest
<1>4. Sound(hop') /\ \A d \in Dirs : UnderWay(hop', d) = UnderWay(hop, d)
  BY <1>1, <1>2, RecoverWay, Zenon
<1> QED BY <1>2, <1>3, <1>4, WayKept, Zenon

-----------------------------------------------------------------------------
(* Steps that put a packet.                                                *)

\* A packet that is put disturbs neither the payload nor a keepalive.
LEMMA PutKept ==
    ASSUME LoopInv, Rest', NEW d \in Dirs, NEW p \in Kinds, hop' = Put(hop, d, p),
           DataBounded', serving' = serving,
           (waiting' /\ phase' = "run") => ((waiting /\ phase = "run") \/ p = "keepalive")
    PROVE  LoopInv'
<1>1. Sound(hop) /\ KeepaliveUnderWay /\ PayloadFirst
  BY InvIs
<1>2. /\ Sound(hop') /\ UnderWay(hop', d) = Append(UnderWay(hop, d), p)
      /\ \A e \in Dirs \ {d} : UnderWay(hop', e) = UnderWay(hop, e)
  BY <1>1, PutWay, Zenon
<1>3. \A e \in Dirs : UnderWay(hop, e) \in Seq(Kinds)
  BY <1>1, WayType
<1>4. \A e \in Dirs : \A k \in Range(UnderWay(hop, e)) : k \in Range(UnderWay(hop', e))
  <2>1. \A k \in Range(UnderWay(hop, d)) : k \in Range(UnderWay(hop', d))
    BY <1>2, <1>3, HeldAppend, Zenon
  <2> QED BY <1>2, <2>1, Zenon
<1>5. p \in Range(UnderWay(hop', d))
  BY <1>2, <1>3, HeldAppend, Zenon
<1>6. KeepaliveUnderWay'
  BY <1>1, <1>4, <1>5, Zenon DEF KeepaliveUnderWay
<1>7. PayloadFirst'
  <2>1. "in" \in Dirs
    BY DEF Dirs
  <2>3. CASE d = "in"
    BY <1>1, <1>2, <1>3, <2>1, <2>3, AppendHead, Zenon DEF PayloadFirst
  <2>4. CASE d # "in"
    <3>1. UnderWay(hop', "in") = UnderWay(hop, "in")
      BY <1>2, <2>1, <2>4, Zenon
    <3> QED BY <1>1, <3>1, Zenon DEF PayloadFirst
  <2> QED BY <2>3, <2>4
<1> QED BY <1>2, <1>6, <1>7, InvIsNext

\* How the data under way changes with a packet that is put.
LEMMA PutCount ==
    ASSUME Sound(hop), NEW d \in Dirs, NEW p \in Kinds, hop' = Put(hop, d, p)
    PROVE  /\ Count(UnderWay(hop', d), "data") =
                Count(UnderWay(hop, d), "data") + (IF p = "data" THEN 1 ELSE 0)
           /\ \A e \in Dirs \ {d} : Count(UnderWay(hop', e), "data") = Count(UnderWay(hop, e), "data")
           /\ \A e \in Dirs : Count(UnderWay(hop, e), "data") \in Nat
<1>1. /\ UnderWay(hop', d) = Append(UnderWay(hop, d), p)
      /\ \A e \in Dirs \ {d} : UnderWay(hop', e) = UnderWay(hop, e)
  BY PutWay, Zenon
<1>2. \A e \in Dirs : UnderWay(hop, e) \in Seq(Kinds)
  BY WayType
<1>3. \A e \in Dirs : Count(UnderWay(hop, e), "data") \in Nat
  BY <1>2, CountType
<1> QED BY <1>1, <1>2, <1>3, CountAppend

LEMMA ClientInputKeeps == ASSUME KeepaliveAssumption, LoopInv, ClientInput PROVE LoopInv'
<1>1. Sound(hop) /\ Rest /\ DataBounded
  BY InvIs
<1>2. /\ hop' = Put(hop, "in", "data") /\ phase' = phase /\ looks' = looks
      /\ waiting' = waiting /\ serving' = serving /\ got' = got /\ faults' = faults
      /\ sent["in"] < MaxData /\ sent' = [sent EXCEPT !["in"] = @ + 1]
  BY DEF ClientInput
<1>3. sent \in [Dirs -> 0..MaxData] /\ got \in [Dirs -> 0..MaxData]
  BY <1>1 DEF Rest
<1>4. sent' \in [Dirs -> 0..MaxData]
  BY <1>2, <1>3 DEF Dirs, KeepaliveAssumption
<1>5. Rest'
  BY <1>1, <1>2, <1>4, Zenon DEF Rest
<1>6. "in" \in Dirs /\ "data" \in Kinds
  BY DEF Dirs, Kinds
<1>7. /\ Count(UnderWay(hop', "in"), "data") = Count(UnderWay(hop, "in"), "data") + 1
      /\ \A e \in Dirs \ {"in"} : Count(UnderWay(hop', e), "data") = Count(UnderWay(hop, e), "data")
      /\ \A e \in Dirs : Count(UnderWay(hop, e), "data") \in Nat
  BY <1>1, <1>2, <1>6, PutCount
<1>8. DataBounded'
  BY <1>1, <1>2, <1>3, <1>7 DEF DataBounded, KeepaliveAssumption
<1> QED BY <1>2, <1>5, <1>6, <1>8, PutKept, Zenon

LEMMA ServerOutputKeeps == ASSUME KeepaliveAssumption, LoopInv, ServerOutput PROVE LoopInv'
<1>1. Sound(hop) /\ Rest /\ DataBounded
  BY InvIs
<1>2. /\ hop' = Put(hop, "out", "data") /\ phase' = phase /\ looks' = looks
      /\ waiting' = waiting /\ serving' = serving /\ got' = got /\ faults' = faults
      /\ sent["out"] < MaxData /\ sent' = [sent EXCEPT !["out"] = @ + 1]
  BY DEF ServerOutput
<1>3. sent \in [Dirs -> 0..MaxData] /\ got \in [Dirs -> 0..MaxData]
  BY <1>1 DEF Rest
<1>4. sent' \in [Dirs -> 0..MaxData]
  BY <1>2, <1>3 DEF Dirs, KeepaliveAssumption
<1>5. Rest'
  BY <1>1, <1>2, <1>4, Zenon DEF Rest
<1>6. "out" \in Dirs /\ "data" \in Kinds
  BY DEF Dirs, Kinds
<1>7. /\ Count(UnderWay(hop', "out"), "data") = Count(UnderWay(hop, "out"), "data") + 1
      /\ \A e \in Dirs \ {"out"} : Count(UnderWay(hop', e), "data") = Count(UnderWay(hop, e), "data")
      /\ \A e \in Dirs : Count(UnderWay(hop, e), "data") \in Nat
  BY <1>1, <1>2, <1>6, PutCount
<1>8. DataBounded'
  BY <1>1, <1>2, <1>3, <1>7 DEF DataBounded, KeepaliveAssumption
<1> QED BY <1>2, <1>5, <1>6, <1>8, PutKept, Zenon

LEMMA KeepaliveSentKeeps == ASSUME LoopInv, KeepaliveSent PROVE LoopInv'
<1>1. Sound(hop) /\ Rest /\ DataBounded
  BY InvIs
<1>2. /\ hop' = Put(hop, "in", "keepalive") /\ phase = "run" /\ phase' = phase /\ looks' = looks
      /\ waiting' = TRUE /\ serving' = serving /\ sent' = sent /\ got' = got /\ faults' = faults
  BY Zenon DEF KeepaliveSent
<1>3. Rest'
  BY <1>1, <1>2, Zenon DEF Rest
<1>4. "in" \in Dirs /\ "keepalive" \in Kinds
  BY DEF Dirs, Kinds
<1>5. /\ Count(UnderWay(hop', "in"), "data") = Count(UnderWay(hop, "in"), "data")
      /\ \A e \in Dirs \ {"in"} : Count(UnderWay(hop', e), "data") = Count(UnderWay(hop, e), "data")
  <2>1. hop' = Put(hop, "in", "keepalive")
    BY <1>2
  <2> QED BY <1>1, <1>4, <2>1, PutCount
<1>6. DataBounded'
  BY <1>1, <1>2, <1>5, Zenon DEF DataBounded
<1> QED BY <1>2, <1>3, <1>4, <1>6, PutKept, Zenon

-----------------------------------------------------------------------------
(* Steps that read.                                                        *)

\* A session whose socket is readable has a packet waiting.
LEMMA ReadableWaits ==
    ASSUME Sound(hop), NEW d \in Dirs, Readable(hop, d)
    PROVE  hop.up /\ Waiting(hop, d) # <<>> /\ Waiting(hop, d) = UnderWay(hop, d)
<1>1. hop.up /\ hop.sock[d] # <<>>
  BY Zenon DEF Readable
<1>2. hop.sock[d] \in Seq(Kinds) /\ hop.local[d] \in Seq(Kinds)
  BY Fields, LineAt DEF Sound
<1>3. Waiting(hop, d) # <<>>
  BY <1>1, <1>2, ConcatEmpty, Zenon DEF Waiting
<1> QED BY <1>1, <1>3, AllWaiting, Zenon

LEMMA ConstructorReadsKeeps == ASSUME LoopInv, ConstructorReads PROVE LoopInv'
<1>1. Sound(hop) /\ Rest /\ DataBounded /\ PayloadFirst
  BY InvIs
<1>2. /\ hop' = Taken(hop, "out") /\ phase = "constructor" /\ phase' \in {"run", "exit", "fatal"}
      /\ looks' = looks /\ faults' = faults
      /\ waiting' = waiting /\ serving' = serving /\ sent' = sent /\ got' = got
  BY DEF ConstructorReads
<1>3. Readable(hop, "out") /\ "out" \in Dirs /\ "in" \in Dirs
  BY DEF ConstructorReads, Dirs
<1>4. hop.up /\ Waiting(hop, "out") # <<>>
  BY <1>1, <1>3, ReadableWaits, Zenon
<1>5. ~waiting
  BY <1>1, <1>2, Zenon DEF Rest
<1>6. Rest'
  BY <1>1, <1>2, <1>5, Zenon DEF Rest
<1>7. /\ Sound(hop') /\ UnderWay(hop', "out") = Tail(UnderWay(hop, "out"))
      /\ UnderWay(hop, "out") # <<>>
      /\ \A e \in Dirs \ {"out"} : UnderWay(hop', e) = UnderWay(hop, e)
  BY <1>1, <1>2, <1>3, <1>4, TakenWay, Zenon
<1>8. UnderWay(hop, "out") \in Seq(Kinds) /\ \A e \in Dirs : Count(UnderWay(hop, e), "data") \in Nat
  BY <1>1, <1>3, WayType, CountType
<1>9. Count(UnderWay(hop', "out"), "data") <= Count(UnderWay(hop, "out"), "data")
  BY <1>7, <1>8, CountTail
<1>10. Count(UnderWay(hop', "out"), "data") \in Nat
  <2>1. UnderWay(hop', "out") \in Seq(Kinds)
    BY <1>3, <1>7, WayType
  <2> QED BY <2>1, CountType
<1>11. sent \in [Dirs -> 0..MaxData] /\ got \in [Dirs -> 0..MaxData]
  BY <1>1 DEF Rest
<1>12. DataBounded'
  <2>1. got["out"] + Count(UnderWay(hop, "out"), "data") <= sent["out"]
    BY <1>1, <1>3 DEF DataBounded
  <2>2. got["out"] + Count(UnderWay(hop', "out"), "data") <= sent["out"]
    BY <1>3, <1>8, <1>9, <1>10, <1>11, <2>1
  <2>3. \A e \in Dirs \ {"out"} : got[e] + Count(UnderWay(hop', e), "data") <= sent[e]
    BY <1>1, <1>7, Zenon DEF DataBounded
  <2> QED BY <1>2, <2>2, <2>3, Zenon DEF DataBounded
<1>13. KeepaliveUnderWay'
  BY <1>2, <1>5, Zenon DEF KeepaliveUnderWay
<1>14. PayloadFirst'
  <2>1. UnderWay(hop', "in") = UnderWay(hop, "in")
    BY <1>3, <1>7
  <2> QED BY <1>1, <1>2, <2>1, Zenon DEF PayloadFirst
<1> QED BY <1>6, <1>7, <1>12, <1>13, <1>14, InvIsNext

LEMMA ClientReadsKeeps == ASSUME KeepaliveAssumption, LoopInv, ClientReads PROVE LoopInv'
<1>1. Sound(hop) /\ Rest /\ DataBounded /\ PayloadFirst /\ KeepaliveUnderWay
  BY InvIs
<1>2. /\ hop' = Drained(hop, "out") /\ phase = "run" /\ looks' = looks /\ faults' = faults
      /\ phase' \in {"run", "fatal"} /\ serving' = serving /\ sent' = sent
      /\ got' = [got EXCEPT !["out"] = @ + Count(Waiting(hop, "out"), "data")]
  BY DEF ClientReads
<1>3. Readable(hop, "out") /\ "out" \in Dirs /\ "in" \in Dirs
  BY DEF ClientReads, Dirs
<1>4. hop.up /\ Waiting(hop, "out") = UnderWay(hop, "out")
  BY <1>1, <1>3, ReadableWaits, Zenon
<1>5. waiting' = (waiting /\ Count(UnderWay(hop, "out"), "keepalive") = 0)
  BY <1>4, Zenon DEF ClientReads
<1>6. /\ Sound(hop') /\ UnderWay(hop', "out") = <<>>
      /\ \A e \in Dirs \ {"out"} : UnderWay(hop', e) = UnderWay(hop, e)
  BY <1>1, <1>2, <1>3, <1>4, DrainedWay, Zenon
<1>7. UnderWay(hop, "out") \in Seq(Kinds) /\ \A e \in Dirs : Count(UnderWay(hop, e), "data") \in Nat
  BY <1>1, <1>3, WayType, CountType
<1>8. Count(<<>>, "data") = 0
  <2>1. {i \in DOMAIN <<>> : <<>>[i] = "data"} = {}
    OBVIOUS
  <2> QED BY <2>1, FS_EmptySet DEF Count
<1>9. sent \in [Dirs -> 0..MaxData] /\ got \in [Dirs -> 0..MaxData]
  BY <1>1 DEF Rest
<1>10. got["out"] + Count(UnderWay(hop, "out"), "data") <= sent["out"]
  BY <1>1, <1>3 DEF DataBounded
<1>11. got' = [got EXCEPT !["out"] = got["out"] + Count(UnderWay(hop, "out"), "data")]
  BY <1>2, <1>4
<1>12. got["out"] + Count(UnderWay(hop, "out"), "data") \in 0..MaxData
  BY <1>3, <1>7, <1>9, <1>10 DEF KeepaliveAssumption
<1>13. got' \in [Dirs -> 0..MaxData]
  BY <1>9, <1>11, <1>12
<1>14. waiting' \in BOOLEAN /\ phase' # "constructor"
  BY <1>2, <1>5, Zenon
<1>15. Rest'
  <2>1. phase' \in {"constructor", "run", "exit", "fatal"}
    BY <1>2
  <2> QED BY <1>1, <1>2, <1>13, <1>14, <2>1, Zenon DEF Rest
<1>16. DataBounded'
  <2>1. got'["out"] + Count(UnderWay(hop', "out"), "data") <= sent'["out"]
    BY <1>2, <1>3, <1>6, <1>7, <1>8, <1>9, <1>10, <1>11
  <2>2. ASSUME NEW e \in Dirs \ {"out"}
        PROVE  got'[e] + Count(UnderWay(hop', e), "data") <= sent'[e]
    <3>1. got'[e] = got[e] /\ UnderWay(hop', e) = UnderWay(hop, e) /\ sent' = sent
      BY <1>2, <1>6, <1>9, <1>11
    <3>2. got[e] + Count(UnderWay(hop, e), "data") <= sent[e]
      BY <1>1 DEF DataBounded
    <3> QED BY <3>1, <3>2
  <2> QED BY <2>1, <2>2, Zenon DEF DataBounded
<1>17. KeepaliveUnderWay'
  <2>1. SUFFICES ASSUME waiting', serving' # "refused"
                 PROVE  "keepalive" \in Range(UnderWay(hop', "in"))
    BY <1>3, Zenon DEF KeepaliveUnderWay
  <2>2. waiting /\ Count(UnderWay(hop, "out"), "keepalive") = 0
    BY <1>5, <2>1, Zenon
  <2>3. "keepalive" \notin Range(UnderWay(hop, "out"))
    BY <1>7, <2>2, HeldCounted, Zenon
  <2>4. PICK e \in Dirs : "keepalive" \in Range(UnderWay(hop, e))
    BY <1>1, <1>2, <2>1, <2>2, Zenon DEF KeepaliveUnderWay
  <2>5. e = "in"
    BY <2>3, <2>4 DEF Dirs
  <2> QED BY <1>6, <2>4, <2>5
<1>18. PayloadFirst'
  <2>1. UnderWay(hop', "in") = UnderWay(hop, "in")
    BY <1>3, <1>6
  <2> QED BY <1>1, <1>2, <2>1, Zenon DEF PayloadFirst
<1> QED BY <1>6, <1>15, <1>16, <1>17, <1>18, InvIsNext

\* One read that is answered: the payload leaves and the answer is put.
LEMMA FirstPacketKeeps == ASSUME KeepaliveAssumption, LoopInv, FirstPacket PROVE LoopInv'
<1>1. Sound(hop) /\ Rest /\ DataBounded /\ PayloadFirst /\ KeepaliveUnderWay
  BY InvIs
<1>2. /\ looks' = looks /\ faults' = faults /\ phase' = phase /\ waiting' = waiting
      /\ sent' = sent /\ got' = got /\ serving = "first" /\ serving' \in {"loop", "refused"}
      /\ Head(Waiting(hop, "in")) = "payload"
  BY Zenon DEF FirstPacket
<1>3. hop.up /\ Waiting(hop, "in") # <<>> /\ "in" \in Dirs /\ "out" \in Dirs
  BY Zenon DEF FirstPacket, Dirs
<1>4. PICK p \in {"response", "refusal"} : hop' = Put(Taken(hop, "in"), "out", p)
  BY Zenon DEF FirstPacket
<1>5. p \in Kinds /\ p # "data"
  BY DEF Kinds
<1>6. PICK g : g = Taken(hop, "in")
  OBVIOUS
<1>7. /\ Sound(g) /\ UnderWay(g, "in") = Tail(UnderWay(hop, "in"))
      /\ UnderWay(hop, "in") = Waiting(hop, "in")
      /\ \A e \in Dirs \ {"in"} : UnderWay(g, e) = UnderWay(hop, e)
  BY <1>1, <1>3, <1>6, TakenWay, Zenon
<1>8. /\ Sound(hop') /\ UnderWay(hop', "out") = Append(UnderWay(g, "out"), p)
      /\ \A e \in Dirs \ {"out"} : UnderWay(hop', e) = UnderWay(g, e)
  BY <1>3, <1>4, <1>5, <1>6, <1>7, PutWay, Zenon
<1>9. /\ UnderWay(hop', "in") = Tail(UnderWay(hop, "in"))
      /\ UnderWay(hop', "out") = Append(UnderWay(hop, "out"), p)
  <2>1. "in" # "out"
    OBVIOUS
  <2> QED BY <1>3, <1>7, <1>8, <2>1, Zenon
<1>10. UnderWay(hop, "out") \in Seq(Kinds) /\ UnderWay(hop, "in") \in Seq(Kinds)
  BY <1>1, <1>3, WayType
<1>11. /\ Count(UnderWay(hop', "in"), "data") <= Count(UnderWay(hop, "in"), "data")
       /\ Count(UnderWay(hop', "out"), "data") = Count(UnderWay(hop, "out"), "data")
  <2>1. Count(UnderWay(hop', "in"), "data") <= Count(UnderWay(hop, "in"), "data")
    BY <1>3, <1>7, <1>9, <1>10, CountTail, Zenon
  <2>2. Count(UnderWay(hop', "out"), "data") = Count(UnderWay(hop, "out"), "data")
    <3>1. Count(Append(UnderWay(hop, "out"), p), "data") = Count(UnderWay(hop, "out"), "data")
      BY <1>5, <1>10, CountAppend
    <3> QED BY <1>9, <3>1
  <2> QED BY <2>1, <2>2
<1>12. Count(UnderWay(hop', "in"), "data") \in Nat /\ Count(UnderWay(hop, "in"), "data") \in Nat
  <2>1. UnderWay(hop', "in") \in Seq(Kinds)
    BY <1>3, <1>8, WayType
  <2> QED BY <1>10, <2>1, CountType
<1>13. sent \in [Dirs -> 0..MaxData] /\ got \in [Dirs -> 0..MaxData]
  BY <1>1 DEF Rest
<1>14. DataBounded'
  <2>1. /\ got["in"] + Count(UnderWay(hop, "in"), "data") <= sent["in"]
        /\ got["out"] + Count(UnderWay(hop, "out"), "data") <= sent["out"]
    BY <1>1, <1>3 DEF DataBounded
  <2>2. got["in"] + Count(UnderWay(hop', "in"), "data") <= sent["in"]
    BY <1>3, <1>11, <1>12, <1>13, <2>1
  <2>3. \A e \in Dirs : e = "in" \/ e = "out"
    BY DEF Dirs
  <2> QED BY <1>2, <1>11, <2>1, <2>2, <2>3, Zenon DEF DataBounded
<1>15. Rest'
  <2>1. serving' \in {"first", "loop", "refused"}
    BY <1>2
  <2> QED BY <1>1, <1>2, <2>1, Zenon DEF Rest
<1>16. KeepaliveUnderWay'
  <2>1. SUFFICES ASSUME waiting, phase = "run"
                 PROVE  \E e \in Dirs : "keepalive" \in Range(UnderWay(hop', e))
    BY <1>2, Zenon DEF KeepaliveUnderWay
  <2>2. PICK e \in Dirs : "keepalive" \in Range(UnderWay(hop, e))
    <3>1. serving # "refused"
      BY <1>2
    <3> QED BY <1>1, <2>1, <3>1, Zenon DEF KeepaliveUnderWay
  <2>3. CASE e = "in"
    <3>1. Head(UnderWay(hop, "in")) # "keepalive"
      BY <1>2, <1>7
    <3>2. "keepalive" \in Range(UnderWay(hop', "in"))
      BY <1>3, <1>7, <1>9, <1>10, <2>2, <2>3, <3>1, HeldTail
    <3> QED BY <1>3, <3>2
  <2>4. CASE e = "out"
    <3>1. "keepalive" \in Range(UnderWay(hop', "out"))
      BY <1>5, <1>9, <1>10, <2>2, <2>4, HeldAppend
    <3> QED BY <1>3, <3>1
  <2> QED BY <2>3, <2>4 DEF Dirs
<1>17. PayloadFirst'
  BY <1>2 DEF PayloadFirst
<1> QED BY <1>8, <1>14, <1>15, <1>16, <1>17, InvIsNext

LEMMA ServerReadsKeeps == ASSUME KeepaliveAssumption, LoopInv, ServerReads PROVE LoopInv'
<1>1. Sound(hop) /\ Rest /\ DataBounded /\ PayloadFirst /\ KeepaliveUnderWay
  BY InvIs
<1>2. /\ looks' = looks /\ faults' = faults /\ phase' = phase /\ waiting' = waiting
      /\ serving = "loop" /\ serving' = serving /\ sent' = sent
      /\ got' = [got EXCEPT !["in"] = @ + Count(Waiting(hop, "in"), "data")]
  BY DEF ServerReads
<1>3. Readable(hop, "in") /\ "out" \in Dirs /\ "in" \in Dirs
  BY DEF ServerReads, Dirs
<1>4. hop.up /\ Waiting(hop, "in") = UnderWay(hop, "in")
  BY <1>1, <1>3, ReadableWaits, Zenon
<1>5. UnderWay(hop, "in") \in Seq(Kinds) /\ UnderWay(hop, "out") \in Seq(Kinds)
  BY <1>1, <1>3, WayType
<1>6. PICK n : n = Count(UnderWay(hop, "in"), "keepalive")
  OBVIOUS
<1>7. n \in Nat /\ \A e \in Dirs : Count(UnderWay(hop, e), "data") \in Nat
  BY <1>1, <1>5, <1>6, WayType, CountType
<1>8. PICK q : q = [i \in 1..n |-> "keepalive"]
  OBVIOUS
<1>9. q \in Seq(Kinds) /\ Count(q, "data") = 0 /\ (n # 0 => "keepalive" \in Range(q))
  BY <1>7, <1>8, Echoes
<1>10. PICK g : g = Drained(hop, "in")
  OBVIOUS
<1>11. hop' = Streamed(g, "out", q)
  BY <1>4, <1>6, <1>8, <1>10 DEF ServerReads, Streamed
<1>12. /\ Sound(g) /\ g.up /\ UnderWay(g, "in") = <<>>
       /\ \A e \in Dirs \ {"in"} : UnderWay(g, e) = UnderWay(hop, e)
  BY <1>1, <1>3, <1>4, <1>10, DrainedWay, Zenon
<1>13. /\ Sound(hop') /\ UnderWay(hop', "out") = UnderWay(g, "out") \o q
       /\ \A e \in Dirs \ {"out"} : UnderWay(hop', e) = UnderWay(g, e)
  BY <1>3, <1>9, <1>11, <1>12, StreamWay, Zenon
<1>14. UnderWay(hop', "in") = <<>> /\ UnderWay(hop', "out") = UnderWay(hop, "out") \o q
  <2>1. "in" # "out"
    OBVIOUS
  <2> QED BY <1>3, <1>12, <1>13, <2>1, Zenon
<1>15. Count(UnderWay(hop', "out"), "data") = Count(UnderWay(hop, "out"), "data")
  <2>1. Count(UnderWay(hop, "out") \o q, "data") = Count(UnderWay(hop, "out"), "data") + Count(q, "data")
    BY <1>5, <1>9, CountConcat
  <2>2. Count(UnderWay(hop, "out"), "data") \in Nat
    BY <1>3, <1>7
  <2>3. Count(UnderWay(hop', "out"), "data") = Count(UnderWay(hop, "out"), "data") + 0
    BY <1>9, <1>14, <2>1, Zenon
  <2> QED BY <2>2, <2>3
<1>16. Count(UnderWay(hop', "in"), "data") = 0
  <2>1. {i \in DOMAIN <<>> : <<>>[i] = "data"} = {}
    OBVIOUS
  <2> QED BY <1>14, <2>1, FS_EmptySet DEF Count
<1>17. sent \in [Dirs -> 0..MaxData] /\ got \in [Dirs -> 0..MaxData]
  BY <1>1 DEF Rest
<1>18. /\ got["in"] + Count(UnderWay(hop, "in"), "data") <= sent["in"]
       /\ got["out"] + Count(UnderWay(hop, "out"), "data") <= sent["out"]
  BY <1>1, <1>3 DEF DataBounded
<1>19. got' = [got EXCEPT !["in"] = got["in"] + Count(UnderWay(hop, "in"), "data")]
  BY <1>2, <1>4
<1>20. got["in"] + Count(UnderWay(hop, "in"), "data") \in 0..MaxData
  BY <1>3, <1>7, <1>17, <1>18 DEF KeepaliveAssumption
<1>21. got' \in [Dirs -> 0..MaxData]
  BY <1>17, <1>19, <1>20
<1>22. Rest'
  BY <1>1, <1>2, <1>21, Zenon DEF Rest
<1>23. DataBounded'
  <2>1. got'["in"] + Count(UnderWay(hop', "in"), "data") <= sent'["in"]
    BY <1>2, <1>3, <1>7, <1>16, <1>17, <1>18, <1>19
  <2>2. got'["out"] + Count(UnderWay(hop', "out"), "data") <= sent'["out"]
    BY <1>2, <1>3, <1>15, <1>17, <1>18, <1>19
  <2>3. \A e \in Dirs : e = "in" \/ e = "out"
    BY DEF Dirs
  <2> QED BY <2>1, <2>2, <2>3, Zenon DEF DataBounded
<1>24. KeepaliveUnderWay'
  <2>1. SUFFICES ASSUME waiting, phase = "run"
                 PROVE  "keepalive" \in Range(UnderWay(hop', "out"))
    BY <1>2, <1>3, Zenon DEF KeepaliveUnderWay
  <2>2. PICK e \in Dirs : "keepalive" \in Range(UnderWay(hop, e))
    <3>1. serving # "refused"
      BY <1>2
    <3> QED BY <1>1, <2>1, <3>1, Zenon DEF KeepaliveUnderWay
  <2>3. CASE e = "in"
    <3>1. n # 0
      BY <1>5, <1>6, <2>2, <2>3, HeldCounted
    <3> QED BY <1>5, <1>9, <1>14, <3>1, HeldConcat
  <2>4. CASE e = "out"
    BY <1>5, <1>9, <1>14, <2>2, <2>4, HeldConcat
  <2> QED BY <2>3, <2>4 DEF Dirs
<1>25. PayloadFirst'
  BY <1>2 DEF PayloadFirst
<1> QED BY <1>13, <1>22, <1>23, <1>24, <1>25, InvIsNext

\* The client has just written the payload.
LEMMA LoopInit == ASSUME KeepaliveAssumption, Init PROVE LoopInv
<1>1. Sound(NewHop)
  <2>1. NewHop \in HopsOver(BOOLEAN, Lines)
    BY NoneIs DEF NewHop, HopsOver
  <2>2. NewHop.back = None
    BY DEF NewHop
  <2>3. NewHop.up
    BY DEF NewHop
  <2> QED BY <2>1, <2>2, <2>3, Zenon DEF Sound
<1>2. hop = Put(NewHop, "in", "payload") /\ "in" \in Dirs /\ "payload" \in Kinds
  BY DEF Init, Dirs, Kinds
<1>3. \A d \in Dirs : UnderWay(NewHop, d) = <<>>
  BY NoneIs DEF UnderWay, NewHop
<1>4. /\ Sound(hop) /\ UnderWay(hop, "in") = Append(<<>>, "payload")
      /\ \A e \in Dirs \ {"in"} : UnderWay(hop, e) = <<>>
  BY <1>1, <1>2, <1>3, PutWay, Zenon
<1>5. /\ phase = "constructor" /\ looks = 0 /\ waiting = FALSE /\ serving = "first"
      /\ sent = [d \in Dirs |-> 0] /\ got = [d \in Dirs |-> 0] /\ faults = 0
  BY DEF Init
<1>6. Rest
  <2>1. 0 \in 0..MaxData /\ 0 \in 0..MaxFaults /\ 0 \in 0..3
    BY DEF KeepaliveAssumption
  <2>2. sent \in [Dirs -> 0..MaxData] /\ got \in [Dirs -> 0..MaxData]
    BY <1>5, <2>1
  <2>3. waiting \in BOOLEAN /\ (phase = "constructor" => ~waiting)
    BY <1>5, Zenon
  <2>4. looks \in 0..3 /\ faults \in 0..MaxFaults
    BY <1>5, <2>1
  <2>5. phase \in {"constructor", "run", "exit", "fatal"} /\ serving \in {"first", "loop", "refused"}
    BY <1>5
  <2> QED BY <2>2, <2>3, <2>4, <2>5, Zenon DEF Rest
<1>7. DataBounded
  <2>1. ASSUME NEW d \in Dirs PROVE Count(UnderWay(hop, d), "data") = 0
    <3>1. {i \in DOMAIN UnderWay(hop, d) : UnderWay(hop, d)[i] = "data"} = {}
      <4>1. UnderWay(hop, d) = <<"payload">> \/ UnderWay(hop, d) = <<>>
        BY <1>4
      <4> QED BY <4>1
    <3> QED BY <3>1, FS_EmptySet DEF Count
  <2>2. \A d \in Dirs : sent[d] = 0 /\ got[d] = 0
    BY <1>5
  <2> QED BY <2>1, <2>2 DEF DataBounded
<1>8. KeepaliveUnderWay
  BY <1>5, Zenon DEF KeepaliveUnderWay
<1>9. PayloadFirst
  BY <1>4 DEF PayloadFirst
<1> QED BY <1>4, <1>6, <1>7, <1>8, <1>9, InvIs

\* TerminalClient::run and runTerminal, for every number of packets and
\* failures: while the client waits for a keepalive one is under way, the
\* first packet the server reads is the payload, and no data is handed out
\* twice.
THEOREM LoopCorrect == ASSUME KeepaliveAssumption PROVE Spec => []LoopInv
<1>1. Init => LoopInv
  BY LoopInit
<1>2. LoopInv /\ [Next]_vars => LoopInv'
  <2>1. SUFFICES ASSUME LoopInv, [Next]_vars PROVE LoopInv'
    OBVIOUS
  <2>2. CASE Constructor
    BY <2>1, <2>2, ConstructorReadsKeeps, ConstructorWaitsKeeps, ConstructorGivesUpKeeps, Zenon
       DEF Constructor
  <2>3. CASE ClientInput
    BY <2>1, <2>3, ClientInputKeeps
  <2>4. CASE ClientReads
    BY <2>1, <2>4, ClientReadsKeeps
  <2>5. CASE KeepaliveSent
    BY <2>1, <2>5, KeepaliveSentKeeps
  <2>6. CASE KeepaliveMissed
    BY <2>1, <2>6, KeepaliveMissedKeeps
  <2>7. CASE ClientDisconnected
    BY <2>1, <2>7, ClientDisconnectedKeeps
  <2>8. CASE FirstPacket
    BY <2>1, <2>8, FirstPacketKeeps
  <2>9. CASE ServerOutput
    BY <2>1, <2>9, ServerOutputKeeps
  <2>10. CASE ServerReads
    BY <2>1, <2>10, ServerReadsKeeps
  <2>11. CASE LinkFails
    BY <2>1, <2>11, LinkFailsKeeps
  <2>12. CASE Reconnect
    BY <2>1, <2>12, ReconnectKeeps
  <2>13. CASE UNCHANGED vars
    BY <2>1, <2>13, Zenon DEF vars, LoopInv, TypeOK, Settled, DataBounded, KeepaliveUnderWay,
       PayloadFirst
  <2> QED BY <2>1, <2>2, <2>3, <2>4, <2>5, <2>6, <2>7, <2>8, <2>9, <2>10, <2>11,
             <2>12, <2>13 DEF Next
<1> QED BY <1>1, <1>2, PTL DEF Spec
=============================================================================
