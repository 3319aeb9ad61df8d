------------------------------ MODULE HtmProofs ------------------------------
(***************************************************************************)
(* htmd: the tabs, splits and panes of MultiplexerState stay one forest,   *)
(* and the editor and htmd agree on the panes, for any number of panes and *)
(* of requests on the way; the lines a pane keeps are the end of what its  *)
(* shell has printed.                                                      *)
(***************************************************************************)
EXTENDS MCHtm, FiniteSetTheorems, SequenceTheorems, NaturalsInduction,
        WellFoundedInduction, TLAPS

Maps(A, B) == UNION {[D -> B] : D \in SUBSET A}

Fraction == Int \X Int
SplitRec == [parent : Int, vertical : BOOLEAN, kids : Seq(Int), sizes : Seq(Fraction)]
States == [tabs : Maps(Tabs, [order : Int, child : Int]), panes : Maps(PaneIds, Int),
           splits : Maps(Splits, SplitRec), closed : SUBSET PaneIds]

\* The forest as two functions: what a tab or a split lists, and the parent that
\* a pane or a split names.
Lists(s) == [y \in DOMAIN s.tabs \cup DOMAIN s.splits |-> Kids(s, y)]
Names(s) == [x \in Nodes(s) |-> Parent(s, x)]

\* They agree: a node is at one place of the list of its parent only.
Sound(K, par) ==
    /\ \A x \in DOMAIN par : par[x] \in DOMAIN K /\ \E i \in DOMAIN K[par[x]] : K[par[x]][i] = x
    /\ \A y \in DOMAIN K : \A i \in DOMAIN K[y] :
          K[y][i] \in DOMAIN par /\ par[K[y][i]] = y
    /\ \A y \in DOMAIN K : \A i, j \in DOMAIN K[y] : K[y][i] = K[y][j] => i = j

\* A split has a size for each child, and two of them unless it is about to
\* collapse.
Sized(s, but) ==
    \A y \in DOMAIN s.splits :
        /\ Len(s.splits[y].sizes) = Len(s.splits[y].kids)
        /\ y \notin but => Len(s.splits[y].kids) >= 2

\* There are n tabs and they are numbered from 0.
Numbered(s, n) ==
    /\ \A t \in DOMAIN s.tabs : s.tabs[t].order \in 0..(n - 1)
    /\ \A t, u \in DOMAIN s.tabs : s.tabs[t].order = s.tabs[u].order => t = u
    /\ \A k \in 0..(n - 1) : \E t \in DOMAIN s.tabs : s.tabs[t].order = k

\* The panes htmd knows of; tabs and splits were made with one of them.
Known(s) == DOMAIN s.panes \cup s.closed
MadeWith(s) ==
    /\ \A t \in DOMAIN s.tabs : \E q \in Known(s) : t = Tab(q)
    /\ \A y \in DOMAIN s.splits : \E q \in Known(s) : y = SplitOf(q)
    /\ DOMAIN s.panes \cap s.closed = {}

Tree(s, but) == s \in States /\ Sound(Lists(s), Names(s)) /\ Sized(s, but) /\ MadeWith(s)
Good(s) == Tree(s, {}) /\ \E n \in Nat : Numbered(s, n)

Requests ==
    [op : {"use", "tab", "close"}, pane : PaneIds]
        \cup [op : {"split"}, pane : PaneIds, src : PaneIds, vertical : BOOLEAN]
        \cup [op : {"escape", "x"}, pane : {0}]

New(r) == r.op \in {"tab", "split"}
Ordered(q) == {q[i].pane : i \in {j \in DOMAIN q : New(q[j])}}
Closing(q) == {q[i].pane : i \in {j \in DOMAIN q : q[j].op = "close"}}

\* A request makes a pane nobody has heard of, and closes one that is known by
\* the time it is read; last is the last id the editor has used.
QueueOK(q, known, last) ==
    /\ \A i \in DOMAIN q : New(q[i]) => q[i].pane \in 1..last /\ q[i].pane \notin known
    /\ \A i, j \in DOMAIN q : New(q[i]) /\ New(q[j]) /\ q[i].pane = q[j].pane => i = j
    /\ \A i \in DOMAIN q : q[i].op = "close" =>
          \/ q[i].pane \in known
          \/ \E j \in DOMAIN q : j < i /\ New(q[j]) /\ q[j].pane = q[i].pane

Told(q) == {q[i] : i \in DOMAIN q}

\* The editor shows a pane that is there, is ordered or whose end it has not
\* been told yet, and all that are there or ordered but those it has closed.
ViewOK(P) ==
    /\ view \subseteq P \cup Ordered(toServer) \cup Told(toClient)
    /\ P \cup Ordered(toServer) \subseteq view \cup Closing(toServer)
    /\ view \cap Closing(toServer) = {}

Types ==
    /\ Good(st)
    /\ alive \subseteq DOMAIN st.panes /\ made \in PaneIds /\ Known(st) \subseteq 1..made
    /\ toServer \in Seq(Requests) /\ Len(toServer) <= MaxQueue
    /\ toClient \in Seq(PaneIds) /\ view \subseteq PaneIds
    /\ link \in {"up", "gone", "down"}
    /\ life \in {"running", "stopped", "stale", "collapse", "lost"}

Protocol ==
    /\ QueueOK(toServer, Known(st), made)
    /\ Told(toClient) \subseteq st.closed
    /\ link = "down" => toServer = <<>> /\ toClient = <<>>
    /\ link = "up" => ViewOK(DOMAIN st.panes)

PanesInd == Types /\ (life = "running" => Protocol)

-----------------------------------------------------------------------------
(* The forest: what each change of the lists does to it.                   *)

\* A list with a new tab or split for one node more, a tab with its pane.
LEMMA Planted ==
    ASSUME NEW K, NEW par, Sound(K, par), NEW y, NEW x, NEW K2, NEW par2,
           y \notin DOMAIN K, x \notin DOMAIN par,
           DOMAIN K2 = DOMAIN K \cup {y}, DOMAIN par2 = DOMAIN par \cup {x},
           K2[y] = <<x>>, par2[x] = y,
           \A z \in DOMAIN K : K2[z] = K[z],
           \A z \in DOMAIN par : par2[z] = par[z]
    PROVE  Sound(K2, par2)
<1>1. DOMAIN K2[y] = {1} /\ K2[y][1] = x
  OBVIOUS
<1>2. \A z \in DOMAIN par2 : par2[z] \in DOMAIN K2 /\ \E i \in DOMAIN K2[par2[z]] : K2[par2[z]][i] = z
  BY <1>1 DEF Sound
<1>3. \A z \in DOMAIN K2 : \A i \in DOMAIN K2[z] :
         K2[z][i] \in DOMAIN par2 /\ par2[K2[z][i]] = z
  BY <1>1 DEF Sound
<1>4. \A z \in DOMAIN K2 : \A i, j \in DOMAIN K2[z] : K2[z][i] = K2[z][j] => i = j
  BY <1>1 DEF Sound
<1> QED BY <1>2, <1>3, <1>4 DEF Sound

\* One node more at the end of a list.
LEMMA Appended ==
    ASSUME NEW K, NEW par, Sound(K, par), NEW y \in DOMAIN K, NEW x, NEW K2, NEW par2,
           NEW n, x \notin DOMAIN par, n \notin DOMAIN K[y],
           DOMAIN K2 = DOMAIN K, DOMAIN par2 = DOMAIN par \cup {x},
           DOMAIN K2[y] = DOMAIN K[y] \cup {n}, K2[y][n] = x,
           \A i \in DOMAIN K[y] : K2[y][i] = K[y][i],
           par2[x] = y,
           \A z \in DOMAIN K : z # y => K2[z] = K[z],
           \A z \in DOMAIN par : par2[z] = par[z]
    PROVE  Sound(K2, par2)
<1>1. \A z \in DOMAIN par2 : par2[z] \in DOMAIN K2 /\ \E i \in DOMAIN K2[par2[z]] : K2[par2[z]][i] = z
  <2> SUFFICES ASSUME NEW z \in DOMAIN par2
               PROVE  par2[z] \in DOMAIN K2 /\ \E i \in DOMAIN K2[par2[z]] : K2[par2[z]][i] = z
    OBVIOUS
  <2>1. CASE z = x
    BY <2>1
  <2>2. CASE z # x
    <3>1. z \in DOMAIN par /\ par2[z] = par[z]
      BY <2>2
    <3>2. PICK i \in DOMAIN K[par[z]] : K[par[z]][i] = z
      BY <3>1 DEF Sound
    <3>3. par[z] \in DOMAIN K
      BY <3>1 DEF Sound
    <3>4. i \in DOMAIN K2[par[z]] /\ K2[par[z]][i] = z
      BY <3>2, <3>3
    <3> QED BY <3>1, <3>3, <3>4
  <2> QED BY <2>1, <2>2
<1>2. \A z \in DOMAIN K2 : \A i \in DOMAIN K2[z] :
         K2[z][i] \in DOMAIN par2 /\ par2[K2[z][i]] = z
  BY DEF Sound
<1>3. \A z \in DOMAIN K2 : \A i, j \in DOMAIN K2[z] : K2[z][i] = K2[z][j] => i = j
  BY DEF Sound
<1> QED BY <1>1, <1>2, <1>3 DEF Sound

\* A new split takes the place of a node and lists it with one node more.
LEMMA SplitInPlace ==
    ASSUME NEW K, NEW par, Sound(K, par), NEW y \in DOMAIN K, NEW src \in DOMAIN par,
           NEW x, NEW id, NEW K2, NEW par2,
           par[src] = y, x # id, id \notin DOMAIN K, id \notin DOMAIN par,
           x \notin DOMAIN par,
           DOMAIN K2 = DOMAIN K \cup {id}, DOMAIN par2 = DOMAIN par \cup {x, id},
           DOMAIN K2[y] = DOMAIN K[y],
           \A i \in DOMAIN K[y] : K2[y][i] = IF K[y][i] = src THEN id ELSE K[y][i],
           K2[id] = <<src, x>>,
           \A z \in DOMAIN K : z # y => K2[z] = K[z],
           par2[src] = id, par2[x] = id, par2[id] = y,
           \A z \in DOMAIN par : z # src => par2[z] = par[z]
    PROVE  Sound(K2, par2)
<1>1. DOMAIN K2[id] = {1, 2} /\ K2[id][1] = src /\ K2[id][2] = x /\ src # x /\ src # id
  OBVIOUS
<1>2. \A z \in DOMAIN par2 : par2[z] \in DOMAIN K2 /\ \E i \in DOMAIN K2[par2[z]] : K2[par2[z]][i] = z
  <2> SUFFICES ASSUME NEW z \in DOMAIN par2
               PROVE  par2[z] \in DOMAIN K2 /\ \E i \in DOMAIN K2[par2[z]] : K2[par2[z]][i] = z
    OBVIOUS
  <2>1. CASE z \in {src, x}
    BY <1>1, <2>1
  <2>2. CASE z = id
    <3>1. PICK i \in DOMAIN K[y] : K[y][i] = src
      BY DEF Sound
    <3>2. K2[y][i] = id
      BY <3>1
    <3> QED BY <2>2, <3>1, <3>2
  <2>3. CASE z \notin {src, x, id}
    <3>1. z \in DOMAIN par /\ par2[z] = par[z]
      BY <2>3
    <3>2. PICK i \in DOMAIN K[par[z]] : K[par[z]][i] = z
      BY <3>1 DEF Sound
    <3>3. par[z] \in DOMAIN K
      BY <3>1 DEF Sound
    <3>4. i \in DOMAIN K2[par[z]] /\ K2[par[z]][i] = z
      BY <2>3, <3>2, <3>3
    <3> QED BY <3>1, <3>3, <3>4
  <2> QED BY <2>1, <2>2, <2>3
<1>3. \A z \in DOMAIN K2 : \A i \in DOMAIN K2[z] :
         K2[z][i] \in DOMAIN par2 /\ par2[K2[z][i]] = z
  <2> SUFFICES ASSUME NEW z \in DOMAIN K2, NEW i \in DOMAIN K2[z]
               PROVE  K2[z][i] \in DOMAIN par2 /\ par2[K2[z][i]] = z
    OBVIOUS
  <2>1. CASE z = id
    BY <1>1, <2>1
  <2>2. CASE z = y
    BY <2>2 DEF Sound
  <2>3. CASE z \notin {id, y}
    BY <2>3 DEF Sound
  <2> QED BY <2>1, <2>2, <2>3
<1>4. \A z \in DOMAIN K2 : \A i, j \in DOMAIN K2[z] : K2[z][i] = K2[z][j] => i = j
  <2> SUFFICES ASSUME NEW z \in DOMAIN K2, NEW i \in DOMAIN K2[z], NEW j \in DOMAIN K2[z],
                      K2[z][i] = K2[z][j]
               PROVE  i = j
    OBVIOUS
  <2>1. CASE z = id
    BY <1>1, <2>1
  <2>2. CASE z = y
    <3>1. K[y][i] # id /\ K[y][j] # id
      BY <2>2 DEF Sound
    <3> QED BY <2>2, <3>1 DEF Sound
  <2>3. CASE z \notin {id, y}
    BY <2>3 DEF Sound
  <2> QED BY <2>1, <2>2, <2>3
<1> QED BY <1>2, <1>3, <1>4 DEF Sound

\* A list goes with its only node, a tab with its pane.
LEMMA Uprooted ==
    ASSUME NEW K, NEW par, Sound(K, par), NEW y \in DOMAIN K, NEW x, NEW K2, NEW par2,
           \A i \in DOMAIN K[y] : K[y][i] = x, x \in DOMAIN par, par[x] = y,
           y \notin DOMAIN par, x \notin DOMAIN K,
           DOMAIN K2 = DOMAIN K \ {y}, DOMAIN par2 = DOMAIN par \ {x},
           \A z \in DOMAIN K2 : K2[z] = K[z],
           \A z \in DOMAIN par2 : par2[z] = par[z]
    PROVE  Sound(K2, par2)
<1>1. \A z \in DOMAIN par2 : par2[z] \in DOMAIN K2 /\ \E i \in DOMAIN K2[par2[z]] : K2[par2[z]][i] = z
  BY DEF Sound
<1>2. \A z \in DOMAIN K2 : \A i \in DOMAIN K2[z] :
         K2[z][i] \in DOMAIN par2 /\ par2[K2[z][i]] = z
  BY DEF Sound
<1>3. \A z \in DOMAIN K2 : \A i, j \in DOMAIN K2[z] : K2[z][i] = K2[z][j] => i = j
  BY DEF Sound
<1> QED BY <1>1, <1>2, <1>3 DEF Sound

\* A node without a list of its own goes; the later ones of its list move up.
WithoutNode(K, par, y, x, n, k, K2, par2) ==
    /\ y \in DOMAIN K /\ n \in Nat /\ k \in 1..n
    /\ DOMAIN K[y] = 1..n /\ K[y][k] = x /\ x \notin DOMAIN K
    /\ DOMAIN K2 = DOMAIN K /\ DOMAIN par2 = DOMAIN par \ {x}
    /\ DOMAIN K2[y] = 1..(n - 1)
    /\ \A i \in 1..(n - 1) : K2[y][i] = IF i < k THEN K[y][i] ELSE K[y][i + 1]
    /\ \A z \in DOMAIN K : z # y => K2[z] = K[z]
    /\ \A z \in DOMAIN par2 : par2[z] = par[z]

LEMMA Removed ==
    ASSUME NEW K, NEW par, NEW y, NEW x, NEW n, NEW k, NEW K2, NEW par2,
           Sound(K, par), WithoutNode(K, par, y, x, n, k, K2, par2)
    PROVE  Sound(K2, par2)
<1> USE DEF WithoutNode
<1>0. x \in DOMAIN par /\ par[x] = y
  BY DEF Sound
<1>1. \A z \in DOMAIN par2 : par2[z] \in DOMAIN K2 /\ \E i \in DOMAIN K2[par2[z]] : K2[par2[z]][i] = z
  <2> SUFFICES ASSUME NEW z \in DOMAIN par2
               PROVE  par2[z] \in DOMAIN K2 /\ \E i \in DOMAIN K2[par2[z]] : K2[par2[z]][i] = z
    OBVIOUS
  <2>1. z \in DOMAIN par /\ par2[z] = par[z] /\ z # x
    OBVIOUS
  <2>2. PICK i \in DOMAIN K[par[z]] : K[par[z]][i] = z
    BY <2>1 DEF Sound
  <2>3. par[z] \in DOMAIN K
    BY <2>1 DEF Sound
  <2>4. CASE par[z] # y
    BY <2>1, <2>2, <2>3, <2>4
  <2>5. CASE par[z] = y
    <3>1. i \in 1..n /\ i # k
      BY <2>1, <2>2, <2>5
    <3>2. CASE i < k
      <4>1. i \in 1..(n - 1) /\ K2[y][i] = z
        BY <2>2, <2>5, <3>1, <3>2
      <4> QED BY <2>1, <2>5, <4>1
    <3>3. CASE i > k
      <4>1. i - 1 \in 1..(n - 1) /\ ~(i - 1 < k) /\ (i - 1) + 1 = i
        BY <3>1, <3>3
      <4>2. K2[y][i - 1] = z
        BY <2>2, <2>5, <4>1
      <4> QED BY <2>1, <2>5, <4>1, <4>2
    <3> QED BY <3>1, <3>2, <3>3
  <2> QED BY <2>4, <2>5
<1>2. \A i \in 1..(n - 1) : \E j \in 1..n : j # k /\ K2[y][i] = K[y][j]
  <2> SUFFICES ASSUME NEW i \in 1..(n - 1) PROVE \E j \in 1..n : j # k /\ K2[y][i] = K[y][j]
    OBVIOUS
  <2>1. CASE i < k
    BY <2>1
  <2>2. CASE ~(i < k)
    <3>1. i + 1 \in 1..n /\ i + 1 # k
      BY <2>2
    <3> QED BY <2>2, <3>1
  <2> QED BY <2>1, <2>2
<1>3. \A z \in DOMAIN K2 : \A i \in DOMAIN K2[z] :
         K2[z][i] \in DOMAIN par2 /\ par2[K2[z][i]] = z
  <2> SUFFICES ASSUME NEW z \in DOMAIN K2, NEW i \in DOMAIN K2[z]
               PROVE  K2[z][i] \in DOMAIN par2 /\ par2[K2[z][i]] = z
    OBVIOUS
  <2>1. CASE z = y
    <3>1. PICK j \in 1..n : j # k /\ K2[y][i] = K[y][j]
      BY <1>2, <2>1
    <3>2. K[y][j] \in DOMAIN par /\ par[K[y][j]] = y /\ K[y][j] # x
      BY <3>1 DEF Sound
    <3> QED BY <2>1, <3>1, <3>2
  <2>2. CASE z # y
    <3>1. K2[z] = K[z] /\ K[z][i] \in DOMAIN par /\ par[K[z][i]] = z
      BY <2>2 DEF Sound
    <3> QED BY <1>0, <2>2, <3>1
  <2> QED BY <2>1, <2>2
<1>4. \A z \in DOMAIN K2 : \A i, j \in DOMAIN K2[z] : K2[z][i] = K2[z][j] => i = j
  <2> SUFFICES ASSUME NEW z \in DOMAIN K2, NEW i \in DOMAIN K2[z], NEW j \in DOMAIN K2[z],
                      K2[z][i] = K2[z][j]
               PROVE  i = j
    OBVIOUS
  <2>1. CASE z = y
    <3>1. i \in 1..(n - 1) /\ j \in 1..(n - 1) /\ i + 1 \in 1..n /\ j + 1 \in 1..n
      BY <2>1
    <3>2. \A a, b \in 1..n : K[y][a] = K[y][b] => a = b
      BY DEF Sound
    <3> QED BY <2>1, <3>1, <3>2
  <2>2. CASE z # y
    BY <2>2 DEF Sound
  <2> QED BY <2>1, <2>2
<1> QED BY <1>1, <1>3, <1>4 DEF Sound

\* The only node of a list takes its place.
LEMMA Collapsed ==
    ASSUME NEW K, NEW par, Sound(K, par), NEW id \in DOMAIN K, NEW x, NEW K2, NEW par2,
           id \in DOMAIN par, NEW y, y = par[id], y # id,
           x \in DOMAIN par, par[x] = id, x # id, \A i \in DOMAIN K[id] : K[id][i] = x,
           DOMAIN K2 = DOMAIN K \ {id}, DOMAIN par2 = DOMAIN par \ {id},
           DOMAIN K2[y] = DOMAIN K[y],
           \A i \in DOMAIN K[y] : K2[y][i] = IF K[y][i] = id THEN x ELSE K[y][i],
           \A z \in DOMAIN K2 : z # y => K2[z] = K[z],
           par2[x] = y,
           \A z \in DOMAIN par2 : z # x => par2[z] = par[z]
    PROVE  Sound(K2, par2)
<1>0. y \in DOMAIN K /\ y \in DOMAIN K2
  BY DEF Sound
<1>1. \A z \in DOMAIN par2 : par2[z] \in DOMAIN K2 /\ \E i \in DOMAIN K2[par2[z]] : K2[par2[z]][i] = z
  <2> SUFFICES ASSUME NEW z \in DOMAIN par2
               PROVE  par2[z] \in DOMAIN K2 /\ \E i \in DOMAIN K2[par2[z]] : K2[par2[z]][i] = z
    OBVIOUS
  <2>1. CASE z = x
    <3>1. PICK i \in DOMAIN K[y] : K[y][i] = id
      BY DEF Sound
    <3>2. K2[y][i] = x
      BY <3>1
    <3> QED BY <1>0, <2>1, <3>1, <3>2
  <2>2. CASE z # x
    <3>1. z \in DOMAIN par /\ par2[z] = par[z] /\ z # id
      BY <2>2
    <3>2. PICK i \in DOMAIN K[par[z]] : K[par[z]][i] = z
      BY <3>1 DEF Sound
    <3>3. par[z] \in DOMAIN K /\ par[z] # id
      BY <2>2, <3>1, <3>2 DEF Sound
    <3>4. i \in DOMAIN K2[par[z]] /\ K2[par[z]][i] = z
      BY <2>2, <3>1, <3>2, <3>3
    <3> QED BY <3>1, <3>3, <3>4
  <2> QED BY <2>1, <2>2
<1>2. \A z \in DOMAIN K2 : \A i \in DOMAIN K2[z] :
         K2[z][i] \in DOMAIN par2 /\ par2[K2[z][i]] = z
  <2> SUFFICES ASSUME NEW z \in DOMAIN K2, NEW i \in DOMAIN K2[z]
               PROVE  K2[z][i] \in DOMAIN par2 /\ par2[K2[z][i]] = z
    OBVIOUS
  <2>1. CASE z = y
    <3>1. K[y][i] \in DOMAIN par /\ par[K[y][i]] = y
      BY <1>0, <2>1 DEF Sound
    <3>2. CASE K[y][i] = id
      BY <2>1, <3>2
    <3>3. CASE K[y][i] # id
      BY <2>1, <3>1, <3>3
    <3> QED BY <3>2, <3>3
  <2>2. CASE z # y
    <3>1. K2[z] = K[z] /\ K[z][i] \in DOMAIN par /\ par[K[z][i]] = z
      BY <2>2 DEF Sound
    <3>2. K[z][i] # x /\ K[z][i] # id
      BY <2>2, <3>1
    <3> QED BY <3>1, <3>2
  <2> QED BY <2>1, <2>2
<1>3. \A z \in DOMAIN K2 : \A i, j \in DOMAIN K2[z] : K2[z][i] = K2[z][j] => i = j
  <2> SUFFICES ASSUME NEW z \in DOMAIN K2, NEW i \in DOMAIN K2[z], NEW j \in DOMAIN K2[z],
                      K2[z][i] = K2[z][j]
               PROVE  i = j
    OBVIOUS
  <2>1. CASE z = y
    <3>1. K[y][i] # x /\ K[y][j] # x
      BY <1>0, <2>1 DEF Sound
    <3> QED BY <1>0, <2>1, <3>1 DEF Sound
  <2>2. CASE z # y
    BY <2>2 DEF Sound
  <2> QED BY <2>1, <2>2
<1> QED BY <1>1, <1>2, <1>3 DEF Sound

-----------------------------------------------------------------------------
(* Ids, and the state as a record of maps.                                 *)

LEMMA Ids ==
    ASSUME MultiplexerAssumption
    PROVE  /\ PaneIds \cap Tabs = {} /\ PaneIds \cap Splits = {} /\ Tabs \cap Splits = {}
           /\ PaneIds \subseteq Int /\ Tabs \subseteq Int /\ Splits \subseteq Int
           /\ \A p \in PaneIds : Tab(p) \in Tabs /\ SplitOf(p) \in Splits
           /\ \A p, q \in PaneIds : (Tab(p) = Tab(q) => p = q) /\ (SplitOf(p) = SplitOf(q) => p = q)
           /\ MaxPanes \in Nat /\ 1 \in PaneIds
  BY DEF MultiplexerAssumption, PaneIds, Tabs, Splits, Tab, SplitOf

LEMMA MapsAre ==
    ASSUME NEW A, NEW B, NEW f
    PROVE  /\ f \in Maps(A, B) => DOMAIN f \subseteq A /\ f \in [DOMAIN f -> B]
           /\ \A D \in SUBSET A : f \in [D -> B] => f \in Maps(A, B)
  BY DEF Maps

LEMMA WithIs ==
    ASSUME NEW A, NEW B, NEW f \in Maps(A, B), NEW x \in A, NEW y \in B
    PROVE  /\ With(f, x, y) \in Maps(A, B)
           /\ DOMAIN With(f, x, y) = DOMAIN f \cup {x}
           /\ With(f, x, y)[x] = y
           /\ \A z \in DOMAIN f : z # x => With(f, x, y)[z] = f[z]
<1>1. DOMAIN f \subseteq A /\ f \in [DOMAIN f -> B]
  BY MapsAre
<1>2. With(f, x, y) \in [DOMAIN f \cup {x} -> B]
  BY <1>1 DEF With
<1>3. With(f, x, y) \in Maps(A, B)
  BY <1>1, <1>2, MapsAre
<1> QED BY <1>3 DEF With

LEMMA WithoutIs ==
    ASSUME NEW A, NEW B, NEW f \in Maps(A, B), NEW x
    PROVE  /\ Without(f, {x}) \in Maps(A, B)
           /\ DOMAIN Without(f, {x}) = DOMAIN f \ {x}
           /\ \A z \in DOMAIN f \ {x} : Without(f, {x})[z] = f[z]
<1>1. DOMAIN f \subseteq A /\ f \in [DOMAIN f -> B]
  BY MapsAre
<1>2. Without(f, {x}) \in [DOMAIN f \ {x} -> B]
  BY <1>1 DEF Without, Restrict
<1>3. Without(f, {x}) \in Maps(A, B)
  <2>1. DOMAIN f \ {x} \in SUBSET A
    BY <1>1
  <2> QED BY <1>2, <2>1, MapsAre
<1> QED BY <1>3 DEF Without, Restrict

\* A map with another value at one place.
LEMMA ExceptIs ==
    ASSUME NEW A, NEW B, NEW f \in Maps(A, B), NEW x \in DOMAIN f, NEW y \in B
    PROVE  /\ [f EXCEPT ![x] = y] \in Maps(A, B)
           /\ DOMAIN [f EXCEPT ![x] = y] = DOMAIN f
           /\ [f EXCEPT ![x] = y][x] = y
           /\ \A z \in DOMAIN f : z # x => [f EXCEPT ![x] = y][z] = f[z]
<1>1. DOMAIN f \subseteq A /\ f \in [DOMAIN f -> B]
  BY MapsAre
<1>2. [f EXCEPT ![x] = y] \in [DOMAIN f -> B]
  BY <1>1
<1>3. [f EXCEPT ![x] = y] \in Maps(A, B)
  BY <1>1, <1>2, MapsAre
<1> QED BY <1>1, <1>3

TabRec == [order : Int, child : Int]

LEMMA StateIs ==
    ASSUME MultiplexerAssumption, NEW s \in States
    PROVE  /\ s.tabs \in Maps(Tabs, TabRec) /\ s.panes \in Maps(PaneIds, Int)
           /\ s.splits \in Maps(Splits, SplitRec) /\ s.closed \in SUBSET PaneIds
           /\ DOMAIN s.tabs \subseteq Tabs /\ DOMAIN s.panes \subseteq PaneIds
           /\ DOMAIN s.splits \subseteq Splits
           /\ \A t \in DOMAIN s.tabs : s.tabs[t] \in TabRec
           /\ \A x \in DOMAIN s.panes : s.panes[x] \in Int
           /\ \A y \in DOMAIN s.splits : s.splits[y] \in SplitRec
           /\ DOMAIN s.tabs \cap DOMAIN s.splits = {}
           /\ DOMAIN s.panes \cap DOMAIN s.splits = {}
           /\ DOMAIN s.tabs \cap DOMAIN s.panes = {}
<1>1. /\ s.tabs \in Maps(Tabs, TabRec) /\ s.panes \in Maps(PaneIds, Int)
      /\ s.splits \in Maps(Splits, SplitRec) /\ s.closed \in SUBSET PaneIds
  BY DEF States, TabRec
<1>2. /\ DOMAIN s.tabs \subseteq Tabs /\ DOMAIN s.panes \subseteq PaneIds
      /\ DOMAIN s.splits \subseteq Splits
      /\ s.tabs \in [DOMAIN s.tabs -> TabRec] /\ s.panes \in [DOMAIN s.panes -> Int]
      /\ s.splits \in [DOMAIN s.splits -> SplitRec]
  BY <1>1, MapsAre
<1> QED BY <1>1, <1>2, Ids

\* Where the lists and the parents are kept.
Kept(s) ==
    /\ DOMAIN Lists(s) = DOMAIN s.tabs \cup DOMAIN s.splits
    /\ DOMAIN Names(s) = DOMAIN s.panes \cup DOMAIN s.splits
    /\ \A t \in DOMAIN s.tabs : Lists(s)[t] = <<s.tabs[t].child>>
    /\ \A y \in DOMAIN s.splits : Lists(s)[y] = s.splits[y].kids
    /\ \A x \in DOMAIN s.panes : Names(s)[x] = s.panes[x]
    /\ \A y \in DOMAIN s.splits : Names(s)[y] = s.splits[y].parent

LEMMA ListsAre ==
    ASSUME MultiplexerAssumption, NEW s \in States
    PROVE  Kept(s)
  BY StateIs DEF Kept, Lists, Names, Kids, Nodes, Parent

LEMMA KidsAre ==
    ASSUME MultiplexerAssumption, NEW s \in States, NEW y \in DOMAIN s.splits
    PROVE  /\ s.splits[y].kids \in Seq(Int) /\ s.splits[y].sizes \in Seq(Fraction)
           /\ s.splits[y].parent \in Int /\ s.splits[y].vertical \in BOOLEAN
           /\ Len(s.splits[y].kids) \in Nat
           /\ DOMAIN s.splits[y].kids = 1..Len(s.splits[y].kids)
<1>1. s.splits[y] \in SplitRec
  BY StateIs
<1> QED BY <1>1 DEF SplitRec

\* As many tabs as there are numbers.
LEMMA TabsCounted ==
    ASSUME NEW s, NEW n \in Nat, Numbered(s, n)
    PROVE  IsFiniteSet(DOMAIN s.tabs) /\ Cardinality(DOMAIN s.tabs) = n
<1> DEFINE f == [t \in DOMAIN s.tabs |-> s.tabs[t].order]
<1>1. f \in [DOMAIN s.tabs -> 0..(n - 1)]
  BY DEF Numbered
<1>2. f \in Injection(DOMAIN s.tabs, 0..(n - 1))
  BY <1>1 DEF Numbered, Injection, IsInjective
<1>3. f \in Surjection(DOMAIN s.tabs, 0..(n - 1))
  BY <1>1 DEF Numbered, Surjection
<1>4. IsFiniteSet(0..(n - 1)) /\ Cardinality(0..(n - 1)) = n
  <2>1. 0 \in Int /\ n - 1 \in Int
    OBVIOUS
  <2>2. /\ IsFiniteSet(0..(n - 1))
        /\ Cardinality(0..(n - 1)) = IF 0 > n - 1 THEN 0 ELSE (n - 1) - 0 + 1
    BY <2>1, FS_Interval
  <2> QED BY <2>2
<1> HIDE DEF f
<1> QED BY <1>2, <1>3, <1>4, FS_Injection

\* The id of a pane nobody has heard of, and those made with it, are free.
LEMMA FreshIds ==
    ASSUME MultiplexerAssumption, NEW s \in States, MadeWith(s),
           NEW p \in PaneIds, p \notin Known(s)
    PROVE  /\ Tab(p) \notin DOMAIN s.tabs /\ Tab(p) \notin DOMAIN s.splits
           /\ SplitOf(p) \notin DOMAIN s.splits /\ SplitOf(p) \notin DOMAIN s.tabs
           /\ SplitOf(p) \notin DOMAIN s.panes /\ SplitOf(p) # p
           /\ p \notin DOMAIN s.panes /\ p \notin DOMAIN s.splits
<1>1. /\ DOMAIN s.tabs \subseteq Tabs /\ DOMAIN s.panes \subseteq PaneIds
      /\ DOMAIN s.splits \subseteq Splits /\ Known(s) \subseteq PaneIds
  BY StateIs DEF Known
<1>2. Tab(p) \in Tabs /\ SplitOf(p) \in Splits
  BY Ids
<1>3. Tab(p) \notin DOMAIN s.tabs
  BY <1>1, Ids DEF MadeWith
<1>4. SplitOf(p) \notin DOMAIN s.splits
  BY <1>1, Ids DEF MadeWith
<1> QED BY <1>1, <1>2, <1>3, <1>4, Ids DEF Known

-----------------------------------------------------------------------------
(* MultiplexerState: newTab.                                               *)

LEMMA NewTabGood ==
    ASSUME MultiplexerAssumption, NEW s, Good(s), NEW p \in PaneIds, p \notin Known(s),
           NEW r, r = NewTab(s, p)
    PROVE  Good(r) /\ DOMAIN r.panes = DOMAIN s.panes \cup {p} /\ r.closed = s.closed
<1>1. s \in States /\ Sound(Lists(s), Names(s)) /\ Sized(s, {}) /\ MadeWith(s)
  BY DEF Good, Tree
<1>2. PICK n \in Nat : Numbered(s, n)
  BY DEF Good
<1>3. Cardinality(DOMAIN s.tabs) = n
  BY <1>2, TabsCounted
<1>4. PICK new : new = [order |-> n, child |-> p]
  OBVIOUS
<1>5. new \in TabRec /\ new.order = n /\ new.child = p
  BY <1>4, Ids DEF TabRec
<1>6. PICK tabs, panes : tabs = With(s.tabs, Tab(p), new) /\ panes = With(s.panes, p, Tab(p))
  OBVIOUS
<1>7. Tab(p) \in Tabs /\ Tab(p) \in Int /\ p \in Int
  BY Ids
<1>8. /\ tabs \in Maps(Tabs, TabRec) /\ DOMAIN tabs = DOMAIN s.tabs \cup {Tab(p)}
      /\ tabs[Tab(p)] = new /\ \A z \in DOMAIN s.tabs : z # Tab(p) => tabs[z] = s.tabs[z]
  <2>1. s.tabs \in Maps(Tabs, TabRec)
    BY <1>1, StateIs
  <2>2. With(s.tabs, Tab(p), new) \in Maps(Tabs, TabRec)
    BY <1>5, <1>7, <2>1, WithIs
  <2> QED BY <1>6, <2>2 DEF With
<1>9. /\ panes \in Maps(PaneIds, Int) /\ DOMAIN panes = DOMAIN s.panes \cup {p}
      /\ panes[p] = Tab(p) /\ \A z \in DOMAIN s.panes : z # p => panes[z] = s.panes[z]
  <2>1. s.panes \in Maps(PaneIds, Int)
    BY <1>1, StateIs
  <2>2. With(s.panes, p, Tab(p)) \in Maps(PaneIds, Int)
    BY <1>7, <2>1, WithIs
  <2> QED BY <1>6, <2>2 DEF With
<1>10. /\ r = [s EXCEPT !.tabs = tabs, !.panes = panes]
  BY <1>3, <1>4, <1>6 DEF NewTab
<1>11. /\ r \in States
       /\ r.tabs = tabs /\ r.panes = panes /\ r.splits = s.splits /\ r.closed = s.closed
  BY <1>1, <1>8, <1>9, <1>10 DEF States, TabRec
<1>12. Tab(p) \notin DOMAIN s.tabs /\ p \notin DOMAIN s.panes /\ p \notin DOMAIN s.splits
  BY <1>1, FreshIds
<1>13. Sound(Lists(r), Names(r))
  <2>1. Kept(s) /\ Kept(r) /\ DOMAIN s.splits \subseteq Splits
    BY <1>1, <1>11, ListsAre, StateIs
  <2>2. Tab(p) \notin DOMAIN Lists(s) /\ p \notin DOMAIN Names(s)
    BY <1>7, <1>12, <2>1, Ids DEF Kept
  <2>3. /\ DOMAIN Lists(r) = DOMAIN Lists(s) \cup {Tab(p)}
        /\ DOMAIN Names(r) = DOMAIN Names(s) \cup {p}
    BY <1>8, <1>9, <1>11, <2>1 DEF Kept
  <2>4. Lists(r)[Tab(p)] = <<p>> /\ Names(r)[p] = Tab(p)
    BY <1>5, <1>8, <1>9, <1>11, <2>1 DEF Kept
  <2>5. \A z \in DOMAIN Lists(s) : Lists(r)[z] = Lists(s)[z]
    BY <1>8, <1>11, <1>12, <2>1 DEF Kept
  <2>6. \A z \in DOMAIN Names(s) : Names(r)[z] = Names(s)[z]
    BY <1>9, <1>11, <1>12, <2>1 DEF Kept
  <2> QED BY <1>1, <2>2, <2>3, <2>4, <2>5, <2>6, Planted
<1>14. Sized(r, {})
  BY <1>1, <1>11 DEF Sized
<1>15. MadeWith(r)
  BY <1>1, <1>8, <1>9, <1>11 DEF MadeWith, Known
<1>16. Numbered(r, n + 1)
  <2>1. \A t \in DOMAIN s.tabs : tabs[t] = s.tabs[t] /\ s.tabs[t].order \in 0..(n - 1)
    BY <1>2, <1>8, <1>12 DEF Numbered
  <2>2. \A t \in DOMAIN r.tabs : r.tabs[t].order \in 0..(n + 1 - 1)
    BY <1>5, <1>8, <1>11, <2>1
  <2>3. \A t, u \in DOMAIN r.tabs : r.tabs[t].order = r.tabs[u].order => t = u
    BY <1>2, <1>5, <1>8, <1>11, <2>1 DEF Numbered
  <2>4. \A k \in 0..(n + 1 - 1) : \E t \in DOMAIN r.tabs : r.tabs[t].order = k
    <3> SUFFICES ASSUME NEW k \in 0..(n + 1 - 1) PROVE \E t \in DOMAIN r.tabs : r.tabs[t].order = k
      OBVIOUS
    <3>1. CASE k = n
      BY <1>5, <1>8, <1>11, <3>1
    <3>2. CASE k # n
      <4>1. PICK t \in DOMAIN s.tabs : s.tabs[t].order = k
        BY <1>2, <3>2 DEF Numbered
      <4> QED BY <1>8, <1>11, <2>1, <4>1
    <3> QED BY <3>1, <3>2
  <2> QED BY <2>2, <2>3, <2>4 DEF Numbered
<1>17. n + 1 \in Nat
  OBVIOUS
<1> QED BY <1>9, <1>11, <1>13, <1>14, <1>15, <1>16, <1>17 DEF Good, Tree

-----------------------------------------------------------------------------
(* MultiplexerState: newSplit.                                             *)

LEMMA SequenceIs ==
    ASSUME NEW S, NEW n \in Nat, NEW f \in [1..n -> S]
    PROVE  f \in Seq(S) /\ Len(f) = n
  OBVIOUS

LEMMA Grown ==
    ASSUME NEW q \in Seq(Int), NEW p \in Int, NEW kids, kids = Append(q, p)
    PROVE  /\ kids \in Seq(Int) /\ Len(kids) = Len(q) + 1 /\ Len(q) + 1 \notin DOMAIN q
           /\ DOMAIN kids = DOMAIN q \cup {Len(q) + 1}
           /\ kids[Len(q) + 1] = p /\ \A i \in DOMAIN q : kids[i] = q[i]
  OBVIOUS

LEMMA Lengthened ==
    ASSUME NEW S, NEW q \in Seq(S), NEW x \in S, NEW longer, longer = Append(q, x)
    PROVE  longer \in Seq(S) /\ Len(longer) = Len(q) + 1
  OBVIOUS

LEMMA Halved ==
    ASSUME NEW q \in Seq(Fraction), NEW halves,
           halves = [i \in DOMAIN q |-> <<q[i][1], 2 * q[i][2]>>]
    PROVE  halves \in Seq(Fraction) /\ Len(halves) = Len(q)
<1>1. DOMAIN q = 1..Len(q) /\ Len(q) \in Nat /\ \A i \in DOMAIN q : q[i] \in Fraction
  OBVIOUS
<1>2. \A x \in Fraction : <<x[1], 2 * x[2]>> \in Fraction
  BY DEF Fraction
<1>3. halves \in [1..Len(q) -> Fraction]
  BY <1>1, <1>2
<1> QED BY <1>1, <1>3, SequenceIs

LEMMA ContinueSplitGood ==
    ASSUME MultiplexerAssumption, NEW s, Good(s), NEW p \in PaneIds, p \notin Known(s),
           NEW src \in DOMAIN s.panes, s.panes[src] \in DOMAIN s.splits,
           NEW r, r = ContinueSplit(s, src, p)
    PROVE  Good(r) /\ DOMAIN r.panes = DOMAIN s.panes \cup {p} /\ r.closed = s.closed
<1>1. s \in States /\ Sound(Lists(s), Names(s)) /\ Sized(s, {}) /\ MadeWith(s)
  BY DEF Good, Tree
<1>2. PICK id, q : id = s.panes[src] /\ q = s.splits[id]
  OBVIOUS
<1>3. /\ id \in DOMAIN s.splits /\ q \in SplitRec /\ q.kids \in Seq(Int)
      /\ q.sizes \in Seq(Fraction) /\ id \in Int /\ p \in Int
      /\ Len(q.kids) >= 2 /\ Len(q.sizes) = Len(q.kids)
  BY <1>1, <1>2, KidsAre, StateIs, Ids DEF Sized
<1>41. PICK kids : kids = Append(q.kids, p)
  OBVIOUS
<1>42. PICK halves : halves = [i \in DOMAIN q.sizes |-> <<q.sizes[i][1], 2 * q.sizes[i][2]>>]
  OBVIOUS
<1>43. PICK half : half = <<1, 2>>
  OBVIOUS
<1>44. PICK sizes : sizes = Append(halves, half)
  OBVIOUS
<1>4. PICK new : new = [q EXCEPT !.kids = kids, !.sizes = sizes]
  OBVIOUS
<1>5. /\ kids \in Seq(Int) /\ Len(kids) = Len(q.kids) + 1
      /\ Len(q.kids) + 1 \notin DOMAIN q.kids
      /\ DOMAIN kids = DOMAIN q.kids \cup {Len(q.kids) + 1}
      /\ kids[Len(q.kids) + 1] = p /\ \A i \in DOMAIN q.kids : kids[i] = q.kids[i]
  BY <1>3, <1>41, Grown
<1>6. sizes \in Seq(Fraction) /\ Len(sizes) = Len(q.sizes) + 1
  <2>1. halves \in Seq(Fraction) /\ Len(halves) = Len(q.sizes)
    BY <1>3, <1>42, Halved
  <2>2. half \in Fraction
    BY <1>43 DEF Fraction
  <2> QED BY <1>44, <2>1, <2>2, Lengthened
<1>7. new \in SplitRec /\ new.kids = kids /\ new.sizes = sizes /\ new.parent = q.parent
  BY <1>3, <1>4, <1>5, <1>6 DEF SplitRec
<1>8. PICK panes, splits : panes = With(s.panes, p, id) /\ splits = [s.splits EXCEPT ![id] = new]
  OBVIOUS
<1>9. /\ panes \in Maps(PaneIds, Int) /\ DOMAIN panes = DOMAIN s.panes \cup {p}
      /\ panes[p] = id /\ \A z \in DOMAIN s.panes : z # p => panes[z] = s.panes[z]
  <2>1. s.panes \in Maps(PaneIds, Int)
    BY <1>1, StateIs
  <2>2. With(s.panes, p, id) \in Maps(PaneIds, Int)
    BY <1>3, <2>1, WithIs
  <2> QED BY <1>8, <2>2 DEF With
<1>10. /\ splits \in Maps(Splits, SplitRec) /\ DOMAIN splits = DOMAIN s.splits
       /\ splits[id] = new /\ \A z \in DOMAIN s.splits : z # id => splits[z] = s.splits[z]
  <2>1. s.splits \in Maps(Splits, SplitRec)
    BY <1>1, StateIs
  <2> QED BY <1>3, <1>7, <1>8, <2>1, ExceptIs
<1>11. r = [s EXCEPT !.panes = panes, !.splits = splits]
  <2>1. r = [s EXCEPT !.panes = With(s.panes, p, id),
                      !.splits = [s.splits EXCEPT ![id] =
                          [q EXCEPT !.kids = Append(q.kids, p),
                                    !.sizes = Append([i \in DOMAIN q.sizes |->
                                       <<q.sizes[i][1], 2 * q.sizes[i][2]>>], <<1, 2>>)]]]
    BY <1>2 DEF ContinueSplit
  <2> QED BY <1>41, <1>42, <1>43, <1>44, <1>4, <1>8, <2>1
<1>12. /\ r \in States
       /\ r.tabs = s.tabs /\ r.panes = panes /\ r.splits = splits /\ r.closed = s.closed
  BY <1>1, <1>9, <1>10, <1>11 DEF States
<1>13. p \notin DOMAIN s.panes /\ p \notin DOMAIN s.splits
  BY <1>1, FreshIds
<1>14. Sound(Lists(r), Names(r))
  <2>1. /\ Kept(s) /\ Kept(r) /\ DOMAIN s.splits \cap DOMAIN s.tabs = {}
    BY <1>1, <1>12, ListsAre, StateIs
  <2>2. id \in DOMAIN Lists(s) /\ p \notin DOMAIN Names(s) /\ Lists(s)[id] = q.kids
    BY <1>2, <1>3, <1>13, <2>1 DEF Kept
  <2>3. /\ DOMAIN Lists(r) = DOMAIN Lists(s)
        /\ DOMAIN Names(r) = DOMAIN Names(s) \cup {p}
    BY <1>9, <1>10, <1>12, <2>1 DEF Kept
  <2>4. Lists(r)[id] = kids /\ Names(r)[p] = id
    BY <1>3, <1>7, <1>9, <1>10, <1>12, <2>1 DEF Kept
  <2>5. \A z \in DOMAIN Lists(s) : z # id => Lists(r)[z] = Lists(s)[z]
    BY <1>10, <1>12, <2>1 DEF Kept
  <2>6. \A z \in DOMAIN Names(s) : Names(r)[z] = Names(s)[z]
    <3>1. \A z \in DOMAIN s.panes : Names(r)[z] = Names(s)[z]
      BY <1>9, <1>12, <1>13, <2>1 DEF Kept
    <3>2. \A z \in DOMAIN s.splits : splits[z].parent = s.splits[z].parent
      BY <1>2, <1>3, <1>7, <1>10
    <3>3. \A z \in DOMAIN s.splits : Names(r)[z] = Names(s)[z]
      BY <1>10, <1>12, <2>1, <3>2 DEF Kept
    <3> QED BY <2>1, <3>1, <3>3 DEF Kept
  <2>7. PICK n : n = Len(q.kids) + 1
    OBVIOUS
  <2>8. /\ n \notin DOMAIN Lists(s)[id] /\ DOMAIN Lists(r)[id] = DOMAIN Lists(s)[id] \cup {n}
        /\ Lists(r)[id][n] = p
        /\ \A i \in DOMAIN Lists(s)[id] : Lists(r)[id][i] = Lists(s)[id][i]
    BY <1>5, <2>2, <2>4, <2>7
  <2> QED BY <1>1, <2>2, <2>3, <2>4, <2>5, <2>6, <2>8, Appended
<1>15. Sized(r, {})
  <2>1. Len(kids) >= 2 /\ Len(sizes) = Len(kids)
    BY <1>3, <1>5, <1>6
  <2>2. \A y \in DOMAIN s.splits :
           Len(splits[y].sizes) = Len(splits[y].kids) /\ Len(splits[y].kids) >= 2
    BY <1>1, <1>7, <1>10, <2>1 DEF Sized
  <2> QED BY <1>10, <1>12, <2>2 DEF Sized
<1>16. MadeWith(r)
  BY <1>1, <1>9, <1>10, <1>12 DEF MadeWith, Known
<1>17. \E n \in Nat : Numbered(r, n)
  BY <1>12 DEF Good, Numbered
<1> QED BY <1>9, <1>12, <1>14, <1>15, <1>16, <1>17 DEF Good, Tree

\* The rest of the state that a change of one list leaves alone.
SameBut(r, s) ==
    /\ DOMAIN r.tabs = DOMAIN s.tabs /\ DOMAIN r.splits = DOMAIN s.splits
    /\ r.panes = s.panes /\ r.closed = s.closed
    /\ \A t \in DOMAIN s.tabs : r.tabs[t].order = s.tabs[t].order
    /\ \A y \in DOMAIN s.splits :
          /\ r.splits[y].parent = s.splits[y].parent /\ r.splits[y].sizes = s.splits[y].sizes
          /\ Len(r.splits[y].kids) = Len(s.splits[y].kids)

LEMMA SameButKeeps ==
    ASSUME NEW r, NEW s, SameBut(r, s)
    PROVE  /\ \A n \in Nat : Numbered(s, n) => Numbered(r, n)
           /\ \A but : Sized(s, but) => Sized(r, but)
<1>1. ASSUME NEW n \in Nat, Numbered(s, n) PROVE Numbered(r, n)
  <2>1. \A t \in DOMAIN r.tabs : r.tabs[t].order \in 0..(n - 1)
    BY <1>1 DEF SameBut, Numbered
  <2>2. \A t, u \in DOMAIN r.tabs : r.tabs[t].order = r.tabs[u].order => t = u
    BY <1>1 DEF SameBut, Numbered
  <2>3. \A k \in 0..(n - 1) : \E t \in DOMAIN r.tabs : r.tabs[t].order = k
    BY <1>1 DEF SameBut, Numbered
  <2> QED BY <2>1, <2>2, <2>3 DEF Numbered
<1>2. ASSUME NEW but, Sized(s, but) PROVE Sized(r, but)
  BY <1>2 DEF SameBut, Sized
<1> QED BY <1>1, <1>2

LEMMA ReplacedSeq ==
    ASSUME NEW q \in Seq(Int), NEW old, NEW new \in Int, NEW kids,
           kids = [i \in DOMAIN q |-> IF q[i] = old THEN new ELSE q[i]]
    PROVE  /\ kids \in Seq(Int) /\ Len(kids) = Len(q) /\ DOMAIN kids = DOMAIN q
           /\ \A i \in DOMAIN q : kids[i] = IF q[i] = old THEN new ELSE q[i]
<1>1. DOMAIN q = 1..Len(q) /\ Len(q) \in Nat /\ \A i \in DOMAIN q : q[i] \in Int
  OBVIOUS
<1>2. kids \in [1..Len(q) -> Int]
  BY <1>1
<1>3. kids \in Seq(Int) /\ Len(kids) = Len(q)
  BY <1>1, <1>2, SequenceIs
<1> QED BY <1>3

LEMMA ReplaceIs ==
    ASSUME MultiplexerAssumption, NEW s \in States, NEW y \in DOMAIN s.tabs \cup DOMAIN s.splits,
           NEW old, NEW new \in Int, y \in DOMAIN s.tabs => s.tabs[y].child = old,
           NEW r, r = Replace(s, y, old, new)
    PROVE  /\ r \in States /\ SameBut(r, s)
           /\ \A z \in DOMAIN Lists(s) : z # y => Lists(r)[z] = Lists(s)[z]
           /\ DOMAIN Lists(r)[y] = DOMAIN Lists(s)[y]
           /\ \A i \in DOMAIN Lists(s)[y] :
                 Lists(r)[y][i] = IF Lists(s)[y][i] = old THEN new ELSE Lists(s)[y][i]
<1>1. /\ s.tabs \in Maps(Tabs, TabRec) /\ s.splits \in Maps(Splits, SplitRec) /\ Kept(s)
      /\ DOMAIN s.tabs \cap DOMAIN s.splits = {}
  BY StateIs, ListsAre
<1>2. CASE y \in DOMAIN s.tabs
  <2>1. PICK tab, tabs : tab = [s.tabs[y] EXCEPT !.child = new] /\ tabs = [s.tabs EXCEPT ![y] = tab]
    OBVIOUS
  <2>2. s.tabs[y] \in TabRec
    BY <1>2, StateIs
  <2>3. tab \in TabRec /\ tab.child = new /\ tab.order = s.tabs[y].order
    BY <2>1, <2>2 DEF TabRec
  <2>4. /\ tabs \in Maps(Tabs, TabRec) /\ DOMAIN tabs = DOMAIN s.tabs
        /\ tabs[y] = tab /\ \A z \in DOMAIN s.tabs : z # y => tabs[z] = s.tabs[z]
    BY <1>1, <1>2, <2>1, <2>3, ExceptIs
  <2>5. r = [s EXCEPT !.tabs = tabs]
    BY <1>2, <2>1 DEF Replace
  <2>6. /\ r \in States
        /\ r.tabs = tabs /\ r.panes = s.panes /\ r.splits = s.splits /\ r.closed = s.closed
    BY <2>4, <2>5 DEF States, TabRec
  <2>7. Kept(r)
    BY <2>6, ListsAre
  <2>8. SameBut(r, s)
    BY <2>3, <2>4, <2>6 DEF SameBut
  <2>9. \A z \in DOMAIN Lists(s) : z # y => Lists(r)[z] = Lists(s)[z]
    BY <1>1, <2>4, <2>6, <2>7 DEF Kept
  <2>10. Lists(r)[y] = <<new>> /\ Lists(s)[y] = <<old>>
    BY <1>1, <1>2, <2>3, <2>4, <2>6, <2>7 DEF Kept
  <2> QED BY <2>6, <2>8, <2>9, <2>10
<1>3. CASE y \in DOMAIN s.splits
  <2>1. PICK q : q = s.splits[y]
    OBVIOUS
  <2>2. PICK kids : kids = [i \in DOMAIN q.kids |-> IF q.kids[i] = old THEN new ELSE q.kids[i]]
    OBVIOUS
  <2>3. PICK split, splits : split = [q EXCEPT !.kids = kids] /\ splits = [s.splits EXCEPT ![y] = split]
    OBVIOUS
  <2>4. q \in SplitRec /\ q.kids \in Seq(Int)
    BY <1>3, <2>1, KidsAre, StateIs
  <2>5. /\ kids \in Seq(Int) /\ Len(kids) = Len(q.kids) /\ DOMAIN kids = DOMAIN q.kids
        /\ \A i \in DOMAIN q.kids : kids[i] = IF q.kids[i] = old THEN new ELSE q.kids[i]
    BY <2>2, <2>4, ReplacedSeq
  <2>6. split \in SplitRec /\ split.kids = kids /\ split.parent = q.parent /\ split.sizes = q.sizes
    BY <2>3, <2>4, <2>5 DEF SplitRec
  <2>7. /\ splits \in Maps(Splits, SplitRec) /\ DOMAIN splits = DOMAIN s.splits
        /\ splits[y] = split /\ \A z \in DOMAIN s.splits : z # y => splits[z] = s.splits[z]
    BY <1>1, <1>3, <2>3, <2>6, ExceptIs
  <2>8. r = [s EXCEPT !.splits = splits]
    BY <1>1, <1>3, <2>1, <2>2, <2>3 DEF Replace
  <2>9. /\ r \in States
        /\ r.splits = splits /\ r.panes = s.panes /\ r.tabs = s.tabs /\ r.closed = s.closed
    BY <2>7, <2>8 DEF States
  <2>10. Kept(r)
    BY <2>9, ListsAre
  <2>11. SameBut(r, s)
    BY <2>1, <2>5, <2>6, <2>7, <2>9 DEF SameBut
  <2>12. \A z \in DOMAIN Lists(s) : z # y => Lists(r)[z] = Lists(s)[z]
    BY <1>1, <2>7, <2>9, <2>10 DEF Kept
  <2>13. Lists(r)[y] = kids /\ Lists(s)[y] = q.kids
    BY <1>1, <1>3, <2>1, <2>6, <2>7, <2>9, <2>10 DEF Kept
  <2> QED BY <2>5, <2>9, <2>11, <2>12, <2>13
<1> QED BY <1>2, <1>3

\* The source of a new split: its place in the parent is the split's, and the
\* split has source and pane.
LEMMA SplitPaneGood ==
    ASSUME MultiplexerAssumption, NEW s, Good(s), NEW p \in PaneIds, p \notin Known(s),
           NEW src \in DOMAIN s.panes, NEW v \in BOOLEAN,
           NEW r, r = Replace(SplitPane(s, src, p, v), s.panes[src], src, SplitOf(p))
    PROVE  Good(r) /\ DOMAIN r.panes = DOMAIN s.panes \cup {p} /\ r.closed = s.closed
<1>1. s \in States /\ Sound(Lists(s), Names(s)) /\ Sized(s, {}) /\ MadeWith(s)
  BY DEF Good, Tree
<1>2. PICK y, id, m : y = s.panes[src] /\ id = SplitOf(p) /\ m = SplitPane(s, src, p, v)
  OBVIOUS
<1>3. /\ id \in Splits /\ id \in Int /\ p \in Int /\ src \in Int /\ y \in Int
      /\ id \notin DOMAIN s.splits /\ id \notin DOMAIN s.tabs /\ id \notin DOMAIN s.panes
      /\ p \notin DOMAIN s.panes /\ p \notin DOMAIN s.splits /\ id # p
  BY <1>1, <1>2, Ids, StateIs, FreshIds
<1>4. PICK new : new = [parent |-> y, vertical |-> v, kids |-> <<src, p>>,
                        sizes |-> <<<<1, 2>>, <<1, 2>>>>]
  OBVIOUS
<1>5. /\ new \in SplitRec /\ new.parent = y /\ new.kids = <<src, p>>
      /\ Len(new.kids) = 2 /\ Len(new.sizes) = 2
  <2>1. PICK kids, half : kids = <<src, p>> /\ half = <<1, 2>>
    OBVIOUS
  <2>2. PICK sizes : sizes = <<half, half>>
    OBVIOUS
  <2>3. kids \in Seq(Int) /\ Len(kids) = 2
    BY <1>3, <2>1
  <2>4. half \in Fraction
    BY <2>1 DEF Fraction
  <2>5. sizes \in Seq(Fraction) /\ Len(sizes) = 2
    BY <2>2, <2>4
  <2>6. new = [parent |-> y, vertical |-> v, kids |-> kids, sizes |-> sizes]
    BY <1>4, <2>1, <2>2
  <2> QED BY <1>3, <2>1, <2>3, <2>5, <2>6 DEF SplitRec
<1>6. PICK moved, panes, splits :
         /\ moved = [s.panes EXCEPT ![src] = id] /\ panes = With(moved, p, id)
         /\ splits = With(s.splits, id, new)
  OBVIOUS
<1>7. /\ panes \in Maps(PaneIds, Int) /\ DOMAIN panes = DOMAIN s.panes \cup {p}
      /\ panes[p] = id /\ panes[src] = id
      /\ \A z \in DOMAIN s.panes : z # src => panes[z] = s.panes[z]
  <2>1. s.panes \in Maps(PaneIds, Int)
    BY <1>1, StateIs
  <2>2. /\ moved \in Maps(PaneIds, Int) /\ DOMAIN moved = DOMAIN s.panes /\ moved[src] = id
        /\ \A z \in DOMAIN s.panes : z # src => moved[z] = s.panes[z]
    BY <1>3, <1>6, <2>1, ExceptIs
  <2>3. With(moved, p, id) \in Maps(PaneIds, Int)
    BY <1>3, <2>2, WithIs
  <2> QED BY <1>3, <1>6, <2>2, <2>3 DEF With
<1>8. /\ splits \in Maps(Splits, SplitRec) /\ DOMAIN splits = DOMAIN s.splits \cup {id}
      /\ splits[id] = new /\ \A z \in DOMAIN s.splits : splits[z] = s.splits[z]
  <2>1. s.splits \in Maps(Splits, SplitRec)
    BY <1>1, StateIs
  <2>2. With(s.splits, id, new) \in Maps(Splits, SplitRec)
    BY <1>3, <1>5, <2>1, WithIs
  <2> QED BY <1>3, <1>6, <2>2 DEF With
<1>9. m = [s EXCEPT !.panes = panes, !.splits = splits]
  <2>1. m = [s EXCEPT !.panes = With([s.panes EXCEPT ![src] = id], p, id),
                      !.splits = With(s.splits, id,
                          [parent |-> y, vertical |-> v, kids |-> <<src, p>>,
                           sizes |-> <<<<1, 2>>, <<1, 2>>>>])]
    BY <1>2 DEF SplitPane
  <2> QED BY <1>4, <1>6, <2>1
<1>10. /\ m \in States
       /\ m.tabs = s.tabs /\ m.panes = panes /\ m.splits = splits /\ m.closed = s.closed
  BY <1>1, <1>7, <1>8, <1>9 DEF States
<1>11. Kept(s) /\ Kept(m)
  BY <1>1, <1>10, ListsAre
<1>12. /\ src \in DOMAIN Names(s) /\ Names(s)[src] = y /\ y \in DOMAIN Lists(s)
       /\ y \in DOMAIN s.tabs \cup DOMAIN s.splits /\ y # id
  BY <1>1, <1>2, <1>3, <1>11 DEF Kept, Sound
<1>13. y \in DOMAIN m.tabs => m.tabs[y].child = src
  BY <1>1, <1>10, <1>11, <1>12 DEF Kept, Sound
<1>14. /\ r \in States /\ SameBut(r, m)
       /\ \A z \in DOMAIN Lists(m) : z # y => Lists(r)[z] = Lists(m)[z]
       /\ DOMAIN Lists(r)[y] = DOMAIN Lists(m)[y]
       /\ \A i \in DOMAIN Lists(m)[y] :
             Lists(r)[y][i] = IF Lists(m)[y][i] = src THEN id ELSE Lists(m)[y][i]
  <2>1. r = Replace(m, y, src, id) /\ y \in DOMAIN m.tabs \cup DOMAIN m.splits
    BY <1>2, <1>8, <1>10, <1>12
  <2> QED BY <1>3, <1>10, <1>13, <2>1, ReplaceIs
<1>15. Kept(r)
  BY <1>14, ListsAre
<1>16. Sound(Lists(r), Names(r))
  <2>1. /\ DOMAIN Lists(r) = DOMAIN Lists(s) \cup {id}
        /\ DOMAIN Names(r) = DOMAIN Names(s) \cup {p, id}
    BY <1>7, <1>8, <1>10, <1>11, <1>14, <1>15 DEF Kept, SameBut
  <2>2. id \notin DOMAIN Lists(s) /\ id \notin DOMAIN Names(s) /\ p \notin DOMAIN Names(s)
    BY <1>3, <1>11 DEF Kept
  <2>3. \A z \in DOMAIN Lists(s) : Lists(m)[z] = Lists(s)[z] /\ z \in DOMAIN Lists(m)
    BY <1>8, <1>10, <1>11 DEF Kept
  <2>4. Lists(r)[id] = <<src, p>>
    BY <1>5, <1>8, <1>10, <1>11, <1>12, <1>14 DEF Kept
  <2>5. /\ DOMAIN Lists(r)[y] = DOMAIN Lists(s)[y]
        /\ \A i \in DOMAIN Lists(s)[y] :
              Lists(r)[y][i] = IF Lists(s)[y][i] = src THEN id ELSE Lists(s)[y][i]
        /\ \A z \in DOMAIN Lists(s) : z # y => Lists(r)[z] = Lists(s)[z]
    BY <1>12, <1>14, <2>3
  <2>6. Names(r)[src] = id /\ Names(r)[p] = id
    BY <1>7, <1>10, <1>14, <1>15 DEF Kept, SameBut
  <2>7. Names(r)[id] = y
    BY <1>5, <1>8, <1>10, <1>14, <1>15 DEF Kept, SameBut
  <2>8. \A z \in DOMAIN Names(s) : z # src => Names(r)[z] = Names(s)[z]
    <3>1. \A z \in DOMAIN s.panes : z # src => Names(r)[z] = Names(s)[z]
      BY <1>7, <1>10, <1>11, <1>14, <1>15 DEF Kept, SameBut
    <3>2. \A z \in DOMAIN s.splits : Names(r)[z] = Names(s)[z]
      BY <1>8, <1>10, <1>11, <1>14, <1>15 DEF Kept, SameBut
    <3> QED BY <1>11, <3>1, <3>2 DEF Kept
  <2> QED
    BY <1>1, <1>3, <1>12, <2>1, <2>2, <2>4, <2>5, <2>6, <2>7, <2>8, SplitInPlace
<1>17. Sized(r, {})
  <2>1. Len(new.sizes) = Len(new.kids) /\ Len(new.kids) >= 2
    BY <1>5
  <2>2. Sized(m, {})
    BY <1>1, <1>8, <1>10, <2>1 DEF Sized
  <2> QED BY <1>14, <2>2, SameButKeeps
<1>18. MadeWith(r)
  BY <1>1, <1>2, <1>7, <1>8, <1>10, <1>14 DEF MadeWith, Known, SameBut
<1>19. \E n \in Nat : Numbered(r, n)
  <2>1. PICK n \in Nat : Numbered(s, n)
    BY DEF Good
  <2>2. Numbered(m, n)
    BY <1>10, <2>1 DEF Numbered
  <2> QED BY <1>14, <2>2, SameButKeeps
<1> QED BY <1>7, <1>10, <1>14, <1>16, <1>17, <1>18, <1>19 DEF Good, Tree, SameBut

LEMMA NewSplitGood ==
    ASSUME MultiplexerAssumption, NEW s, Good(s), NEW p \in PaneIds, p \notin Known(s),
           NEW src \in DOMAIN s.panes, NEW v \in BOOLEAN,
           NEW r, r = NewSplit(s, src, p, v)
    PROVE  Good(r) /\ DOMAIN r.panes = DOMAIN s.panes \cup {p} /\ r.closed = s.closed
  BY ContinueSplitGood, SplitPaneGood DEF NewSplit

-----------------------------------------------------------------------------
(* MultiplexerState: closePane.                                            *)

LEMMA CloseTabGood ==
    ASSUME MultiplexerAssumption, NEW s, Good(s), NEW p \in DOMAIN s.panes,
           s.panes[p] \in DOMAIN s.tabs, NEW r, r = CloseTab(s, p)
    PROVE  Good(r) /\ DOMAIN r.panes = DOMAIN s.panes \ {p} /\ r.closed = s.closed \cup {p}
<1>1. s \in States /\ Sound(Lists(s), Names(s)) /\ Sized(s, {}) /\ MadeWith(s)
  BY DEF Good, Tree
<1>2. PICK n \in Nat : Numbered(s, n)
  BY DEF Good
<1>3. PICK tab, o, order :
         /\ tab = s.panes[p] /\ o = s.tabs[tab].order
         /\ order = [t \in DOMAIN s.tabs |-> IF s.tabs[t].order > o
                                             THEN s.tabs[t].order - 1 ELSE s.tabs[t].order]
  OBVIOUS
<1>4. PICK tabs, panes, closed :
         /\ tabs = [t \in DOMAIN s.tabs \ {tab} |-> [order |-> order[t], child |-> s.tabs[t].child]]
         /\ panes = Without(s.panes, {p}) /\ closed = s.closed \cup {p}
  OBVIOUS
<1>5. /\ \A t \in DOMAIN s.tabs : s.tabs[t].order \in Int /\ s.tabs[t].child \in Int
      /\ DOMAIN s.tabs \subseteq Tabs /\ p \in PaneIds /\ tab \in DOMAIN s.tabs
      /\ DOMAIN s.panes \cap DOMAIN s.tabs = {} /\ DOMAIN s.splits \cap DOMAIN s.tabs = {}
      /\ DOMAIN s.panes \cap DOMAIN s.splits = {}
      /\ s.panes \in Maps(PaneIds, Int) /\ s.closed \in SUBSET PaneIds
  BY <1>1, <1>3, StateIs DEF TabRec
<1>6. /\ tabs \in Maps(Tabs, TabRec) /\ DOMAIN tabs = DOMAIN s.tabs \ {tab}
      /\ \A t \in DOMAIN s.tabs \ {tab} :
            tabs[t].order = order[t] /\ tabs[t].child = s.tabs[t].child
  <2>1. \A t \in DOMAIN s.tabs : order[t] \in Int
    BY <1>3, <1>5
  <2>2. tabs \in [DOMAIN s.tabs \ {tab} -> TabRec]
    BY <1>4, <1>5, <2>1 DEF TabRec
  <2>3. DOMAIN s.tabs \ {tab} \in SUBSET Tabs
    BY <1>5
  <2>4. tabs \in Maps(Tabs, TabRec)
    BY <2>2, <2>3, MapsAre
  <2> QED BY <1>4, <2>4
<1>7. /\ panes \in Maps(PaneIds, Int) /\ DOMAIN panes = DOMAIN s.panes \ {p}
      /\ \A z \in DOMAIN panes : panes[z] = s.panes[z]
  <2>1. panes \in Maps(PaneIds, Int)
    BY <1>4, <1>5, WithoutIs
  <2> QED BY <1>4, <2>1 DEF Without, Restrict
<1>8. r = [s EXCEPT !.tabs = tabs, !.panes = panes, !.closed = closed]
  <2>1. tabs = [t \in DOMAIN s.tabs \ {tab} |->
                  [order |-> IF s.tabs[t].order > o THEN s.tabs[t].order - 1 ELSE s.tabs[t].order,
                   child |-> s.tabs[t].child]]
    BY <1>3, <1>4
  <2> QED BY <1>3, <1>4, <2>1 DEF CloseTab
<1>9. /\ r \in States
      /\ r.tabs = tabs /\ r.panes = panes /\ r.splits = s.splits /\ r.closed = closed
  <2>1. closed \in SUBSET PaneIds
    BY <1>4, <1>5
  <2> QED BY <1>1, <1>6, <1>7, <1>8, <2>1 DEF States, TabRec
<1>10. Kept(s) /\ Kept(r)
  BY <1>1, <1>9, ListsAre
<1>11. Lists(s)[tab] = <<p>> /\ p \in DOMAIN Names(s) /\ Names(s)[p] = tab
  BY <1>1, <1>3, <1>5, <1>10 DEF Kept, Sound
<1>12. Sound(Lists(r), Names(r))
  <2>1. /\ tab \in DOMAIN Lists(s) /\ tab \notin DOMAIN Names(s) /\ p \notin DOMAIN Lists(s)
        /\ \A i \in DOMAIN Lists(s)[tab] : Lists(s)[tab][i] = p
    BY <1>5, <1>10, <1>11 DEF Kept
  <2>2. /\ DOMAIN Lists(r) = DOMAIN Lists(s) \ {tab}
        /\ DOMAIN Names(r) = DOMAIN Names(s) \ {p}
    BY <1>5, <1>6, <1>7, <1>9, <1>10 DEF Kept
  <2>3. \A z \in DOMAIN Lists(r) : Lists(r)[z] = Lists(s)[z]
    BY <1>6, <1>9, <1>10 DEF Kept
  <2>4. \A z \in DOMAIN Names(r) : Names(r)[z] = Names(s)[z]
    BY <1>7, <1>9, <1>10 DEF Kept
  <2> QED BY <1>1, <1>11, <2>1, <2>2, <2>3, <2>4, Uprooted
<1>13. Sized(r, {})
  BY <1>1, <1>9 DEF Sized
<1>14. MadeWith(r)
  <2>1. Known(r) = Known(s)
    BY <1>4, <1>7, <1>9 DEF Known
  <2> QED BY <1>1, <1>4, <1>6, <1>7, <1>9, <2>1 DEF MadeWith
<1>15. n - 1 \in Nat /\ Numbered(r, n - 1)
  <2>1. /\ o \in 0..(n - 1) /\ \A t \in DOMAIN s.tabs : s.tabs[t].order \in 0..(n - 1)
        /\ \A t \in DOMAIN s.tabs : t # tab => s.tabs[t].order # o
    BY <1>2, <1>3, <1>5 DEF Numbered
  <2>2. \A t \in DOMAIN s.tabs \ {tab} :
           r.tabs[t].order = IF s.tabs[t].order > o THEN s.tabs[t].order - 1 ELSE s.tabs[t].order
    BY <1>3, <1>6, <1>9
  <2>3. DOMAIN r.tabs = DOMAIN s.tabs \ {tab}
    BY <1>6, <1>9
  <2>4. \A t \in DOMAIN r.tabs : r.tabs[t].order \in 0..((n - 1) - 1)
    BY <2>1, <2>2, <2>3
  <2>5. \A t, u \in DOMAIN r.tabs : r.tabs[t].order = r.tabs[u].order => t = u
    <3> SUFFICES ASSUME NEW t \in DOMAIN r.tabs, NEW u \in DOMAIN r.tabs,
                        r.tabs[t].order = r.tabs[u].order
                 PROVE  t = u
      OBVIOUS
    <3>1. s.tabs[t].order = s.tabs[u].order
      BY <2>1, <2>2, <2>3
    <3> QED BY <1>2, <2>3, <3>1 DEF Numbered
  <2>6. ASSUME NEW k \in 0..((n - 1) - 1) PROVE \E t \in DOMAIN r.tabs : r.tabs[t].order = k
    <3>1. k \in 0..(n - 1) /\ k + 1 \in 0..(n - 1) /\ k \in Int
      BY <2>1
    <3>2. CASE k < o
      <4>1. PICK t \in DOMAIN s.tabs : s.tabs[t].order = k
        BY <1>2, <3>1 DEF Numbered
      <4>2. t # tab /\ ~(k > o)
        BY <1>3, <2>1, <3>1, <3>2, <4>1
      <4> QED BY <2>2, <2>3, <4>1, <4>2
    <3>3. CASE ~(k < o)
      <4>1. PICK t \in DOMAIN s.tabs : s.tabs[t].order = k + 1
        BY <1>2, <3>1 DEF Numbered
      <4>2. t # tab /\ k + 1 > o
        BY <1>3, <2>1, <3>1, <3>3, <4>1
      <4> QED BY <2>2, <2>3, <3>1, <4>1, <4>2
    <3> QED BY <3>2, <3>3
  <2>7. n - 1 \in Nat
    BY <2>1
  <2> QED BY <2>4, <2>5, <2>6, <2>7 DEF Numbered
<1> QED BY <1>4, <1>7, <1>9, <1>12, <1>13, <1>14, <1>15 DEF Good, Tree

LEMMA RemoveAtIs ==
    ASSUME NEW S, NEW q \in Seq(S), NEW k \in 1..Len(q), NEW rest, rest = RemoveAt(q, k)
    PROVE  /\ rest \in Seq(S) /\ Len(rest) = Len(q) - 1
           /\ \A i \in 1..(Len(q) - 1) : rest[i] = IF i < k THEN q[i] ELSE q[i + 1]
<1>1. Len(q) \in Nat
  OBVIOUS
<1>2. PICK a, b : a = SubSeq(q, 1, k - 1) /\ b = SubSeq(q, k + 1, Len(q))
  OBVIOUS
<1>3. /\ a \in Seq(S) /\ Len(a) = k - 1 /\ \A i \in 1..(k - 1) : a[i] = q[i]
      /\ b \in Seq(S) /\ Len(b) = Len(q) - k /\ \A i \in 1..(Len(q) - k) : b[i] = q[k + i]
  BY <1>1, <1>2
<1>4. rest = a \o b
  BY <1>2 DEF RemoveAt
<1>5. /\ rest \in Seq(S) /\ Len(rest) = Len(a) + Len(b)
      /\ \A i \in 1..Len(rest) : rest[i] = IF i <= Len(a) THEN a[i] ELSE b[i - Len(a)]
  <2>1. a \in Seq(S) /\ b \in Seq(S)
    BY <1>3
  <2>2. /\ a \o b \in Seq(S) /\ Len(a \o b) = Len(a) + Len(b)
        /\ \A i \in 1..Len(a) + Len(b) : (a \o b)[i] = IF i <= Len(a) THEN a[i] ELSE b[i - Len(a)]
    BY <2>1, ConcatProperties
  <2> QED BY <1>4, <2>2
<1>6. ASSUME NEW i \in 1..(Len(q) - 1) PROVE rest[i] = IF i < k THEN q[i] ELSE q[i + 1]
  <2>1. CASE i < k
    <3>1. i \in 1..(k - 1) /\ i \in 1..Len(rest) /\ i <= Len(a)
      BY <1>1, <1>3, <1>5, <2>1
    <3> QED BY <1>3, <1>5, <2>1, <3>1
  <2>2. CASE ~(i < k)
    <3>1. /\ i - (k - 1) \in 1..(Len(q) - k) /\ i \in 1..Len(rest) /\ ~(i <= Len(a))
          /\ k + (i - (k - 1)) = i + 1
      BY <1>1, <1>3, <1>5, <2>2
    <3>2. rest[i] = b[i - (k - 1)]
      BY <1>3, <1>5, <3>1
    <3> QED BY <1>3, <2>2, <3>1, <3>2
  <2> QED BY <2>1, <2>2
<1>7. Len(rest) = Len(q) - 1
  BY <1>1, <1>3, <1>5
<1> QED BY <1>5, <1>6, <1>7

LEMMA Scaled ==
    ASSUME NEW q \in Seq(Fraction), NEW n \in Nat, n >= 1, Len(q) = n - 1, NEW sizes,
           sizes = [j \in 1..(n - 1) |-> <<q[j][1] * n, q[j][2] * (n - 1)>>]
    PROVE  sizes \in Seq(Fraction) /\ Len(sizes) = n - 1
<1>1. \A i \in 1..(n - 1) : q[i] \in Fraction
  OBVIOUS
<1>2. n - 1 \in Nat /\ n \in Int
  OBVIOUS
<1>3. \A x \in Fraction : <<x[1] * n, x[2] * (n - 1)>> \in Fraction
  BY <1>2 DEF Fraction
<1>4. sizes \in [1..(n - 1) -> Fraction]
  BY <1>1, <1>3
<1> QED BY <1>2, <1>4, SequenceIs

\* A pane leaves its split, which may have one child then.
LEMMA LeaveSplitTree ==
    ASSUME MultiplexerAssumption, NEW s, Good(s), NEW p \in DOMAIN s.panes,
           s.panes[p] \in DOMAIN s.splits, NEW r, r = LeaveSplit(s, p)
    PROVE  /\ Tree(r, {s.panes[p]}) /\ \E n \in Nat : Numbered(r, n)
           /\ DOMAIN r.panes = DOMAIN s.panes \ {p} /\ r.closed = s.closed \cup {p}
           /\ DOMAIN r.splits = DOMAIN s.splits
           /\ Len(r.splits[s.panes[p]].kids) = Len(s.splits[s.panes[p]].kids) - 1
           /\ \A i \in DOMAIN r.splits[s.panes[p]].kids :
                 r.splits[s.panes[p]].kids[i] \in Range(s.splits[s.panes[p]].kids)
<1>1. s \in States /\ Sound(Lists(s), Names(s)) /\ Sized(s, {}) /\ MadeWith(s)
  BY DEF Good, Tree
<1>2. PICK id, q : id = s.panes[p] /\ q = s.splits[id]
  OBVIOUS
<1>3. /\ id \in DOMAIN s.splits /\ q \in SplitRec /\ q.kids \in Seq(Int)
      /\ q.sizes \in Seq(Fraction) /\ p \in PaneIds
      /\ Len(q.kids) >= 2 /\ Len(q.sizes) = Len(q.kids)
      /\ DOMAIN s.panes \cap DOMAIN s.splits = {} /\ DOMAIN s.panes \cap DOMAIN s.tabs = {}
      /\ s.panes \in Maps(PaneIds, Int) /\ s.closed \in SUBSET PaneIds
      /\ s.splits \in Maps(Splits, SplitRec)
  BY <1>1, <1>2, KidsAre, StateIs DEF Sized
<1>4. Kept(s)
  BY <1>1, ListsAre
<1>5. Lists(s)[id] = q.kids /\ id \in DOMAIN Lists(s)
  BY <1>2, <1>3, <1>4 DEF Kept
<1>6. PICK k : k = IndexIn(q.kids, p)
  OBVIOUS
<1>7. k \in DOMAIN q.kids /\ q.kids[k] = p
  <2>1. p \in DOMAIN Names(s) /\ Names(s)[p] = id
    BY <1>2, <1>4 DEF Kept
  <2>2. \E i \in DOMAIN q.kids : q.kids[i] = p
    BY <1>1, <1>5, <2>1 DEF Sound
  <2> QED BY <1>6, <2>2 DEF IndexIn
<1>8. PICK n : n = Len(q.kids)
  OBVIOUS
<1>9. n \in Nat /\ n >= 2 /\ DOMAIN q.kids = 1..n /\ k \in 1..n /\ Len(q.sizes) = n
  BY <1>3, <1>7, <1>8
<1>10. PICK kids, less : kids = RemoveAt(q.kids, k) /\ less = RemoveAt(q.sizes, k)
  OBVIOUS
<1>11. /\ kids \in Seq(Int) /\ Len(kids) = n - 1 /\ DOMAIN kids = 1..(n - 1)
       /\ \A i \in 1..(n - 1) : kids[i] = IF i < k THEN q.kids[i] ELSE q.kids[i + 1]
  <2>1. q.kids \in Seq(Int) /\ k \in 1..Len(q.kids) /\ kids = RemoveAt(q.kids, k)
    BY <1>3, <1>8, <1>9, <1>10
  <2>2. /\ kids \in Seq(Int) /\ Len(kids) = Len(q.kids) - 1
        /\ \A i \in 1..(Len(q.kids) - 1) :
              kids[i] = IF i < k THEN q.kids[i] ELSE q.kids[i + 1]
    <3>1. PICK u, S : u = q.kids /\ S = Int
      OBVIOUS
    <3>2. u \in Seq(S) /\ k \in 1..Len(u) /\ kids = RemoveAt(u, k)
      BY <2>1, <3>1
    <3>3. /\ kids \in Seq(S) /\ Len(kids) = Len(u) - 1
          /\ \A i \in 1..(Len(u) - 1) : kids[i] = IF i < k THEN u[i] ELSE u[i + 1]
      BY ONLY <3>2, RemoveAtIs
    <3> QED BY <3>1, <3>3
  <2>3. /\ kids \in Seq(Int) /\ Len(kids) = n - 1
        /\ \A i \in 1..(n - 1) : kids[i] = IF i < k THEN q.kids[i] ELSE q.kids[i + 1]
    BY <1>8, <2>2
  <2> QED BY <2>3
<1>12. less \in Seq(Fraction) /\ Len(less) = n - 1
  BY <1>3, <1>9, <1>10, RemoveAtIs
<1>13. PICK sizes : sizes = [j \in 1..(n - 1) |-> <<less[j][1] * n, less[j][2] * (n - 1)>>]
  OBVIOUS
<1>14. sizes \in Seq(Fraction) /\ Len(sizes) = n - 1
  <2>1. n \in Nat /\ n >= 1
    BY <1>9
  <2> QED BY ONLY <1>12, <1>13, <2>1, Scaled
<1>15. PICK new : new = [q EXCEPT !.kids = kids, !.sizes = sizes]
  OBVIOUS
<1>16. new \in SplitRec /\ new.kids = kids /\ new.sizes = sizes /\ new.parent = q.parent
  BY <1>3, <1>11, <1>14, <1>15 DEF SplitRec
<1>17. PICK panes, splits, closed :
          /\ panes = Without(s.panes, {p}) /\ splits = [s.splits EXCEPT ![id] = new]
          /\ closed = s.closed \cup {p}
  OBVIOUS
<1>18. /\ panes \in Maps(PaneIds, Int) /\ DOMAIN panes = DOMAIN s.panes \ {p}
       /\ \A z \in DOMAIN panes : panes[z] = s.panes[z]
  <2>1. panes \in Maps(PaneIds, Int)
    BY <1>3, <1>17, WithoutIs
  <2> QED BY <1>17, <2>1 DEF Without, Restrict
<1>19. /\ splits \in Maps(Splits, SplitRec) /\ DOMAIN splits = DOMAIN s.splits
       /\ splits[id] = new /\ \A z \in DOMAIN s.splits : z # id => splits[z] = s.splits[z]
  BY <1>3, <1>16, <1>17, ExceptIs
<1>20. r = [s EXCEPT !.panes = panes, !.closed = closed, !.splits = splits]
  <2>1. r = [s EXCEPT !.panes = Without(s.panes, {p}), !.closed = s.closed \cup {p},
                      !.splits = [s.splits EXCEPT ![id] =
                          [q EXCEPT !.kids = RemoveAt(q.kids, k),
                                    !.sizes = [j \in 1..(n - 1) |->
                                       <<RemoveAt(q.sizes, k)[j][1] * n,
                                         RemoveAt(q.sizes, k)[j][2] * (n - 1)>>]]]]
    BY <1>2, <1>6, <1>8 DEF LeaveSplit
  <2> QED BY <1>10, <1>13, <1>15, <1>17, <2>1
<1>21. /\ r \in States
       /\ r.tabs = s.tabs /\ r.panes = panes /\ r.splits = splits /\ r.closed = closed
  <2>1. closed \in SUBSET PaneIds
    BY <1>3, <1>17
  <2> QED BY <1>1, <1>18, <1>19, <1>20, <2>1 DEF States
<1>22. Kept(r)
  BY <1>21, ListsAre
<1>23. Sound(Lists(r), Names(r))
  <2>1. /\ DOMAIN Lists(r) = DOMAIN Lists(s)
        /\ DOMAIN Names(r) = DOMAIN Names(s) \ {p}
    BY <1>3, <1>4, <1>18, <1>19, <1>21, <1>22 DEF Kept
  <2>2. Lists(r)[id] = kids
    BY <1>3, <1>16, <1>19, <1>21, <1>22 DEF Kept
  <2>3. \A z \in DOMAIN Lists(s) : z # id => Lists(r)[z] = Lists(s)[z]
    BY <1>4, <1>19, <1>21, <1>22 DEF Kept
  <2>4. \A z \in DOMAIN Names(r) : Names(r)[z] = Names(s)[z]
    <3>1. \A z \in DOMAIN s.splits : splits[z].parent = s.splits[z].parent
      BY <1>2, <1>16, <1>19
    <3> QED BY <1>4, <1>18, <1>19, <1>21, <1>22, <3>1 DEF Kept
  <2>5. p \notin DOMAIN Lists(s)
    BY <1>3, <1>4 DEF Kept
  <2>6. /\ DOMAIN Lists(s)[id] = 1..n /\ Lists(s)[id][k] = p
        /\ DOMAIN Lists(r)[id] = 1..(n - 1)
        /\ \A i \in 1..(n - 1) :
              Lists(r)[id][i] = IF i < k THEN Lists(s)[id][i] ELSE Lists(s)[id][i + 1]
    BY <1>5, <1>7, <1>9, <1>11, <2>2
  <2>7. n \in Nat /\ k \in 1..n /\ id \in DOMAIN Lists(s)
    BY <1>5, <1>9
  <2>8. Sound(Lists(s), Names(s))
    BY <1>1
  <2>9. WithoutNode(Lists(s), Names(s), id, p, n, k, Lists(r), Names(r))
    BY <2>1, <2>3, <2>4, <2>5, <2>6, <2>7 DEF WithoutNode
  <2> QED BY <2>8, <2>9, Removed
<1>24. Sized(r, {id})
  <2>1. Len(sizes) = Len(kids)
    BY <1>11, <1>14
  <2>2. \A y \in DOMAIN s.splits : Len(splits[y].sizes) = Len(splits[y].kids)
    BY <1>1, <1>16, <1>19, <2>1 DEF Sized
  <2>3. \A y \in DOMAIN s.splits \ {id} : Len(splits[y].kids) >= 2
    BY <1>1, <1>19 DEF Sized
  <2> QED BY <1>19, <1>21, <2>2, <2>3 DEF Sized
<1>25. MadeWith(r)
  <2>1. Known(r) = Known(s)
    BY <1>17, <1>18, <1>21 DEF Known
  <2> QED BY <1>1, <1>17, <1>18, <1>19, <1>21, <2>1 DEF MadeWith
<1>26. \E m \in Nat : Numbered(r, m)
  BY <1>21 DEF Good, Numbered
<1>27. /\ r.splits[id].kids = kids
       /\ \A i \in DOMAIN kids : kids[i] \in Range(q.kids)
  <2>1. r.splits[id].kids = kids
    BY <1>3, <1>16, <1>19, <1>21
  <2>2. ASSUME NEW i \in DOMAIN kids PROVE kids[i] \in Range(q.kids)
    <3>1. i \in 1..(n - 1) /\ i \in 1..n /\ i + 1 \in 1..n
      BY <1>9, <1>11
    <3>2. q.kids[i] \in Range(q.kids) /\ q.kids[i + 1] \in Range(q.kids)
      BY <1>9, <3>1 DEF Range
    <3> QED BY <1>11, <3>1, <3>2
  <2> QED BY <2>1, <2>2
<1>28. Tree(r, {id})
  BY <1>21, <1>23, <1>24, <1>25 DEF Tree
<1> QED
  BY <1>2, <1>8, <1>11, <1>17, <1>18, <1>19, <1>21, <1>26, <1>27, <1>28

LEMMA CollapseGood ==
    ASSUME MultiplexerAssumption, NEW s, NEW id \in DOMAIN s.splits, Tree(s, {id}),
           \E n \in Nat : Numbered(s, n), Len(s.splits[id].kids) = 1,
           s.splits[id].kids[1] \in DOMAIN s.panes, NEW r, r = Collapse(s, id)
    PROVE  Good(r) /\ DOMAIN r.panes = DOMAIN s.panes /\ r.closed = s.closed
<1>1. s \in States /\ Sound(Lists(s), Names(s)) /\ Sized(s, {id}) /\ MadeWith(s)
  BY DEF Tree
<1>2. PICK x, y, m : /\ x = s.splits[id].kids[1] /\ y = s.splits[id].parent
                     /\ m = Replace(s, y, id, x)
  OBVIOUS
<1>3. Kept(s)
  BY <1>1, ListsAre
<1>4. /\ x \in DOMAIN s.panes /\ x \in Int /\ y \in Int /\ id \in Int
      /\ DOMAIN s.panes \cap DOMAIN s.splits = {} /\ DOMAIN s.tabs \cap DOMAIN s.splits = {}
      /\ x # id /\ Lists(s)[id] = s.splits[id].kids /\ DOMAIN Lists(s)[id] = {1}
  <2>1. /\ x \in DOMAIN s.panes /\ x \in PaneIds /\ id \in Splits /\ y \in Int
        /\ DOMAIN s.panes \cap DOMAIN s.splits = {} /\ DOMAIN s.tabs \cap DOMAIN s.splits = {}
    BY <1>1, <1>2, StateIs, KidsAre
  <2>2. DOMAIN s.splits[id].kids = 1..1
    BY <1>1, KidsAre
  <2> QED BY <1>3, <2>1, <2>2, Ids DEF Kept
<1>5. /\ id \in DOMAIN Lists(s) /\ id \in DOMAIN Names(s) /\ Names(s)[id] = y
      /\ x \in DOMAIN Names(s) /\ Names(s)[x] = id
      /\ \A i \in DOMAIN Lists(s)[id] : Lists(s)[id][i] = x
  <2>1. /\ id \in DOMAIN Lists(s) /\ id \in DOMAIN Names(s) /\ Names(s)[id] = y
        /\ x \in DOMAIN Names(s)
    BY <1>2, <1>3, <1>4 DEF Kept
  <2>2. 1 \in DOMAIN Lists(s)[id] /\ Lists(s)[id][1] = x
    BY <1>2, <1>4
  <2> QED BY <1>1, <1>4, <2>1, <2>2 DEF Sound
<1>6. y \in DOMAIN Lists(s) /\ y \in DOMAIN s.tabs \cup DOMAIN s.splits /\ y # id
  <2>1. y \in DOMAIN Lists(s) /\ \E i \in DOMAIN Lists(s)[y] : Lists(s)[y][i] = id
    BY <1>1, <1>5 DEF Sound
  <2> QED BY <1>3, <1>4, <1>5, <2>1 DEF Kept
<1>7. y \in DOMAIN s.tabs => s.tabs[y].child = id
  BY <1>1, <1>3, <1>5, <1>6 DEF Kept, Sound
<1>8. /\ m \in States /\ SameBut(m, s)
      /\ \A z \in DOMAIN Lists(s) : z # y => Lists(m)[z] = Lists(s)[z]
      /\ DOMAIN Lists(m)[y] = DOMAIN Lists(s)[y]
      /\ \A i \in DOMAIN Lists(s)[y] :
            Lists(m)[y][i] = IF Lists(s)[y][i] = id THEN x ELSE Lists(s)[y][i]
  BY <1>1, <1>2, <1>4, <1>6, <1>7, ReplaceIs
<1>9. PICK panes, splits : panes = [m.panes EXCEPT ![x] = y] /\ splits = Without(m.splits, {id})
  OBVIOUS
<1>10. /\ panes \in Maps(PaneIds, Int) /\ DOMAIN panes = DOMAIN s.panes
       /\ panes[x] = y /\ \A z \in DOMAIN s.panes : z # x => panes[z] = s.panes[z]
  <2>1. m.panes \in Maps(PaneIds, Int) /\ m.panes = s.panes
    BY <1>8, StateIs DEF SameBut
  <2>2. x \in DOMAIN m.panes
    BY <1>4, <2>1
  <2>3. /\ panes \in Maps(PaneIds, Int) /\ DOMAIN panes = DOMAIN m.panes
        /\ panes[x] = y /\ \A z \in DOMAIN m.panes : z # x => panes[z] = m.panes[z]
    BY <1>4, <1>9, <2>1, <2>2, ExceptIs
  <2> QED BY <2>1, <2>3
<1>11. /\ splits \in Maps(Splits, SplitRec) /\ DOMAIN splits = DOMAIN s.splits \ {id}
       /\ \A z \in DOMAIN splits : splits[z] = m.splits[z]
  <2>1. m.splits \in Maps(Splits, SplitRec) /\ DOMAIN m.splits = DOMAIN s.splits
    BY <1>8, StateIs DEF SameBut
  <2>2. splits \in Maps(Splits, SplitRec)
    BY <1>9, <2>1, WithoutIs
  <2> QED BY <1>9, <2>1, <2>2 DEF Without, Restrict
<1>12. r = [m EXCEPT !.panes = panes, !.splits = splits]
  BY <1>2, <1>9 DEF Collapse
<1>13. /\ r \in States
       /\ r.tabs = m.tabs /\ r.panes = panes /\ r.splits = splits /\ r.closed = s.closed
  BY <1>8, <1>10, <1>11, <1>12 DEF States, SameBut
<1>14. Kept(r) /\ Kept(m)
  BY <1>8, <1>13, ListsAre
<1>15. Sound(Lists(r), Names(r))
  <2>1. /\ DOMAIN Lists(r) = DOMAIN Lists(s) \ {id}
        /\ DOMAIN Names(r) = DOMAIN Names(s) \ {id}
    BY <1>3, <1>4, <1>8, <1>10, <1>11, <1>13, <1>14 DEF Kept, SameBut
  <2>2. \A z \in DOMAIN Lists(r) : Lists(r)[z] = Lists(m)[z]
    BY <1>8, <1>11, <1>13, <1>14 DEF Kept, SameBut
  <2>3. y \in DOMAIN Lists(r)
    BY <1>6, <2>1
  <2>4. Names(r)[x] = y
    BY <1>4, <1>10, <1>13, <1>14 DEF Kept
  <2>5. \A z \in DOMAIN Names(r) : z # x => Names(r)[z] = Names(s)[z]
    <3>1. \A z \in DOMAIN s.panes : z # x => Names(r)[z] = Names(s)[z]
      BY <1>3, <1>10, <1>13, <1>14 DEF Kept
    <3>2. \A z \in DOMAIN splits : Names(r)[z] = Names(s)[z]
      BY <1>3, <1>8, <1>11, <1>13, <1>14 DEF Kept, SameBut
    <3> QED BY <1>10, <1>13, <1>14, <3>1, <3>2 DEF Kept
  <2>6. /\ DOMAIN Lists(r)[y] = DOMAIN Lists(s)[y]
        /\ \A i \in DOMAIN Lists(s)[y] :
              Lists(r)[y][i] = IF Lists(s)[y][i] = id THEN x ELSE Lists(s)[y][i]
        /\ \A z \in DOMAIN Lists(r) : z # y => Lists(r)[z] = Lists(s)[z]
    BY <1>8, <2>1, <2>2, <2>3
  <2> QED BY <1>1, <1>4, <1>5, <1>6, <2>1, <2>4, <2>5, <2>6, Collapsed
<1>16. Sized(r, {})
  <2>1. Sized(m, {id})
    BY <1>1, <1>8, SameButKeeps
  <2> QED BY <1>8, <1>11, <1>13, <2>1 DEF Sized, SameBut
<1>17. MadeWith(r)
  <2>1. Known(r) = Known(s)
    BY <1>10, <1>13 DEF Known
  <2>2. DOMAIN r.tabs = DOMAIN s.tabs /\ DOMAIN r.splits \subseteq DOMAIN s.splits
    BY <1>8, <1>11, <1>13 DEF SameBut
  <2> QED BY <1>1, <1>10, <1>13, <2>1, <2>2 DEF MadeWith
<1>18. \E n \in Nat : Numbered(r, n)
  <2>1. PICK n \in Nat : Numbered(m, n)
    BY <1>8, SameButKeeps
  <2> QED BY <1>13, <2>1 DEF Numbered
<1> QED BY <1>10, <1>13, <1>15, <1>16, <1>17, <1>18 DEF Good, Tree

LEMMA ClosePaneGood ==
    ASSUME MultiplexerAssumption, NEW s, Good(s), NEW p \in DOMAIN s.panes,
           ~CollapseFails(s, p), NEW r, r = ClosePane(s, p)
    PROVE  Good(r) /\ DOMAIN r.panes = DOMAIN s.panes \ {p} /\ r.closed = s.closed \cup {p}
<1>1. s \in States /\ Sound(Lists(s), Names(s)) /\ Sized(s, {})
  BY DEF Good, Tree
<1>2. PICK id : id = s.panes[p]
  OBVIOUS
<1>3. CASE id \in DOMAIN s.tabs
  BY <1>2, <1>3, CloseTabGood DEF ClosePane
<1>4. CASE id \notin DOMAIN s.tabs
  <2>1. id \in DOMAIN s.splits
    <3>1. Kept(s)
      BY <1>1, ListsAre
    <3> QED BY <1>1, <1>2, <1>4, <3>1 DEF Kept, Sound
  <2>2. PICK n, m : n = Len(s.splits[id].kids) /\ m = LeaveSplit(s, p)
    OBVIOUS
  <2>3. n \in Nat /\ n >= 2
    BY <1>1, <2>1, <2>2, KidsAre DEF Sized
  <2>4. /\ Tree(m, {id}) /\ \E k \in Nat : Numbered(m, k)
        /\ DOMAIN m.panes = DOMAIN s.panes \ {p} /\ m.closed = s.closed \cup {p}
        /\ id \in DOMAIN m.splits /\ Len(m.splits[id].kids) = n - 1
        /\ \A i \in DOMAIN m.splits[id].kids : m.splits[id].kids[i] \in Range(s.splits[id].kids)
    <3>1. s.panes[p] \in DOMAIN s.splits /\ m = LeaveSplit(s, p)
      BY <1>2, <2>1, <2>2
    <3>2. /\ Tree(m, {s.panes[p]}) /\ \E k \in Nat : Numbered(m, k)
          /\ DOMAIN m.panes = DOMAIN s.panes \ {p} /\ m.closed = s.closed \cup {p}
          /\ DOMAIN m.splits = DOMAIN s.splits
          /\ Len(m.splits[s.panes[p]].kids) = Len(s.splits[s.panes[p]].kids) - 1
          /\ \A i \in DOMAIN m.splits[s.panes[p]].kids :
                m.splits[s.panes[p]].kids[i] \in Range(s.splits[s.panes[p]].kids)
      BY <3>1, LeaveSplitTree
    <3> QED BY <1>2, <2>1, <2>2, <3>2
  <2>5. CASE n > 2
    <3>1. r = m
      BY <1>2, <1>4, <2>2, <2>5 DEF ClosePane
    <3>2. Sized(m, {})
      <4>1. Sized(m, {id}) /\ Len(m.splits[id].kids) >= 2
        BY <2>3, <2>4, <2>5 DEF Tree
      <4> QED BY <4>1 DEF Sized
    <3> QED BY <2>4, <3>1, <3>2 DEF Good, Tree
  <2>6. CASE n = 2
    <3>1. r = Collapse(m, id)
      BY <1>2, <1>4, <2>2, <2>6 DEF ClosePane
    <3>2. m.splits[id].kids[1] \in DOMAIN m.panes
      <4>1. m \in States /\ Sound(Lists(m), Names(m))
        BY <2>4 DEF Tree
      <4>2. 1 \in DOMAIN m.splits[id].kids
        BY <2>4, <2>6, <4>1, KidsAre
      <4>3. m.splits[id].kids[1] \in DOMAIN s.panes
        BY <1>2, <2>1, <2>2, <2>4, <2>6, <4>2 DEF CollapseFails
      <4>4. Kept(m)
        BY <4>1, ListsAre
      <4>5. m.splits[id].kids[1] \in DOMAIN m.panes \cup DOMAIN m.splits
        BY <2>4, <4>1, <4>2, <4>4 DEF Kept, Sound
      <4>6. DOMAIN m.splits \cap DOMAIN s.panes = {}
        BY <1>1, <4>1, StateIs, Ids
      <4> QED BY <4>3, <4>5, <4>6
    <3>3. Len(m.splits[id].kids) = 1
      BY <2>4, <2>6
    <3> QED BY <2>4, <3>1, <3>2, <3>3, CollapseGood
  <2> QED BY <2>3, <2>5, <2>6
<1> QED BY <1>3, <1>4

-----------------------------------------------------------------------------
(* The requests on the way.                                                *)

\* What one request orders, and what it closes.
Makes(r) == IF New(r) THEN {r.pane} ELSE {}
Ends(r) == IF r.op = "close" THEN {r.pane} ELSE {}

LEMMA RequestIs ==
    ASSUME NEW r \in Requests
    PROVE  /\ New(r) \/ r.op = "close" => r.pane \in PaneIds
           /\ r.op = "split" => r.vertical \in BOOLEAN
           /\ ~(New(r) /\ r.op = "close")
  BY DEF Requests, New

LEMMA QueueIs ==
    ASSUME NEW q, NEW known, NEW last, QueueOK(q, known, last)
    PROVE  /\ Ordered(q) \cap known = {} /\ Ordered(q) \subseteq 1..last
           /\ Closing(q) \subseteq known \cup Ordered(q)
  BY DEF QueueOK, Ordered, Closing

LEMMA Empty ==
    ASSUME NEW known, NEW last
    PROVE  /\ QueueOK(<<>>, known, last)
           /\ Ordered(<<>>) = {} /\ Closing(<<>>) = {} /\ Told(<<>>) = {}
  BY DEF QueueOK, Ordered, Closing, Told

LEMMA AppendIs ==
    ASSUME NEW S, NEW q \in Seq(S), NEW r \in S, NEW q2, q2 = Append(q, r)
    PROVE  \E n \in Nat :
              /\ n = Len(q) + 1 /\ q2 \in Seq(S) /\ Len(q2) = n /\ DOMAIN q2 = DOMAIN q \cup {n}
              /\ \A i \in DOMAIN q : i \in Nat /\ i < n /\ q2[i] = q[i]
              /\ q2[n] = r
<1>1. q2 \in Seq(S) /\ Len(q2) = Len(q) + 1 /\ Len(q) \in Nat /\ DOMAIN q = 1..Len(q)
  OBVIOUS
<1>2. DOMAIN q2 = 1..(Len(q) + 1)
  BY <1>1
<1>3. \A i \in DOMAIN q : i \in Nat /\ i < Len(q) + 1 /\ q2[i] = q[i]
  OBVIOUS
<1>4. q2[Len(q) + 1] = r
  OBVIOUS
<1> QED BY <1>1, <1>2, <1>3, <1>4

LEMMA TailIs ==
    ASSUME NEW S, NEW q \in Seq(S), q # <<>>, NEW q2, q2 = Tail(q), NEW h, h = Head(q)
    PROVE  /\ h \in S /\ q2 \in Seq(S) /\ Len(q2) < Len(q) /\ Len(q2) \in Nat
           /\ 1 \in DOMAIN q /\ q[1] = h
           /\ \A i \in DOMAIN q2 : /\ i \in Nat \ {0} /\ i + 1 \in DOMAIN q
                                   /\ q2[i] = q[i + 1]
           /\ \A i \in DOMAIN q : /\ i \in Nat \ {0}
                                  /\ i # 1 => i - 1 \in DOMAIN q2 /\ q2[i - 1] = q[i]
<1>1. Len(q) \in Nat /\ Len(q) > 0 /\ DOMAIN q = 1..Len(q)
  OBVIOUS
<1>2. q2 \in Seq(S) /\ Len(q2) = Len(q) - 1 /\ \A i \in 1..Len(q2) : q2[i] = q[i + 1]
  BY <1>1
<1>3. DOMAIN q2 = 1..(Len(q) - 1)
  BY <1>1, <1>2
<1>4. h = q[1] /\ h \in S
  BY <1>1
<1> QED BY <1>1, <1>2, <1>3, <1>4

\* The editor sends a request.
LEMMA Queued ==
    ASSUME NEW q \in Seq(Requests), NEW r \in Requests, NEW q2, q2 = Append(q, r),
           NEW known, NEW last \in Nat, NEW next \in Nat, last <= next,
           QueueOK(q, known, last),
           New(r) => r.pane \in 1..next /\ r.pane \notin known \cup Ordered(q),
           r.op = "close" => r.pane \in known \cup Ordered(q)
    PROVE  /\ q2 \in Seq(Requests) /\ Len(q2) = Len(q) + 1 /\ QueueOK(q2, known, next)
           /\ Ordered(q2) = Ordered(q) \cup Makes(r) /\ Closing(q2) = Closing(q) \cup Ends(r)
<1>1. PICK n \in Nat :
         /\ n = Len(q) + 1 /\ q2 \in Seq(Requests) /\ Len(q2) = n
         /\ DOMAIN q2 = DOMAIN q \cup {n}
         /\ \A i \in DOMAIN q : i \in Nat /\ i < n /\ q2[i] = q[i]
         /\ q2[n] = r
  BY AppendIs
<1>2. Ordered(q2) = Ordered(q) \cup Makes(r)
  BY <1>1 DEF Ordered, Makes
<1>3. Closing(q2) = Closing(q) \cup Ends(r)
  BY <1>1 DEF Closing, Ends
<1>4. \A i \in DOMAIN q2 : New(q2[i]) => q2[i].pane \in 1..next /\ q2[i].pane \notin known
  <2>1. \A x \in 1..last : x \in 1..next
    OBVIOUS
  <2> QED BY <1>1, <2>1 DEF QueueOK
<1>5. \A i, j \in DOMAIN q2 : New(q2[i]) /\ New(q2[j]) /\ q2[i].pane = q2[j].pane => i = j
  BY <1>1 DEF QueueOK, Ordered
<1>6. ASSUME NEW i \in DOMAIN q2, q2[i].op = "close"
      PROVE  \/ q2[i].pane \in known
             \/ \E j \in DOMAIN q2 : j < i /\ New(q2[j]) /\ q2[j].pane = q2[i].pane
  <2>1. CASE i \in DOMAIN q
    BY <1>1, <1>6, <2>1 DEF QueueOK
  <2>2. CASE i = n
    BY <1>1, <1>6, <2>2 DEF Ordered
  <2> QED BY <1>1, <2>1, <2>2
<1>7. QueueOK(q2, known, next)
  BY <1>4, <1>5, <1>6 DEF QueueOK
<1> QED BY <1>1, <1>2, <1>3, <1>7

\* htmd reads a request.
LEMMA Served ==
    ASSUME NEW q \in Seq(Requests), q # <<>>, NEW q2, q2 = Tail(q), NEW h, h = Head(q),
           NEW known, NEW last, QueueOK(q, known, last)
    PROVE  /\ Ordered(q) = Ordered(q2) \cup Makes(h) /\ Closing(q) = Closing(q2) \cup Ends(h)
           /\ QueueOK(q2, known \cup Makes(h), last)
           /\ New(h) => h.pane \in 1..last /\ h.pane \notin known
           /\ h.op = "close" => h.pane \in known
<1>1. /\ 1 \in DOMAIN q /\ q[1] = h
      /\ \A i \in DOMAIN q2 : i \in Nat \ {0} /\ i + 1 \in DOMAIN q /\ q2[i] = q[i + 1]
      /\ \A i \in DOMAIN q : /\ i \in Nat \ {0}
                             /\ i # 1 => i - 1 \in DOMAIN q2 /\ q2[i - 1] = q[i]
  BY TailIs
<1>2. Ordered(q) = Ordered(q2) \cup Makes(h)
  <2>1. ASSUME NEW x \in Ordered(q) PROVE x \in Ordered(q2) \cup Makes(h)
    <3>1. PICK i \in DOMAIN q : New(q[i]) /\ x = q[i].pane
      BY <2>1 DEF Ordered
    <3>2. CASE i = 1
      BY <1>1, <3>1, <3>2 DEF Makes
    <3>3. CASE i # 1
      BY <1>1, <3>1, <3>3 DEF Ordered
    <3> QED BY <3>2, <3>3
  <2>2. ASSUME NEW x \in Ordered(q2) PROVE x \in Ordered(q)
    <3>1. PICK i \in DOMAIN q2 : New(q2[i]) /\ x = q2[i].pane
      BY <2>2 DEF Ordered
    <3>2. i + 1 \in DOMAIN q /\ q[i + 1] = q2[i]
      BY <1>1
    <3> QED BY <3>1, <3>2 DEF Ordered
  <2>3. Makes(h) \subseteq Ordered(q)
    BY <1>1 DEF Ordered, Makes
  <2> QED BY <2>1, <2>2, <2>3
<1>3. Closing(q) = Closing(q2) \cup Ends(h)
  <2>1. ASSUME NEW x \in Closing(q) PROVE x \in Closing(q2) \cup Ends(h)
    <3>1. PICK i \in DOMAIN q : q[i].op = "close" /\ x = q[i].pane
      BY <2>1 DEF Closing
    <3>2. CASE i = 1
      BY <1>1, <3>1, <3>2 DEF Ends
    <3>3. CASE i # 1
      BY <1>1, <3>1, <3>3 DEF Closing
    <3> QED BY <3>2, <3>3
  <2>2. ASSUME NEW x \in Closing(q2) PROVE x \in Closing(q)
    <3>1. PICK i \in DOMAIN q2 : q2[i].op = "close" /\ x = q2[i].pane
      BY <2>2 DEF Closing
    <3>2. i + 1 \in DOMAIN q /\ q[i + 1] = q2[i]
      BY <1>1
    <3> QED BY <3>1, <3>2 DEF Closing
  <2>3. Ends(h) \subseteq Closing(q)
    BY <1>1 DEF Closing, Ends
  <2> QED BY <2>1, <2>2, <2>3
<1>4. ASSUME NEW i \in DOMAIN q2, New(q2[i])
      PROVE  q2[i].pane \in 1..last /\ q2[i].pane \notin known \cup Makes(h)
  <2>1. i + 1 \in DOMAIN q /\ q[i + 1] = q2[i] /\ i + 1 # 1
    BY <1>1
  <2>2. q2[i].pane \in 1..last /\ q2[i].pane \notin known
    BY <1>4, <2>1 DEF QueueOK
  <2>3. New(h) => h.pane # q2[i].pane
    BY <1>1, <1>4, <2>1 DEF QueueOK
  <2> QED BY <2>2, <2>3 DEF Makes
<1>5. ASSUME NEW i \in DOMAIN q2, NEW j \in DOMAIN q2, New(q2[i]), New(q2[j]),
             q2[i].pane = q2[j].pane
      PROVE  i = j
  <2>1. i + 1 = j + 1
    BY <1>1, <1>5 DEF QueueOK
  <2> QED BY <1>1, <2>1
<1>6. ASSUME NEW i \in DOMAIN q2, q2[i].op = "close"
      PROVE  \/ q2[i].pane \in known \cup Makes(h)
             \/ \E j \in DOMAIN q2 : j < i /\ New(q2[j]) /\ q2[j].pane = q2[i].pane
  <2>1. i \in Nat \ {0} /\ i + 1 \in DOMAIN q /\ q[i + 1] = q2[i]
    BY <1>1
  <2>2. CASE q2[i].pane \in known
    BY <2>2
  <2>3. CASE \E j \in DOMAIN q : j < i + 1 /\ New(q[j]) /\ q[j].pane = q2[i].pane
    <3>1. PICK j \in DOMAIN q : j < i + 1 /\ New(q[j]) /\ q[j].pane = q2[i].pane
      BY <2>3
    <3>2. CASE j = 1
      BY <1>1, <3>1, <3>2 DEF Makes
    <3>3. CASE j # 1
      <4>1. j - 1 \in DOMAIN q2 /\ q2[j - 1] = q[j] /\ j \in Nat
        BY <1>1, <3>3
      <4>2. j - 1 < i
        BY <2>1, <3>1, <4>1
      <4> QED BY <3>1, <4>1, <4>2
    <3> QED BY <3>2, <3>3
  <2> QED BY <1>6, <2>1, <2>2, <2>3 DEF QueueOK
<1>7. QueueOK(q2, known \cup Makes(h), last)
  BY <1>4, <1>5, <1>6 DEF QueueOK
<1>8. New(h) => h.pane \in 1..last /\ h.pane \notin known
  BY <1>1 DEF QueueOK
<1>9. h.op = "close" => h.pane \in known
  <2>1. \A j \in DOMAIN q : ~(j < 1)
    BY <1>1
  <2> QED BY <1>1, <2>1 DEF QueueOK
<1> QED BY <1>2, <1>3, <1>7, <1>8, <1>9

-----------------------------------------------------------------------------
(* The steps.                                                              *)

LEMMA Starts ==
    ASSUME MultiplexerAssumption, Init
    PROVE  PanesInd
<1>1. /\ DOMAIN st.tabs = {Tab(1)} /\ st.tabs[Tab(1)] = [order |-> 0, child |-> 1]
      /\ DOMAIN st.panes = {1} /\ st.panes[1] = Tab(1)
      /\ DOMAIN st.splits = {} /\ st.closed = {}
  BY DEF Init
<1>2. 1 \in PaneIds /\ Tab(1) \in Tabs /\ Tab(1) \in Int /\ Tab(1) \notin PaneIds
  BY Ids
<1>3. st \in States
  <2>1. st.tabs \in Maps(Tabs, TabRec)
    <3>1. [order |-> 0, child |-> 1] \in TabRec
      BY DEF TabRec
    <3>2. st.tabs \in [{Tab(1)} -> TabRec] /\ {Tab(1)} \in SUBSET Tabs
      BY <1>2, <3>1 DEF Init
    <3> QED BY <3>2, MapsAre
  <2>2. st.panes \in Maps(PaneIds, Int)
    <3>1. st.panes \in [{1} -> Int] /\ {1} \in SUBSET PaneIds
      BY <1>2 DEF Init
    <3> QED BY <3>1, MapsAre
  <2>3. st.splits \in Maps(Splits, SplitRec)
    <3>1. st.splits \in [{} -> SplitRec] /\ {} \in SUBSET Splits
      BY DEF Init
    <3> QED BY <3>1, MapsAre
  <2>4. st.closed \in SUBSET PaneIds
    BY <1>1
  <2>5. PICK t, x, y, c : st = [tabs |-> t, panes |-> x, splits |-> y, closed |-> c]
    BY DEF Init
  <2> QED BY <2>1, <2>2, <2>3, <2>4, <2>5 DEF States, TabRec
<1>4. Kept(st)
  BY <1>3, ListsAre
<1>5. Sound(Lists(st), Names(st))
  <2>1. DOMAIN Lists(st) = {Tab(1)} /\ DOMAIN Names(st) = {1} /\ Names(st)[1] = Tab(1)
    BY <1>1, <1>4 DEF Kept
  <2>2. Lists(st)[Tab(1)] = <<1>>
    BY <1>1, <1>4 DEF Kept
  <2> QED BY <2>1, <2>2 DEF Sound
<1>6. Sized(st, {}) /\ MadeWith(st)
  BY <1>1 DEF Sized, MadeWith, Known
<1>7. Numbered(st, 1)
  BY <1>1 DEF Numbered
<1>8. Good(st)
  BY <1>3, <1>5, <1>6, <1>7 DEF Good, Tree
<1>9. Known(st) = {1}
  BY <1>1 DEF Known
<1>10. Types
  <2>1. alive = {1} /\ made = 1 /\ view = {} /\ link = "down" /\ life = "running"
    BY DEF Init
  <2>2. toServer = <<>> /\ toClient = <<>>
    BY DEF Init
  <2>3. toServer \in Seq(Requests) /\ Len(toServer) <= MaxQueue /\ toClient \in Seq(PaneIds)
    BY <2>2 DEF MultiplexerAssumption
  <2>4. Known(st) \subseteq 1..made
    BY <1>9, <2>1
  <2> QED BY <1>1, <1>2, <1>8, <2>1, <2>3, <2>4 DEF Types
<1>11. Protocol
  BY Empty DEF Init, Protocol
<1> QED BY <1>10, <1>11 DEF PanesInd

LEMMA StateSafe ==
    ASSUME MultiplexerAssumption, PanesInd
    PROVE  PanesInv
<1>1. Types /\ Good(st) /\ st \in States /\ Sound(Lists(st), Names(st)) /\ Sized(st, {})
  BY DEF PanesInd, Types, Good, Tree
<1>2. TypeOK
  <2>1. /\ DOMAIN st.panes \subseteq PaneIds /\ DOMAIN st.tabs \subseteq Tabs
        /\ DOMAIN st.splits \subseteq Splits /\ st.closed \subseteq PaneIds
    BY <1>1, StateIs
  <2>2. \A i \in DOMAIN toClient : toClient[i] \in PaneIds
    BY <1>1 DEF Types
  <2> QED BY <1>1, <2>1, <2>2 DEF TypeOK, Types
<1>3. /\ DOMAIN Lists(st) = DOMAIN st.tabs \cup DOMAIN st.splits
      /\ DOMAIN Names(st) = Nodes(st)
      /\ \A y \in DOMAIN st.tabs \cup DOMAIN st.splits : Lists(st)[y] = Kids(st, y)
      /\ \A x \in Nodes(st) : Names(st)[x] = Parent(st, x)
  BY DEF Lists, Names
<1>4. ForestSound
  <2>1. ASSUME NEW x \in Nodes(st)
        PROVE  /\ Parent(st, x) \in DOMAIN st.tabs \cup DOMAIN st.splits
               /\ Cardinality({i \in DOMAIN Kids(st, Parent(st, x)) :
                                   Kids(st, Parent(st, x))[i] = x}) = 1
    <3>1. PICK y : y = Parent(st, x)
      OBVIOUS
    <3>2. y \in DOMAIN Lists(st) /\ \E i \in DOMAIN Lists(st)[y] : Lists(st)[y][i] = x
      BY <1>1, <1>3, <3>1 DEF Sound
    <3>3. PICK i \in DOMAIN Kids(st, y) : Kids(st, y)[i] = x
      BY <1>3, <3>2
    <3>4. \A j \in DOMAIN Kids(st, y) : Kids(st, y)[j] = x => j = i
      BY <1>1, <1>3, <3>2, <3>3 DEF Sound
    <3>5. {j \in DOMAIN Kids(st, y) : Kids(st, y)[j] = x} = {i}
      BY <3>3, <3>4
    <3>6. Cardinality({i}) = 1
      BY FS_Singleton
    <3> QED BY <1>3, <3>1, <3>2, <3>5, <3>6
  <2>2. \A y \in DOMAIN st.tabs \cup DOMAIN st.splits :
           \A i \in DOMAIN Kids(st, y) :
              Kids(st, y)[i] \in Nodes(st) /\ Parent(st, Kids(st, y)[i]) = y
    BY <1>1, <1>3 DEF Sound
  <2>3. \A y \in DOMAIN st.splits :
           Len(st.splits[y].kids) >= 2 /\ Len(st.splits[y].sizes) = Len(st.splits[y].kids)
    BY <1>1 DEF Sized
  <2> QED BY <2>1, <2>2, <2>3 DEF ForestSound
<1>5. TabsOrdered
  <2>1. PICK n \in Nat : Numbered(st, n)
    BY <1>1 DEF Good
  <2>2. Cardinality(DOMAIN st.tabs) = n
    BY <2>1, TabsCounted
  <2>3. {st.tabs[t].order : t \in DOMAIN st.tabs} = 0..(n - 1)
    BY <2>1 DEF Numbered
  <2> QED BY <2>2, <2>3 DEF TabsOrdered
<1>6. ViewAgrees
  <2>1. SUFFICES ASSUME life = "running", link = "up", toServer = <<>>, toClient = <<>>
                 PROVE  view = DOMAIN st.panes
    BY DEF ViewAgrees
  <2>2. ViewOK(DOMAIN st.panes)
    BY <2>1 DEF PanesInd, Protocol
  <2>3. Ordered(toServer) = {} /\ Closing(toServer) = {} /\ Told(toClient) = {}
    BY <2>1, Empty
  <2> QED BY <2>2, <2>3 DEF ViewOK
<1> QED BY <1>2, <1>4, <1>5, <1>6 DEF PanesInv

LEMMA Sends ==
    ASSUME MultiplexerAssumption, PanesInd, NEW r \in Requests, Send(r),
           made' \in PaneIds, made <= made', view' \subseteq PaneIds,
           New(r) => r.pane \in 1..made' /\ r.pane \notin Known(st) \cup Ordered(toServer),
           r.op = "close" => r.pane \in Known(st) \cup Ordered(toServer),
           view' \subseteq DOMAIN st.panes \cup Ordered(toServer) \cup Makes(r) \cup Told(toClient),
           DOMAIN st.panes \cup Ordered(toServer) \cup Makes(r)
               \subseteq view' \cup Closing(toServer) \cup Ends(r),
           view' \cap (Closing(toServer) \cup Ends(r)) = {}
    PROVE  PanesInd'
<1>1. /\ life = "running" /\ link = "up" /\ Len(toServer) < MaxQueue
      /\ toServer' = Append(toServer, r)
      /\ st' = st /\ alive' = alive /\ toClient' = toClient /\ link' = link /\ life' = life
  BY DEF Send
<1>2. Types /\ Protocol
  BY <1>1 DEF PanesInd
<1>3. /\ made \in Nat /\ made' \in Nat /\ toServer \in Seq(Requests)
      /\ QueueOK(toServer, Known(st), made)
  BY <1>2 DEF Types, Protocol, PaneIds
<1>4. /\ toServer' \in Seq(Requests) /\ Len(toServer') = Len(toServer) + 1
      /\ QueueOK(toServer', Known(st), made')
      /\ Ordered(toServer') = Ordered(toServer) \cup Makes(r)
      /\ Closing(toServer') = Closing(toServer) \cup Ends(r)
  BY <1>1, <1>3, Queued
<1>5. Types'
  <2>1. Len(toServer') <= MaxQueue
    <3>1. Len(toServer) \in Nat
      BY <1>3
    <3> QED BY <1>1, <1>4, <3>1 DEF MultiplexerAssumption
  <2>2. Known(st) \subseteq 1..made'
    BY <1>2, <1>3 DEF Types
  <2> QED BY <1>1, <1>2, <1>4, <2>1, <2>2 DEF Types
<1>6. Protocol'
  <2>1. ViewOK(DOMAIN st.panes)'
    BY <1>1, <1>4 DEF ViewOK
  <2> QED BY <1>1, <1>2, <1>4, <2>1 DEF Protocol
<1> QED BY <1>5, <1>6 DEF PanesInd

LEMMA ClientSends ==
    ASSUME MultiplexerAssumption, PanesInd, NEW p \in PaneIds
    PROVE  /\ ClientUses(p) => PanesInd'
           /\ ClientNewTab => PanesInd'
           /\ \A v \in BOOLEAN : ClientNewSplit(p, v) => PanesInd'
           /\ ClientClosesPane(p) => PanesInd'
           /\ \A k \in {"escape", "x"} : ClientDebugKey(k) => PanesInd'
<1>1. Types /\ Known(st) \subseteq 1..made /\ made \in PaneIds /\ made \in Nat /\ view \subseteq PaneIds
  BY DEF PanesInd, Types, PaneIds
<1>2. ASSUME life = "running", link = "up"
      PROVE  /\ ViewOK(DOMAIN st.panes) /\ Told(toClient) \subseteq st.closed
             /\ Ordered(toServer) \subseteq 1..made
             /\ Closing(toServer) \subseteq Known(st) \cup Ordered(toServer)
  BY <1>2, QueueIs DEF PanesInd, Protocol
<1>3. ASSUME ClientUses(p) PROVE PanesInd'
  <2>1. PICK r : r = [op |-> "use", pane |-> p]
    OBVIOUS
  <2>2. r \in Requests /\ ~New(r) /\ r.op # "close"
    BY <2>1 DEF Requests, New
  <2>3. Send(r) /\ made' = made /\ view' = view /\ life = "running" /\ link = "up"
    BY <1>3, <2>1 DEF ClientUses, Send
  <2>4. Makes(r) = {} /\ Ends(r) = {}
    BY <2>2 DEF Makes, Ends
  <2> QED BY <1>1, <1>2, <2>2, <2>3, <2>4, Sends DEF ViewOK
<1>4. ASSUME NEW r \in Requests, New(r), r.op # "close", r.pane = made + 1, made < MaxPanes,
             made' = made + 1, view' = view \cup {made'}, Send(r)
      PROVE  PanesInd'
  <2>1. life = "running" /\ link = "up"
    BY <1>4 DEF Send
  <2>2. Makes(r) = {made + 1} /\ Ends(r) = {}
    BY <1>4 DEF Makes, Ends
  <2>3. made + 1 \in 1..made' /\ made + 1 \notin 1..made /\ made' \in PaneIds /\ made <= made'
    BY <1>1, <1>4 DEF PaneIds, MultiplexerAssumption
  <2>4. /\ made + 1 \notin Known(st) \cup Ordered(toServer)
        /\ made + 1 \notin Closing(toServer)
    BY <1>1, <1>2, <2>1, <2>3
  <2>5. view' \subseteq PaneIds
    BY <1>1, <1>4, <2>3
  <2> QED BY <1>2, <1>4, <2>1, <2>2, <2>3, <2>4, <2>5, Sends DEF ViewOK
<1>5. ASSUME ClientNewTab PROVE PanesInd'
  <2>1. PICK r : r = [op |-> "tab", pane |-> made + 1]
    OBVIOUS
  <2>2. made < MaxPanes /\ made' = made + 1 /\ view' = view \cup {made'} /\ Send(r)
    BY <1>5, <2>1 DEF ClientNewTab
  <2>3. made + 1 \in PaneIds
    BY <1>1, <2>2 DEF PaneIds, MultiplexerAssumption
  <2>4. r \in Requests /\ New(r) /\ r.op # "close" /\ r.pane = made + 1
    BY <2>1, <2>3 DEF Requests, New
  <2> QED BY <1>4, <2>2, <2>4
<1>6. ASSUME NEW v \in BOOLEAN, ClientNewSplit(p, v) PROVE PanesInd'
  <2>1. PICK r : r = [op |-> "split", pane |-> made + 1, src |-> p, vertical |-> v]
    OBVIOUS
  <2>2. made < MaxPanes /\ made' = made + 1 /\ view' = view \cup {made'} /\ Send(r)
    BY <1>6, <2>1 DEF ClientNewSplit
  <2>3. made + 1 \in PaneIds
    BY <1>1, <2>2 DEF PaneIds, MultiplexerAssumption
  <2>4. r \in Requests /\ New(r) /\ r.op # "close" /\ r.pane = made + 1
    BY <2>1, <2>3 DEF Requests, New
  <2> QED BY <1>4, <2>2, <2>4
<1>7. ASSUME ClientClosesPane(p) PROVE PanesInd'
  <2>1. PICK r : r = [op |-> "close", pane |-> p]
    OBVIOUS
  <2>2. r \in Requests /\ ~New(r) /\ r.op = "close" /\ r.pane = p
    BY <2>1 DEF Requests, New
  <2>3. /\ Send(r) /\ made' = made /\ p \in view /\ view' = view \ {p}
        /\ life = "running" /\ link = "up"
    BY <1>7, <2>1 DEF ClientClosesPane, Send
  <2>4. Makes(r) = {} /\ Ends(r) = {p}
    BY <2>2 DEF Makes, Ends
  <2>5. p \in Known(st) \cup Ordered(toServer)
    BY <1>2, <2>3 DEF ViewOK, Known
  <2> QED BY <1>1, <1>2, <2>2, <2>3, <2>4, <2>5, Sends DEF ViewOK
<1>8. ASSUME NEW k \in {"escape", "x"}, ClientDebugKey(k) PROVE PanesInd'
  <2>1. PICK r : r = [op |-> k, pane |-> 0]
    OBVIOUS
  <2>2. r \in Requests /\ ~New(r) /\ r.op # "close"
    BY <2>1 DEF Requests, New
  <2>3. Send(r) /\ made' = made /\ view' = view /\ life = "running" /\ link = "up"
    BY <1>8, <2>1 DEF ClientDebugKey, Send
  <2>4. Makes(r) = {} /\ Ends(r) = {}
    BY <2>2 DEF Makes, Ends
  <2> QED BY <1>1, <1>2, <2>2, <2>3, <2>4, Sends DEF ViewOK
<1> QED BY <1>3, <1>5, <1>6, <1>7, <1>8

LEMMA ClientSteps ==
    ASSUME MultiplexerAssumption, PanesInd, Client
    PROVE  PanesInd'
<1>1. CASE ClientReceives
  <2>1. PICK h, q : h = Head(toClient) /\ q = Tail(toClient)
    OBVIOUS
  <2>2. /\ link = "up" /\ toClient # <<>> /\ view' = view \ {h} /\ toClient' = q
        /\ st' = st /\ alive' = alive /\ made' = made /\ toServer' = toServer
        /\ link' = link /\ life' = life
    BY <1>1, <2>1 DEF ClientReceives
  <2>3. Types /\ toClient \in Seq(PaneIds)
    BY DEF PanesInd, Types
  <2>4. /\ h \in PaneIds /\ q \in Seq(PaneIds) /\ 1 \in DOMAIN toClient /\ toClient[1] = h
        /\ \A i \in DOMAIN q : i + 1 \in DOMAIN toClient /\ q[i] = toClient[i + 1]
        /\ \A i \in DOMAIN toClient : i # 1 => i - 1 \in DOMAIN q /\ q[i - 1] = toClient[i]
    BY <2>1, <2>2, <2>3, TailIs
  <2>5. Types'
    BY <2>2, <2>3, <2>4 DEF Types
  <2>6. ASSUME life = "running" PROVE Protocol'
    <3>1. Protocol /\ ViewOK(DOMAIN st.panes)
      BY <2>2, <2>6 DEF PanesInd, Protocol
    <3>2. Told(q) \subseteq Told(toClient) /\ Told(toClient) \subseteq Told(q) \cup {h}
          /\ h \in Told(toClient)
      BY <2>4 DEF Told
    <3>3. h \in st.closed /\ h \notin DOMAIN st.panes
      BY <2>3, <3>1, <3>2 DEF Protocol, Types, Good, Tree, MadeWith
    <3>4. h \notin Ordered(toServer)
      BY <3>1, <3>3, QueueIs DEF Protocol, Known
    <3>5. ViewOK(DOMAIN st.panes)'
      BY <2>2, <3>1, <3>2, <3>3, <3>4 DEF ViewOK
    <3> QED BY <2>2, <3>1, <3>2, <3>5 DEF Protocol
  <2> QED BY <2>2, <2>5, <2>6 DEF PanesInd
<1>2. CASE ClientDies
  <2>1. /\ life = "running" /\ link' = "gone" /\ view' = {} /\ toClient' = <<>>
        /\ st' = st /\ alive' = alive /\ made' = made /\ toServer' = toServer /\ life' = life
    BY <1>2 DEF ClientDies
  <2>2. Types /\ Protocol
    BY <2>1 DEF PanesInd
  <2>3. toClient' \in Seq(PaneIds) /\ Told(toClient') = {}
    BY <2>1, Empty
  <2>4. Types'
    BY <2>1, <2>2, <2>3 DEF Types
  <2>5. Protocol'
    BY <2>1, <2>2, <2>3 DEF Protocol
  <2> QED BY <2>4, <2>5 DEF PanesInd
<1> QED BY <1>1, <1>2, ClientSends, Ids DEF Client

\* htmd reads the first request.
LEMMA Reads ==
    ASSUME MultiplexerAssumption, PanesInd, NEW op, Next1(op), NEW h, h = Head(toServer),
           NEW q, q = Tail(toServer)
    PROVE  /\ life = "running" /\ Types /\ Protocol /\ h.op = op /\ h \in Requests
           /\ q \in Seq(Requests) /\ Len(q) <= MaxQueue
           /\ Ordered(toServer) = Ordered(q) \cup Makes(h)
           /\ Closing(toServer) = Closing(q) \cup Ends(h)
           /\ QueueOK(q, Known(st) \cup Makes(h), made)
           /\ New(h) => h.pane \in 1..made /\ h.pane \notin Known(st)
           /\ h.op = "close" => h.pane \in Known(st)
<1>1. life = "running" /\ toServer # <<>> /\ h.op = op
  BY DEF Next1
<1>2. Types /\ Protocol
  BY <1>1 DEF PanesInd
<1>3. /\ toServer \in Seq(Requests) /\ Len(toServer) <= MaxQueue
      /\ QueueOK(toServer, Known(st), made)
  BY <1>2 DEF Types, Protocol
<1>4. h \in Requests /\ q \in Seq(Requests) /\ Len(q) < Len(toServer) /\ Len(q) \in Nat
  BY <1>1, <1>3, TailIs
<1>5. Len(q) <= MaxQueue
  <2>1. Len(toServer) \in Nat
    BY <1>3
  <2> QED BY <1>3, <1>4, <2>1 DEF MultiplexerAssumption
<1>6. /\ Ordered(toServer) = Ordered(q) \cup Makes(h)
      /\ Closing(toServer) = Closing(q) \cup Ends(h)
      /\ QueueOK(q, Known(st) \cup Makes(h), made)
      /\ New(h) => h.pane \in 1..made /\ h.pane \notin Known(st)
      /\ h.op = "close" => h.pane \in Known(st)
  BY <1>1, <1>3, Served
<1> QED BY <1>1, <1>2, <1>4, <1>5, <1>6

\* htmd, or its serving of requests, ends: nothing is promised but the types.
LEMMA HtmdEnds ==
    ASSUME PanesInd, toServer' \in Seq(Requests), Len(toServer') <= MaxQueue,
           UNCHANGED <<st, alive, made, toClient, view, link>>,
           life' \in {"stopped", "stale", "collapse", "lost"}
    PROVE  PanesInd'
  BY DEF PanesInd, Types

\* A request that makes a pane.
LEMMA MakesPane ==
    ASSUME MultiplexerAssumption, PanesInd, NEW op \in {"tab", "split"}, Next1(op),
           NEW h, h = Head(toServer), toServer' = Tail(toServer),
           Good(st'), DOMAIN st'.panes = DOMAIN st.panes \cup {h.pane}, st'.closed = st.closed,
           alive' = alive \cup {h.pane}, UNCHANGED <<made, toClient, view, link, life>>
    PROVE  PanesInd'
<1>1. /\ life = "running" /\ Types /\ Protocol /\ h.op = op /\ h \in Requests
      /\ toServer' \in Seq(Requests) /\ Len(toServer') <= MaxQueue
      /\ Ordered(toServer) = Ordered(toServer') \cup Makes(h)
      /\ Closing(toServer) = Closing(toServer') \cup Ends(h)
      /\ QueueOK(toServer', Known(st) \cup Makes(h), made)
      /\ New(h) => h.pane \in 1..made /\ h.pane \notin Known(st)
  BY Reads
<1>2. New(h) /\ Makes(h) = {h.pane} /\ Ends(h) = {}
  BY <1>1 DEF New, Makes, Ends
<1>3. Known(st') = Known(st) \cup {h.pane}
  BY DEF Known
<1>4. Types'
  BY <1>1, <1>2, <1>3 DEF Types
<1>5. link = "up" => ViewOK(DOMAIN st.panes)'
  BY <1>1, <1>2 DEF ViewOK, Protocol
<1>6. link # "down"
  <2>1. toServer # <<>>
    BY DEF Next1
  <2> QED BY <1>1, <2>1 DEF Protocol
<1>7. Protocol'
  BY <1>1, <1>2, <1>3, <1>5, <1>6 DEF Protocol
<1> QED BY <1>4, <1>7 DEF PanesInd

LEMMA ServerSteps ==
    ASSUME MultiplexerAssumption, PanesInd, Request
    PROVE  PanesInd'
<1>1. PICK h, q : h = Head(toServer) /\ q = Tail(toServer)
  OBVIOUS
<1>2. CASE ServerUses
  <2>1. Next1("use") /\ toServer' = q
    BY <1>1, <1>2 DEF ServerUses
  <2>2. /\ Types /\ Protocol /\ h.op = "use" /\ q \in Seq(Requests) /\ Len(q) <= MaxQueue
        /\ Ordered(toServer) = Ordered(q) \cup Makes(h)
        /\ Closing(toServer) = Closing(q) \cup Ends(h)
        /\ QueueOK(q, Known(st) \cup Makes(h), made)
    BY <1>1, <2>1, Reads
  <2>3. CASE UNCHANGED <<st, alive, made, toClient, view, link, life>>
    <3>1. Makes(h) = {} /\ Ends(h) = {}
      BY <2>2 DEF Makes, Ends, New
    <3>2. Types'
      BY <2>1, <2>2, <2>3 DEF Types
    <3>3. link = "up" => ViewOK(DOMAIN st.panes)'
      BY <2>1, <2>2, <2>3, <3>1 DEF ViewOK, Protocol
    <3>4. link # "down"
      <4>1. toServer # <<>>
        BY <2>1 DEF Next1
      <4> QED BY <2>2, <4>1 DEF Protocol
    <3>5. Protocol'
      BY <2>1, <2>2, <2>3, <3>1, <3>3, <3>4 DEF Protocol
    <3> QED BY <3>2, <3>5 DEF PanesInd
  <2>4. CASE Dies("stale")
    BY <2>1, <2>2, <2>4, HtmdEnds DEF Dies
  <2> QED BY <1>2, <2>3, <2>4 DEF ServerUses
<1>3. CASE ServerNewTab
  <2>1. /\ Next1("tab") /\ toServer' = q /\ st' = NewTab(st, h.pane)
        /\ alive' = alive \cup {h.pane} /\ UNCHANGED <<made, toClient, view, link, life>>
    BY <1>1, <1>3 DEF ServerNewTab
  <2>2. Types /\ h \in Requests /\ h.op = "tab" /\ (New(h) => h.pane \notin Known(st))
    BY <1>1, <2>1, Reads
  <2>3. h.pane \in PaneIds /\ h.pane \notin Known(st) /\ Good(st)
    BY <2>2, RequestIs DEF New, Types
  <2>4. Good(st') /\ DOMAIN st'.panes = DOMAIN st.panes \cup {h.pane} /\ st'.closed = st.closed
    BY <2>1, <2>3, NewTabGood
  <2> QED BY <1>1, <2>1, <2>4, MakesPane
<1>4. CASE ServerNewSplit
  <2>1. Next1("split") /\ toServer' = q
    BY <1>1, <1>4 DEF ServerNewSplit
  <2>2. /\ Types /\ h \in Requests /\ h.op = "split" /\ (New(h) => h.pane \notin Known(st))
        /\ q \in Seq(Requests) /\ Len(q) <= MaxQueue
    BY <1>1, <2>1, Reads
  <2>3. /\ h.pane \in PaneIds /\ h.pane \notin Known(st) /\ h.vertical \in BOOLEAN /\ Good(st)
    BY <2>2, RequestIs DEF New, Types
  <2>4. CASE h.src \in DOMAIN st.panes
    <3>1. /\ st' = NewSplit(st, h.src, h.pane, h.vertical) /\ alive' = alive \cup {h.pane}
          /\ UNCHANGED <<made, toClient, view, link, life>>
      BY <1>1, <1>4, <2>4 DEF ServerNewSplit
    <3>2. Good(st') /\ DOMAIN st'.panes = DOMAIN st.panes \cup {h.pane} /\ st'.closed = st.closed
      BY <2>3, <2>4, <3>1, NewSplitGood
    <3> QED BY <1>1, <2>1, <3>1, <3>2, MakesPane
  <2>5. CASE h.src \notin DOMAIN st.panes
    <3>1. Dies("stale")
      BY <1>1, <1>4, <2>5 DEF ServerNewSplit
    <3> QED BY <2>1, <2>2, <3>1, HtmdEnds DEF Dies
  <2> QED BY <2>4, <2>5
<1>5. CASE ServerClosesPane
  <2>1. Next1("close") /\ toServer' = q
    BY <1>1, <1>5 DEF ServerClosesPane
  <2>2. /\ life = "running" /\ Types /\ Protocol /\ h.op = "close"
        /\ q \in Seq(Requests) /\ Len(q) <= MaxQueue
        /\ Ordered(toServer) = Ordered(q) \cup Makes(h)
        /\ Closing(toServer) = Closing(q) \cup Ends(h)
        /\ QueueOK(q, Known(st) \cup Makes(h), made) /\ h.pane \in Known(st)
    BY <1>1, <2>1, Reads
  <2>3. PICK p : p = h.pane
    OBVIOUS
  <2>4. Makes(h) = {} /\ Ends(h) = {p}
    BY <2>2, <2>3 DEF Makes, Ends, New
  <2>5. CASE p \notin st.closed /\ CollapseFails(st, p)
    <3>1. Dies("collapse")
      BY <1>1, <1>5, <2>3, <2>5 DEF ServerClosesPane
    <3> QED BY <2>1, <2>2, <3>1, HtmdEnds DEF Dies
  <2>6. CASE ~(p \notin st.closed /\ CollapseFails(st, p))
    <3>1. /\ st' = (IF p \in st.closed THEN st ELSE ClosePane(st, p)) /\ alive' = alive \ {p}
          /\ life' \in {"stopped", life} /\ UNCHANGED <<made, toClient, view, link>>
      BY <1>1, <1>5, <2>3, <2>6 DEF ServerClosesPane
    <3>2. Good(st) /\ DOMAIN st.panes \cap st.closed = {} /\ p \in DOMAIN st.panes \cup st.closed
      BY <2>2, <2>3 DEF Types, Good, Tree, MadeWith, Known
    <3>3. /\ Good(st') /\ DOMAIN st'.panes = DOMAIN st.panes \ {p}
          /\ st'.closed = st.closed \cup {p}
      <4>1. CASE p \in st.closed
        BY <3>1, <3>2, <4>1
      <4>2. CASE p \notin st.closed
        BY <2>6, <3>1, <3>2, <4>2, ClosePaneGood
      <4> QED BY <4>1, <4>2
    <3>4. Known(st') = Known(st)
      BY <3>2, <3>3 DEF Known
    <3>5. Types'
      <4>1. life' \in {"running", "stopped", "stale", "collapse", "lost"}
        BY <2>2, <3>1
      <4>2. alive' \subseteq DOMAIN st'.panes
        BY <2>2, <3>1, <3>3 DEF Types
      <4> QED BY <2>1, <2>2, <3>1, <3>3, <3>4, <4>1, <4>2 DEF Types
    <3>6. p \notin Ordered(toServer)
      BY <2>2, <2>3, QueueIs DEF Protocol
    <3>7. link = "up" => ViewOK(DOMAIN st.panes)'
      BY <2>1, <2>2, <2>4, <3>1, <3>3, <3>6 DEF ViewOK, Protocol
    <3>8. link # "down"
      <4>1. toServer # <<>>
        BY <2>1 DEF Next1
      <4> QED BY <2>2, <4>1 DEF Protocol
    <3>9. Protocol'
      BY <2>1, <2>2, <2>4, <3>1, <3>3, <3>4, <3>7, <3>8 DEF Protocol
    <3> QED BY <3>5, <3>9 DEF PanesInd
  <2> QED BY <2>5, <2>6
<1>6. CASE ServerDisconnects
  <2>1. /\ Next1("escape") /\ link' = "down" /\ view' = {}
        /\ toServer' = <<>> /\ toClient' = <<>>
        /\ st' = st /\ alive' = alive /\ made' = made /\ life' = life
    BY <1>6 DEF ServerDisconnects
  <2>2. Types
    BY DEF PanesInd
  <2>3. /\ toServer' \in Seq(Requests) /\ Len(toServer') <= MaxQueue
        /\ toClient' \in Seq(PaneIds)
    BY <2>1 DEF MultiplexerAssumption
  <2>4. QueueOK(toServer', Known(st), made) /\ Told(toClient') = {}
    BY <2>1, Empty
  <2>5. Types'
    BY <2>1, <2>2, <2>3 DEF Types
  <2>6. Protocol'
    BY <2>1, <2>4 DEF Protocol
  <2> QED BY <2>5, <2>6 DEF PanesInd
<1>7. CASE ServerQuits
  <2>1. /\ Next1("x") /\ toServer' = q /\ life' = "stopped"
        /\ UNCHANGED <<st, alive, made, toClient, view, link>>
    BY <1>1, <1>7 DEF ServerQuits
  <2>2. q \in Seq(Requests) /\ Len(q) <= MaxQueue
    BY <1>1, <2>1, Reads
  <2> QED BY <2>1, <2>2, HtmdEnds
<1> QED BY <1>2, <1>3, <1>4, <1>5, <1>6, <1>7 DEF Request

\* update() closes a pane whose shell has ended, and tells the editor.
LEMMA UpdateStep ==
    ASSUME MultiplexerAssumption, PanesInd, NEW p \in PaneIds, UpdateClosesPane(p)
    PROVE  PanesInd'
<1>1. life = "running" /\ link = "up" /\ p \in DOMAIN st.panes /\ p \notin alive
  BY DEF UpdateClosesPane
<1>2. Types /\ Protocol /\ Good(st) /\ toClient \in Seq(PaneIds)
  BY <1>1 DEF PanesInd, Types
<1>3. CASE CollapseFails(st, p)
  <2>1. Dies("collapse") /\ toServer' = toServer
    BY <1>3 DEF UpdateClosesPane
  <2> QED BY <1>2, <2>1, HtmdEnds DEF Dies, Types
<1>4. CASE ~CollapseFails(st, p)
  <2>1. /\ st' = ClosePane(st, p) /\ toClient' = Append(toClient, p)
        /\ alive' = alive /\ made' = made /\ toServer' = toServer /\ view' = view
        /\ link' = link /\ life' = life
    BY <1>4 DEF UpdateClosesPane
  <2>2. /\ Good(st') /\ DOMAIN st'.panes = DOMAIN st.panes \ {p}
        /\ st'.closed = st.closed \cup {p}
    BY <1>1, <1>2, <1>4, <2>1, ClosePaneGood
  <2>3. Known(st') = Known(st)
    BY <1>1, <2>2 DEF Known
  <2>4. toClient' \in Seq(PaneIds) /\ Told(toClient') = Told(toClient) \cup {p}
    <3>1. PICK n \in Nat :
             /\ toClient' \in Seq(PaneIds) /\ DOMAIN toClient' = DOMAIN toClient \cup {n}
             /\ \A i \in DOMAIN toClient : toClient'[i] = toClient[i]
             /\ toClient'[n] = p
      BY <1>2, <2>1, AppendIs
    <3> QED BY <3>1 DEF Told
  <2>5. Types'
    BY <1>1, <1>2, <2>1, <2>2, <2>3, <2>4 DEF Types
  <2>6. ViewOK(DOMAIN st.panes)'
    BY <1>1, <1>2, <2>1, <2>2, <2>4 DEF ViewOK, Protocol
  <2>7. Protocol'
    BY <1>1, <1>2, <2>1, <2>2, <2>3, <2>4, <2>6 DEF Protocol
  <2> QED BY <2>5, <2>7 DEF PanesInd
<1> QED BY <1>3, <1>4

LEMMA PanesStep ==
    ASSUME MultiplexerAssumption, PanesInd, [Next]_vars
    PROVE  PanesInd'
<1>1. CASE \E p \in PaneIds : ShellExits(p)
  <2>1. /\ alive' \subseteq alive /\ UNCHANGED <<st, made, toServer, toClient, view, link, life>>
    BY <1>1 DEF ShellExits
  <2>2. Types'
    BY <2>1 DEF PanesInd, Types
  <2>3. life = "running" => Protocol'
    BY <2>1 DEF PanesInd, Protocol, ViewOK
  <2> QED BY <2>1, <2>2, <2>3 DEF PanesInd
<1>2. CASE Accept
  <2>1. /\ life = "running" /\ link = "down" /\ link' = "up" /\ view' = DOMAIN st.panes
        /\ UNCHANGED <<st, alive, made, toServer, toClient, life>>
    BY <1>2 DEF Accept
  <2>2. Types /\ Protocol /\ toServer = <<>> /\ toClient = <<>>
    BY <2>1 DEF PanesInd, Protocol
  <2>3. Ordered(toServer) = {} /\ Closing(toServer) = {} /\ Told(toClient) = {}
    BY <2>2, Empty
  <2>4. DOMAIN st.panes \subseteq PaneIds
    BY <2>2, StateIs DEF Types, Good, Tree
  <2>5. Types'
    BY <2>1, <2>2, <2>4 DEF Types
  <2>6. Protocol'
    BY <2>1, <2>2, <2>3 DEF Protocol, ViewOK
  <2> QED BY <2>5, <2>6 DEF PanesInd
<1>3. CASE ServerLosesClient
  <2>1. Dies("lost") /\ toServer' = toServer
    BY <1>3 DEF ServerLosesClient
  <2>2. toServer \in Seq(Requests) /\ Len(toServer) <= MaxQueue
    BY DEF PanesInd, Types
  <2> QED BY <2>1, <2>2, HtmdEnds DEF Dies
<1>4. CASE UNCHANGED vars
  <2>1. UNCHANGED <<st, alive, made, toServer, toClient, view, link, life>>
    BY <1>4 DEF vars
  <2> QED BY <2>1 DEF PanesInd, Types, Protocol, ViewOK
<1> QED BY <1>1, <1>2, <1>3, <1>4, ClientSteps, ServerSteps, UpdateStep DEF Next

\* The tabs, splits and panes of MultiplexerState stay one forest with its tabs
\* numbered from 0, whatever the order in which the editor and update() split
\* and close, and an editor to which nothing is on the way shows the panes htmd
\* has: for any number of panes and of requests on the way.
THEOREM PanesCorrect == Spec => []PanesInv
<1>1. MultiplexerAssumption
  BY HtmAssumption
<1>2. Init => PanesInd
  BY <1>1, Starts
<1>3. PanesInd /\ [Next]_vars => PanesInd'
  BY <1>1, PanesStep
<1>4. PanesInd => PanesInv
  BY <1>1, StateSafe
<1> QED BY <1>2, <1>3, <1>4, PTL DEF Spec

-----------------------------------------------------------------------------
(* The lines of a pane.  Sequences by induction, as facts about sets of    *)
(* them.                                                                   *)

\* A set of numbers has a least one.
LEMMA LeastOf == ASSUME NEW S, S \subseteq Nat, S # {} PROVE \E x \in S : \A y \in S : x <= y
<1>1. PICK x \in S : \A y \in S : ~ (<<y, x>> \in OpToRel(<, Nat))
  BY WFMin, NatLessThanWellFounded
<1>2. \A y \in S : ~ (y < x)
  BY <1>1 DEF OpToRel
<1> QED BY <1>2

\* A set with 0 and the next of each of its numbers has all of them.
LEMMA Counted ==
    ASSUME NEW T, 0 \in T, \A n \in T : n \in Nat => n + 1 \in T
    PROVE  Nat \subseteq T
<1>1. PICK U : U = Nat \ T
  OBVIOUS
<1>2. SUFFICES ASSUME U # {} PROVE FALSE
  BY <1>1
<1>3. PICK m \in U : \A k \in U : m <= k
  BY <1>1, <1>2, LeastOf
<1>4. m \in Nat /\ m # 0 /\ m - 1 \in Nat /\ (m - 1) + 1 = m /\ m - 1 \notin U
  BY <1>1, <1>3
<1> QED BY <1>1, <1>3, <1>4

\* A set with the empty sequence that is closed under Append has all of them.
LEMMA Grows ==
    ASSUME NEW S, NEW T, <<>> \in T, \A q \in Seq(S), e \in S : q \in T => Append(q, e) \in T
    PROVE  Seq(S) \subseteq T
<1>1. PICK N : N = {n \in Nat : \A q \in Seq(S) : Len(q) = n => q \in T}
  OBVIOUS
<1>2. 0 \in N
  BY <1>1, EmptySeq
<1>3. ASSUME NEW n \in N, n \in Nat PROVE n + 1 \in N
  <2>1. SUFFICES ASSUME NEW q \in Seq(S), Len(q) = n + 1 PROVE q \in T
    BY <1>1, <1>3
  <2>2. q # <<>>
    BY <1>3, <2>1
  <2>3. PICK r \in Seq(S), e \in S : q = Append(r, e)
    BY <2>2, SequenceEmptyOrAppend
  <2>4. Len(r) = n
    BY <1>3, <2>1, <2>3
  <2> QED BY <1>1, <2>3, <2>4
<1>4. Nat \subseteq N
  BY <1>2, <1>3, Counted
<1> QED BY <1>1, <1>4

-----------------------------------------------------------------------------
(* FlattenSeq: the characters of the lines in a row.                       *)

Flat(q) == Lines!FlattenSeq(q)

\* The function FlattenSeq chooses.
Flattens(q, n, f) == f = [i \in 1..n |-> IF i = 1 THEN q[i] ELSE f[i - 1] \o q[i]]

LEMMA FlattensExists == ASSUME NEW q, NEW n \in Nat PROVE \E f : Flattens(q, n, f)
<1>1. PICK N : N = {m \in Nat : \E f : Flattens(q, m, f)}
  OBVIOUS
<1>2. 0 \in N
  <2>1. PICK f : f = [i \in 1..0 |-> 0]
    OBVIOUS
  <2>2. f = [i \in 1..0 |-> IF i = 1 THEN q[i] ELSE f[i - 1] \o q[i]]
    BY <2>1
  <2> QED BY <1>1, <2>2 DEF Flattens
<1>3. ASSUME NEW m \in N, m \in Nat PROVE m + 1 \in N
  <2>1. PICK f : Flattens(q, m, f)
    BY <1>1
  <2> DEFINE G(i) == IF i = 1 THEN q[i] ELSE f[i - 1] \o q[i]
  <2>2. PICK g : g = [i \in 1..(m + 1) |-> G(i)]
    OBVIOUS
  <2>3. ASSUME NEW i \in 1..m PROVE g[i] = f[i]
    <3>1. i \in 1..(m + 1)
      BY <1>3
    <3>2. f[i] = G(i)
      BY <2>1 DEF Flattens
    <3> QED BY <2>2, <3>1, <3>2
  <2>4. ASSUME NEW i \in 1..(m + 1) PROVE G(i) = IF i = 1 THEN q[i] ELSE g[i - 1] \o q[i]
    <3>1. i # 1 => i - 1 \in 1..m
      BY <1>3
    <3> QED BY <2>3, <3>1
  <2>5. g = [i \in 1..(m + 1) |-> IF i = 1 THEN q[i] ELSE g[i - 1] \o q[i]]
    BY <2>2, <2>4
  <2>6. \E h : Flattens(q, m + 1, h)
    BY <2>5 DEF Flattens
  <2> QED BY <1>1, <1>3, <2>6
<1> QED BY <1>1, <1>2, <1>3, Counted

LEMMA FlattenIs ==
    ASSUME NEW q, NEW n \in Nat, Len(q) = n, n # 0
    PROVE  \E f : Flattens(q, n, f) /\ Flat(q) = f[n]
<1> DEFINE f == CHOOSE f : f = [i \in 1..Len(q) |-> IF i = 1 THEN q[i] ELSE f[i - 1] \o q[i]]
<1>1. \E g : Flattens(q, Len(q), g)
  BY FlattensExists
<1>2. Flattens(q, Len(q), f)
  BY <1>1 DEF Flattens
<1>3. Flat(q) = f[Len(q)]
  BY DEF Flat, Lines!FlattenSeq
<1> QED BY <1>2, <1>3

\* What it comes to at one place depends on what is before that place only.
LEMMA FlattensSame ==
    ASSUME NEW q, NEW r, NEW n \in Nat, NEW m \in Nat, n <= m, NEW f, NEW g,
           Flattens(q, n, f), Flattens(r, m, g), \A i \in 1..n : q[i] = r[i]
    PROVE  \A i \in 1..n : f[i] = g[i]
<1>1. PICK N : N = {i \in Nat : i \in 1..n => f[i] = g[i]}
  OBVIOUS
<1>2. 0 \in N
  BY <1>1
<1>3. ASSUME NEW k \in N, k \in Nat PROVE k + 1 \in N
  <2>1. SUFFICES ASSUME k + 1 \in 1..n PROVE f[k + 1] = g[k + 1]
    BY <1>1, <1>3
  <2>2. k + 1 \in 1..m /\ k + 1 \in Nat
    BY <1>3, <2>1
  <2>3. f[k + 1] = IF k + 1 = 1 THEN q[k + 1] ELSE f[(k + 1) - 1] \o q[k + 1]
    BY <2>1 DEF Flattens
  <2>4. g[k + 1] = IF k + 1 = 1 THEN r[k + 1] ELSE g[(k + 1) - 1] \o r[k + 1]
    BY <2>2 DEF Flattens
  <2>5. k + 1 # 1 => (k + 1) - 1 = k /\ f[k] = g[k]
    BY <1>1, <1>3, <2>1
  <2> QED BY <2>1, <2>3, <2>4, <2>5
<1>4. Nat \subseteq N
  BY <1>2, <1>3, Counted
<1> QED BY <1>1, <1>4

LEMMA FlatAppend ==
    ASSUME NEW S, NEW q \in Seq(Seq(S)), NEW l \in Seq(S)
    PROVE  Flat(Append(q, l)) = IF q = <<>> THEN l ELSE Flat(q) \o l
<1>1. PICK r, n : r = Append(q, l) /\ n = Len(q)
  OBVIOUS
<1>2. n \in Nat /\ Len(r) = n + 1 /\ r[n + 1] = l /\ \A i \in 1..n : q[i] = r[i]
  BY <1>1
<1>3. n + 1 \in Nat /\ n + 1 # 0 /\ n <= n + 1 /\ (n + 1) - 1 = n
  BY <1>2
<1>4. PICK g : Flattens(r, n + 1, g) /\ Flat(r) = g[n + 1]
  BY <1>2, <1>3, FlattenIs
<1>5. g[n + 1] = IF n + 1 = 1 THEN r[n + 1] ELSE g[(n + 1) - 1] \o r[n + 1]
  <2>1. n + 1 \in 1..(n + 1)
    BY <1>2
  <2> QED BY <1>4, <2>1 DEF Flattens
<1>6. CASE n = 0
  <2>1. q = <<>>
    BY <1>1, <1>6, EmptySeq
  <2>2. g[n + 1] = l
    BY <1>2, <1>5, <1>6
  <2> QED BY <1>1, <1>4, <2>1, <2>2
<1>7. CASE n # 0
  <2>1. PICK f : Flattens(q, n, f) /\ Flat(q) = f[n]
    BY <1>1, <1>2, <1>7, FlattenIs
  <2>2. \A i \in 1..n : f[i] = g[i]
    BY <1>2, <1>3, <1>4, <2>1, FlattensSame
  <2>3. f[n] = g[n]
    BY <1>2, <1>7, <2>2
  <2>4. q # <<>>
    BY <1>1, <1>7
  <2>5. n + 1 # 1
    BY <1>2, <1>7
  <2>6. g[n + 1] = g[n] \o l
    BY <1>2, <1>3, <1>5, <2>5
  <2> QED BY <1>1, <1>4, <2>1, <2>3, <2>4, <2>6
<1> QED BY <1>6, <1>7

LEMMA FlatEmpty == Flat(<<>>) = <<>>
  BY DEF Flat, Lines!FlattenSeq

LEMMA FlatIs ==
    ASSUME NEW S
    PROVE  /\ \A q \in Seq(Seq(S)) : Flat(q) \in Seq(S)
           /\ \A q \in Seq(Seq(S)), l \in Seq(S) :
                 Flat(Append(q, l)) = Flat(q) \o l
<1>1. PICK T : T = {q \in Seq(Seq(S)) : Flat(q) \in Seq(S)}
  OBVIOUS
<1>2. <<>> \in T
  <2>1. <<>> \in Seq(Seq(S)) /\ <<>> \in Seq(S)
    OBVIOUS
  <2> QED BY <1>1, <2>1, FlatEmpty
<1>3. ASSUME NEW q \in Seq(Seq(S)), NEW l \in Seq(S), q \in T PROVE Append(q, l) \in T
  <2>1. Flat(q) \in Seq(S)
    BY <1>1, <1>3
  <2>2. Flat(q) \o l \in Seq(S)
    BY <2>1, ConcatProperties
  <2>3. Flat(Append(q, l)) \in Seq(S)
    BY <2>2, FlatAppend
  <2>4. Append(q, l) \in Seq(Seq(S))
    BY AppendProperties
  <2> QED BY <1>1, <2>3, <2>4
<1>4. Seq(Seq(S)) \subseteq T
  BY <1>2, <1>3, Grows
<1>5. ASSUME NEW q \in Seq(Seq(S)), NEW l \in Seq(S)
      PROVE  Flat(Append(q, l)) = Flat(q) \o l
  <2>1. CASE q = <<>>
    <3>1. Flat(q) = <<>>
      BY <2>1, FlatEmpty
    <3>2. <<>> \o l = l
      BY ConcatEmptySeq
    <3> QED BY <2>1, <3>1, <3>2, FlatAppend
  <2>2. CASE q # <<>>
    BY <2>2, FlatAppend
  <2> QED BY <2>1, <2>2
<1> QED BY <1>1, <1>4, <1>5

LEMMA FlatConcat ==
    ASSUME NEW S, NEW a \in Seq(Seq(S)), NEW b \in Seq(Seq(S))
    PROVE  Flat(a \o b) = Flat(a) \o Flat(b)
<1>1. PICK T : T = {q \in Seq(Seq(S)) : Flat(a \o q) = Flat(a) \o Flat(q)}
  OBVIOUS
<1>2. <<>> \in T
  <2>1. Flat(a) \in Seq(S)
    BY FlatIs
  <2>2. a \o <<>> = a /\ Flat(a) \o <<>> = Flat(a) /\ <<>> \in Seq(Seq(S))
    BY <2>1, ConcatEmptySeq, EmptySeq
  <2> QED BY <1>1, <2>2, FlatEmpty
<1>3. ASSUME NEW q \in Seq(Seq(S)), NEW l \in Seq(S), q \in T PROVE Append(q, l) \in T
  <2>1. PICK x, y, ab : x = Flat(a) /\ y = Flat(q) /\ ab = a \o q
    OBVIOUS
  <2>2. x \in Seq(S) /\ y \in Seq(S) /\ ab \in Seq(Seq(S)) /\ Flat(ab) = x \o y
    BY <1>1, <1>3, <2>1, FlatIs, ConcatProperties
  <2>3. a \o Append(q, l) = Append(ab, l) /\ Append(q, l) \in Seq(Seq(S))
    BY <2>1
  <2>4. Flat(Append(ab, l)) = (x \o y) \o l /\ Flat(Append(q, l)) = y \o l
    BY <2>1, <2>2, FlatIs
  <2>5. (x \o y) \o l = x \o (y \o l)
    BY <2>2, ConcatAssociative
  <2> QED BY <1>1, <2>1, <2>3, <2>4, <2>5
<1>4. Seq(Seq(S)) \subseteq T
  BY <1>2, <1>3, Grows
<1> QED BY <1>1, <1>4

-----------------------------------------------------------------------------
(* The characters of the output without its newlines.                      *)

Single(c) == IF c = 0 THEN <<>> ELSE <<c>>
One(s) == [i \in DOMAIN s |-> Single(s[i])]

LEMMA OneIs ==
    ASSUME NEW S, NEW s \in Seq(S)
    PROVE  /\ One(s) \in Seq(Seq(S \ {0}))
           /\ \A c \in S : /\ Single(c) \in Seq(S \ {0})
                           /\ One(Append(s, c)) = Append(One(s), Single(c))
<1>1. ASSUME NEW d \in S PROVE Single(d) \in Seq(S \ {0})
  <2>1. <<>> \in Seq(S \ {0})
    OBVIOUS
  <2>2. d # 0 => <<d>> \in Seq(S \ {0})
    OBVIOUS
  <2> QED BY <2>1, <2>2 DEF Single
<1>2. PICK n : n \in Nat /\ n = Len(s)
  OBVIOUS
<1>3. DOMAIN s = 1..n /\ \A i \in 1..n : s[i] \in S
  BY <1>2
<1>4. One(s) \in [1..n -> Seq(S \ {0})]
  BY <1>1, <1>3 DEF One
<1>5. One(s) \in Seq(Seq(S \ {0})) /\ Len(One(s)) = n
  BY <1>2, <1>4, IsASeq
<1>6. ASSUME NEW c \in S PROVE One(Append(s, c)) = Append(One(s), Single(c))
  <2>1. PICK r, one : r = Append(s, c) /\ one = Single(c) /\ one \in Seq(S \ {0})
    BY <1>1
  <2>2. DOMAIN r = 1..(n + 1) /\ r[n + 1] = c /\ \A i \in 1..n : r[i] = s[i]
    BY <1>2, <2>1
  <2>3. PICK a, b : a = One(r) /\ b = Append(One(s), one)
    OBVIOUS
  <2>4. a = [i \in 1..(n + 1) |-> Single(r[i])]
    BY <2>2, <2>3 DEF One
  <2>5. /\ b \in Seq(Seq(S \ {0})) /\ DOMAIN b = 1..(n + 1) /\ b[n + 1] = one
        /\ \A i \in 1..n : b[i] = One(s)[i]
    BY <1>2, <1>5, <2>1, <2>3, AppendProperties
  <2>6. ASSUME NEW i \in 1..(n + 1) PROVE a[i] = b[i]
    <3>1. CASE i = n + 1
      BY <2>1, <2>2, <2>4, <2>5, <3>1
    <3>2. CASE i \in 1..n
      <4>1. One(s)[i] = Single(s[i])
        BY <1>3, <3>2 DEF One
      <4> QED BY <2>2, <2>4, <2>5, <3>2, <4>1
    <3> QED BY <1>2, <3>1, <3>2
  <2>7. a = b
    BY <2>4, <2>5, <2>6
  <2> QED BY <2>1, <2>3, <2>7
<1> QED BY <1>1, <1>5, <1>6

LEMMA CharsIs ==
    ASSUME NEW S, NEW s \in Seq(S)
    PROVE  /\ Lines!Chars(s) \in Seq(S \ {0})
           /\ \A c \in S : Lines!Chars(Append(s, c)) =
                 IF c = 0 THEN Lines!Chars(s) ELSE Append(Lines!Chars(s), c)
<1>1. \A x : Lines!Chars(x) = Flat(One(x))
  BY DEF Lines!Chars, One, Single, Flat
<1>2. One(s) \in Seq(Seq(S \ {0}))
  BY OneIs
<1>3. PICK f : f = Flat(One(s)) /\ f \in Seq(S \ {0})
  BY <1>2, FlatIs
<1>4. ASSUME NEW c \in S
      PROVE  Lines!Chars(Append(s, c)) =
                 IF c = 0 THEN Lines!Chars(s) ELSE Append(Lines!Chars(s), c)
  <2>1. Single(c) \in Seq(S \ {0}) /\ One(Append(s, c)) = Append(One(s), Single(c))
    BY OneIs
  <2>2. Lines!Chars(Append(s, c)) = f \o Single(c)
    BY <1>1, <1>2, <1>3, <2>1, FlatIs
  <2>3. CASE c = 0
    <3>1. f \o <<>> = f
      BY <1>3, ConcatEmptySeq
    <3> QED BY <1>1, <1>3, <2>2, <2>3, <3>1 DEF Single
  <2>4. CASE c # 0
    <3>1. f \o <<c>> = Append(f, c)
      BY <1>3, <2>4, AppendIsConcat
    <3> QED BY <1>1, <1>3, <2>2, <2>4, <3>1 DEF Single
  <2> QED BY <2>3, <2>4
<1> QED BY <1>1, <1>3, <1>4

LEMMA CharsEmpty == Lines!Chars(<<>>) = <<>>
<1>1. One(<<>>) = <<>>
  BY DEF One
<1>2. Lines!Chars(<<>>) = Flat(One(<<>>))
  BY DEF Lines!Chars, One, Single, Flat
<1> QED BY <1>1, <1>2, FlatEmpty

LEMMA CharsConcat ==
    ASSUME NEW S, NEW s \in Seq(S), NEW t \in Seq(S)
    PROVE  Lines!Chars(s \o t) = Lines!Chars(s) \o Lines!Chars(t)
<1>1. PICK T : T = {q \in Seq(S) : Lines!Chars(s \o q) = Lines!Chars(s) \o Lines!Chars(q)}
  OBVIOUS
<1>2. PICK x : x = Lines!Chars(s) /\ x \in Seq(S \ {0})
  BY CharsIs
<1>3. <<>> \in T
  <2>1. s \o <<>> = s /\ x \o <<>> = x /\ <<>> \in Seq(S)
    BY <1>2, ConcatEmptySeq, EmptySeq
  <2> QED BY <1>1, <1>2, <2>1, CharsEmpty
<1>4. ASSUME NEW q \in Seq(S), NEW e \in S, q \in T PROVE Append(q, e) \in T
  <2>1. PICK y, sq : y = Lines!Chars(q) /\ sq = s \o q
    OBVIOUS
  <2>2. y \in Seq(S \ {0}) /\ sq \in Seq(S) /\ Lines!Chars(sq) = x \o y
    BY <1>1, <1>2, <1>4, <2>1, CharsIs, ConcatProperties
  <2>3. s \o Append(q, e) = Append(sq, e) /\ Append(q, e) \in Seq(S)
    BY <2>1
  <2>4. /\ Lines!Chars(Append(sq, e)) = IF e = 0 THEN x \o y ELSE Append(x \o y, e)
        /\ Lines!Chars(Append(q, e)) = IF e = 0 THEN y ELSE Append(y, e)
    <3>1. \A z \in Seq(S) : Lines!Chars(Append(z, e)) =
             IF e = 0 THEN Lines!Chars(z) ELSE Append(Lines!Chars(z), e)
      BY CharsIs
    <3> QED BY <2>1, <2>2, <3>1
  <2>5. Append(x \o y, e) = x \o Append(y, e)
    BY <1>2, <2>2
  <2> QED BY <1>1, <1>2, <2>3, <2>4, <2>5
<1>5. Seq(S) \subseteq T
  BY <1>3, <1>4, Grows
<1> QED BY <1>1, <1>5

\* A line is what it is without newlines.
LEMMA CharsLine ==
    ASSUME NEW S, NEW s \in Seq(S \ {0})
    PROVE  Lines!Chars(s) = s
<1>1. PICK T : T = {q \in Seq(S \ {0}) : Lines!Chars(q) = q}
  OBVIOUS
<1>2. <<>> \in T
  BY <1>1, CharsEmpty, EmptySeq
<1>3. ASSUME NEW q \in Seq(S \ {0}), NEW e \in S \ {0}, q \in T PROVE Append(q, e) \in T
  <2>1. Lines!Chars(Append(q, e)) = Append(Lines!Chars(q), e)
    BY CharsIs
  <2>2. Append(q, e) \in Seq(S \ {0})
    BY AppendProperties
  <2> QED BY <1>1, <1>3, <2>1, <2>2
<1>4. Seq(S \ {0}) \subseteq T
  BY <1>2, <1>3, Grows
<1> QED BY <1>1, <1>4

LEMMA CharsFewer ==
    ASSUME NEW S, NEW s \in Seq(S)
    PROVE  Len(Lines!Chars(s)) \in 0..Len(s)
<1>1. PICK T : T = {q \in Seq(S) : Len(Lines!Chars(q)) \in 0..Len(q)}
  OBVIOUS
<1>2. <<>> \in T
  BY <1>1, CharsEmpty, EmptySeq
<1>3. ASSUME NEW q \in Seq(S), NEW e \in S, q \in T PROVE Append(q, e) \in T
  <2>1. PICK x : x = Lines!Chars(q) /\ x \in Seq(S \ {0})
    BY CharsIs
  <2>2. Lines!Chars(Append(q, e)) = IF e = 0 THEN x ELSE Append(x, e)
    BY <2>1, CharsIs
  <2>3. Len(Append(q, e)) = Len(q) + 1 /\ Append(q, e) \in Seq(S) /\ Len(q) \in Nat
    OBVIOUS
  <2>4. Len(x) \in 0..Len(q) /\ (e # 0 => Len(Append(x, e)) = Len(x) + 1)
    BY <1>1, <1>3, <2>1
  <2> QED BY <1>1, <2>2, <2>3, <2>4
<1>4. Seq(S) \subseteq T
  BY <1>2, <1>3, Grows
<1> QED BY <1>1, <1>4

-----------------------------------------------------------------------------
(* split(), and the lines a read adds.                                     *)

LEMMA FrontLast ==
    ASSUME NEW S, NEW r \in Seq(S), NEW e \in S, NEW q, q = Append(r, e)
    PROVE  Lines!Front(q) = r /\ Lines!Last(q) = e
  BY DEF Lines!Front, Lines!Last

\* The function Pieces is defined with: one empty line, then a character at a time.
Begin == <<<<>>>>
Longer(ps, c) == IF c = 0 THEN Append(ps, <<>>)
                 ELSE Append(Lines!Front(ps), Append(Lines!Last(ps), c))
Broken(s, n, f) == f = [i \in 0..n |-> IF i = 0 THEN Begin ELSE Longer(f[i - 1], s[i])]

LEMMA BrokenExists == ASSUME NEW s, NEW n \in Nat PROVE \E f : Broken(s, n, f)
<1>1. PICK N : N = {m \in Nat : \E f : Broken(s, m, f)}
  OBVIOUS
<1>2. 0 \in N
  <2>1. PICK f : f = [i \in 0..0 |-> Begin]
    OBVIOUS
  <2>2. f = [i \in 0..0 |-> IF i = 0 THEN Begin ELSE Longer(f[i - 1], s[i])]
    BY <2>1
  <2> QED BY <1>1, <2>2 DEF Broken
<1>3. ASSUME NEW m \in N, m \in Nat PROVE m + 1 \in N
  <2>1. PICK f : Broken(s, m, f)
    BY <1>1
  <2> DEFINE G(i) == IF i = 0 THEN Begin ELSE Longer(f[i - 1], s[i])
  <2>2. PICK g : g = [i \in 0..(m + 1) |-> G(i)]
    OBVIOUS
  <2>3. ASSUME NEW i \in 0..m PROVE g[i] = f[i]
    <3>1. i \in 0..(m + 1)
      BY <1>3
    <3>2. f[i] = G(i)
      BY <2>1 DEF Broken
    <3> QED BY <2>2, <3>1, <3>2
  <2>4. ASSUME NEW i \in 0..(m + 1)
        PROVE  G(i) = IF i = 0 THEN Begin ELSE Longer(g[i - 1], s[i])
    <3>1. i # 0 => i - 1 \in 0..m
      BY <1>3
    <3> QED BY <2>3, <3>1
  <2>5. g = [i \in 0..(m + 1) |-> IF i = 0 THEN Begin ELSE Longer(g[i - 1], s[i])]
    BY <2>2, <2>4
  <2>6. \E h : Broken(s, m + 1, h)
    BY <2>5 DEF Broken
  <2> QED BY <1>1, <1>3, <2>6
<1> QED BY <1>1, <1>2, <1>3, Counted

LEMMA PiecesIs ==
    ASSUME NEW s, NEW n \in Nat, Len(s) = n
    PROVE  \E f : Broken(s, n, f) /\ Lines!Pieces(s) = f[n]
<1> DEFINE f == CHOOSE f : f = [i \in 0..Len(s) |->
                                   IF i = 0 THEN Begin ELSE Longer(f[i - 1], s[i])]
<1>1. \E g : Broken(s, Len(s), g)
  BY BrokenExists
<1>2. Broken(s, Len(s), f)
  BY <1>1 DEF Broken
<1>3. Lines!Pieces(s) = f[Len(s)]
  BY DEF Lines!Pieces, Begin, Longer
<1> QED BY <1>2, <1>3

\* One character more: a new line, or the last line goes on.
LongerOK(S, ps, c, r) ==
    /\ r \in Seq(Seq(S \ {0})) /\ r # <<>>
    /\ Flat(r) = IF c = 0 THEN Flat(ps) ELSE Append(Flat(ps), c)
    /\ Len(r) = IF c = 0 THEN Len(ps) + 1 ELSE Len(ps)

LEMMA LongerIs ==
    ASSUME NEW S, NEW ps \in Seq(Seq(S \ {0})), ps # <<>>, NEW c \in S
    PROVE  LongerOK(S, ps, c, Longer(ps, c))
<1>0. PICK r : r = Longer(ps, c)
  OBVIOUS
<1>1. PICK V : V = S \ {0}
  OBVIOUS
<1>2. CASE c = 0
  <2>1. r = Append(ps, <<>>) /\ <<>> \in Seq(V) /\ ps \in Seq(Seq(V))
    BY <1>0, <1>1, <1>2, EmptySeq DEF Longer
  <2>2. r \in Seq(Seq(V)) /\ r # <<>> /\ Len(r) = Len(ps) + 1
    BY <2>1, AppendProperties
  <2>3. Flat(r) = Flat(ps) \o <<>>
    BY <2>1, FlatIs
  <2>4. Flat(ps) \o <<>> = Flat(ps)
    BY <2>1, FlatIs, ConcatEmptySeq
  <2> QED BY <1>0, <1>1, <1>2, <2>2, <2>3, <2>4 DEF LongerOK
<1>3. CASE c # 0
  <2>0. ps \in Seq(Seq(V)) /\ c \in V
    BY <1>1, <1>3
  <2>1. PICK a \in Seq(Seq(V)), l \in Seq(V) : ps = Append(a, l)
    BY <2>0, SequenceEmptyOrAppend
  <2>2. PICK l2 : l2 = Append(l, c)
    OBVIOUS
  <2>3. l2 \in Seq(V)
    BY <2>0, <2>2, AppendProperties
  <2>4. r = Append(a, l2)
    BY <1>0, <1>3, <2>1, <2>2, FrontLast DEF Longer
  <2>5. r \in Seq(Seq(V)) /\ r # <<>> /\ Len(r) = Len(ps)
    <3>1. PICK W : W = Seq(V) /\ a \in Seq(W) /\ l \in W /\ l2 \in W
      BY <2>1, <2>3
    <3>2. r \in Seq(W) /\ r # <<>> /\ Len(r) = Len(a) + 1
      BY <2>4, <3>1, AppendProperties
    <3>3. Len(ps) = Len(a) + 1
      BY <2>1, <3>1, AppendProperties
    <3> QED BY <3>1, <3>2, <3>3
  <2>6. Flat(r) = Flat(a) \o l2 /\ Flat(ps) = Flat(a) \o l
    BY <2>1, <2>3, <2>4, FlatIs
  <2>7. PICK x : x = Flat(a) /\ x \in Seq(V)
    BY FlatIs
  <2>8. x \o Append(l, c) = Append(x \o l, c)
    BY <2>0, <2>7
  <2>9. Flat(r) = Append(Flat(ps), c)
    BY <2>2, <2>6, <2>7, <2>8
  <2> QED BY <1>0, <1>1, <1>3, <2>5, <2>9 DEF LongerOK
<1> QED BY <1>2, <1>3

\* What the first i characters are split into.
PieceOK(S, s, i, ps) ==
    /\ ps \in Seq(Seq(S \ {0})) /\ ps # <<>>
    /\ Flat(ps) = Lines!Chars(SubSeq(s, 1, i))
    /\ Len(ps) = i - Len(Flat(ps)) + 1

LEMMA PiecesOK ==
    ASSUME NEW S, NEW s \in Seq(S), NEW n \in Nat, n = Len(s), NEW f, Broken(s, n, f)
    PROVE  \A i \in 0..n : PieceOK(S, s, i, f[i])
<1>1. PICK N : N = {i \in Nat : i \in 0..n => PieceOK(S, s, i, f[i])}
  OBVIOUS
<1>2. 0 \in N
  <2>1. f[0] = Begin
    BY DEF Broken
  <2>2. Begin \in Seq(Seq(S \ {0})) /\ Begin # <<>> /\ Len(Begin) = 1
    BY DEF Begin
  <2>3. Flat(Begin) = <<>>
    <3>1. <<>> \in Seq(S \ {0}) /\ <<>> \in Seq(Seq(S \ {0})) /\ Begin = Append(<<>>, <<>>)
      BY DEF Begin
    <3>2. Flat(Begin) = Flat(<<>>) \o <<>>
      BY <3>1, FlatIs
    <3> QED BY <3>1, <3>2, FlatEmpty, ConcatEmptySeq
  <2>4. SubSeq(s, 1, 0) = <<>>
    BY SubSeqEmpty
  <2>5. Len(<<>>) = 0
    OBVIOUS
  <2>6. PieceOK(S, s, 0, Begin)
    <3>1. Flat(Begin) = Lines!Chars(SubSeq(s, 1, 0))
      BY <2>3, <2>4, CharsEmpty
    <3>2. Len(Begin) = 0 - Len(Flat(Begin)) + 1
      BY <2>2, <2>3, <2>5
    <3> QED BY <2>2, <3>1, <3>2 DEF PieceOK
  <2> QED BY <1>1, <2>1, <2>6
<1>3. ASSUME NEW k \in N, k \in Nat PROVE k + 1 \in N
  <2>1. SUFFICES ASSUME k + 1 \in 0..n PROVE PieceOK(S, s, k + 1, f[k + 1])
    BY <1>1, <1>3
  <2>2. k \in 0..n /\ k + 1 \in 1..n /\ k + 1 # 0 /\ (k + 1) - 1 = k
    BY <1>3, <2>1
  <2>3. PICK ps, c : ps = f[k] /\ c = s[k + 1]
    OBVIOUS
  <2>4. PieceOK(S, s, k, ps) /\ c \in S
    BY <1>1, <1>3, <2>2, <2>3
  <2>5. f[k + 1] = Longer(ps, c)
    BY <2>1, <2>2, <2>3 DEF Broken
  <2>6. PICK r : r = Longer(ps, c)
    OBVIOUS
  <2>7. /\ r \in Seq(Seq(S \ {0})) /\ r # <<>>
        /\ Flat(r) = IF c = 0 THEN Flat(ps) ELSE Append(Flat(ps), c)
        /\ Len(r) = IF c = 0 THEN Len(ps) + 1 ELSE Len(ps)
    <3>1. ps \in Seq(Seq(S \ {0})) /\ ps # <<>>
      BY <2>4 DEF PieceOK
    <3>2. c \in S
      BY <2>4
    <3>3. LongerOK(S, ps, c, Longer(ps, c))
      BY <3>1, <3>2, LongerIs
    <3> QED BY <2>6, <3>3 DEF LongerOK
  <2>8. PICK x : x = SubSeq(s, 1, k)
    OBVIOUS
  <2>9. x \in Seq(S) /\ SubSeq(s, 1, k + 1) = Append(x, c)
    <3>1. x \in Seq(S)
      BY <1>3, <2>2, <2>8, SubSeqProperties
    <3>2. SubSeq(s, 1, k + 1) = x \o <<c>>
      BY <2>2, <2>3, <2>8, SubSeqRecursiveSecond
    <3> QED BY <2>4, <3>1, <3>2, AppendIsConcat
  <2>10. Lines!Chars(Append(x, c)) = IF c = 0 THEN Lines!Chars(x) ELSE Append(Lines!Chars(x), c)
    BY <2>4, <2>9, CharsIs
  <2>11. PICK y : y = Flat(ps) /\ y \in Seq(S \ {0}) /\ y = Lines!Chars(x)
    BY <2>4, <2>8, FlatIs DEF PieceOK
  <2>12. Flat(r) = Lines!Chars(SubSeq(s, 1, k + 1))
    BY <2>7, <2>9, <2>10, <2>11
  <2>13. Len(r) = (k + 1) - Len(Flat(r)) + 1
    <3>1. Len(ps) = k - Len(y) + 1 /\ Len(y) \in Nat
      BY <2>4, <2>11 DEF PieceOK
    <3>2. CASE c = 0
      BY <1>3, <2>7, <2>11, <3>1, <3>2
    <3>3. CASE c # 0
      <4>1. Len(Append(y, c)) = Len(y) + 1
        BY <2>4, <2>11, <3>3
      <4> QED BY <1>3, <2>7, <2>11, <3>1, <3>3, <4>1
    <3> QED BY <3>2, <3>3
  <2> QED BY <2>5, <2>6, <2>7, <2>12, <2>13 DEF PieceOK
<1>4. Nat \subseteq N
  BY <1>2, <1>3, Counted
<1> QED BY <1>1, <1>4

\* The tokens of a read hold its characters, one token for each line break at
\* most and one for what follows the last.
LEMMA TokensIs ==
    ASSUME NEW S, NEW s \in Seq(S), s # <<>>, NEW t, t = Lines!Tokens(s)
    PROVE  /\ t \in Seq(Seq(S \ {0})) /\ t # <<>> /\ Flat(t) = Lines!Chars(s)
           /\ Len(t) <= Len(s) - Len(Lines!Chars(s)) + 1
<1>1. PICK n \in Nat : n = Len(s) /\ n >= 1
  OBVIOUS
<1>2. PICK f : Broken(s, n, f) /\ Lines!Pieces(s) = f[n]
  BY <1>1, PiecesIs
<1>3. PieceOK(S, s, n, f[n]) /\ PieceOK(S, s, n - 1, f[n - 1])
  BY <1>1, <1>2, PiecesOK
<1>4. SubSeq(s, 1, n) = s
  BY <1>1, SubSeqFull
<1>5. CASE s[n] # 0
  <2>1. t = f[n]
    BY <1>1, <1>2, <1>5 DEF Lines!Tokens, Lines!Last
  <2>2. Flat(t) = Lines!Chars(s) /\ Len(t) = n - Len(Lines!Chars(s)) + 1
    BY <1>3, <1>4, <2>1 DEF PieceOK
  <2>3. Len(Lines!Chars(s)) \in Nat
    BY CharsFewer
  <2> QED BY <1>1, <1>3, <2>1, <2>2, <2>3 DEF PieceOK
<1>6. CASE s[n] = 0
  <2>1. t = Lines!Front(f[n])
    BY <1>1, <1>2, <1>6 DEF Lines!Tokens, Lines!Last
  <2>2. PICK ps : ps = f[n - 1] /\ ps \in Seq(Seq(S \ {0})) /\ ps # <<>>
    BY <1>3 DEF PieceOK
  <2>3. f[n] = Append(ps, <<>>)
    <3>1. n \in 0..n /\ n # 0
      BY <1>1
    <3> QED BY <1>2, <1>6, <2>2, <3>1 DEF Broken, Longer
  <2>4. t = ps
    <3>1. PICK W, e : W = Seq(S \ {0}) /\ e = <<>> /\ e \in W
      BY EmptySeq
    <3>2. ps \in Seq(W) /\ f[n] = Append(ps, e)
      BY <2>2, <2>3, <3>1
    <3> QED BY <2>1, <3>1, <3>2, FrontLast
  <2>5. Flat(ps) = Lines!Chars(s)
    <3>1. PICK x : x = SubSeq(s, 1, n - 1) /\ x \in Seq(S)
      <4>1. 1 \in Int /\ n - 1 \in Int /\ \A i \in 1..(n - 1) : s[i] \in S
        BY <1>1
      <4>2. SubSeq(s, 1, n - 1) \in Seq(S)
        BY <4>1, SubSeqProperties
      <4> QED BY <4>2
    <3>2. s = Append(x, 0) /\ 0 \in S
      <4>1. SubSeq(s, 1, n) = x \o <<0>>
        BY <1>1, <1>6, <3>1, SubSeqRecursiveSecond
      <4>2. 0 \in S
        BY <1>1, <1>6
      <4> QED BY <1>4, <3>1, <4>1, <4>2, AppendIsConcat
    <3>3. Lines!Chars(s) = Lines!Chars(x)
      BY <3>1, <3>2, CharsIs
    <3> QED BY <1>3, <2>2, <3>1, <3>3 DEF PieceOK
  <2>6. Len(ps) = (n - 1) - Len(Lines!Chars(s)) + 1 /\ Len(Lines!Chars(s)) \in Nat
    <3>1. Len(Lines!Chars(s)) \in Nat
      BY CharsFewer
    <3>2. Len(ps) = (n - 1) - Len(Flat(ps)) + 1
      BY <1>3, <2>2 DEF PieceOK
    <3> QED BY <2>5, <3>1, <3>2
  <2> QED BY <1>1, <2>2, <2>4, <2>5, <2>6
<1> QED BY <1>5, <1>6

LEMMA HeadFirst ==
    ASSUME NEW S, NEW t \in Seq(S), t # <<>>
    PROVE  \E h \in S, u \in Seq(S) :
              h = Head(t) /\ u = Tail(t) /\ t = <<h>> \o u /\ Len(t) = Len(u) + 1
<1>1. PICK h, u : h = Head(t) /\ u = Tail(t)
  OBVIOUS
<1>2. h \in S /\ u \in Seq(S) /\ Len(u) = Len(t) - 1 /\ Len(t) \in Nat
  BY <1>1
<1>3. t = <<h>> \o u
  BY <1>1, <1>2
<1>4. Len(t) = Len(u) + 1
  BY <1>2
<1>5. h \in S /\ u \in Seq(S)
  BY <1>2
<1> WITNESS h \in S, u \in Seq(S)
<1> QED BY <1>1, <1>3, <1>4

LEMMA FlatOne ==
    ASSUME NEW V, NEW h \in Seq(V)
    PROVE  Flat(<<h>>) = h /\ <<h>> \in Seq(Seq(V))
<1>1. PICK W : W = Seq(V)
  OBVIOUS
<1>2. <<h>> \in Seq(W) /\ <<h>> = Append(<<>>, h) /\ <<>> \in Seq(W)
  BY <1>1
<1>3. Flat(Append(<<>>, h)) = Flat(<<>>) \o h
  BY <1>1, <1>2, FlatIs
<1>4. <<>> \o h = h
  BY ConcatEmptySeq
<1> QED BY <1>1, <1>2, <1>3, <1>4, FlatEmpty

\* Concatenation as an operator of its own, which the provers leave alone.
Cat(a, b) == a \o b

LEMMA CatIn ==
    ASSUME NEW V, NEW a \in Seq(V), NEW b \in Seq(V)
    PROVE  Cat(a, b) \in Seq(V)
  BY ConcatProperties DEF Cat

LEMMA CatAssoc ==
    ASSUME NEW V, NEW a \in Seq(V), NEW b \in Seq(V), NEW c \in Seq(V)
    PROVE  Cat(Cat(a, b), c) = Cat(a, Cat(b, c))
  BY ConcatAssociative DEF Cat

LEMMA Regroup ==
    ASSUME NEW V, NEW a \in Seq(V), NEW b \in Seq(V), NEW c \in Seq(V), NEW d \in Seq(V)
    PROVE  Cat(Cat(a, Cat(b, c)), d) = Cat(Cat(a, b), Cat(c, d))
<1>1. Cat(a, b) \in Seq(V)
  BY CatIn
<1>2. Cat(Cat(a, b), c) = Cat(a, Cat(b, c))
  BY CatAssoc
<1>3. Cat(Cat(Cat(a, b), c), d) = Cat(Cat(a, b), Cat(c, d))
  BY <1>1, CatAssoc
<1> QED BY <1>2, <1>3

\* The first token continues the last line: no character is lost, and the lines
\* are one fewer than the two together.
AddedOK(V, b, t, a) ==
    /\ a \in Seq(Seq(V)) /\ Flat(a) = Cat(Flat(b), Flat(t))
    /\ Len(a) = IF b = <<>> THEN Len(t) ELSE Len(b) + Len(t) - 1

LEMMA AddedIs ==
    ASSUME NEW V, NEW b \in Seq(Seq(V)), NEW t \in Seq(Seq(V)), t # <<>>,
           NEW a, a = Lines!Added(b, t)
    PROVE  AddedOK(V, b, t, a)
<1>1. PICK x, y : x = Flat(b) /\ y = Flat(t) /\ x \in Seq(V) /\ y \in Seq(V)
  BY FlatIs
<1>2. CASE b = <<>>
  <2>1. a = t
    BY <1>2 DEF Lines!Added
  <2>2. x = <<>> /\ <<>> \o y = y
    BY <1>1, <1>2, FlatEmpty, ConcatEmptySeq
  <2> QED BY <1>1, <1>2, <2>1, <2>2 DEF AddedOK, Cat
<1>3. CASE b # <<>>
  <2>1. PICK r \in Seq(Seq(V)), l \in Seq(V) : b = Append(r, l)
    BY <1>3, SequenceEmptyOrAppend
  <2>2. PICK h \in Seq(V), u \in Seq(Seq(V)) :
           h = Head(t) /\ u = Tail(t) /\ t = <<h>> \o u /\ Len(t) = Len(u) + 1
    BY HeadFirst
  <2>3. PICK l2 : l2 = l \o h /\ l2 \in Seq(V)
    BY <2>1, <2>2, ConcatProperties
  <2>4. PICK c : c = Append(r, l2) /\ c \in Seq(Seq(V)) /\ Len(c) = Len(b)
    <3>1. \A z \in Seq(V) : /\ Append(r, z) \in Seq(Seq(V))
                            /\ Len(Append(r, z)) = Len(r) + 1
      BY AppendProperties
    <3> QED BY <2>1, <2>3, <3>1
  <2>5. a = c \o u
    BY <1>3, <2>1, <2>2, <2>3, <2>4, FrontLast DEF Lines!Added
  <2>6. a \in Seq(Seq(V)) /\ Len(a) = Len(c) + Len(u) /\ Len(u) \in Nat /\ Len(c) \in Nat
    <3>1. c \o u \in Seq(Seq(V)) /\ Len(c \o u) = Len(c) + Len(u)
      BY <2>4, ConcatProperties
    <3> QED BY <2>4, <2>5, <3>1, LenProperties
  <2>7. PICK fr, fu : fr = Flat(r) /\ fu = Flat(u) /\ fr \in Seq(V) /\ fu \in Seq(V)
    BY <2>1, <2>2, FlatIs
  <2>8. x = fr \o l /\ Flat(c) = fr \o l2
    BY <1>1, <2>1, <2>3, <2>4, <2>7, FlatIs
  <2>9. y = h \o fu
    <3>1. Flat(<<h>>) = h /\ <<h>> \in Seq(Seq(V))
      BY FlatOne
    <3>2. Flat(<<h>> \o u) = Flat(<<h>>) \o Flat(u)
      BY <3>1, FlatConcat
    <3> QED BY <1>1, <2>2, <2>7, <3>1, <3>2
  <2>10. Flat(a) = (fr \o l2) \o fu
    BY <2>4, <2>5, <2>7, <2>8, FlatConcat
  <2>11. (fr \o l2) \o fu = x \o y
    <3>1. fr \in Seq(V) /\ l \in Seq(V) /\ h \in Seq(V) /\ fu \in Seq(V)
      BY <2>1, <2>2, <2>7
    <3>2. x = fr \o l /\ l2 = l \o h /\ y = h \o fu
      BY <2>3, <2>8, <2>9
    <3>3. Cat(Cat(fr, Cat(l, h)), fu) = Cat(Cat(fr, l), Cat(h, fu))
      BY <3>1, Regroup
    <3> QED BY <3>2, <3>3 DEF Cat
  <2>12. Flat(a) = Flat(b) \o Flat(t)
    BY <1>1, <2>10, <2>11
  <2>13. Len(a) = Len(b) + Len(t) - 1
    BY <2>2, <2>4, <2>6
  <2> QED BY <1>3, <2>6, <2>12, <2>13 DEF AddedOK, Cat
<1> QED BY <1>2, <1>3

\* Where a sequence of lines is cut in two.
Before(b, k) == SubSeq(b, 1, k)
After(b, k) == SubSeq(b, k + 1, Len(b))

LEMMA CutIs ==
    ASSUME NEW V, NEW b \in Seq(Seq(V)), NEW k \in 0..Len(b),
           NEW p, p = Before(b, k), NEW r, r = After(b, k)
    PROVE  /\ p \in Seq(Seq(V)) /\ r \in Seq(Seq(V)) /\ Len(r) = Len(b) - k
           /\ Flat(b) = Cat(Flat(p), Flat(r))
<1>0. p = SubSeq(b, 1, k) /\ r = SubSeq(b, k + 1, Len(b))
  BY DEF Before, After
<1>1. PICK W, n : W = Seq(V) /\ n = Len(b) /\ n \in Nat /\ b \in Seq(W)
  BY LenProperties
<1>2. k \in Int /\ k + 1 \in Int /\ n \in Int /\ k <= n /\ 0 <= k
  BY <1>1
<1>3. \A i \in 1..n : b[i] \in W
  BY <1>1
<1>4. p \in Seq(W)
  <2>1. \A i \in 1..k : b[i] \in W
    BY <1>2, <1>3
  <2> QED BY <1>0, <1>2, <2>1, SubSeqProperties
<1>5. r \in Seq(W) /\ Len(r) = n - k
  <2>1. \A i \in (k + 1)..n : b[i] \in W
    BY <1>2, <1>3
  <2>2. r = SubSeq(b, k + 1, n)
    BY <1>0, <1>1
  <2>3. r \in Seq(W) /\ Len(r) = IF k + 1 <= n THEN n - (k + 1) + 1 ELSE 0
    BY ONLY <1>2, <2>1, <2>2, SubSeqProperties
  <2> QED BY <1>2, <2>3
<1>6. p \o r = SubSeq(b, 1, n)
  <2>1. 1 \in 1..(Len(b) + 1) /\ k \in (1 - 1)..Len(b) /\ n \in k..Len(b)
    BY <1>1, <1>2
  <2>2. SubSeq(b, 1, k) \o SubSeq(b, k + 1, n) = SubSeq(b, 1, n)
    BY <1>1, <2>1, ConcatAdjacentSubSeq
  <2> QED BY <1>0, <1>1, <2>2
<1>7. SubSeq(b, 1, n) = b
  BY <1>1, SubSeqFull
<1>8. Flat(p \o r) = Flat(p) \o Flat(r)
  BY <1>1, <1>4, <1>5, FlatConcat
<1> QED BY <1>1, <1>4, <1>5, <1>6, <1>7, <1>8 DEF Cat

LEMMA CatLen ==
    ASSUME NEW V, NEW a \in Seq(V), NEW b \in Seq(V)
    PROVE  /\ Len(Cat(a, b)) = Len(a) + Len(b) /\ Len(a) \in Nat /\ Len(b) \in Nat
           /\ Cat(<<>>, b) = b
  BY ConcatProperties, ConcatEmptySeq, LenProperties DEF Cat

\* The end of a sequence is its suffix.
LEMMA EndIs ==
    ASSUME NEW S, NEW p \in Seq(S), NEW s \in Seq(S), NEW t, t = p \o s
    PROVE  Lines!IsSuffix(s, t)
<1>1. PICK k, n \in Nat : k = Len(p) /\ n = Len(s)
  BY LenProperties
<1>2. t \in Seq(S) /\ Len(t) = k + n /\ \A i \in 1..n : t[k + i] = s[i]
  BY <1>1, ConcatProperties
<1>3. PICK x, y : x = Lines!Reverse(s) /\ y = Lines!Reverse(t)
  OBVIOUS
<1>4. x = [i \in 1..n |-> s[(n - i) + 1]] /\ y = [i \in 1..(k + n) |-> t[((k + n) - i) + 1]]
  BY <1>1, <1>2, <1>3 DEF Lines!Reverse
<1>5. \A i \in 1..n : s[i] \in S
  BY <1>1
<1>6. \A i \in 1..(k + n) : t[i] \in S
  BY <1>2
<1>7. x \in Seq(S) /\ Len(x) = n
  <2>1. \A i \in 1..n : (n - i) + 1 \in 1..n
    BY <1>1
  <2>2. \A i \in 1..n : s[(n - i) + 1] \in S
    BY <1>5, <2>1
  <2>3. x \in [1..n -> S]
    BY <1>4, <2>2
  <2>4. n \in Nat
    BY <1>1
  <2> QED BY <2>3, <2>4, IsASeq
<1>8. y \in Seq(S) /\ Len(y) = k + n
  <2>1. \A i \in 1..(k + n) : ((k + n) - i) + 1 \in 1..(k + n)
    BY <1>1
  <2>2. \A i \in 1..(k + n) : t[((k + n) - i) + 1] \in S
    BY <1>6, <2>1
  <2>3. y \in [1..(k + n) -> S]
    BY <1>4, <2>2
  <2>4. k + n \in Nat
    BY <1>1
  <2> QED BY <2>3, <2>4, IsASeq
<1>9. \A i \in 1..n : x[i] = y[i]
  <2> SUFFICES ASSUME NEW i \in 1..n PROVE x[i] = y[i]
    OBVIOUS
  <2>1. PICK j : j = (n - i) + 1
    OBVIOUS
  <2>2. j \in 1..n /\ i \in 1..(k + n) /\ ((k + n) - i) + 1 = k + j
    BY <1>1, <2>1
  <2>3. x[i] = s[j]
    BY <1>4, <2>1
  <2>4. y[i] = t[k + j]
    BY <1>4, <2>2
  <2> QED BY <1>2, <2>2, <2>3, <2>4
<1>10. SubSeq(x, 1, n) = SubSeq(y, 1, n)
  <2>1. PICK u, v : u = SubSeq(x, 1, n) /\ v = SubSeq(y, 1, n)
    OBVIOUS
  <2>2. u = x
    BY <1>7, <2>1, SubSeqFull
  <2>3. (\A i \in 1..n : y[i] \in S) /\ 1 \in Int /\ n \in Int
    BY <1>1, <1>8
  <2>4. v \in Seq(S) /\ Len(v) = IF 1 <= n THEN n - 1 + 1 ELSE 0
    BY ONLY <2>1, <2>3, SubSeqProperties
  <2>5. \A i \in 1..(n - 1 + 1) : v[i] = y[1 + i - 1]
    BY ONLY <2>1, <2>3, SubSeqProperties
  <2>6. Len(v) = n
    BY <1>1, <2>4
  <2>7. \A i \in 1..n : v[i] = x[i]
    <3> SUFFICES ASSUME NEW i \in 1..n PROVE v[i] = x[i]
      OBVIOUS
    <3>1. i \in 1..(n - 1 + 1) /\ 1 + i - 1 = i
      BY <1>1
    <3> QED BY <1>9, <2>5, <3>1
  <2>8. v = x
    BY <1>7, <2>4, <2>6, <2>7, SeqEqual
  <2> QED BY <2>1, <2>2, <2>8
<1>11. n <= k + n
  BY <1>1
<1> QED BY <1>3, <1>7, <1>8, <1>10, <1>11 DEF Lines!IsSuffix, Lines!IsPrefix

\* What is kept of b: its last lines, with their length.
CutOK(V, b, x) ==
    /\ x.lines \in Seq(Seq(V)) /\ Len(x.lines) <= Len(b)
    /\ x.length = Len(Flat(x.lines))
    /\ \E p \in Seq(V) : Flat(b) = Cat(p, Flat(x.lines))

\* What is left when the first k lines are popped.
KeptAt(b, k, n) ==
    [lines |-> After(b, k), length |-> n - Lines!LineLength(Before(b, k))]

LEMMA CutAt ==
    ASSUME NEW V, NEW b \in Seq(Seq(V)), NEW k \in 0..Len(b), NEW n, n = Len(Flat(b)),
           NEW x, x = KeptAt(b, k, n)
    PROVE  CutOK(V, b, x) /\ Len(x.lines) = Len(b) - k /\ (k = 0 => x.lines = b)
<1>1. PICK p, r : p = Before(b, k) /\ r = After(b, k)
  OBVIOUS
<1>2. x.lines = r /\ x.length = n - Len(Flat(p))
  BY <1>1 DEF Lines!LineLength, Flat, KeptAt
<1>3. /\ p \in Seq(Seq(V)) /\ r \in Seq(Seq(V)) /\ Len(r) = Len(b) - k
      /\ Flat(b) = Cat(Flat(p), Flat(r))
  BY <1>1, CutIs
<1>4. Flat(p) \in Seq(V) /\ Flat(r) \in Seq(V)
  BY <1>3, FlatIs
<1>5. n = Len(Flat(p)) + Len(Flat(r)) /\ Len(Flat(p)) \in Nat /\ Len(Flat(r)) \in Nat
  BY <1>3, <1>4, CatLen
<1>6. x.length = Len(Flat(r))
  BY <1>2, <1>5
<1>7. Len(r) <= Len(b)
  <2>1. Len(b) \in Nat
    BY LenProperties
  <2> QED BY <1>3, <2>1
<1>8. k = 0 => r = b
  <2>1. k = 0 => r = SubSeq(b, 1, Len(b))
    BY <1>1 DEF After
  <2> QED BY <2>1, SubSeqFull
<1> QED BY <1>2, <1>3, <1>4, <1>6, <1>7, <1>8 DEF CutOK

\* The loop on MAX_BUFFER_LINES: nothing is popped from few enough lines.
LEMMA CutLinesIs ==
    ASSUME NEW V, NEW b \in Seq(Seq(V)), NEW n, n = Len(Flat(b)),
           NEW x, x = Lines!CutLines(b, n), MaxBufferLines \in Nat
    PROVE  /\ CutOK(V, b, x) /\ Len(x.lines) <= MaxBufferLines
           /\ Len(b) <= MaxBufferLines => x.lines = b
<1>1. PICK m \in Nat : m = Len(b)
  BY LenProperties
<1>2. PICK k \in 0..m : /\ k = Lines!Max({0, m - MaxBufferLines})
                        /\ m - k <= MaxBufferLines /\ (m <= MaxBufferLines => k = 0)
  <2>1. PICK K : K = {0, m - MaxBufferLines}
    OBVIOUS
  <2>2. \E y \in K : \A z \in K : y >= z
    BY <1>1, <2>1
  <2>3. PICK k \in K : k = Lines!Max(K) /\ \A z \in K : k >= z
    BY <2>2 DEF Lines!Max
  <2>4. k \in 0..m /\ m - k <= MaxBufferLines /\ (m <= MaxBufferLines => k = 0)
    BY <1>1, <2>1, <2>3
  <2> QED BY <2>1, <2>3, <2>4
<1>3. x = KeptAt(b, k, n)
  BY <1>1, <1>2 DEF Lines!CutLines, KeptAt, Before, After
<1>4. CutOK(V, b, x) /\ Len(x.lines) = Len(b) - k /\ (k = 0 => x.lines = b)
  <2>1. k \in 0..Len(b)
    BY <1>1, <1>2
  <2> QED BY ONLY <1>3, <2>1, n = Len(Flat(b)), CutAt
<1> QED BY <1>1, <1>2, <1>4

\* The loop on MAX_BUFFER_CHARS ends, with no line left at the latest.
LEMMA CutCharsIs ==
    ASSUME NEW V, NEW b \in Seq(Seq(V)), NEW n, n = Len(Flat(b)),
           NEW c, c.lines = b, c.length = n,
           NEW x, x = Lines!CutChars(c), MaxBufferChars \in Nat
    PROVE  /\ CutOK(V, b, x) /\ x.length <= MaxBufferChars
           /\ n <= MaxBufferChars => x.lines = b
<1>1. PICK m \in Nat : m = Len(b)
  BY LenProperties
<1> DEFINE left(i) == n - Lines!LineLength(SubSeq(b, 1, i))
           Fit == {j \in 0..m : left(j) <= MaxBufferChars}
<1>2. left(m) = 0 /\ (n <= MaxBufferChars => left(0) <= MaxBufferChars) /\ n \in Nat
  <2>1. SubSeq(b, 1, m) = b
    BY <1>1, SubSeqFull
  <2>2. SubSeq(b, 1, 0) = <<>>
    BY SubSeqEmpty
  <2>3. Flat(b) \in Seq(V)
    BY FlatIs
  <2>4. n \in Nat
    BY <2>3, LenProperties
  <2>5. Lines!LineLength(SubSeq(b, 1, m)) = n
    BY <2>1 DEF Lines!LineLength, Flat
  <2>6. Lines!LineLength(SubSeq(b, 1, 0)) = 0
    <3>1. Len(<<>>) = 0
      OBVIOUS
    <3> QED BY <2>2, <3>1, FlatEmpty DEF Lines!LineLength, Flat
  <2> QED BY <2>4, <2>5, <2>6
<1>3. m \in Fit /\ (n <= MaxBufferChars => 0 \in Fit) /\ Fit \subseteq Nat
  BY <1>1, <1>2
<1>4. \E y \in Fit : \A z \in Fit : y <= z
  <2> HIDE DEF Fit
  <2> QED BY <1>3, LeastOf
<1>5. PICK k \in Fit : k = Lines!Min(Fit) /\ \A z \in Fit : k <= z
  BY <1>4 DEF Lines!Min
<1>6. k \in 0..m /\ left(k) <= MaxBufferChars /\ (n <= MaxBufferChars => k = 0)
  BY <1>3, <1>5
<1>7. x = KeptAt(b, k, n) /\ x.length = left(k)
  BY <1>1, <1>5 DEF Lines!CutChars, KeptAt, Before, After
<1>8. CutOK(V, b, x) /\ Len(x.lines) = Len(b) - k /\ (k = 0 => x.lines = b)
  <2>1. k \in 0..Len(b)
    BY <1>1, <1>6
  <2> QED BY ONLY <1>7, <2>1, n = Len(Flat(b)), CutAt
<1> QED BY <1>6, <1>7, <1>8

-----------------------------------------------------------------------------
(* The kept lines, joined for a client that comes back.                    *)

\* A line after the first text is led by a newline.
Lead(l) == <<0>> \o l

LEMMA LeadIs ==
    ASSUME NEW S, 0 \in S, NEW l \in Seq(S \ {0})
    PROVE  /\ l \in Seq(S) /\ Lines!Chars(l) = l
           /\ Lead(l) \in Seq(S) /\ Lines!Chars(Lead(l)) = l
<1>1. l \in Seq(S)
  BY SeqMonotonic
<1>2. Lines!Chars(l) = l
  BY CharsLine
<1>3. PICK z : z = <<0>> /\ z \in Seq(S)
  <2>1. <<0>> \in Seq(S)
    OBVIOUS
  <2> QED BY <2>1
<1>4. Lines!Chars(z) = <<>>
  <2>1. z = Append(<<>>, 0) /\ <<>> \in Seq(S)
    BY <1>3
  <2> QED BY <2>1, CharsIs, CharsEmpty
<1>5. Lead(l) = z \o l /\ z \o l \in Seq(S)
  BY <1>1, <1>3, ConcatProperties DEF Lead
<1>6. Lines!Chars(z \o l) = Lines!Chars(z) \o Lines!Chars(l)
  BY <1>1, <1>3, CharsConcat
<1>7. <<>> \o l = l
  BY ConcatEmptySeq
<1>8. Lines!Chars(Lead(l)) = l
  BY <1>2, <1>4, <1>5, <1>6, <1>7
<1> QED BY <1>1, <1>2, <1>5, <1>8

AtStart(b, i) == \A j \in 1..(i - 1) : b[j] = <<>>
Led(b, i) == IF AtStart(b, i) THEN b[i] ELSE Lead(b[i])
Parts(b) == [i \in DOMAIN b |-> Led(b, i)]

LEMMA PartsIs ==
    ASSUME NEW S, 0 \in S, NEW b \in Seq(Seq(S \ {0}))
    PROVE  /\ Parts(b) \in Seq(Seq(S))
           /\ \A l \in Seq(S \ {0}) :
                 \E m \in Seq(S) : /\ Parts(Append(b, l)) = Append(Parts(b), m)
                                   /\ Lines!Chars(m) = l
<1>1. PICK W, n : W = Seq(S \ {0}) /\ n = Len(b) /\ n \in Nat /\ b \in Seq(W)
  BY LenProperties
<1>2. DOMAIN b = 1..n /\ \A i \in 1..n : b[i] \in W
  BY <1>1
<1>3. \A i \in 1..n : Led(b, i) \in Seq(S)
  BY <1>1, <1>2, LeadIs DEF Led
<1>4. Parts(b) \in Seq(Seq(S)) /\ Len(Parts(b)) = n
  <2>1. Parts(b) \in [1..n -> Seq(S)]
    BY <1>2, <1>3 DEF Parts
  <2>2. n \in Nat
    BY <1>1
  <2> QED BY <2>1, <2>2, IsASeq
<1>5. ASSUME NEW l \in W
      PROVE  \E m \in Seq(S) : Parts(Append(b, l)) = Append(Parts(b), m) /\ Lines!Chars(m) = l
  <2>1. PICK r : r = Append(b, l)
    OBVIOUS
  <2>2. DOMAIN r = 1..(n + 1) /\ r[n + 1] = l /\ \A i \in 1..n : r[i] = b[i]
    BY <1>1, <1>5, <2>1
  <2>3. PICK m \in Seq(S) : m = Led(r, n + 1) /\ Lines!Chars(m) = l
    <3>1. Led(r, n + 1) = l \/ Led(r, n + 1) = Lead(l)
      BY <2>2 DEF Led
    <3> QED BY <1>1, <1>5, <3>1, LeadIs
  <2>4. PICK x, y : x = Parts(r) /\ y = Append(Parts(b), m)
    OBVIOUS
  <2>5. x = [i \in 1..(n + 1) |-> Led(r, i)]
    BY <2>2, <2>4 DEF Parts
  <2>6. /\ y \in Seq(Seq(S)) /\ Len(y) = n + 1 /\ y[n + 1] = m
        /\ \A i \in 1..n : y[i] = Parts(b)[i]
    <3>1. PICK w, X : w = Parts(b) /\ X = Seq(S) /\ w \in Seq(X) /\ Len(w) = n /\ m \in X
      BY <1>4, <2>3
    <3>2. /\ Append(w, m) \in Seq(X) /\ Len(Append(w, m)) = n + 1
          /\ Append(w, m)[n + 1] = m /\ \A i \in 1..n : Append(w, m)[i] = w[i]
      BY ONLY <3>1, AppendProperties
    <3> QED BY <2>4, <3>1, <3>2
  <2>7. DOMAIN y = 1..(n + 1)
    BY <2>6, LenProperties
  <2>8. ASSUME NEW i \in 1..(n + 1) PROVE x[i] = y[i]
    <3>1. CASE i = n + 1
      BY <2>3, <2>5, <2>6, <3>1
    <3>2. CASE i \in 1..n
      <4>1. r[i] = b[i] /\ \A j \in 1..(i - 1) : r[j] = b[j]
        BY <1>1, <2>2, <3>2
      <4>2. Led(r, i) = Led(b, i)
        BY <4>1 DEF Led, AtStart
      <4>3. Parts(b)[i] = Led(b, i)
        BY <1>2, <3>2 DEF Parts
      <4> QED BY <2>5, <2>6, <2>8, <3>2, <4>2, <4>3
    <3>3. n \in Nat /\ i \in 1..(n + 1)
      BY <1>1, <2>8
    <3>4. i = n + 1 \/ i \in 1..n
      BY ONLY <3>3
    <3> QED BY <3>1, <3>2, <3>4
  <2>9. x = y
    <3>1. y = [i \in 1..(n + 1) |-> y[i]]
      BY <2>6, <2>7
    <3>2. x = [i \in 1..(n + 1) |-> x[i]]
      BY <2>5
    <3> QED BY <2>8, <3>1, <3>2
  <2> QED BY <2>1, <2>3, <2>4, <2>9
<1> QED BY <1>1, <1>4, <1>5

\* Joined, the kept lines show their characters and newlines only.
LEMMA JoinedIs ==
    ASSUME NEW S, 0 \in S, NEW b \in Seq(Seq(S \ {0}))
    PROVE  Lines!Joined(b) \in Seq(S) /\ Lines!Chars(Lines!Joined(b)) = Flat(b)
<1>1. \A q : Lines!Joined(q) = Flat(Parts(q))
  BY DEF Lines!Joined, Parts, Led, Lead, AtStart, Flat
<1>2. \A q \in Seq(Seq(S \ {0})) : Flat(Parts(q)) \in Seq(S)
  BY PartsIs, FlatIs
<1>3. PICK T : T = {q \in Seq(Seq(S \ {0})) : Lines!Chars(Flat(Parts(q))) = Flat(q)}
  OBVIOUS
<1>4. <<>> \in T
  <2>1. Parts(<<>>) = <<>>
    BY DEF Parts
  <2>2. <<>> \in Seq(Seq(S \ {0}))
    BY EmptySeq
  <2> QED BY <1>3, <2>1, <2>2, FlatEmpty, CharsEmpty
<1>5. ASSUME NEW q \in Seq(Seq(S \ {0})), NEW l \in Seq(S \ {0}), q \in T
      PROVE  Append(q, l) \in T
  <2>1. PICK m \in Seq(S) : Parts(Append(q, l)) = Append(Parts(q), m) /\ Lines!Chars(m) = l
    BY PartsIs
  <2>2. PICK x : x = Flat(Parts(q)) /\ x \in Seq(S) /\ Lines!Chars(x) = Flat(q)
    BY <1>2, <1>3, <1>5
  <2>3. Flat(Append(Parts(q), m)) = x \o m
    <3>1. Parts(q) \in Seq(Seq(S))
      BY PartsIs
    <3>2. m \in Seq(S) /\ x = Flat(Parts(q))
      BY <2>1, <2>2
    <3> QED BY ONLY <3>1, <3>2, FlatIs
  <2>4. Lines!Chars(x \o m) = Lines!Chars(x) \o Lines!Chars(m)
    BY <2>1, <2>2, CharsConcat
  <2>5. Flat(Append(q, l)) = Flat(q) \o l
    BY FlatIs
  <2>6. Append(q, l) \in Seq(Seq(S \ {0}))
    BY AppendProperties
  <2>7. Lines!Chars(Flat(Parts(Append(q, l)))) = Flat(Append(q, l))
    BY <2>1, <2>2, <2>3, <2>4, <2>5
  <2> QED BY <1>3, <2>6, <2>7
<1>6. Seq(Seq(S \ {0})) \subseteq T
  BY <1>4, <1>5, Grows
<1> QED BY <1>1, <1>2, <1>3, <1>6

-----------------------------------------------------------------------------
(* The inductive invariant of a pane's lines: the kept characters are the  *)
(* end of those on the screen, and both of the output; the lines are no    *)
(* more than its line breaks and one.                                      *)

Visible == Lines!Char \ {0}
EndOf(s, t) == \E p \in Seq(Visible) : t = Cat(p, s)

LEMMA EndsSame == ASSUME NEW s \in Seq(Visible) PROVE EndOf(s, s)
<1>1. <<>> \in Seq(Visible)
  BY EmptySeq
<1>2. Cat(<<>>, s) = s
  BY CatLen
<1> QED BY <1>1, <1>2 DEF EndOf

LEMMA EndsOver ==
    ASSUME NEW a \in Seq(Visible), NEW b, NEW c, EndOf(a, b), EndOf(b, c)
    PROVE  EndOf(a, c)
<1>1. PICK p \in Seq(Visible) : b = Cat(p, a)
  BY DEF EndOf
<1>2. PICK q \in Seq(Visible) : c = Cat(q, b)
  BY DEF EndOf
<1>3. Cat(Cat(q, p), a) = Cat(q, Cat(p, a)) /\ Cat(q, p) \in Seq(Visible)
  BY <1>1, <1>2, CatAssoc, CatIn
<1> QED BY <1>1, <1>2, <1>3 DEF EndOf

LEMMA EndsMore ==
    ASSUME NEW a \in Seq(Visible), NEW b, NEW c \in Seq(Visible), EndOf(a, b)
    PROVE  EndOf(Cat(a, c), Cat(b, c))
<1>1. PICK p \in Seq(Visible) : b = Cat(p, a)
  BY DEF EndOf
<1>2. Cat(Cat(p, a), c) = Cat(p, Cat(a, c))
  BY <1>1, CatAssoc
<1> QED BY <1>1, <1>2 DEF EndOf

LineBreaks(s) == Len(s) - Len(Lines!Chars(s))

LinesInd ==
    /\ out \in Seq(Lines!Char) /\ screen \in Seq(Lines!Char)
    /\ run \in BOOLEAN /\ connected \in BOOLEAN
    /\ buffer \in Seq(Seq(Visible)) /\ Len(buffer) <= MaxBufferLines
    /\ bufferLength = Len(Flat(buffer)) /\ bufferLength <= MaxBufferChars
    /\ EndOf(Flat(buffer), Lines!Chars(out))
    /\ EndOf(Lines!Chars(screen), Lines!Chars(out))
    /\ EndOf(Flat(buffer), Lines!Chars(screen))
    /\ Len(buffer) <= LineBreaks(out) + 1
    /\ Lines!KeptWithinLimits

LEMMA LinesAssumed ==
    /\ MaxBufferLines \in Nat \ {0} /\ MaxBufferChars \in Nat \ {0}
    /\ ReadSize \in Nat \ {0} /\ MaxOut \in Nat
  BY HtmAssumption DEF Lines!ScrollBackAssumption

LEMMA BufferFlat ==
    ASSUME NEW q \in Seq(Seq(Visible))
    PROVE  Flat(q) \in Seq(Visible) /\ Len(Flat(q)) \in Nat
<1>1. Flat(q) \in Seq(Visible)
  BY FlatIs
<1> QED BY <1>1, LenProperties

LEMMA OutChars ==
    ASSUME NEW s \in Seq(Lines!Char)
    PROVE  /\ Lines!Chars(s) \in Seq(Visible) /\ Len(s) \in Nat
           /\ Len(Lines!Chars(s)) \in 0..Len(s)
<1>1. Lines!Chars(s) \in Seq(Visible)
  BY CharsIs DEF Visible
<1>2. Len(Lines!Chars(s)) \in 0..Len(s)
  BY CharsFewer
<1> QED BY <1>1, <1>2, LenProperties

LEMMA LinesInit == Lines!Init => LinesInd
<1> SUFFICES ASSUME Lines!Init PROVE LinesInd
  OBVIOUS
<1>1. /\ out = <<>> /\ screen = <<>> /\ buffer = <<>> /\ bufferLength = 0
      /\ run = TRUE /\ connected = TRUE
  BY DEF Lines!Init
<1>2. Flat(buffer) = <<>> /\ Lines!Chars(out) = <<>> /\ Lines!Chars(screen) = <<>>
  BY <1>1, FlatEmpty, CharsEmpty
<1>3. <<>> \in Seq(Lines!Char) /\ <<>> \in Seq(Visible) /\ <<>> \in Seq(Seq(Visible))
  BY EmptySeq
<1>4. Len(<<>>) = 0
  OBVIOUS
<1>5. EndOf(<<>>, <<>>)
  BY <1>3, EndsSame
<1>6. LineBreaks(out) = 0
  BY <1>1, <1>2, <1>4 DEF LineBreaks
<1>7. Lines!KeptWithinLimits
  BY <1>1, <1>2, <1>4 DEF Lines!KeptWithinLimits, Lines!LineLength, Flat
<1>8. Len(buffer) <= MaxBufferLines /\ bufferLength = Len(Flat(buffer))
      /\ bufferLength <= MaxBufferChars /\ Len(buffer) <= LineBreaks(out) + 1
  BY <1>1, <1>2, <1>4, <1>6, LinesAssumed
<1> QED BY <1>1, <1>2, <1>3, <1>5, <1>7, <1>8 DEF LinesInd

\* The invariant says what the run checks.
LEMMA LinesIndImplies == LinesInd => LinesInv
<1> SUFFICES ASSUME LinesInd PROVE LinesInv
  OBVIOUS
<1>1. Lines!TypeOK
  <2>1. buffer \in Seq(Seq(Lines!Char))
    <3>1. Seq(Visible) \subseteq Seq(Lines!Char)
      BY SeqMonotonic DEF Visible
    <3> QED BY <3>1, SeqMonotonic DEF LinesInd
  <2>2. bufferLength \in 0..MaxBufferChars
    <3>1. Len(Flat(buffer)) \in Nat
      BY BufferFlat DEF LinesInd
    <3> QED BY <3>1, LinesAssumed DEF LinesInd
  <2> QED BY <2>1, <2>2 DEF LinesInd, Lines!TypeOK
<1>2. Lines!LengthExact
  BY DEF LinesInd, Lines!LengthExact, Lines!LineLength, Flat
<1>3. Lines!NewestCharsShown
  <2>1. PICK p \in Seq(Visible) : Lines!Chars(out) = p \o Lines!Chars(screen)
    BY DEF LinesInd, EndOf, Cat
  <2>2. Lines!Chars(screen) \in Seq(Visible)
    BY OutChars DEF LinesInd
  <2>3. PICK q \in Seq(Visible) : Lines!Chars(screen) = q \o Flat(buffer)
    BY DEF LinesInd, EndOf, Cat
  <2>4. Flat(buffer) \in Seq(Visible)
    BY BufferFlat DEF LinesInd
  <2>5. Lines!IsSuffix(Lines!Chars(screen), Lines!Chars(out))
    BY <2>1, <2>2, EndIs
  <2>6. Lines!IsSuffix(Flat(buffer), Lines!Chars(screen))
    BY <2>3, <2>4, EndIs
  <2> QED BY <2>5, <2>6 DEF Lines!NewestCharsShown, Flat
<1>4. Lines!KeptWithinLimits
  BY DEF LinesInd
<1> QED BY <1>1, <1>2, <1>3, <1>4 DEF LinesInv

\* A read is a sequence of characters, and not empty.
LEMMA ChunkIs ==
    ASSUME LinesInd, NEW s \in Lines!Chunks, Len(out) + Len(s) <= MaxOut
    PROVE  s \in Seq(Lines!Char) /\ s # <<>>
<1>1. PICK n \in 1..ReadSize, nl \in SUBSET (1..ReadSize) :
         s = [i \in 1..n |-> IF i \in nl THEN 0 ELSE Len(out) + i]
  BY DEF Lines!Chunks
<1>2. n \in Nat /\ n >= 1
  BY <1>1, LinesAssumed
<1>3. Len(out) \in Nat
  BY OutChars DEF LinesInd
<1>4. s \in [1..n -> Nat]
  BY <1>1, <1>3
<1>5. Len(s) = n
  BY <1>2, <1>4, IsASeq
<1>6. \A i \in 1..n : s[i] \in 0..MaxOut
  <2> SUFFICES ASSUME NEW i \in 1..n PROVE s[i] \in 0..MaxOut
    OBVIOUS
  <2>1. s[i] = 0 \/ s[i] = Len(out) + i
    BY <1>1
  <2> QED BY <1>2, <1>3, <1>5, <2>1, LinesAssumed
<1>7. s \in [1..n -> Lines!Char]
  BY <1>4, <1>6 DEF Lines!Char
<1>8. s \in Seq(Lines!Char)
  BY <1>2, <1>7, IsASeq
<1> QED BY <1>2, <1>5, <1>8

\* What a read leaves of the lines, from the four parts of the handler.
PollOK(s, lines, length) ==
    /\ lines \in Seq(Seq(Visible)) /\ Len(lines) <= MaxBufferLines
    /\ length = Len(Flat(lines)) /\ length <= MaxBufferChars
    /\ EndOf(Flat(lines), Cat(Flat(buffer), Lines!Chars(s)))
    /\ Len(lines) <= LineBreaks(out) + LineBreaks(s) + 1
    /\ (/\ Len(Flat(buffer)) + Len(Lines!Chars(s)) <= MaxBufferChars
        /\ LineBreaks(out) + LineBreaks(s) < MaxBufferLines) =>
           Len(Flat(lines)) = Len(Flat(buffer)) + Len(Lines!Chars(s))

LEMMA PollIs ==
    ASSUME LinesInd, NEW s \in Seq(Lines!Char), s # <<>>,
           NEW y, y = Lines!CutChars(Lines!CutLines(Lines!Added(buffer, Lines!Tokens(s)),
                                bufferLength + Lines!LineLength(Lines!Tokens(s))))
    PROVE  PollOK(s, y.lines, y.length)
<1>1. PICK t : t = Lines!Tokens(s)
  OBVIOUS
<1>2. PICK V : V = Visible /\ V = Lines!Char \ {0}
  BY DEF Visible
<1>3. /\ t \in Seq(Seq(V)) /\ t # <<>> /\ Flat(t) = Lines!Chars(s)
      /\ Len(t) <= LineBreaks(s) + 1
  BY <1>1, <1>2, TokensIs DEF LineBreaks
<1>4. PICK a : a = Lines!Added(buffer, t)
  OBVIOUS
<1>5. buffer \in Seq(Seq(V)) /\ bufferLength = Len(Flat(buffer)) /\ Len(buffer) <= LineBreaks(out) + 1
  BY <1>2 DEF LinesInd
<1>6. /\ a \in Seq(Seq(V)) /\ Flat(a) = Cat(Flat(buffer), Flat(t))
      /\ Len(a) = IF buffer = <<>> THEN Len(t) ELSE Len(buffer) + Len(t) - 1
  <2>1. AddedOK(V, buffer, t, a)
    BY <1>3, <1>4, <1>5, AddedIs
  <2> QED BY <2>1 DEF AddedOK
<1>7. PICK n : n = bufferLength + Lines!LineLength(t)
  OBVIOUS
<1>8. /\ Flat(buffer) \in Seq(V) /\ Flat(t) \in Seq(V) /\ Flat(a) \in Seq(V)
      /\ Len(Flat(buffer)) \in Nat /\ Len(Flat(t)) \in Nat
  BY <1>2, <1>3, <1>5, <1>6, BufferFlat
<1>9. n = Len(Flat(a)) /\ n = Len(Flat(buffer)) + Len(Flat(t))
  <2>1. Len(Flat(a)) = Len(Flat(buffer)) + Len(Flat(t))
    BY <1>6, <1>8, CatLen
  <2> QED BY <1>5, <1>7, <2>1 DEF Lines!LineLength, Flat
<1>10. PICK x : x = Lines!CutLines(a, n)
  OBVIOUS
<1>11. /\ CutOK(V, a, x) /\ Len(x.lines) <= MaxBufferLines
       /\ Len(a) <= MaxBufferLines => x.lines = a
  BY <1>6, <1>9, <1>10, CutLinesIs, LinesAssumed
<1>12. y = Lines!CutChars(x)
  BY <1>1, <1>4, <1>7, <1>10
<1>13. PICK b : b = x.lines /\ b \in Seq(Seq(V)) /\ x.length = Len(Flat(b)) /\ Len(b) <= Len(a)
  BY <1>11 DEF CutOK
<1>14. /\ CutOK(V, b, y) /\ y.length <= MaxBufferChars
       /\ Len(Flat(b)) <= MaxBufferChars => y.lines = b
  BY <1>12, <1>13, CutCharsIs, LinesAssumed
<1>15. PICK c : c = y.lines /\ c \in Seq(Seq(V)) /\ y.length = Len(Flat(c)) /\ Len(c) <= Len(b)
  BY <1>14 DEF CutOK
<1>16. EndOf(Flat(c), Flat(b)) /\ EndOf(Flat(b), Flat(a)) /\ Flat(c) \in Seq(Visible)
  BY <1>2, <1>11, <1>13, <1>14, <1>15, FlatIs DEF CutOK, EndOf
<1>17. EndOf(Flat(c), Flat(a))
  BY <1>16, EndsOver
<1>18. /\ Len(a) \in Nat /\ Len(b) \in Nat /\ Len(c) \in Nat /\ Len(t) \in Nat
       /\ Len(buffer) \in Nat
  BY <1>3, <1>5, <1>6, <1>13, <1>15, LenProperties
<1>19. LineBreaks(out) \in Nat /\ LineBreaks(s) \in Nat
  BY OutChars DEF LinesInd, LineBreaks
<1>20. Len(a) <= LineBreaks(out) + LineBreaks(s) + 1
  BY <1>3, <1>5, <1>6, <1>18, <1>19
<1>21. Len(c) <= MaxBufferLines /\ Len(c) <= LineBreaks(out) + LineBreaks(s) + 1
  BY <1>11, <1>13, <1>15, <1>18, <1>19, <1>20, LinesAssumed
<1>22. ASSUME n <= MaxBufferChars, LineBreaks(out) + LineBreaks(s) < MaxBufferLines
       PROVE  Len(Flat(c)) = n
  <2>1. Len(a) <= MaxBufferLines
    BY <1>18, <1>19, <1>20, <1>22, LinesAssumed
  <2>2. b = a
    BY <1>11, <1>13, <2>1
  <2>3. c = a
    BY <1>9, <1>14, <1>15, <1>22, <2>2
  <2> QED BY <1>9, <2>3
<1> QED BY <1>2, <1>3, <1>6, <1>9, <1>14, <1>15, <1>17, <1>21, <1>22 DEF PollOK

LEMMA PollKeeps ==
    ASSUME LinesInd, NEW s \in Lines!Chunks, Lines!Poll(s)
    PROVE  LinesInd'
<1>1. PICK y : y = Lines!CutChars(Lines!CutLines(Lines!Added(buffer, Lines!Tokens(s)),
                              bufferLength + Lines!LineLength(Lines!Tokens(s))))
  OBVIOUS
<1>2. /\ buffer' = y.lines /\ bufferLength' = y.length
      /\ out' = out \o s /\ screen' = screen \o s /\ run' = run /\ connected' = connected
      /\ Len(out) + Len(s) <= MaxOut
  BY <1>1 DEF Lines!Poll
<1>3. s \in Seq(Lines!Char) /\ s # <<>>
  BY <1>2, ChunkIs
<1>4. PollOK(s, buffer', bufferLength')
  BY <1>1, <1>2, <1>3, PollIs
<1>5. PICK o, c, sc, fb : /\ o = Lines!Chars(out) /\ c = Lines!Chars(s)
                          /\ sc = Lines!Chars(screen) /\ fb = Flat(buffer)
  OBVIOUS
<1>6. /\ o \in Seq(Visible) /\ c \in Seq(Visible) /\ sc \in Seq(Visible) /\ fb \in Seq(Visible)
      /\ Len(o) \in 0..Len(out) /\ Len(c) \in 0..Len(s) /\ Len(out) \in Nat /\ Len(s) \in Nat
      /\ Len(fb) \in Nat
  BY <1>3, <1>5, OutChars, BufferFlat DEF LinesInd
<1>7. Lines!Chars(out') = Cat(o, c) /\ Lines!Chars(screen') = Cat(sc, c)
  BY <1>2, <1>3, <1>5, CharsConcat DEF LinesInd, Cat
<1>8. /\ out' \in Seq(Lines!Char) /\ screen' \in Seq(Lines!Char)
      /\ Len(out') = Len(out) + Len(s)
  BY <1>2, <1>3, ConcatProperties DEF LinesInd
<1>9. EndOf(fb, o) /\ EndOf(sc, o) /\ EndOf(fb, sc)
  BY <1>5 DEF LinesInd
<1>10. EndOf(Lines!Chars(screen'), Lines!Chars(out'))
  BY <1>6, <1>7, <1>9, EndsMore
<1>11. EndOf(Flat(buffer'), Lines!Chars(out')) /\ EndOf(Flat(buffer'), Lines!Chars(screen'))
  <2>1. EndOf(Cat(fb, c), Cat(o, c)) /\ EndOf(Cat(fb, c), Cat(sc, c))
    BY <1>6, <1>9, EndsMore
  <2>2. EndOf(Flat(buffer'), Cat(fb, c))
    BY <1>4, <1>5 DEF PollOK
  <2>3. Flat(buffer') \in Seq(Visible)
    BY <1>4, BufferFlat DEF PollOK
  <2> QED BY <1>7, <2>1, <2>2, <2>3, EndsOver
<1>12. Len(Lines!Chars(out')) = Len(o) + Len(c)
  BY <1>6, <1>7, CatLen
<1>13. /\ Len(out') - Len(Lines!Chars(out')) = LineBreaks(out) + LineBreaks(s)
       /\ LineBreaks(out) = Len(out) - Len(o) /\ LineBreaks(s) = Len(s) - Len(c)
  BY <1>5, <1>6, <1>8, <1>12 DEF LineBreaks
<1>14. LineBreaks(out)' = LineBreaks(out) + LineBreaks(s)
  BY <1>13 DEF LineBreaks
<1>15. Lines!KeptWithinLimits'
  <2>1. SUFFICES ASSUME Len(Lines!Chars(out')) <= MaxBufferChars,
                        Len(out') - Len(Lines!Chars(out')) < MaxBufferLines
                 PROVE  Len(Flat(buffer')) = Len(Lines!Chars(out'))
    BY DEF Lines!KeptWithinLimits, Lines!LineLength, Flat
  <2>2. Len(o) <= MaxBufferChars /\ Len(out) - Len(o) < MaxBufferLines
    BY <1>6, <1>12, <1>13, <2>1, LinesAssumed
  <2>3. Len(fb) = Len(o)
    BY <1>5, <2>2 DEF LinesInd, Lines!KeptWithinLimits, Lines!LineLength, Flat
  <2>4. Len(fb) + Len(c) <= MaxBufferChars /\ LineBreaks(out) + LineBreaks(s) < MaxBufferLines
    BY <1>12, <1>13, <2>1, <2>3
  <2>5. Len(Flat(buffer')) = Len(fb) + Len(c)
    BY <1>4, <1>5, <2>4 DEF PollOK
  <2> QED BY <1>12, <2>3, <2>5
<1>16. /\ buffer' \in Seq(Seq(Visible)) /\ Len(buffer') <= MaxBufferLines
       /\ bufferLength' = Len(Flat(buffer')) /\ bufferLength' <= MaxBufferChars
       /\ Len(buffer') <= LineBreaks(out)' + 1
  BY <1>4, <1>14 DEF PollOK
<1>17. run' \in BOOLEAN /\ connected' \in BOOLEAN
  BY <1>2 DEF LinesInd
<1>18. Lines!Char' = Lines!Char /\ Visible' = Visible
  BY DEF Lines!Char, Visible
<1> QED
  BY <1>8, <1>10, <1>11, <1>15, <1>16, <1>17, <1>18 DEF LinesInd, EndOf, Flat, LineBreaks

LEMMA ReconnectKeeps ==
    ASSUME LinesInd, Lines!Reconnect PROVE LinesInd'
<1>1. /\ screen' = Lines!Joined(buffer) /\ connected' = TRUE /\ run' = run
      /\ out' = out /\ buffer' = buffer /\ bufferLength' = bufferLength
  BY DEF Lines!Reconnect
<1>2. 0 \in Lines!Char
  BY LinesAssumed DEF Lines!Char
<1>3. screen' \in Seq(Lines!Char) /\ Lines!Chars(screen') = Flat(buffer)
  BY <1>1, <1>2, JoinedIs DEF LinesInd, Visible
<1>4. EndOf(Lines!Chars(screen'), Lines!Chars(out))
  BY <1>3 DEF LinesInd
<1>5. EndOf(Flat(buffer), Lines!Chars(screen'))
  <2>1. Flat(buffer) \in Seq(Visible)
    BY BufferFlat DEF LinesInd
  <2> QED BY <1>3, <2>1, EndsSame
<1>6. Lines!KeptWithinLimits'
  BY <1>1 DEF LinesInd, Lines!KeptWithinLimits
<1> QED BY <1>1, <1>3, <1>4, <1>5, <1>6 DEF LinesInd, LineBreaks

LEMMA LinesStep == LinesInd /\ [Lines!Next]_(Lines!vars) => LinesInd'
<1> SUFFICES ASSUME LinesInd, [Lines!Next]_(Lines!vars) PROVE LinesInd'
  OBVIOUS
<1>1. ASSUME NEW s \in Lines!Chunks, Lines!Poll(s) PROVE LinesInd'
  BY <1>1, PollKeeps
<1>2. CASE Lines!Reconnect
  BY <1>2, ReconnectKeeps
<1>3. ASSUME /\ out' = out /\ buffer' = buffer /\ bufferLength' = bufferLength
             /\ screen' = screen /\ run' \in BOOLEAN /\ connected' \in BOOLEAN
      PROVE  LinesInd'
  BY <1>3 DEF LinesInd, LineBreaks, Lines!KeptWithinLimits
<1>4. CASE Lines!PollEnds
  BY <1>3, <1>4 DEF Lines!PollEnds, LinesInd
<1>5. CASE Lines!Disconnect
  BY <1>3, <1>5 DEF Lines!Disconnect, LinesInd
<1>6. CASE UNCHANGED Lines!vars
  BY <1>3, <1>6 DEF Lines!vars, LinesInd
<1> QED BY <1>1, <1>2, <1>4, <1>5, <1>6 DEF Lines!Next

\* TerminalHandler counts the characters of the lines it keeps exactly, cuts none
\* before a limit is reached, and a client shows the end of the output and all
\* that is kept of it, after any reads, disconnects and returns: for any limits,
\* read size and output.
THEOREM LinesCorrect == Lines!Spec => []LinesInv
<1>1. Lines!Init => LinesInd
  BY LinesInit
<1>2. LinesInd /\ [Lines!Next]_(Lines!vars) => LinesInd'
  BY LinesStep
<1>3. LinesInd => LinesInv
  BY LinesIndImplies
<1> QED BY <1>1, <1>2, <1>3, PTL DEF Lines!Spec
=============================================================================
