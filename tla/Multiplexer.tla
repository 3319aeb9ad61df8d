---------------------------- MODULE Multiplexer ----------------------------
(***************************************************************************)
(* htm: the daemon HtmServer with its MultiplexerState, a forest of tabs,  *)
(* splits and panes, and the editor behind HtmClient, which relays bytes.  *)
(* Panes close from both sides: the user closes one, or its shell exits    *)
(* and update() closes it, so a request may name a pane that is gone by    *)
(* the time it is read.                                                    *)
(*                                                                         *)
(* Ids: pane n is named by the editor; Tab(n) and SplitOf(n) are the ids   *)
(* of the tab or the split made with it.  Sizes are fractions <<n, d>>.    *)
(* Output of the panes is in ScrollBack.                                   *)
(***************************************************************************)
EXTENDS Integers, SequencesExt, FiniteSetsExt, Functions

CONSTANTS
    MaxPanes,  \* bound: panes that are ever made
    MaxQueue   \* bound: requests on the way

MultiplexerAssumption == MaxPanes \in Nat \ {0} /\ MaxQueue \in Nat \ {0}

VARIABLES
    st,        \* MultiplexerState: tabs, splits, panes and closed ids
    alive,     \* panes whose shell runs
    made,      \* the last pane id used
    toServer, toClient,
    view,      \* the panes the editor shows
    link,      \* "up", "gone": the client has died, "down": endpointFd < 0
    life       \* "running", "stopped", or the reason htmd has died for

vars == <<st, alive, made, toServer, toClient, view, link, life>>

PaneIds == 1..MaxPanes
Tab(p) == MaxPanes + p
SplitOf(p) == 2 * MaxPanes + p
Tabs == {Tab(p) : p \in PaneIds}
Splits == {SplitOf(p) : p \in PaneIds}

Without(f, S) == Restrict(f, DOMAIN f \ S)
With(f, x, y) == [z \in DOMAIN f \cup {x} |-> IF z = x THEN y ELSE f[z]]

TypeOK ==
    /\ DOMAIN st.panes \subseteq PaneIds /\ DOMAIN st.tabs \subseteq Tabs
    /\ DOMAIN st.splits \subseteq Splits /\ st.closed \subseteq PaneIds
    /\ alive \subseteq DOMAIN st.panes /\ made \in PaneIds
    /\ view \subseteq PaneIds
    /\ Len(toServer) <= MaxQueue
    /\ \A i \in DOMAIN toClient : toClient[i] \in PaneIds
    /\ link \in {"up", "gone", "down"}
    /\ life \in {"running", "stopped", "stale", "collapse", "lost"}

\* The constructor makes one tab with one pane; no client has connected.
Init ==
    /\ st = [tabs |-> [t \in {Tab(1)} |-> [order |-> 0, child |-> 1]],
             panes |-> [p \in {1} |-> Tab(1)],
             splits |-> [x \in {} |-> x], closed |-> {}]
    /\ alive = {1} /\ made = 1
    /\ toServer = <<>> /\ toClient = <<>>
    /\ view = {} /\ link = "down" /\ life = "running"

IndexIn(s, x) == CHOOSE i \in DOMAIN s : s[i] = x

-----------------------------------------------------------------------------
(* Mutated forms of the definitions below.                                 *)

NewSplitKeepsParent(s, src, p, v) ==
    LET id == SplitOf(p)
    IN  [s EXCEPT
           !.panes = With(@, p, id),
           !.splits = With(@, id, [parent |-> s.panes[src], vertical |-> v,
                                   kids |-> <<src, p>>, sizes |-> <<<<1, 2>>, <<1, 2>>>>])]

-----------------------------------------------------------------------------
(* MultiplexerState.                                                       *)

NewTab(s, p) ==
    [s EXCEPT !.tabs = With(@, Tab(p), [order |-> Cardinality(DOMAIN @), child |-> p]),
              !.panes = With(@, p, Tab(p))]

\* The source is in a split of the same orientation: append and resize.
ContinueSplit(s, src, p) ==
    LET id == s.panes[src]
        old == s.splits[id]
        half(x) == <<x[1], 2 * x[2]>>
        split == [old EXCEPT
                    !.kids = Append(@, p),
                    !.sizes = Append([i \in DOMAIN @ |-> half(@[i])], <<1, 2>>)]
    IN  [s EXCEPT !.panes = With(@, p, id), !.splits[id] = split]

\* A new split of source and pane...
SplitPane(s, src, p, v) ==
    LET id == SplitOf(p)
    IN  [s EXCEPT
           !.panes = With([s.panes EXCEPT ![src] = id], p, id),
           !.splits = With(@, id, [parent |-> s.panes[src], vertical |-> v,
                                   kids |-> <<src, p>>, sizes |-> <<<<1, 2>>, <<1, 2>>>>])]

\* ...takes the place of the source in its parent, a split or a tab.
Replace(s, parent, old, new) ==
    IF parent \in DOMAIN s.tabs
    THEN [s EXCEPT !.tabs[parent].child = new]
    ELSE [s EXCEPT !.splits[parent].kids =
             [i \in DOMAIN @ |-> IF @[i] = old THEN new ELSE @[i]]]

NewSplit(s, src, p, v) ==
    LET parent == s.panes[src]
    IN  IF parent \in DOMAIN s.splits /\ s.splits[parent].vertical = v
        THEN ContinueSplit(s, src, p)
        ELSE Replace(SplitPane(s, src, p, v), parent, src, SplitOf(p))

\* The tab goes with its only pane; the later tabs move up.
CloseTab(s, p) ==
    LET tab == s.panes[p]
        order(t) == IF s.tabs[t].order > s.tabs[tab].order
                    THEN s.tabs[t].order - 1 ELSE s.tabs[t].order
        others == [t \in DOMAIN s.tabs \ {tab} |->
                      [order |-> order(t), child |-> s.tabs[t].child]]
    IN  [s EXCEPT !.tabs = others, !.panes = Without(@, {p}), !.closed = @ \cup {p}]

\* What is left of the split after the pane; sizes are scaled by its old and
\* new number of children.
LeaveSplit(s, p) ==
    LET id == s.panes[p]
        old == s.splits[id]
        i == IndexIn(old.kids, p)
        n == Len(old.kids)
        scaled(x) == <<x[1] * n, x[2] * (n - 1)>>
        split == [old EXCEPT
                    !.kids = RemoveAt(@, i),
                    !.sizes = [j \in 1..(n - 1) |-> scaled(RemoveAt(@, i)[j])]]
    IN  [s EXCEPT !.panes = Without(@, {p}), !.closed = @ \cup {p}, !.splits[id] = split]

\* One child is left: it takes the place of the split.
Collapse(s, id) ==
    LET child == s.splits[id].kids[1]
        parent == s.splits[id].parent
        up == Replace(s, parent, id, child)
    IN  [up EXCEPT !.panes[child] = parent, !.splits = Without(@, {id})]

\* getPane() of the last child is fatal when the child is a split.
CollapseFails(s, p) ==
    LET id == s.panes[p]
    IN  /\ id \in DOMAIN s.splits /\ Len(s.splits[id].kids) = 2
        /\ \E k \in Range(s.splits[id].kids) : k \notin DOMAIN s.panes

ClosePane(s, p) ==
    LET id == s.panes[p]
    IN  IF id \in DOMAIN s.tabs THEN CloseTab(s, p)
        ELSE IF Len(s.splits[id].kids) > 2 THEN LeaveSplit(s, p)
        ELSE Collapse(LeaveSplit(s, p), id)

-----------------------------------------------------------------------------
(* The editor, and HtmClient that relays what it says and is told.         *)

Send(r) ==
    /\ life = "running" /\ link = "up" /\ Len(toServer) < MaxQueue
    /\ toServer' = Append(toServer, r)
    /\ UNCHANGED <<st, alive, toClient, link, life>>

\* INSERT_KEYS and RESIZE_PANE treat a pane alike.
ClientUses(p) ==
    p \in view /\ Send([op |-> "use", pane |-> p]) /\ UNCHANGED <<made, view>>

ClientNewTab ==
    /\ made < MaxPanes /\ made' = made + 1 /\ view' = view \cup {made'}
    /\ Send([op |-> "tab", pane |-> made'])

ClientNewSplit(p, v) ==
    /\ p \in view
    /\ made < MaxPanes /\ made' = made + 1 /\ view' = view \cup {made'}
    /\ Send([op |-> "split", pane |-> made', src |-> p, vertical |-> v])

ClientClosesPane(p) ==
    /\ p \in view /\ view' = view \ {p}
    /\ Send([op |-> "close", pane |-> p]) /\ UNCHANGED made

\* INSERT_DEBUG_KEYS: escape disconnects, x shuts htmd down.
ClientDebugKey(k) == Send([op |-> k, pane |-> 0]) /\ UNCHANGED <<made, view>>

\* SERVER_CLOSE_PANE.
ClientReceives ==
    /\ link = "up" /\ toClient # <<>>
    /\ view' = view \ {Head(toClient)}
    /\ toClient' = Tail(toClient)
    /\ UNCHANGED <<st, alive, made, toServer, link, life>>

ClientDies ==
    /\ life = "running" /\ link = "up"
    /\ link' = "gone" /\ view' = {} /\ toClient' = <<>>
    /\ UNCHANGED <<st, alive, made, toServer, life>>

-----------------------------------------------------------------------------
(* HtmServer::run.                                                         *)

ShellExits(p) ==
    /\ life = "running" /\ p \in alive
    /\ alive' = alive \ {p}
    /\ UNCHANGED <<st, made, toServer, toClient, view, link, life>>

\* pollAccept and recover(): the client is sent INIT_STATE and the buffers.
Accept ==
    /\ life = "running" /\ link = "down"
    /\ link' = "up" /\ view' = DOMAIN st.panes
    /\ UNCHANGED <<st, alive, made, toServer, toClient, life>>

Next1(op) == life = "running" /\ toServer # <<>> /\ Head(toServer).op = op
Dies(reason) ==
    life' = reason /\ UNCHANGED <<st, alive, made, toClient, view, link>>

ServerUses ==
    /\ Next1("use") /\ toServer' = Tail(toServer)
    /\ IF Head(toServer).pane \in DOMAIN st.panes
       THEN UNCHANGED <<st, alive, made, toClient, view, link, life>>
       ELSE Dies("stale")

ServerNewTab ==
    /\ Next1("tab") /\ toServer' = Tail(toServer)
    /\ st' = NewTab(st, Head(toServer).pane)
    /\ alive' = alive \cup {Head(toServer).pane}
    /\ UNCHANGED <<made, toClient, view, link, life>>

ServerNewSplit ==
    /\ Next1("split") /\ toServer' = Tail(toServer)
    /\ LET r == Head(toServer)
       IN  IF r.src \in DOMAIN st.panes
           THEN /\ st' = NewSplit(st, r.src, r.pane, r.vertical)
                /\ alive' = alive \cup {r.pane}
                /\ UNCHANGED <<made, toClient, view, link, life>>
           ELSE Dies("stale")

\* A pane that is closed already is left alone; without panes run() ends.
ServerClosesPane ==
    /\ Next1("close") /\ toServer' = Tail(toServer)
    /\ LET p == Head(toServer).pane
           after == IF p \in st.closed THEN st ELSE ClosePane(st, p)
       IN  IF p \notin st.closed /\ CollapseFails(st, p) THEN Dies("collapse")
           ELSE /\ st' = after /\ alive' = alive \ {p}
                /\ life' = IF DOMAIN after.panes = {} THEN "stopped" ELSE life
                /\ UNCHANGED <<made, toClient, view, link>>

\* closeEndpoint: SESSION_END, and whatever was on the way is lost.
ServerDisconnects ==
    /\ Next1("escape") /\ link = "up"
    /\ link' = "down" /\ view' = {} /\ toServer' = <<>> /\ toClient' = <<>>
    /\ UNCHANGED <<st, alive, made, life>>

ServerQuits ==
    /\ Next1("x") /\ toServer' = Tail(toServer)
    /\ life' = "stopped"
    /\ UNCHANGED <<st, alive, made, toClient, view, link>>

\* Mutated form: only the first pane is looked at.
UpdateFirstPaneOnly(p) ==
    /\ life = "running" /\ link = "up"
    /\ p \in DOMAIN st.panes \ alive /\ p = Min(DOMAIN st.panes)
    /\ ~CollapseFails(st, p)
    /\ st' = ClosePane(st, p) /\ toClient' = Append(toClient, p)
    /\ UNCHANGED <<alive, made, toServer, view, link, life>>

\* update(): the first pane, in the order of their uuids, whose shell has
\* ended is closed, and the client told.
UpdateClosesPane(p) ==
    /\ life = "running" /\ link = "up"
    /\ p \in DOMAIN st.panes \ alive
    /\ IF CollapseFails(st, p) THEN Dies("collapse") /\ UNCHANGED toServer
       ELSE /\ st' = ClosePane(st, p) /\ toClient' = Append(toClient, p)
            /\ UNCHANGED <<alive, made, toServer, view, link, life>>

\* Reading the end of the stream, or writing output, throws; the catch calls
\* closeEndpoint, which writes SESSION_END to the same socket and throws again.
ServerLosesClient ==
    /\ life = "running" /\ link = "gone"
    /\ Dies("lost") /\ UNCHANGED toServer

-----------------------------------------------------------------------------
Client ==
    \/ \E p \in PaneIds : ClientUses(p)
    \/ ClientNewTab
    \/ \E p \in PaneIds, v \in BOOLEAN : ClientNewSplit(p, v)
    \/ \E p \in PaneIds : ClientClosesPane(p)
    \/ \E k \in {"escape", "x"} : ClientDebugKey(k)
    \/ ClientReceives
    \/ ClientDies

Request ==
    \/ ServerUses
    \/ ServerNewTab
    \/ ServerNewSplit
    \/ ServerClosesPane
    \/ ServerDisconnects
    \/ ServerQuits

Next ==
    \/ Client
    \/ \E p \in PaneIds : ShellExits(p)
    \/ Accept
    \/ Request
    \/ \E p \in PaneIds : UpdateClosesPane(p)
    \/ ServerLosesClient

Spec == Init /\ [][Next]_vars

\* run() comes round: every pass calls update().
Fairness == WF_vars(\E p \in PaneIds : UpdateClosesPane(p))
FairSpec == Spec /\ Fairness

-----------------------------------------------------------------------------
(* Properties.                                                             *)

Kids(s, id) == IF id \in DOMAIN s.tabs THEN <<s.tabs[id].child>> ELSE s.splits[id].kids
Nodes(s) == DOMAIN s.panes \cup DOMAIN s.splits
Parent(s, x) == IF x \in DOMAIN s.panes THEN s.panes[x] ELSE s.splits[x].parent

\* Tabs, splits and panes stay one forest through every order of splitting and
\* closing: a node is listed once, by the parent it names and by no other, a
\* split has two children at least and a size for each, so getTab, getSplit and
\* the searches that end in STFATAL always find what they look for.
ForestSound ==
    /\ \A x \in Nodes(st) :
          /\ Parent(st, x) \in DOMAIN st.tabs \cup DOMAIN st.splits
          /\ Cardinality({i \in DOMAIN Kids(st, Parent(st, x)) :
                              Kids(st, Parent(st, x))[i] = x}) = 1
    /\ \A y \in DOMAIN st.tabs \cup DOMAIN st.splits :
          \A i \in DOMAIN Kids(st, y) :
              Kids(st, y)[i] \in Nodes(st) /\ Parent(st, Kids(st, y)[i]) = y
    /\ \A y \in DOMAIN st.splits :
          Len(st.splits[y].kids) >= 2 /\ Len(st.splits[y].sizes) = Len(st.splits[y].kids)

\* The tabs are numbered from 0 without gaps, whichever are closed.
TabsOrdered ==
    {st.tabs[t].order : t \in DOMAIN st.tabs} = 0..(Cardinality(DOMAIN st.tabs) - 1)

\* Once nothing is on the way the editor shows the panes htmd has.
ViewAgrees ==
    (life = "running" /\ link = "up" /\ toServer = <<>> /\ toClient = <<>>) =>
        view = DOMAIN st.panes

\* Tabs, splits and panes stay one forest, and the tabs numbered without gaps,
\* through every order of splitting and closing from both sides; once nothing
\* is on the way the editor shows the panes htmd has.
PanesInv == TypeOK /\ ForestSound /\ TabsOrdered /\ ViewAgrees

\* A pane whose shell has ended is closed while a client is connected, although
\* update() closes one at a time.
EndedPaneCloses ==
    \A p \in PaneIds :
        (link = "up" /\ p \in DOMAIN st.panes \ alive) ~>
            (p \notin DOMAIN st.panes \/ life # "running" \/ link # "up")

\* The split pane collapses into a regular pane.
\* Does not hold: see Known deviations in README.md.
CollapseWorks == life # "collapse"

\* A request never names a pane that does not exist.
\* Does not hold: see Known deviations in README.md.
NoStaleRequest == life # "stale"

\* htmd outlives its client, so that a later one recovers the session.
\* Does not hold: see Known deviations in README.md.
OutlivesClient == life # "lost"

\* The sizes of a split are normalized: they add up to 1.
\* Does not hold: see Known deviations in README.md.
SizesNormalized ==
    \A y \in DOMAIN st.splits :
        LET add(a, b) == <<a[1] * b[2] + b[1] * a[2], a[2] * b[2]>>
            sum == FoldLeft(add, <<0, 1>>, st.splits[y].sizes)
        IN  sum[1] = sum[2]
=============================================================================
