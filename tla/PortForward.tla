---------------------------- MODULE PortForward ----------------------------
(***************************************************************************)
(* A forwarded port.  The side that listens (PortForwardHandler with its   *)
(* ForwardSourceHandlers) and the side that connects (its                  *)
(* ForwardDestinationHandlers) exchange packets over the session, which    *)
(* ReliableChannel shows to be two queues.  A forwarded connection is      *)
(* known to the listening side by its descriptor until the response brings *)
(* the socket id, and by that id afterwards; either application may close  *)
(* at any time, so closes, late data and descriptors in use again cross on *)
(* the way.                                                                *)
(*                                                                         *)
(* A socket that ends with an error is told to the peer as "error" instead *)
(* of "closed"; every branch treats the two alike and the model has one    *)
(* end item for both.                                                      *)
(***************************************************************************)
EXTENDS Integers, SequencesExt, Functions

CONSTANTS
    Handlers,   \* the ForwardSourceHandlers
    Conns,      \* bound: connections applications make
    Fds,        \* bound: descriptors of the listening side
    MaxData,    \* bound: pieces of data each end of a connection writes
    MaxStalls,  \* bound: writes given up after 30 s because the reader stalls
    MaxRedraws  \* bound: socket ids drawn that were drawn before

ForwardAssumption ==
    /\ Conns \subseteq Nat /\ 0 \notin Conns
    /\ MaxData \in Nat /\ MaxStalls \in Nat /\ MaxRedraws \in Nat

VARIABLES
    ends,          \* the applications' sockets, per end and connection
    backlog,       \* connections accept() can take, per handler
    fdConn,        \* open descriptors of the listening side
    unassignedFds, \* per handler
    socketFdMap,   \* per handler: from socket id to descriptor
    idHandler,     \* socketIdSourceHandlerMap
    dests,         \* destinationHandlers: from socket id to connection
    lastId,        \* socket ids drawn so far, numbered as they are drawn first
    redraws,       \* how often one of them was drawn again
    toDest, toSource,  \* packets on the way
    stalls

ids == <<lastId, redraws>>
vars == <<ends, backlog, fdConn, unassignedFds, socketFdMap, idHandler,
          dests, lastId, redraws, toDest, toSource, stalls>>

Sides == {"src", "dst"}
Other(e) == IF e = "src" THEN "dst" ELSE "src"

\* The n-th piece of data of a connection; piece 0 is its end.
Items == [conn : Conns, n : 0..MaxData]
End(c) == [conn |-> c, n |-> 0]

Packets ==
    [kind : {"request"}, fd : Fds, conn : Conns]
      \cup [kind : {"response"}, fd : Fds, id : 0..lastId]
      \cup [kind : {"data"}, id : 1..lastId, item : Items]

Partial(S, T) == UNION {[D -> T] : D \in SUBSET S}

TypeOK ==
    /\ ends \in [Sides -> [Conns ->
           [st : {"none", "open", "closed"}, wrote : 0..MaxData,
            unread : Seq(Items), got : Seq(Items)]]]
    /\ backlog \in [Handlers -> Seq(Conns)]
    /\ fdConn \in Partial(Fds, Conns)
    /\ unassignedFds \in [Handlers -> SUBSET Fds]
    /\ socketFdMap \in [Handlers -> Partial(1..lastId, Fds)]
    /\ idHandler \in Partial(1..lastId, Handlers)
    /\ dests \in Partial(1..lastId, Conns)
    /\ toDest \in Seq(Packets) /\ toSource \in Seq(Packets)
    /\ redraws \in 0..MaxRedraws /\ stalls \in 0..MaxStalls

Empty == [x \in {} |-> x]
Fresh == [st |-> "none", wrote |-> 0, unread |-> <<>>, got |-> <<>>]

\* createSource has been called for every tunnel: each handler listens.
Init ==
    /\ ends = [e \in Sides |-> [c \in Conns |-> Fresh]]
    /\ backlog = [h \in Handlers |-> <<>>]
    /\ fdConn = Empty /\ idHandler = Empty /\ dests = Empty
    /\ unassignedFds = [h \in Handlers |-> {}]
    /\ socketFdMap = [h \in Handlers |-> Empty]
    /\ lastId = 0 /\ redraws = 0 /\ toDest = <<>> /\ toSource = <<>> /\ stalls = 0

Without(f, S) == Restrict(f, DOMAIN f \ S)
With(f, x, y) == [z \in DOMAIN f \cup {x} |-> IF z = x THEN y ELSE f[z]]
EndsWithEnd(s) == s # <<>> /\ Last(s).n = 0

-----------------------------------------------------------------------------
(* The applications.                                                       *)

AppConnects(c, h) ==
    /\ ends["src"][c].st = "none"
    /\ \A d \in Conns : d < c => ends["src"][d].st # "none"
    /\ ends' = [ends EXCEPT !["src"][c].st = "open"]
    /\ backlog' = [backlog EXCEPT ![h] = Append(@, c)]
    /\ UNCHANGED <<fdConn, unassignedFds, socketFdMap, idHandler, dests, ids,
                   toDest, toSource, stalls>>

AppWrites(e, c) ==
    /\ ends[e][c].st = "open" /\ ~EndsWithEnd(ends[e][c].got)
    /\ ends[e][c].wrote < MaxData
    /\ LET n == ends[e][c].wrote + 1
       IN  ends' = [ends EXCEPT ![e][c].wrote = n,
                        ![e][c].unread = Append(@, [conn |-> c, n |-> n])]
    /\ UNCHANGED <<backlog, fdConn, unassignedFds, socketFdMap, idHandler, dests,
                   ids, toDest, toSource, stalls>>

AppCloses(e, c) ==
    /\ ends[e][c].st = "open"
    /\ ends' = [ends EXCEPT ![e][c].st = "closed",
                            ![e][c].unread = Append(@, End(c))]
    /\ UNCHANGED <<backlog, fdConn, unassignedFds, socketFdMap, idHandler, dests,
                   ids, toDest, toSource, stalls>>

\* writeAllOrReturn to an application.  Its result is not looked at: an
\* application that has closed gets nothing, and one that does not read for
\* 30 s loses this data and gets the next.
Give(e, c, item) ==
    \/ /\ ends' = IF ends[e][c].st = "open"
                  THEN [ends EXCEPT ![e][c].got = Append(@, item)] ELSE ends
       /\ UNCHANGED stalls
    \/ /\ ends[e][c].st = "open" /\ stalls < MaxStalls
       /\ stalls' = stalls + 1
       /\ UNCHANGED ends

\* SocketHandler::close on the socket of an application: nothing it has
\* written is read any more.
Hangup(es, e, cs) ==
    [es EXCEPT ![e] = [c \in Conns |->
        IF c \in cs THEN [es[e][c] EXCEPT !.unread = <<>>,
                             !.got = IF es[e][c].st = "open"
                                     THEN Append(@, End(c)) ELSE @]
        ELSE es[e][c]]]

-----------------------------------------------------------------------------
(* Mutated forms of the definitions below.                                 *)

EndFromDestKeepsEntry(p) ==
    /\ LET fds == socketFdMap[idHandler[p.id]]
           gone == {fds[id] : id \in {p.id} \cap DOMAIN fds}
       IN  /\ ends' = Hangup(ends, "src", {fdConn[fd] : fd \in gone})
           /\ fdConn' = Without(fdConn, gone)
    /\ idHandler' = Without(idHandler, {p.id})
    /\ UNCHANGED <<socketFdMap, unassignedFds>>

EndFromDestErasesOnly(p) ==
    /\ idHandler' = Without(idHandler, {p.id})
    /\ UNCHANGED <<ends, fdConn, socketFdMap, unassignedFds>>

ReadPacketsEndOnly(e, conns) ==
    FlattenSeq([i \in 1..Len(SetToSeq(DOMAIN conns)) |->
        LET id == SetToSeq(DOMAIN conns)[i]
            unread == SelectSeq(ends[e][conns[id]].unread, LAMBDA x : x.n = 0)
        IN  [j \in 1..Len(unread) |->
                [kind |-> "data", id |-> id, item |-> unread[j]]]])

-----------------------------------------------------------------------------
(* ForwardSourceHandler and ForwardDestinationHandler::update: while there *)
(* is data, one PortForwardData for each read; an end closes the socket.   *)

ReadPackets(e, conns) ==
    FlattenSeq([i \in 1..Len(SetToSeq(DOMAIN conns)) |->
        LET id == SetToSeq(DOMAIN conns)[i]
            unread == ends[e][conns[id]].unread
        IN  [j \in 1..Len(unread) |->
                [kind |-> "data", id |-> id, item |-> unread[j]]]])

DestReads(conns) == ReadPackets("dst", conns)

ReadAll(es, e, cs) ==
    [es EXCEPT ![e] = [c \in Conns |->
        IF c \in cs THEN [es[e][c] EXCEPT !.unread = <<>>] ELSE es[e][c]]]

\* update() for one source handler: it reads its sockets, then listen()
\* accepts one connection if there is a descriptor for it.  The loop sends the
\* request before the data.
SourceUpdate(h) ==
    LET conns == [id \in DOMAIN socketFdMap[h] |-> fdConn[socketFdMap[h][id]]]
        ended == {id \in DOMAIN conns : EndsWithEnd(ends["src"][conns[id]].unread)}
        open  == Without(fdConn, {socketFdMap[h][id] : id \in ended})
        data  == ReadPackets("src", conns)
    IN  /\ socketFdMap' = [socketFdMap EXCEPT ![h] = Without(@, ended)]
        /\ ends' = ReadAll(ends, "src", Range(conns))
        /\ \/ /\ backlog[h] = <<>> \/ Fds \subseteq DOMAIN open
              /\ data # <<>>
              /\ fdConn' = open /\ toDest' = toDest \o data
              /\ UNCHANGED <<unassignedFds, backlog>>
           \/ \E fd \in Fds \ DOMAIN open :
                /\ backlog[h] # <<>>
                /\ fdConn' = With(open, fd, Head(backlog[h]))
                /\ unassignedFds' = [unassignedFds EXCEPT ![h] = @ \cup {fd}]
                /\ toDest' = Append(toDest, [kind |-> "request", fd |-> fd,
                                        conn |-> Head(backlog[h])]) \o data
                /\ backlog' = [backlog EXCEPT ![h] = Tail(@)]
        /\ UNCHANGED <<idHandler, dests, ids, toSource, stalls>>

\* update() for the destination handlers, in any order: the first that ends is
\* erased and leaves the rest for the next call.
DestUpdate ==
    LET ended == {id \in DOMAIN dests : EndsWithEnd(ends["dst"][dests[id]].unread)}
    IN  \E dead \in {{id} : id \in ended} \cup (IF ended = {} THEN {{}} ELSE {}) :
          \E live \in SUBSET (DOMAIN dests \ ended) :
            LET read == Restrict(dests, live \cup dead)
            IN  /\ ended = {} => live = DOMAIN dests
                /\ DestReads(read) # <<>>
                /\ toSource' = toSource \o DestReads(read)
                /\ ends' = ReadAll(ends, "dst", Range(read))
                /\ dests' = Without(dests, dead)
                /\ UNCHANGED <<backlog, fdConn, unassignedFds, socketFdMap,
                               idHandler, ids, toDest, stalls>>

-----------------------------------------------------------------------------
(* PortForwardHandler::handlePacket on the connecting side.                *)

\* createDestination: rand() until the id is not one of destinationHandlers, so
\* one of a socket that is closed may come again.  There is always an id left: a
\* process has far fewer descriptors than the 2^31 ids, so 100000 draws in a row
\* that all hit a socket in use are left out.
CreateDestination(p) ==
    \E id \in 1..(lastId + 1) \ DOMAIN dests :
        /\ lastId' = IF id > lastId THEN id ELSE lastId
        /\ redraws' = IF id <= lastId THEN redraws + 1 ELSE redraws
        /\ redraws' <= MaxRedraws
        /\ dests' = With(dests, id, p.conn)
        /\ ends' = [ends EXCEPT !["dst"][p.conn].st = "open"]
        /\ toSource' = Append(toSource,
               [kind |-> "response", fd |-> p.fd, id |-> id])

\* Neither ::1 nor 127.0.0.1, nor the pipe, can be connected.
RefuseDestination(p) ==
    /\ toSource' = Append(toSource, [kind |-> "response", fd |-> p.fd, id |-> 0])
    /\ UNCHANGED <<dests, ends, ids>>

DestHandlesRequest ==
    /\ toDest # <<>> /\ Head(toDest).kind = "request"
    /\ toDest' = Tail(toDest)
    /\ CreateDestination(Head(toDest)) \/ RefuseDestination(Head(toDest))
    /\ UNCHANGED <<backlog, fdConn, unassignedFds, socketFdMap, idHandler, stalls>>

DestHandlesData ==
    /\ toDest # <<>> /\ Head(toDest).kind = "data"
    /\ toDest' = Tail(toDest)
    /\ LET p == Head(toDest)
       IN  \/ /\ p.id \notin DOMAIN dests
              /\ UNCHANGED <<ends, dests, stalls>>
           \/ /\ p.id \in DOMAIN dests /\ p.item.n = 0
              /\ ends' = Hangup(ends, "dst", {dests[p.id]})
              /\ dests' = Without(dests, {p.id})
              /\ UNCHANGED stalls
           \/ /\ p.id \in DOMAIN dests /\ p.item.n > 0
              /\ Give("dst", dests[p.id], p.item)
              /\ UNCHANGED dests
    /\ UNCHANGED <<backlog, fdConn, unassignedFds, socketFdMap, idHandler, ids,
                   toSource>>

-----------------------------------------------------------------------------
(* PortForwardHandler::handlePacket on the listening side.  A descriptor   *)
(* or an id that is not found is logged with STERROR and the packet has no *)
(* effect.                                                                 *)

\* closeSourceFd
ErrorResponse(p) ==
    \E h \in Handlers :
        /\ p.fd \in unassignedFds[h]
        /\ ends' = Hangup(ends, "src", {fdConn[p.fd]})
        /\ fdConn' = Without(fdConn, {p.fd})
        /\ unassignedFds' = [unassignedFds EXCEPT ![h] = @ \ {p.fd}]
        /\ UNCHANGED <<socketFdMap, idHandler>>

\* addSourceSocketId
AddSourceSocketId(p) ==
    \E h \in Handlers :
        /\ p.fd \in unassignedFds[h]
        /\ unassignedFds' = [unassignedFds EXCEPT ![h] = @ \ {p.fd}]
        /\ socketFdMap' = [socketFdMap EXCEPT ![h] = With(@, p.id, p.fd)]
        /\ idHandler' = With(idHandler, p.id, h)
        /\ UNCHANGED <<ends, fdConn>>

SourceHandlesResponse ==
    /\ toSource # <<>> /\ Head(toSource).kind = "response"
    /\ toSource' = Tail(toSource)
    /\ LET p == Head(toSource)
       IN  IF \A h \in Handlers : p.fd \notin unassignedFds[h]
           THEN UNCHANGED <<ends, fdConn, unassignedFds, socketFdMap, idHandler>>
           ELSE IF p.id = 0 THEN ErrorResponse(p) ELSE AddSourceSocketId(p)
    /\ UNCHANGED <<backlog, dests, ids, toDest, stalls>>

\* closeSourceSocketId: the handler may have closed the socket itself.
EndFromDest(p) ==
    /\ LET fds == socketFdMap[idHandler[p.id]]
           gone == {fds[id] : id \in {p.id} \cap DOMAIN fds}
       IN  /\ ends' = Hangup(ends, "src", {fdConn[fd] : fd \in gone})
           /\ fdConn' = Without(fdConn, gone)
           /\ socketFdMap' = [socketFdMap EXCEPT
                  ![idHandler[p.id]] = Without(@, {p.id})]
    /\ idHandler' = Without(idHandler, {p.id})
    /\ UNCHANGED unassignedFds

SourceHandlesEnd ==
    /\ toSource # <<>> /\ Head(toSource).kind = "data"
    /\ Head(toSource).item.n = 0
    /\ IF Head(toSource).id \in DOMAIN idHandler THEN EndFromDest(Head(toSource))
       ELSE UNCHANGED <<ends, fdConn, unassignedFds, socketFdMap, idHandler>>
    /\ toSource' = Tail(toSource)
    /\ UNCHANGED <<backlog, dests, ids, toDest, stalls>>

\* sendDataToSourceOnSocket
SourceHandlesData ==
    /\ toSource # <<>> /\ Head(toSource).kind = "data"
    /\ LET p == Head(toSource)
           fds == IF p.id \in DOMAIN idHandler THEN socketFdMap[idHandler[p.id]]
                  ELSE Empty
       IN  /\ p.item.n > 0
           /\ IF p.id \in DOMAIN fds THEN Give("src", fdConn[fds[p.id]], p.item)
              ELSE UNCHANGED <<ends, stalls>>
    /\ toSource' = Tail(toSource)
    /\ UNCHANGED <<backlog, fdConn, unassignedFds, socketFdMap, idHandler, dests,
                   ids, toDest>>

-----------------------------------------------------------------------------
Handle ==
    \/ DestHandlesRequest
    \/ DestHandlesData
    \/ SourceHandlesResponse
    \/ SourceHandlesEnd
    \/ SourceHandlesData

Next ==
    \/ \E c \in Conns, h \in Handlers : AppConnects(c, h)
    \/ \E e \in Sides, c \in Conns : AppWrites(e, c)
    \/ \E e \in Sides, c \in Conns : AppCloses(e, c)
    \/ \E h \in Handlers : SourceUpdate(h)
    \/ DestUpdate
    \/ Handle

Spec == Init /\ [][Next]_vars

\* Both loops call update() in every pass, and read what arrives.  No
\* application has to connect, write or close.
Fairness ==
    /\ \A h \in Handlers : WF_vars(SourceUpdate(h))
    /\ WF_vars(DestUpdate)
    /\ WF_vars(DestHandlesRequest \/ DestHandlesData)
    /\ WF_vars(SourceHandlesResponse \/ SourceHandlesEnd \/ SourceHandlesData)

FairSpec == Spec /\ Fairness

-----------------------------------------------------------------------------
(* Properties.                                                             *)

\* What an application receives was written by the other end of its own
\* connection, in order and once, and nothing follows the end, although
\* descriptors are used again and packets for closed sockets still arrive.
\* Holds until a socket id is drawn a second time: createDestination checks
\* destinationHandlers only, and a packet for the socket that had the id may
\* still be on its way (Known deviations in README.md).
OwnDataInOrder ==
    \A e \in Sides, c \in Conns :
        LET got == ends[e][c].got
        IN  /\ \A i \in DOMAIN got : got[i].conn = c
            /\ \A i \in DOMAIN got : got[i].n = 0 => i = Len(got)
            /\ \A i, j \in DOMAIN got : i < j /\ got[j].n > 0 => got[i].n < got[j].n

EndUnderWay(q, id) ==
    \E i \in DOMAIN q : q[i].kind = "data" /\ q[i].id = id /\ q[i].item.n = 0

SourceHas(id) == \E h \in Handlers : id \in DOMAIN socketFdMap[h]

\* The two sides agree which sockets exist: one only one of them still has is
\* about to be opened or closed by a packet on its way.  Nothing is orphaned.
SocketsPaired ==
    /\ \A id \in DOMAIN dests :
          \/ SourceHas(id)
          \/ EndUnderWay(toDest, id)
          \/ \E i \in DOMAIN toSource :
                toSource[i].kind = "response" /\ toSource[i].id = id
    /\ \A id \in 1..lastId :
          SourceHas(id) => id \in DOMAIN dests \/ EndUnderWay(toSource, id)

\* A response finds the descriptor it names still waiting, and a packet of the
\* connecting side an id that is known: the STERROR branches of closeSourceFd,
\* addSourceSocketId, closeSourceSocketId and sendDataToSourceOnSocket are
\* never reached.
NothingUnexpected ==
    toSource # <<>> =>
        LET p == Head(toSource)
        IN  IF p.kind = "response"
            THEN \E h \in Handlers : p.fd \in unassignedFds[h] /\ p.fd \in DOMAIN fdConn
            ELSE p.id \in DOMAIN idHandler

\* When an application closes its end, the other one is told, unless a socket
\* id was drawn a second time.
EndIsCarried ==
    \A e \in Sides, c \in Conns :
        ends[e][c].st = "closed" /\ ends[Other(e)][c].st = "open" ~>
            \/ ends[Other(e)][c].st = "closed"
            \/ EndsWithEnd(ends[Other(e)][c].got)
            \/ redraws > 0

\* What one end of an established connection writes, also just before it
\* closes, the other end gets, unless that end closes or has stalled or a
\* socket id was drawn a second time.
DataIsCarried ==
    \A e \in Sides, c \in Conns :
        ends[e][c].wrote > 0 /\ ends[Other(e)][c].st = "open" ~>
            \/ ends[Other(e)][c].st = "closed"
            \/ stalls > 0
            \/ redraws > 0
            \/ \E i \in DOMAIN ends[Other(e)][c].got :
                   ends[Other(e)][c].got[i].n = ends[e][c].wrote

\* Forwarded data is mapped to the matching socket and forwarded: what an
\* application has received is all that was written before it.
\* Does not hold: see Known deviations in README.md.
NoGap ==
    \A e \in Sides, c \in Conns :
        \A i \in DOMAIN ends[e][c].got : ends[e][c].got[i].n \in {0, i}
=============================================================================
