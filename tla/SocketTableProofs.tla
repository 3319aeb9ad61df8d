-------------------------- MODULE SocketTableProofs --------------------------
(***************************************************************************)
(* Proofs about SocketTable, for any numbers of threads, descriptors,      *)
(* connections, ports and addresses: TableInv holds, and RightPeer where   *)
(* no client comes back while its first handler is at work.                *)
(***************************************************************************)
EXTENDS SocketTable, FiniteSetTheorems, WellFoundedInduction, TLAPS

\* The lowest of a set of descriptors is one of them.
LEMMA LowestExists ==
    ASSUME NEW S, S \subseteq Nat, S # {}
    PROVE  Min(S) \in S /\ \A y \in S : Min(S) <= y
<1>1. \E x \in S : \A y \in S : ~ (<<y, x>> \in OpToRel(<, Nat))
  BY WFMin, NatLessThanWellFounded
<1>2. PICK x \in S : \A y \in S : ~ (<<y, x>> \in OpToRel(<, Nat))
  BY <1>1
<1>3. \A y \in S : ~ (y < x)
  BY <1>2 DEF OpToRel
<1>4. \A y \in S : x <= y
  BY <1>3
<1> QED BY <1>4 DEF Min

-----------------------------------------------------------------------------
(* The invariant in parts: the types, the descriptors and their table, the *)
(* mutexes of the entries, the threads and the ports.                      *)

Critical == {"closing", "erasing", "connecting"}

ThreadSet == [pc : {"idle", "ready", "found", "io", "failed", "closing",
                    "erasing", "done", "connecting"},
              stage : {"none", "respond", "serve"}, conn : Conns \union {0},
              fd : Fds \union {0}, it : Conns \union {0},
              tries : 0..MaxTries, port : Ports \union {"none"}]

AcceptSet == [pc : {"idle", "checking", "inserting"}, fd : Fds \union {0},
              conn : Conns \union {0}]

Types ==
    /\ os \in [Fds -> Conns \union {Free, Listening}]
    /\ table \in [Fds -> Conns \union {0}]
    /\ global \in Handlers \union {"nobody"}
    /\ accepted \in AcceptSet
    /\ th \in [Handlers -> ThreadSet]
    /\ sock \in [Conns -> Fds \union {0}]
    /\ conns \in 0..MaxConns
    /\ fatal \in {"no", "listen"}

GlobalHeld == \A h \in Handlers : global = h <=> th[h].pc \in Critical

\* An entry waits to be erased.
Erased(f) == \E h \in Handlers : th[h].pc = "erasing" /\ th[h].fd = f

Descriptors ==
    /\ GlobalHeld /\ SocketsEntered /\ EntriesOpen /\ ClosingAlone /\ InsertsAlone
    /\ StreamsAccounted

LocksHeld ==
    /\ lock \in [Conns -> Handlers \union {"nobody"}]
    /\ \A c \in Conns, h \in Handlers :
          lock[c] = h => th[h].pc \in {"io", "erasing"} /\ th[h].it = c

PortsHeld == endpoint \in [Ports -> SUBSET Fds] /\ EndpointsOpen

Inv == Types /\ Descriptors /\ LocksHeld /\ ThreadsBusy /\ PortsHeld

\* While globalMutex is free every entry is about an open descriptor.
LEMMA SoundWhenFree ==
    ASSUME Types, GlobalHeld, EntriesOpen, global = "nobody", SocketAssumption
    PROVE  /\ \A h \in Handlers : th[h].pc \notin Critical
           /\ \A f \in Fds : table[f] # 0 => os[f] = table[f]
<1>1. \A h \in Handlers : th[h].pc \notin Critical
  BY DEF GlobalHeld, SocketAssumption
<1> QED BY <1>1 DEF EntriesOpen, Critical

LEMMA Numbers ==
    ASSUME SocketAssumption
    PROVE  /\ NFds \in Nat /\ MaxConns \in Nat /\ MaxTries \in Nat /\ 0 \in 0..MaxTries
           /\ "nobody" \notin Handlers
           /\ 0 \notin Fds /\ 0 \notin Conns
  BY DEF SocketAssumption, Fds, Conns

LEMMA InvParts == TableInv => Inv
<1> SUFFICES ASSUME TableInv PROVE Inv
  OBVIOUS
<1>1. /\ TypeOK /\ StreamsAccounted /\ NoDuplicateInsert /\ MutexesHeld /\ SocketsEntered
      /\ EntriesOpen /\ ClosingAlone /\ InsertsAlone /\ ThreadsBusy /\ EndpointsOpen
  BY DEF TableInv
<1>2. Types
  BY <1>1 DEF TypeOK, Types, NoDuplicateInsert, ThreadSet, AcceptSet
<1>3. Descriptors
  BY <1>1 DEF Descriptors, MutexesHeld, GlobalHeld, Critical
<1>4. LocksHeld
  BY <1>1 DEF LocksHeld, MutexesHeld, TypeOK
<1>5. PortsHeld
  BY <1>1 DEF PortsHeld, TypeOK
<1> QED BY <1>1, <1>2, <1>3, <1>4, <1>5 DEF Inv

LEMMA InvFromParts == ASSUME SocketAssumption PROVE Inv => TableInv
<1> SUFFICES ASSUME Inv PROVE TableInv
  OBVIOUS
<1>1. Types /\ Descriptors /\ LocksHeld /\ ThreadsBusy /\ PortsHeld
  BY DEF Inv
<1>2. /\ StreamsAccounted /\ GlobalHeld /\ SocketsEntered /\ EntriesOpen /\ ClosingAlone
      /\ InsertsAlone /\ EndpointsOpen
  BY <1>1 DEF Descriptors, PortsHeld
<1>3. TypeOK /\ NoDuplicateInsert
  BY <1>1 DEF TypeOK, Types, NoDuplicateInsert, ThreadSet, AcceptSet, LocksHeld, PortsHeld
<1>4. MutexesHeld
  BY <1>1, <1>2 DEF LocksHeld, MutexesHeld, GlobalHeld, Critical
<1>5. TableSound
  BY <1>1, <1>2, SoundWhenFree DEF TableSound, Global
<1> QED BY <1>1, <1>2, <1>3, <1>4, <1>5 DEF TableInv

LEMMA InvFromPartsNext == ASSUME SocketAssumption PROVE Inv' => TableInv'
  BY InvFromParts, PTL

LEMMA InitKeeps == ASSUME SocketAssumption, Init PROVE Inv
<1>1. Types
  BY DEF Init, SocketAssumption, Types, Idle, ThreadSet, AcceptSet
<1>2. \A h \in Handlers : th[h] = Idle
  BY DEF Init
<1>3. Descriptors
  BY <1>2 DEF Init, SocketAssumption, Descriptors, GlobalHeld, SocketsEntered, EntriesOpen, ClosingAlone,
     InsertsAlone, StreamsAccounted, Idle, Critical, Free
<1>4. LocksHeld /\ ThreadsBusy /\ PortsHeld
  BY <1>2 DEF Init, SocketAssumption, LocksHeld, ThreadsBusy, PortsHeld, EndpointsOpen, Idle
<1> QED BY <1>1, <1>3, <1>4 DEF Inv

-----------------------------------------------------------------------------
(* Steps of a thread that does not hold globalMutex before or after.       *)

LEMMA QuietThread ==
    ASSUME Types, Descriptors, NEW h \in Handlers, NEW r \in ThreadSet,
           th' = [th EXCEPT ![h] = r], th[h].pc \notin Critical, r.pc \notin Critical,
           UNCHANGED <<os, table, global, accepted, sock, conns, fatal>>
    PROVE  Types' /\ Descriptors'
<1>1. th \in [Handlers -> ThreadSet]
  BY DEF Types
<1>2. /\ th' \in [Handlers -> ThreadSet] /\ th'[h] = r
      /\ \A u \in Handlers \ {h} : th'[u] = th[u]
  BY <1>1
<1>3. Types'
  BY <1>2 DEF Types
<1>4. \A u \in Handlers : \/ th'[u] = th[u]
                          \/ th[u].pc \notin Critical /\ th'[u].pc \notin Critical
  BY <1>2
<1>5. GlobalHeld'
  BY <1>4 DEF Descriptors, GlobalHeld
<1>6. SocketsEntered'
  BY DEF Descriptors, SocketsEntered
<1>7. EntriesOpen'
  BY <1>4 DEF Descriptors, EntriesOpen, Critical
<1>8. ClosingAlone'
  BY <1>4 DEF Descriptors, ClosingAlone, Critical
<1>9. InsertsAlone'
  BY <1>4 DEF Descriptors, InsertsAlone, Critical
<1>10. StreamsAccounted'
  BY <1>4 DEF Descriptors, StreamsAccounted, Critical
<1> QED BY <1>3, <1>5, <1>6, <1>7, <1>8, <1>9, <1>10 DEF Descriptors

\* A thread that holds no entry's mutex after the step, or the same one.
LEMMA QuietLocks ==
    ASSUME LocksHeld, th \in [Handlers -> ThreadSet], NEW h \in Handlers, NEW r,
           th' = [th EXCEPT ![h] = r], lock' = lock,
           \/ r.pc \in {"io", "erasing"} /\ r.it = th[h].it
           \/ th[h].pc \notin {"io", "erasing"}
    PROVE  LocksHeld'
  BY DEF LocksHeld

LEMMA QuietBusy ==
    ASSUME ThreadsBusy, th \in [Handlers -> ThreadSet], NEW h \in Handlers, NEW r,
           th' = [th EXCEPT ![h] = r],
           r.pc # "idle" => r.conn # 0,
           r.pc \in {"found", "io"} => r.fd # 0 /\ r.it # 0
    PROVE  ThreadsBusy'
  BY DEF ThreadsBusy

LEMMA QuietPorts ==
    ASSUME PortsHeld, endpoint' = endpoint, \A f \in Fds : os[f] = Listening => os'[f] = Listening
    PROVE  PortsHeld'
  BY DEF PortsHeld, EndpointsOpen

LEMMA ThreadType ==
    ASSUME Inv, NEW h \in Handlers
    PROVE  /\ th \in [Handlers -> ThreadSet] /\ th[h] \in ThreadSet
           /\ Types /\ Descriptors /\ LocksHeld /\ ThreadsBusy /\ PortsHeld
           /\ (th[h].pc # "idle" => th[h].conn \in Conns)
  BY DEF Inv, Types, ThreadSet, ThreadsBusy

LEMMA LookUpKeeps == ASSUME SocketAssumption, Inv, NEW h \in Handlers, LookUp(h) PROVE Inv'
<1>1. /\ th[h].pc = "ready" /\ FdOf(h) # 0
      /\ UNCHANGED <<os, table, global, lock, accepted, sock, endpoint, conns, fatal>>
  BY DEF LookUp, Locks, Faults
<1>2. FdOf(h) \in Fds /\ th[h].conn \in Conns
  BY <1>1, ThreadType DEF FdOf, Types, ThreadSet
<1>3. table[FdOf(h)] \in Conns \union {0}
  BY <1>2 DEF Inv, Types
<1>4. PICK r \in ThreadSet :
         /\ th' = [th EXCEPT ![h] = r] /\ r.conn = th[h].conn
         /\ \/ r.pc = "failed"
            \/ r.pc = "found" /\ r.fd # 0 /\ r.it # 0
  <2>1. CASE table[FdOf(h)] = 0
    <3>1. PICK r : r = [th[h] EXCEPT !.pc = "failed"]
      OBVIOUS
    <3>2. r \in ThreadSet /\ r.pc = "failed" /\ r.conn = th[h].conn
      BY <3>1, ThreadType DEF ThreadSet
    <3>3. th' = [th EXCEPT ![h] = r]
      BY <2>1, <3>1, ThreadType DEF LookUp
    <3> QED BY <3>2, <3>3
  <2>2. CASE table[FdOf(h)] # 0
    <3>1. PICK r : r = [th[h] EXCEPT !.pc = "found", !.fd = FdOf(h), !.it = table[FdOf(h)],
                                     !.tries = 0]
      OBVIOUS
    <3>2. /\ r \in ThreadSet /\ r.pc = "found" /\ r.conn = th[h].conn /\ r.fd # 0 /\ r.it # 0
      <4>1. th[h] \in ThreadSet /\ 0 \in 0..MaxTries /\ table[FdOf(h)] \in Conns
        BY <1>3, <2>2, ThreadType, Numbers
      <4> QED BY <1>1, <1>2, <2>2, <3>1, <4>1 DEF ThreadSet
    <3>3. th' = [th EXCEPT ![h] = r]
      BY <2>2, <3>1, ThreadType DEF LookUp
    <3> QED BY <3>2, <3>3
  <2> QED BY <2>1, <2>2
<1>5. Types' /\ Descriptors'
  BY <1>1, <1>4, ThreadType, QuietThread DEF Critical
<1>6. LocksHeld'
  BY <1>1, <1>4, ThreadType, QuietLocks
<1>7. ThreadsBusy'
  <2>1. r.conn # 0
    BY <1>2, <1>4, Numbers
  <2>2. r.pc \in {"found", "io"} => r.fd # 0 /\ r.it # 0
    BY <1>4
  <2> QED BY <1>4, <2>1, <2>2, ThreadType, QuietBusy
<1>8. PortsHeld'
  BY <1>1, ThreadType, QuietPorts
<1> QED BY <1>5, <1>6, <1>7, <1>8 DEF Inv

LEMMA QuietStep ==
    ASSUME Inv, NEW h \in Handlers, NEW r \in ThreadSet, th' = [th EXCEPT ![h] = r],
           th[h].pc \notin Critical, r.pc \notin Critical,
           UNCHANGED <<os, table, global, accepted, sock, endpoint, conns, fatal>>,
           LocksHeld',
           r.pc # "idle" => r.conn # 0,
           r.pc \in {"found", "io"} => r.fd # 0 /\ r.it # 0
    PROVE  Inv'
<1>1. Types' /\ Descriptors'
  BY ThreadType, QuietThread
<1>2. ThreadsBusy'
  BY ThreadType, QuietBusy
<1>3. PortsHeld'
  BY ThreadType, QuietPorts
<1> QED BY <1>1, <1>2, <1>3 DEF Inv

LEMMA NewLock ==
    ASSUME LocksHeld, th \in [Handlers -> ThreadSet], NEW h \in Handlers, NEW r,
           th' = [th EXCEPT ![h] = r], r.pc \in {"io", "erasing"}, r.it \in Conns,
           lock' = [lock EXCEPT ![r.it] = h], th[h].pc \notin {"io", "erasing"}
    PROVE  LocksHeld'
  BY DEF LocksHeld

LEMMA LockEntryKeeps == ASSUME SocketAssumption, Inv, NEW h \in Handlers, LockEntry(h) PROVE Inv'
<1>1. /\ th[h].pc = "found" /\ th' = [th EXCEPT ![h].pc = "io"]
      /\ lock' = lock \/ lock' = [lock EXCEPT ![th[h].it] = h]
      /\ UNCHANGED <<os, table, global, accepted, sock, endpoint, conns, fatal>>
  BY Zenon DEF LockEntry
<1>2. /\ th \in [Handlers -> ThreadSet] /\ th[h] \in ThreadSet /\ LocksHeld
      /\ th[h].conn # 0 /\ th[h].fd # 0 /\ th[h].it # 0
  BY <1>1, ThreadType DEF ThreadsBusy
<1>3. PICK r : r = [th[h] EXCEPT !.pc = "io"]
  OBVIOUS
<1>4. /\ r \in ThreadSet /\ r.pc = "io" /\ r.it = th[h].it /\ r.it \in Conns
      /\ r.conn # 0 /\ r.fd # 0 /\ r.it # 0
  BY <1>2, <1>3 DEF ThreadSet
<1>5. th' = [th EXCEPT ![h] = r]
  BY <1>1, <1>3
<1>6. LocksHeld'
  <2>1. CASE lock' = lock
    BY <1>1, <1>2, <1>4, <1>5, <2>1, QuietLocks
  <2>2. CASE lock' = [lock EXCEPT ![th[h].it] = h]
    BY <1>1, <1>2, <1>4, <1>5, <2>2, NewLock
  <2> QED BY <1>1, <2>1, <2>2
<1> QED BY <1>1, <1>4, <1>5, <1>6, QuietStep DEF Critical

\* min of two numbers.
LEMMA MinOfTwo ==
    ASSUME NEW a \in Int, NEW b \in Int
    PROVE  Min({a, b}) = IF a <= b THEN a ELSE b
<1>1. PICK m : m = IF a <= b THEN a ELSE b
  OBVIOUS
<1>2. m \in {a, b} /\ \A y \in {a, b} : m <= y
  BY <1>1
<1>3. \A x \in {a, b} : (\A y \in {a, b} : x <= y) => x = m
  BY <1>1
<1> QED BY <1>1, <1>2, <1>3 DEF Min

LEMMA SyscallKeeps == ASSUME SocketAssumption, Inv, NEW h \in Handlers, Syscall(h) PROVE Inv'
<1>1. /\ th[h].pc = "io"
      /\ lock' = IF lock[th[h].it] = h THEN [lock EXCEPT ![th[h].it] = "nobody"] ELSE lock
      /\ UNCHANGED <<os, table, global, accepted, sock, endpoint, conns, fatal>>
  BY Zenon DEF Syscall
<1>2. /\ th \in [Handlers -> ThreadSet] /\ th[h] \in ThreadSet /\ LocksHeld
      /\ th[h].conn # 0 /\ th[h].fd # 0 /\ th[h].it # 0
      /\ 0 \in 0..MaxTries /\ "nobody" \notin Handlers
  BY <1>1, ThreadType, Numbers DEF ThreadsBusy
<1>3. PICK n : n = Min({th[h].tries + 1, MaxTries})
  OBVIOUS
<1>4. n \in 0..MaxTries
  <2>1. th[h].tries \in 0..MaxTries /\ MaxTries \in Int
    BY <1>2, Numbers DEF ThreadSet
  <2> QED BY <1>3, <2>1, MinOfTwo
<1>5. \/ th' = [th EXCEPT ![h].pc = "ready", ![h].stage = "serve", ![h].it = 0]
      \/ th' = [th EXCEPT ![h].pc = "found", ![h].tries = n]
      \/ th' = [th EXCEPT ![h].pc = "failed"]
  <2>1. th[h].tries \in 0..MaxTries /\ MaxTries \in Int
    BY <1>2, Numbers DEF ThreadSet
  <2>2. CASE th' = [th EXCEPT ![h].pc = "found", ![h].tries = Min({@ + 1, MaxTries})]
    BY <1>2, <1>3, <2>2
  <2> QED BY <2>2 DEF Syscall
<1>6. PICK r \in ThreadSet :
         /\ th' = [th EXCEPT ![h] = r] /\ r.conn = th[h].conn
         /\ \/ r.pc \in {"ready", "failed"}
            \/ r.pc = "found" /\ r.fd # 0 /\ r.it # 0
  <2>1. CASE th' = [th EXCEPT ![h].pc = "ready", ![h].stage = "serve", ![h].it = 0]
    <3>1. PICK r : r = [th[h] EXCEPT !.pc = "ready", !.stage = "serve", !.it = 0]
      OBVIOUS
    <3>2. r \in ThreadSet /\ r.pc = "ready" /\ r.conn = th[h].conn
      BY <1>2, <3>1 DEF ThreadSet
    <3>3. th' = [th EXCEPT ![h] = r]
      BY <1>2, <2>1, <3>1
    <3> QED BY <3>2, <3>3
  <2>2. CASE th' = [th EXCEPT ![h].pc = "found", ![h].tries = n]
    <3>1. PICK r : r = [th[h] EXCEPT !.pc = "found", !.tries = n]
      OBVIOUS
    <3>2. r \in ThreadSet /\ r.pc = "found" /\ r.conn = th[h].conn /\ r.fd # 0 /\ r.it # 0
      BY <1>2, <1>4, <3>1 DEF ThreadSet
    <3>3. th' = [th EXCEPT ![h] = r]
      BY <1>2, <2>2, <3>1
    <3> QED BY <3>2, <3>3
  <2>3. CASE th' = [th EXCEPT ![h].pc = "failed"]
    <3>1. PICK r : r = [th[h] EXCEPT !.pc = "failed"]
      OBVIOUS
    <3>2. r \in ThreadSet /\ r.pc = "failed" /\ r.conn = th[h].conn
      BY <1>2, <3>1 DEF ThreadSet
    <3>3. th' = [th EXCEPT ![h] = r]
      BY <1>2, <2>3, <3>1
    <3> QED BY <3>2, <3>3
  <2> QED BY <1>5, <2>1, <2>2, <2>3
<1>7. LocksHeld'
  <2>1. lock' \in [Conns -> Handlers \union {"nobody"}]
    BY <1>1, <1>2 DEF LocksHeld
  <2>2. \A c \in Conns : lock[c] = h => c = th[h].it
    BY <1>2 DEF LocksHeld
  <2>3. \A c \in Conns : lock'[c] # h /\ (lock'[c] = lock[c] \/ lock'[c] = "nobody")
    BY <1>1, <1>2, <2>2 DEF LocksHeld
  <2>4. \A u \in Handlers \ {h} : th'[u] = th[u]
    BY <1>6
  <2> QED BY <1>2, <2>1, <2>3, <2>4 DEF LocksHeld
<1>8. /\ th[h].pc \notin Critical /\ r.pc \notin Critical /\ r.conn # 0
      /\ r.pc \in {"found", "io"} => r.fd # 0 /\ r.it # 0
  BY <1>1, <1>2, <1>6 DEF Critical
<1> QED BY <1>1, <1>6, <1>7, <1>8, QuietStep

-----------------------------------------------------------------------------
(* accept.                                                                 *)

LEMMA FreeFdsAre ==
    ASSUME Types, FreeFds # {}
    PROVE  Min(FreeFds) \in Fds /\ os[Min(FreeFds)] = 0
<1>1. FreeFds \subseteq Nat
  BY DEF FreeFds, Fds
<1>2. Min(FreeFds) \in FreeFds
  BY <1>1, LowestExists
<1> QED BY <1>2 DEF FreeFds, Free

LEMMA SameLocks ==
    ASSUME LocksHeld, lock' = lock, th' = th
    PROVE  LocksHeld'
  BY DEF LocksHeld

LEMMA AcceptKernelKeeps == ASSUME SocketAssumption, Inv, AcceptKernel PROVE Inv'
<1>1. PICK f : f = Min(FreeFds)
  OBVIOUS
<1>2. PICK n : n = conns + 1
  OBVIOUS
<1>3. /\ accepted.pc = "idle" /\ FreeFds # {} /\ conns < MaxConns
      /\ accepted' = [pc |-> "checking", fd |-> f, conn |-> n]
      /\ os' = [os EXCEPT ![f] = n] /\ conns' = n
      /\ UNCHANGED <<table, global, lock, th, sock, endpoint, fatal>>
  BY <1>1, <1>2 DEF AcceptKernel, Locks, Faults
<1>4. Types /\ Descriptors /\ LocksHeld /\ ThreadsBusy /\ PortsHeld
  BY DEF Inv
<1>5. f \in Fds /\ os[f] = 0 /\ os \in [Fds -> Conns \union {Free, Listening}]
  BY <1>1, <1>3, <1>4, FreeFdsAre DEF Types
<1>6. n \in Conns /\ n # 0 /\ n > 0 /\ n \in 0..MaxConns
  BY <1>2, <1>3, <1>4, Numbers DEF Types, Conns
<1>7. /\ os' \in [Fds -> Conns \union {Free, Listening}] /\ os'[f] = n
      /\ \A g \in Fds \ {f} : os'[g] = os[g]
  BY <1>3, <1>5, <1>6
<1>8. /\ accepted' \in AcceptSet /\ accepted'.pc = "checking" /\ accepted'.fd = f
      /\ accepted'.conn = n
  BY <1>3, <1>5, <1>6 DEF AcceptSet
<1>9. Types'
  BY <1>3, <1>4, <1>6, <1>7, <1>8 DEF Types
<1>10. GlobalHeld'
  BY <1>3, <1>4 DEF Descriptors, GlobalHeld
<1>11. SocketsEntered'
  <2>1. \A c \in Conns : sock[c] # 0 => sock[c] \in Fds \ {f}
    BY <1>4, <1>5, Numbers DEF Types, Descriptors, SocketsEntered
  <2> QED BY <1>3, <1>4, <1>7, <2>1 DEF Descriptors, SocketsEntered
<1>12. table[f] # 0 => \E h \in Handlers : th[h].pc = "erasing" /\ th[h].fd = f
  BY <1>4, <1>5 DEF Descriptors, EntriesOpen
<1>13. EntriesOpen'
  BY <1>3, <1>4, <1>7, <1>12 DEF Descriptors, EntriesOpen
<1>14. ClosingAlone'
  <2>1. SUFFICES ASSUME NEW h \in Handlers, th[h].pc \in {"closing", "erasing"}
        PROVE  /\ th[h].fd \in Fds /\ th[h].it # 0 /\ table[th[h].fd] = th[h].it
               /\ \A c \in Conns : sock[c] # th[h].fd
               /\ IF th[h].pc = "closing" THEN os'[th[h].fd] = th[h].it
                  ELSE os'[th[h].fd] = Free \/ (accepted'.pc # "idle" /\ accepted'.fd = th[h].fd)
    BY <1>3 DEF ClosingAlone
  <2>2. /\ th[h].fd \in Fds /\ th[h].it # 0 /\ table[th[h].fd] = th[h].it
        /\ \A c \in Conns : sock[c] # th[h].fd
        /\ IF th[h].pc = "closing" THEN os[th[h].fd] = th[h].it ELSE os[th[h].fd] = Free
    BY <1>3, <1>4, <2>1 DEF Descriptors, ClosingAlone
  <2>3. IF th[h].pc = "closing" THEN os'[th[h].fd] = th[h].it
        ELSE os'[th[h].fd] = Free \/ (accepted'.pc # "idle" /\ accepted'.fd = th[h].fd)
    BY <1>5, <1>7, <1>8, <2>2
  <2> QED BY <2>2, <2>3
<1>15. \A h \in Handlers : th[h].pc = "connecting" =>
          /\ th[h].fd \in Fds \ {f} /\ th[h].conn # 0 /\ table[th[h].fd] = 0
          /\ os[th[h].fd] = th[h].conn
  BY <1>4, <1>5 DEF Descriptors, InsertsAlone
<1>16. InsertsAlone'
  BY <1>3, <1>5, <1>6, <1>7, <1>8, <1>12, <1>15 DEF InsertsAlone
<1>17. StreamsAccounted'
  BY <1>3, <1>4, <1>7, <1>8 DEF Descriptors, StreamsAccounted
<1>18. LocksHeld' /\ ThreadsBusy'
  BY <1>3, <1>4, SameLocks DEF ThreadsBusy
<1>19. PortsHeld'
  <2>1. \A g \in Fds : os[g] = Listening => os'[g] = Listening
    BY <1>5, <1>7 DEF Listening
  <2> QED BY <1>3, <1>4, <2>1, QuietPorts
<1> QED BY <1>9, <1>10, <1>11, <1>13, <1>14, <1>16, <1>17, <1>18, <1>19 DEF Inv, Descriptors

LEMMA AcceptChecksKeeps == ASSUME SocketAssumption, Inv, AcceptChecks PROVE Inv'
<1>1. /\ accepted.pc = "checking" /\ table[accepted.fd] = 0
      /\ accepted' = [accepted EXCEPT !.pc = "inserting"]
      /\ UNCHANGED <<os, table, global, lock, th, sock, endpoint, conns, fatal>>
  BY DEF AcceptChecks, Locks, Faults
<1>2. Types /\ Descriptors /\ LocksHeld /\ ThreadsBusy /\ PortsHeld
  BY DEF Inv
<1>3. /\ accepted' \in AcceptSet /\ accepted'.pc = "inserting" /\ accepted'.fd = accepted.fd
      /\ accepted'.conn = accepted.conn
  BY <1>1, <1>2 DEF Types, AcceptSet
<1>4. Types'
  BY <1>1, <1>2, <1>3 DEF Types
<1>5. GlobalHeld' /\ SocketsEntered' /\ EntriesOpen'
  BY <1>1, <1>2 DEF Descriptors, GlobalHeld, SocketsEntered, EntriesOpen
<1>6. ClosingAlone'
  BY <1>1, <1>2, <1>3 DEF Descriptors, ClosingAlone
<1>7. InsertsAlone'
  BY <1>1, <1>2, <1>3 DEF Descriptors, InsertsAlone
<1>8. StreamsAccounted'
  BY <1>1, <1>2, <1>3 DEF Descriptors, StreamsAccounted
<1>9. LocksHeld' /\ ThreadsBusy'
  BY <1>1, <1>2, SameLocks DEF ThreadsBusy
<1>10. PortsHeld'
  BY <1>1, <1>2, QuietPorts
<1> QED BY <1>4, <1>5, <1>6, <1>7, <1>8, <1>9, <1>10 DEF Inv, Descriptors

\* addToActiveSockets and what follows it, for a descriptor without an entry:
\* after it globalMutex is free.
LEMMA Inserted ==
    ASSUME SocketAssumption, Inv, NEW h \in Handlers, NEW r \in ThreadSet,
           NEW f \in Fds, NEW c \in Conns,
           r.pc = "ready", r.conn # 0, th' = [th EXCEPT ![h] = r],
           table[f] = 0, os[f] = c, table' = [table EXCEPT ![f] = c],
           sock' = [sock EXCEPT ![c] = f],
           \A u \in Handlers \ {h} : th[u].pc \notin Critical,
           th[h].pc \in {"idle", "connecting"}, th[h].pc = "connecting" => th[h].fd = f,
           global' = "nobody", accepted' \in AcceptSet,
           \/ accepted' = accepted /\ (accepted.pc # "idle" => accepted.fd # f)
           \/ accepted'.pc = "idle" /\ accepted.fd = f /\ th[h].pc = "idle",
           UNCHANGED <<os, lock, endpoint, conns, fatal>>
    PROVE  Inv'
<1>1. Types /\ Descriptors /\ LocksHeld /\ ThreadsBusy /\ PortsHeld
  BY DEF Inv
<1>2. th \in [Handlers -> ThreadSet] /\ "nobody" \notin Handlers /\ 0 \notin Fds /\ 0 \notin Conns
  BY <1>1, Numbers DEF Types
<1>3. /\ th' \in [Handlers -> ThreadSet] /\ th'[h] = r /\ \A u \in Handlers \ {h} : th'[u] = th[u]
  BY <1>2
<1>4. /\ table' \in [Fds -> Conns \union {0}] /\ table'[f] = c
      /\ \A g \in Fds \ {f} : table'[g] = table[g]
  BY <1>1 DEF Types
<1>5. /\ sock' \in [Conns -> Fds \union {0}] /\ sock'[c] = f
      /\ \A d \in Conns \ {c} : sock'[d] = sock[d]
  BY <1>1 DEF Types
<1>6. Types'
  BY <1>1, <1>3, <1>4, <1>5 DEF Types
<1>7. \A u \in Handlers : th'[u].pc \notin Critical
  BY <1>3 DEF Critical
<1>8. GlobalHeld'
  BY <1>2, <1>7 DEF GlobalHeld
<1>9. \A d \in Conns : sock[d] # 0 => /\ sock[d] \in Fds \ {f} /\ table[sock[d]] = d
                                      /\ os[sock[d]] = d
  BY <1>1, <1>2 DEF Types, Descriptors, SocketsEntered
<1>10. SocketsEntered'
  BY <1>4, <1>5, <1>9 DEF SocketsEntered
<1>11. \A u \in Handlers : th[u].pc # "erasing"
  BY DEF Critical
<1>12. \A g \in Fds : table[g] # 0 => os[g] = table[g]
  BY <1>1, <1>11 DEF Descriptors, EntriesOpen
<1>13. EntriesOpen'
  BY <1>4, <1>12 DEF EntriesOpen
<1>14. ClosingAlone'
  BY <1>7 DEF ClosingAlone, Critical
<1>15. InsertsAlone'
  <2>1. SUFFICES ASSUME accepted'.pc # "idle"
        PROVE  /\ accepted'.fd \in Fds /\ accepted'.conn # 0 /\ os'[accepted'.fd] = accepted'.conn
               /\ table'[accepted'.fd] = 0
    BY <1>7 DEF InsertsAlone, Critical
  <2>2. accepted' = accepted /\ accepted.fd # f /\ accepted.pc # "idle"
    BY <2>1
  <2>3. /\ accepted.fd \in Fds /\ accepted.conn # 0 /\ os[accepted.fd] = accepted.conn
        /\ table[accepted.fd] = 0
    BY <1>1, <1>11, <2>2 DEF Descriptors, InsertsAlone
  <2> QED BY <1>4, <2>2, <2>3
<1>16. StreamsAccounted'
  <2>1. SUFFICES ASSUME NEW g \in Fds, os[g] > 0, g # f
        PROVE  table'[g] = os[g] \/ (accepted'.pc # "idle" /\ accepted'.fd = g)
    BY <1>4 DEF StreamsAccounted
  <2>2. \/ table[g] = os[g]
        \/ accepted.pc # "idle" /\ accepted.fd = g
        \/ \E u \in Handlers : th[u].pc = "connecting" /\ th[u].fd = g
    BY <1>1, <2>1 DEF Descriptors, StreamsAccounted
  <2>3. ~ \E u \in Handlers : th[u].pc = "connecting" /\ th[u].fd = g
    BY <2>1 DEF Critical
  <2> QED BY <1>4, <2>1, <2>2, <2>3
<1>17. LocksHeld'
  BY <1>1, <1>2, QuietLocks
<1>18. ThreadsBusy'
  BY <1>1, <1>2, QuietBusy
<1>19. PortsHeld'
  BY <1>1, QuietPorts
<1> QED BY <1>6, <1>8, <1>10, <1>13, <1>14, <1>15, <1>16, <1>17, <1>18, <1>19 DEF Inv, Descriptors

LEMMA AcceptInsertsKeeps ==
    ASSUME SocketAssumption, Inv, NEW h \in Handlers, AcceptInserts(h) PROVE Inv'
<1>1. PICK r : r = [Idle EXCEPT !.pc = "ready", !.stage = "respond",
                                !.conn = accepted.conn, !.fd = accepted.fd]
  OBVIOUS
<1>2. /\ global = "nobody" /\ accepted.pc = "inserting" /\ th[h].pc = "idle"
      /\ Insert(accepted.fd, accepted.conn)
      /\ sock' = [sock EXCEPT ![accepted.conn] = accepted.fd]
      /\ th' = [th EXCEPT ![h] = r] /\ accepted' = [accepted EXCEPT !.pc = "idle"]
      /\ UNCHANGED <<os, global, lock, endpoint, conns>>
  BY <1>1 DEF AcceptInserts, Global, Locks
<1>3. Types /\ Descriptors
  BY DEF Inv
<1>4. \A u \in Handlers : th[u].pc \notin Critical
  BY <1>2, <1>3, SoundWhenFree DEF Descriptors
<1>5. /\ accepted.fd \in Fds /\ accepted.conn # 0 /\ os[accepted.fd] = accepted.conn
      /\ table[accepted.fd] = 0 /\ accepted \in AcceptSet
  BY <1>2, <1>3 DEF Descriptors, InsertsAlone, Types
<1>6. accepted.conn \in Conns
  BY <1>5 DEF AcceptSet
<1>7. table' = [table EXCEPT ![accepted.fd] = accepted.conn] /\ fatal' = fatal
  BY <1>2, <1>5 DEF Insert
<1>8. r \in ThreadSet /\ r.pc = "ready" /\ r.conn # 0
  <2>1. 0 \in 0..MaxTries
    BY Numbers
  <2> QED BY <1>1, <1>5, <1>6, <2>1 DEF Idle, ThreadSet
<1>9. accepted' \in AcceptSet /\ accepted'.pc = "idle"
  BY <1>2, <1>5 DEF AcceptSet
<1> QED BY <1>2, <1>4, <1>5, <1>6, <1>7, <1>8, <1>9, Inserted

-----------------------------------------------------------------------------
(* close.                                                                  *)

\* The connection is still in the table when its close begins.
LEMMA CloseBeginKeeps ==
    ASSUME SocketAssumption, Inv, NEW h \in Handlers, NEW c \in Conns, CloseBegin(h, c),
           th[h].pc \in {"ready", "failed", "done"}
    PROVE  Inv'
<1>1. Types /\ Descriptors /\ LocksHeld /\ ThreadsBusy /\ PortsHeld
  BY DEF Inv
<1>2. /\ th \in [Handlers -> ThreadSet] /\ th[h] \in ThreadSet /\ th[h].conn # 0
      /\ "nobody" \notin Handlers /\ 0 \notin Fds /\ 0 \notin Conns
  BY <1>1, Numbers DEF Types, ThreadsBusy
<1>3. PICK f : f = sock[c]
  OBVIOUS
<1>4. PICK r : r = [th[h] EXCEPT !.pc = "closing", !.fd = f, !.it = c]
  OBVIOUS
<1>5. /\ global = "nobody" /\ f # 0 /\ sock' = [sock EXCEPT ![c] = 0]
      /\ UNCHANGED <<os, table, lock, accepted, endpoint, conns, fatal>>
  BY <1>3 DEF CloseBegin, Global, Faults
<1>6. f \in Fds /\ table[f] = c /\ os[f] = c
  BY <1>1, <1>3, <1>5 DEF Types, Descriptors, SocketsEntered
<1>7. global' = h /\ th' = [th EXCEPT ![h] = r]
  <2>1. table[sock[c]] # 0
    BY <1>2, <1>3, <1>6
  <2>2. th' = [th EXCEPT ![h].pc = "closing", ![h].fd = sock[c], ![h].it = c] /\ global' = h
    BY <2>1 DEF CloseBegin
  <2> QED BY <1>2, <1>3, <1>4, <2>2
<1>8. /\ r \in ThreadSet /\ r.pc = "closing" /\ r.fd = f /\ r.it = c /\ r.conn # 0
  BY <1>2, <1>4, <1>6 DEF ThreadSet
<1>9. /\ th' \in [Handlers -> ThreadSet] /\ th'[h] = r /\ \A u \in Handlers \ {h} : th'[u] = th[u]
  BY <1>2, <1>7, <1>8
<1>10. /\ sock' \in [Conns -> Fds \union {0}] /\ sock'[c] = 0
       /\ \A d \in Conns \ {c} : sock'[d] = sock[d]
  BY <1>1, <1>5 DEF Types
<1>11. Types'
  BY <1>1, <1>5, <1>7, <1>9, <1>10 DEF Types
<1>12. /\ \A u \in Handlers : th[u].pc \notin Critical
       /\ \A g \in Fds : table[g] # 0 => os[g] = table[g]
  BY <1>1, <1>5, SoundWhenFree DEF Descriptors
<1>13. GlobalHeld'
  BY <1>7, <1>8, <1>9, <1>12 DEF GlobalHeld, Critical
<1>14. SocketsEntered'
  BY <1>1, <1>5, <1>10 DEF Descriptors, SocketsEntered
<1>15. EntriesOpen'
  BY <1>5, <1>12 DEF EntriesOpen
<1>16. ClosingAlone'
  <2>1. \A d \in Conns : sock'[d] # f
    BY <1>1, <1>2, <1>6, <1>10 DEF Descriptors, SocketsEntered
  <2> QED BY <1>2, <1>5, <1>6, <1>8, <1>9, <1>12, <2>1 DEF ClosingAlone, Critical
<1>17. InsertsAlone'
  <2>1. \A u \in Handlers : th'[u].pc # "connecting" /\ th[u].pc # "erasing"
    BY <1>8, <1>9, <1>12 DEF Critical
  <2> QED BY <1>1, <1>5, <2>1 DEF Descriptors, InsertsAlone
<1>18. StreamsAccounted'
  BY <1>1, <1>5, <1>12 DEF Descriptors, StreamsAccounted, Critical
<1>19. LocksHeld'
  BY <1>1, <1>2, <1>5, <1>7, QuietLocks
<1>20. ThreadsBusy'
  BY <1>1, <1>2, <1>7, <1>8, QuietBusy
<1>21. PortsHeld'
  BY <1>1, <1>5, QuietPorts
<1> QED BY <1>11, <1>13, <1>14, <1>15, <1>16, <1>17, <1>18, <1>19, <1>20, <1>21 DEF Inv, Descriptors

LEMMA CloseOwnKeeps == ASSUME SocketAssumption, Inv, NEW h \in Handlers, CloseOwn(h) PROVE Inv'
<1>1. th[h].pc \in {"ready", "failed", "done"} /\ CloseBegin(h, th[h].conn)
  BY DEF CloseOwn
<1>2. th[h].conn \in Conns
  BY <1>1, ThreadType
<1> QED BY <1>1, <1>2, CloseBeginKeeps

LEMMA RecoverClientKeeps ==
    ASSUME SocketAssumption, Inv, NEW h \in Handlers, NEW c \in Conns, RecoverClient(h, c)
    PROVE  Inv'
<1>1. th[h].pc \in {"ready", "failed", "done"} /\ CloseBegin(h, c)
  BY Zenon DEF RecoverClient
<1> QED BY <1>1, CloseBeginKeeps

\* What holds of the thread that holds globalMutex.
LEMMA Holder ==
    ASSUME SocketAssumption, Inv, NEW h \in Handlers, th[h].pc \in Critical
    PROVE  /\ global = h /\ \A u \in Handlers \ {h} : th[u].pc \notin Critical
           /\ th[h] \in ThreadSet /\ th \in [Handlers -> ThreadSet]
           /\ th[h].conn # 0 /\ th[h].fd \in Fds
  BY DEF Inv, Types, Descriptors, GlobalHeld, ThreadsBusy, ClosingAlone, InsertsAlone, Critical

LEMMA CloseKernelKeeps ==
    ASSUME SocketAssumption, Inv, NEW h \in Handlers, CloseKernel(h) PROVE Inv'
<1>1. Types /\ Descriptors /\ LocksHeld /\ ThreadsBusy /\ PortsHeld
  BY DEF Inv
<1>2. PICK f : f = th[h].fd
  OBVIOUS
<1>3. PICK r : r = [th[h] EXCEPT !.pc = "erasing"]
  OBVIOUS
<1>4. /\ th[h].pc = "closing" /\ os' = [os EXCEPT ![f] = Free]
      /\ lock' = [lock EXCEPT ![table[f]] = h] /\ th' = [th EXCEPT ![h].pc = "erasing"]
      /\ UNCHANGED <<table, global, accepted, sock, endpoint, conns, fatal>>
  BY <1>2, Zenon DEF CloseKernel
<1>5. /\ global = h /\ \A u \in Handlers \ {h} : th[u].pc \notin Critical
      /\ th[h] \in ThreadSet /\ th \in [Handlers -> ThreadSet] /\ th[h].conn # 0 /\ f \in Fds
  BY <1>2, <1>4, Holder DEF Critical
<1>6. /\ th[h].it # 0 /\ table[f] = th[h].it /\ os[f] = th[h].it /\ \A c \in Conns : sock[c] # f
  BY <1>1, <1>2, <1>4 DEF Descriptors, ClosingAlone
<1>7. /\ r \in ThreadSet /\ r.pc = "erasing" /\ r.fd = f /\ r.it = th[h].it /\ r.conn # 0
      /\ r.it \in Conns
  BY <1>2, <1>3, <1>5, <1>6 DEF ThreadSet
<1>8. /\ th' = [th EXCEPT ![h] = r] /\ th' \in [Handlers -> ThreadSet] /\ th'[h] = r
      /\ \A u \in Handlers \ {h} : th'[u] = th[u]
  BY <1>3, <1>4, <1>5, <1>7
<1>9. /\ os' \in [Fds -> Conns \union {Free, Listening}] /\ os'[f] = Free
      /\ \A g \in Fds \ {f} : os'[g] = os[g]
  BY <1>1, <1>4, <1>5 DEF Types
<1>10. Types'
  BY <1>1, <1>4, <1>8, <1>9 DEF Types
<1>11. GlobalHeld'
  BY <1>1, <1>4, <1>7, <1>8 DEF Descriptors, GlobalHeld, Critical
<1>12. SocketsEntered'
  <2>1. \A c \in Conns : sock[c] # 0 => sock[c] \in Fds \ {f}
    BY <1>1, <1>6 DEF Types
  <2> QED BY <1>1, <1>4, <1>9, <2>1 DEF Descriptors, SocketsEntered
<1>13. EntriesOpen'
  <2>1. SUFFICES ASSUME NEW g \in Fds \ {f}, table[g] # 0, os[g] # table[g] PROVE FALSE
    BY <1>4, <1>7, <1>8, <1>9 DEF EntriesOpen
  <2>2. \E u \in Handlers : th[u].pc = "erasing"
    BY <1>1, <2>1 DEF Descriptors, EntriesOpen
  <2> QED BY <1>4, <1>5, <2>2 DEF Critical
<1>14. ClosingAlone'
  <2>1. SUFFICES ASSUME NEW u \in Handlers, th'[u].pc \in {"closing", "erasing"}
        PROVE  /\ th'[u].fd \in Fds /\ th'[u].it # 0 /\ table[th'[u].fd] = th'[u].it
               /\ \A c \in Conns : sock[c] # th'[u].fd
               /\ th'[u].pc = "erasing" /\ os'[th'[u].fd] = Free
    BY <1>4 DEF ClosingAlone
  <2>2. u = h
    BY <1>5, <1>8, <2>1 DEF Critical
  <2> QED BY <1>5, <1>6, <1>7, <1>8, <1>9, <2>2
<1>15. InsertsAlone'
  <2>1. \A u \in Handlers : th'[u].pc # "connecting" /\ th[u].pc # "erasing"
    BY <1>4, <1>5, <1>7, <1>8 DEF Critical
  <2>2. accepted.pc # "idle" => /\ accepted.fd \in Fds \ {f} /\ accepted.conn # 0
                                /\ os[accepted.fd] = accepted.conn /\ table[accepted.fd] = 0
    BY <1>1, <1>6, <2>1 DEF Descriptors, InsertsAlone
  <2> QED BY <1>4, <1>9, <2>1, <2>2 DEF InsertsAlone
<1>16. StreamsAccounted'
  <2>1. \A u \in Handlers : th[u].pc # "connecting"
    BY <1>4, <1>5 DEF Critical
  <2> QED BY <1>1, <1>4, <1>9, <2>1 DEF Descriptors, StreamsAccounted, Free
<1>17. LocksHeld'
  BY <1>1, <1>4, <1>5, <1>6, <1>7, <1>8, NewLock
<1>18. ThreadsBusy'
  BY <1>1, <1>5, <1>7, <1>8, QuietBusy
<1>19. PortsHeld'
  <2>1. os[f] # Listening
    BY <1>6, <1>7 DEF Conns, Listening
  <2> QED BY <1>1, <1>4, <1>9, <2>1, QuietPorts
<1> QED BY <1>10, <1>11, <1>12, <1>13, <1>14, <1>15, <1>16, <1>17, <1>18, <1>19 DEF Inv, Descriptors

LEMMA CloseEraseKeeps ==
    ASSUME SocketAssumption, Inv, NEW h \in Handlers, CloseErase(h) PROVE Inv'
<1>1. Types /\ Descriptors /\ LocksHeld /\ ThreadsBusy /\ PortsHeld
  BY DEF Inv
<1>2. PICK f : f = th[h].fd
  OBVIOUS
<1>3. PICK p : p = IF th[h].it = th[h].conn THEN "done" ELSE "ready"
  OBVIOUS
<1>4. PICK r : r = [th[h] EXCEPT !.pc = p]
  OBVIOUS
<1>5. /\ th[h].pc = "erasing" /\ table' = [table EXCEPT ![f] = 0] /\ global' = "nobody"
      /\ lock' = [c \in Conns |-> IF lock[c] = h THEN "nobody" ELSE lock[c]]
      /\ th' = [th EXCEPT ![h].pc = p]
      /\ UNCHANGED <<os, accepted, sock, endpoint, conns, fatal>>
  BY <1>2, <1>3 DEF CloseErase, Faults
<1>6. /\ global = h /\ \A u \in Handlers \ {h} : th[u].pc \notin Critical
      /\ th[h] \in ThreadSet /\ th \in [Handlers -> ThreadSet] /\ th[h].conn # 0 /\ f \in Fds
      /\ "nobody" \notin Handlers
  BY <1>2, <1>5, Holder, Numbers DEF Critical
<1>7. /\ \A c \in Conns : sock[c] # f
      /\ os[f] = Free \/ (accepted.pc # "idle" /\ accepted.fd = f)
  BY <1>1, <1>2, <1>5 DEF Descriptors, ClosingAlone
<1>8. r \in ThreadSet /\ r.pc = p /\ r.conn # 0 /\ p \in {"ready", "done"}
  BY <1>3, <1>4, <1>6 DEF ThreadSet
<1>9. /\ th' = [th EXCEPT ![h] = r] /\ th' \in [Handlers -> ThreadSet] /\ th'[h] = r
      /\ \A u \in Handlers \ {h} : th'[u] = th[u]
  BY <1>4, <1>5, <1>6, <1>8
<1>10. /\ table' \in [Fds -> Conns \union {0}] /\ table'[f] = 0
       /\ \A g \in Fds \ {f} : table'[g] = table[g]
  BY <1>1, <1>5, <1>6 DEF Types
<1>11. Types'
  BY <1>1, <1>5, <1>9, <1>10 DEF Types
<1>12. \A u \in Handlers : th'[u].pc \notin Critical
  BY <1>6, <1>8, <1>9 DEF Critical
<1>13. GlobalHeld'
  BY <1>5, <1>6, <1>12 DEF GlobalHeld
<1>14. SocketsEntered'
  <2>1. \A c \in Conns : sock[c] # 0 => sock[c] \in Fds \ {f}
    BY <1>1, <1>7 DEF Types
  <2> QED BY <1>1, <1>5, <1>10, <2>1 DEF Descriptors, SocketsEntered
<1>15. EntriesOpen'
  <2>1. SUFFICES ASSUME NEW g \in Fds \ {f}, table[g] # 0, os[g] # table[g] PROVE FALSE
    BY <1>5, <1>10 DEF EntriesOpen
  <2>2. \E u \in Handlers : th[u].pc = "erasing" /\ th[u].fd = g
    BY <1>1, <2>1 DEF Descriptors, EntriesOpen
  <2> QED BY <1>2, <1>6, <2>1, <2>2 DEF Critical
<1>16. ClosingAlone'
  BY <1>12 DEF ClosingAlone, Critical
<1>17. InsertsAlone'
  <2>1. accepted.pc # "idle" /\ table[accepted.fd] # 0 => accepted.fd = f
    BY <1>1, <1>2, <1>6 DEF Descriptors, InsertsAlone, Critical
  <2>2. accepted.pc # "idle" => /\ accepted.fd \in Fds /\ accepted.conn # 0
                                /\ os[accepted.fd] = accepted.conn
    BY <1>1 DEF Descriptors, InsertsAlone
  <2>3. accepted.pc # "idle" => table'[accepted.fd] = 0
    BY <1>10, <2>1, <2>2
  <2> QED BY <1>5, <1>12, <2>2, <2>3 DEF InsertsAlone, Critical
<1>18. StreamsAccounted'
  <2>1. \A u \in Handlers : th[u].pc # "connecting"
    BY <1>5, <1>6 DEF Critical
  <2> QED BY <1>1, <1>5, <1>7, <1>10, <2>1 DEF Descriptors, StreamsAccounted, Free
<1>19. LocksHeld'
  BY <1>1, <1>5, <1>6, <1>9 DEF LocksHeld
<1>20. ThreadsBusy'
  BY <1>1, <1>6, <1>8, <1>9, QuietBusy
<1>21. PortsHeld'
  BY <1>1, <1>5, QuietPorts
<1> QED BY <1>11, <1>13, <1>14, <1>15, <1>16, <1>17, <1>18, <1>19, <1>20, <1>21 DEF Inv, Descriptors

-----------------------------------------------------------------------------
(* connect.                                                                *)

LEMMA ConnectBeginKeeps ==
    ASSUME SocketAssumption, Inv, NEW h \in Handlers, ConnectBegin(h) PROVE Inv'
<1>1. Types /\ Descriptors /\ LocksHeld /\ ThreadsBusy /\ PortsHeld
  BY DEF Inv
<1>2. PICK f : f = Min(FreeFds)
  OBVIOUS
<1>3. PICK n : n = conns + 1
  OBVIOUS
<1>4. PICK r : r = [Idle EXCEPT !.pc = "connecting", !.conn = n, !.fd = f]
  OBVIOUS
<1>5. /\ global = "nobody" /\ th[h].pc = "idle" /\ FreeFds # {} /\ conns < MaxConns
      /\ global' = h /\ conns' = n /\ os' = [os EXCEPT ![f] = n] /\ th' = [th EXCEPT ![h] = r]
      /\ UNCHANGED <<table, lock, accepted, sock, endpoint, fatal>>
  BY <1>2, <1>3, <1>4 DEF ConnectBegin, Global, Faults
<1>6. f \in Fds /\ os[f] = 0 /\ os \in [Fds -> Conns \union {Free, Listening}]
  BY <1>1, <1>2, <1>5, FreeFdsAre DEF Types
<1>7. n \in Conns /\ n # 0 /\ n > 0 /\ n \in 0..MaxConns
  BY <1>1, <1>3, <1>5, Numbers DEF Types, Conns
<1>8. /\ os' \in [Fds -> Conns \union {Free, Listening}] /\ os'[f] = n
      /\ \A g \in Fds \ {f} : os'[g] = os[g]
  BY <1>5, <1>6, <1>7
<1>9. r \in ThreadSet /\ r.pc = "connecting" /\ r.conn = n /\ r.fd = f
  <2>1. 0 \in 0..MaxTries
    BY Numbers
  <2> QED BY <1>4, <1>6, <1>7, <2>1 DEF Idle, ThreadSet
<1>10. /\ th \in [Handlers -> ThreadSet] /\ th' \in [Handlers -> ThreadSet] /\ th'[h] = r
       /\ \A u \in Handlers \ {h} : th'[u] = th[u]
  BY <1>1, <1>5, <1>9 DEF Types
<1>11. Types'
  BY <1>1, <1>5, <1>7, <1>8, <1>10 DEF Types
<1>12. /\ \A u \in Handlers : th[u].pc \notin Critical
       /\ \A g \in Fds : table[g] # 0 => os[g] = table[g]
  BY <1>1, <1>5, SoundWhenFree DEF Descriptors
<1>13. table[f] = 0
  BY <1>6, <1>12
<1>14. GlobalHeld'
  BY <1>5, <1>9, <1>10, <1>12 DEF GlobalHeld, Critical
<1>15. SocketsEntered'
  <2>1. \A c \in Conns : sock[c] # 0 => sock[c] \in Fds \ {f}
    BY <1>1, <1>6, Numbers DEF Types, Descriptors, SocketsEntered
  <2> QED BY <1>1, <1>5, <1>8, <2>1 DEF Descriptors, SocketsEntered
<1>16. EntriesOpen'
  BY <1>5, <1>8, <1>12, <1>13 DEF EntriesOpen
<1>17. ClosingAlone'
  BY <1>9, <1>10, <1>12 DEF ClosingAlone, Critical
<1>18. InsertsAlone'
  <2>1. accepted.pc # "idle" => /\ accepted.fd \in Fds \ {f} /\ accepted.conn # 0
                                /\ os[accepted.fd] = accepted.conn /\ table[accepted.fd] = 0
    BY <1>1, <1>6, <1>12 DEF Descriptors, InsertsAlone, Critical
  <2>2. \A u \in Handlers : th'[u].pc = "connecting" => u = h
    BY <1>10, <1>12 DEF Critical
  <2>3. \A u \in Handlers : th'[u].pc = "connecting" => th'[u].fd = f /\ th'[u].conn = n
    BY <1>9, <1>10, <2>2
  <2> QED BY <1>5, <1>6, <1>7, <1>8, <1>13, <2>1, <2>3 DEF InsertsAlone
<1>19. StreamsAccounted'
  <2>1. \A u \in Handlers : th[u].pc # "connecting"
    BY <1>12 DEF Critical
  <2> QED BY <1>1, <1>5, <1>8, <1>9, <1>10, <2>1 DEF Descriptors, StreamsAccounted
<1>20. LocksHeld'
  BY <1>1, <1>5, <1>10, QuietLocks
<1>21. ThreadsBusy'
  BY <1>1, <1>5, <1>7, <1>9, <1>10, QuietBusy
<1>22. PortsHeld'
  <2>1. \A g \in Fds : os[g] = Listening => os'[g] = Listening
    BY <1>6, <1>8 DEF Listening
  <2> QED BY <1>1, <1>5, <2>1, QuietPorts
<1> QED BY <1>11, <1>14, <1>15, <1>16, <1>17, <1>18, <1>19, <1>20, <1>21, <1>22 DEF Inv, Descriptors

LEMMA Connecting ==
    ASSUME SocketAssumption, Inv, NEW h \in Handlers, th[h].pc = "connecting"
    PROVE  /\ th[h].fd \in Fds /\ th[h].conn \in Conns
           /\ table[th[h].fd] = 0 /\ os[th[h].fd] = th[h].conn
           /\ accepted \in AcceptSet /\ (accepted.pc # "idle" => accepted.fd # th[h].fd)
<1>1. Types /\ Descriptors
  BY DEF Inv
<1> QED BY <1>1, ThreadType DEF Descriptors, InsertsAlone, Types

LEMMA ConnectedKeeps == ASSUME SocketAssumption, Inv, NEW h \in Handlers, Connected(h) PROVE Inv'
<1>1. PICK r : r = [th[h] EXCEPT !.pc = "ready", !.stage = "serve"]
  OBVIOUS
<1>2. /\ th[h].pc = "connecting" /\ Insert(th[h].fd, th[h].conn)
      /\ sock' = [sock EXCEPT ![th[h].conn] = th[h].fd] /\ global' = "nobody"
      /\ th' = [th EXCEPT ![h].pc = "ready", ![h].stage = "serve"]
      /\ UNCHANGED <<os, lock, accepted, endpoint, conns>>
  BY DEF Connected
<1>3. /\ th[h].fd \in Fds /\ th[h].conn \in Conns
      /\ table[th[h].fd] = 0 /\ os[th[h].fd] = th[h].conn
      /\ accepted \in AcceptSet /\ (accepted.pc # "idle" => accepted.fd # th[h].fd)
  BY <1>2, Connecting
<1>4. \A u \in Handlers \ {h} : th[u].pc \notin Critical
  BY <1>2, Holder DEF Critical
<1>5. table' = [table EXCEPT ![th[h].fd] = th[h].conn] /\ fatal' = fatal
  BY <1>2, <1>3 DEF Insert
<1>6. /\ r \in ThreadSet /\ r.pc = "ready" /\ r.conn = th[h].conn /\ th' = [th EXCEPT ![h] = r]
      /\ r.conn # 0
  <2>1. th \in [Handlers -> ThreadSet] /\ th[h] \in ThreadSet /\ 0 \notin Conns
    BY ThreadType, Numbers
  <2>2. r \in ThreadSet /\ r.pc = "ready" /\ r.conn = th[h].conn
    BY <1>1, <2>1 DEF ThreadSet
  <2>3. th' = [th EXCEPT ![h] = r]
    BY <1>1, <1>2, <2>1
  <2> QED BY <1>3, <2>1, <2>2, <2>3
<1> QED BY <1>2, <1>3, <1>4, <1>5, <1>6, Inserted

LEMMA IdleType == ASSUME SocketAssumption PROVE Idle \in ThreadSet /\ Idle.pc = "idle"
<1>1. 0 \in 0..MaxTries
  BY Numbers
<1> QED BY <1>1 DEF Idle, ThreadSet

LEMMA ConnectFailsKeeps ==
    ASSUME SocketAssumption, Inv, NEW h \in Handlers, ConnectFails(h) PROVE Inv'
<1>1. Types /\ Descriptors /\ LocksHeld /\ ThreadsBusy /\ PortsHeld
  BY DEF Inv
<1>2. PICK f : f = th[h].fd
  OBVIOUS
<1>3. /\ th[h].pc = "connecting" /\ os' = [os EXCEPT ![f] = Free] /\ th' = [th EXCEPT ![h] = Idle]
      /\ global' = "nobody" /\ UNCHANGED <<table, lock, accepted, sock, endpoint, conns, fatal>>
  BY <1>2 DEF ConnectFails, Faults
<1>4. /\ f \in Fds /\ table[f] = 0 /\ os[f] = th[h].conn /\ th[h].conn \in Conns
      /\ accepted.pc # "idle" => accepted.fd # f
  BY <1>2, <1>3, Connecting
<1>5. /\ \A u \in Handlers \ {h} : th[u].pc \notin Critical
      /\ th \in [Handlers -> ThreadSet] /\ "nobody" \notin Handlers /\ 0 \notin Conns
  BY <1>3, Holder, Numbers DEF Critical
<1>6. /\ th' \in [Handlers -> ThreadSet] /\ th'[h] = Idle
      /\ \A u \in Handlers \ {h} : th'[u] = th[u]
  BY <1>3, <1>5, IdleType
<1>7. /\ os' \in [Fds -> Conns \union {Free, Listening}] /\ os'[f] = Free
      /\ \A g \in Fds \ {f} : os'[g] = os[g]
  BY <1>1, <1>3, <1>4 DEF Types
<1>8. \A u \in Handlers : th'[u].pc \notin Critical
  BY <1>5, <1>6, IdleType DEF Critical
<1>9. Types'
  BY <1>1, <1>3, <1>6, <1>7 DEF Types
<1>10. GlobalHeld'
  BY <1>3, <1>5, <1>8 DEF GlobalHeld
<1>11. SocketsEntered'
  <2>1. \A c \in Conns : sock[c] # 0 => sock[c] \in Fds \ {f}
    BY <1>1, <1>4, <1>5 DEF Types, Descriptors, SocketsEntered
  <2> QED BY <1>1, <1>3, <1>7, <2>1 DEF Descriptors, SocketsEntered
<1>12. \A u \in Handlers : th[u].pc # "erasing"
  BY <1>3, <1>5 DEF Critical
<1>13. EntriesOpen'
  BY <1>1, <1>3, <1>4, <1>7, <1>12 DEF Descriptors, EntriesOpen
<1>14. ClosingAlone'
  BY <1>8 DEF ClosingAlone, Critical
<1>15. InsertsAlone'
  BY <1>1, <1>3, <1>4, <1>7, <1>8, <1>12 DEF Descriptors, InsertsAlone, Critical
<1>16. StreamsAccounted'
  <2>1. \A u \in Handlers : th[u].pc = "connecting" => th[u].fd = f
    BY <1>2, <1>5 DEF Critical
  <2> QED BY <1>1, <1>3, <1>7, <2>1 DEF Descriptors, StreamsAccounted, Free
<1>17. LocksHeld'
  BY <1>1, <1>3, <1>5, QuietLocks
<1>18. ThreadsBusy'
  BY <1>1, <1>3, <1>5, IdleType, QuietBusy
<1>19. PortsHeld'
  <2>1. \A g \in Fds : os[g] = Listening => os'[g] = Listening
    BY <1>4, <1>7 DEF Listening, Conns
  <2> QED BY <1>1, <1>3, <2>1, QuietPorts
<1> QED BY <1>9, <1>10, <1>11, <1>13, <1>14, <1>15, <1>16, <1>17, <1>18, <1>19 DEF Inv, Descriptors

-----------------------------------------------------------------------------
(* listen, and the end of a thread.                                        *)

\* Descriptors that are nobody's are bound or freed while globalMutex is free.
LEMMA PortsStep ==
    ASSUME SocketAssumption, Inv, NEW h \in Handlers, NEW r \in ThreadSet, NEW l \in {"no", "listen"},
           th' = [th EXCEPT ![h] = r], th[h].pc \notin {"io"}, r.pc \notin Critical,
           r.pc # "idle" => r.conn # 0, r.pc \notin {"found", "io"},
           global = "nobody", fatal' = l,
           os' \in [Fds -> Conns \union {Free, Listening}],
           \A f \in Fds : os'[f] = os[f] \/ (os[f] \in {0, -1} /\ os'[f] \in {0, -1}),
           UNCHANGED <<table, global, lock, accepted, sock, conns>>, PortsHeld'
    PROVE  Inv'
<1>1. Types /\ Descriptors /\ LocksHeld /\ ThreadsBusy
  BY DEF Inv
<1>2. /\ th \in [Handlers -> ThreadSet] /\ th' \in [Handlers -> ThreadSet] /\ th'[h] = r
      /\ \A u \in Handlers \ {h} : th'[u] = th[u]
  BY <1>1 DEF Types
<1>3. /\ \A u \in Handlers : th[u].pc \notin Critical
      /\ \A g \in Fds : table[g] # 0 => os[g] = table[g]
  BY <1>1, SoundWhenFree DEF Descriptors
<1>4. \A u \in Handlers : th'[u].pc \notin Critical
  BY <1>2, <1>3
<1>5. Types'
  BY <1>1, <1>2 DEF Types
<1>6. GlobalHeld'
  BY <1>1, <1>3, <1>4 DEF Descriptors, GlobalHeld
<1>7. \A c \in Conns : c \notin {0, -1}
  BY DEF Conns
<1>8. \A g \in Fds : os[g] \in Conns => os'[g] = os[g]
  BY <1>7
<1>9. SocketsEntered'
  BY <1>1, <1>8 DEF Types, Descriptors, SocketsEntered
<1>10. EntriesOpen'
  BY <1>1, <1>3, <1>8 DEF Types, EntriesOpen
<1>11. ClosingAlone'
  BY <1>4 DEF ClosingAlone, Critical
<1>12. InsertsAlone'
  <2>1. accepted.pc # "idle" => /\ accepted.fd \in Fds /\ accepted.conn # 0
                                /\ os[accepted.fd] = accepted.conn /\ table[accepted.fd] = 0
    BY <1>1, <1>3 DEF Descriptors, InsertsAlone, Critical
  <2>2. accepted.pc # "idle" => accepted.conn \in Conns
    BY <1>1, <2>1 DEF Types, AcceptSet
  <2>3. accepted.pc # "idle" => os'[accepted.fd] = accepted.conn
    BY <1>8, <2>1, <2>2
  <2> QED BY <1>4, <2>1, <2>3 DEF InsertsAlone, Critical
<1>13. StreamsAccounted'
  <2>1. \A u \in Handlers : th[u].pc # "connecting"
    BY <1>3 DEF Critical
  <2>2. \A g \in Fds : os'[g] > 0 => os'[g] = os[g]
    OBVIOUS
  <2> QED BY <1>1, <2>1, <2>2 DEF Descriptors, StreamsAccounted
<1>14. LocksHeld'
  BY <1>1, <1>2, <1>3, QuietLocks DEF Critical
<1>15. ThreadsBusy'
  BY <1>1, <1>2, QuietBusy
<1> QED BY <1>5, <1>6, <1>9, <1>10, <1>11, <1>12, <1>13, <1>14, <1>15 DEF Inv, Descriptors

LEMMA RetireKeeps == ASSUME SocketAssumption, Inv, NEW h \in Handlers, Retire(h) PROVE Inv'
<1>1. Types /\ PortsHeld /\ os \in [Fds -> Conns \union {Free, Listening}]
      /\ endpoint \in [Ports -> SUBSET Fds] /\ EndpointsOpen /\ fatal \in {"no", "listen"}
  BY DEF Inv, Types, PortsHeld
<1>2. /\ global = "nobody" /\ th[h].pc \in {"ready", "failed", "done"}
      /\ th' = [th EXCEPT ![h] = Idle]
      /\ UNCHANGED <<table, global, lock, accepted, sock, conns, fatal>>
  BY DEF Retire, Global, Locks, Faults
<1>3. /\ os' \in [Fds -> Conns \union {Free, Listening}]
      /\ \A f \in Fds : os'[f] = os[f] \/ (os[f] \in {0, -1} /\ os'[f] \in {0, -1})
      /\ PortsHeld'
  <2>1. CASE th[h].port \in Ports
    <3>1. PICK p \in Ports : p = th[h].port
      BY <2>1
    <3>2. /\ os' = [f \in Fds |-> IF f \in endpoint[p] THEN Free ELSE os[f]]
          /\ endpoint' = [endpoint EXCEPT ![p] = {}]
      BY <3>1 DEF Retire
    <3>3. /\ os' \in [Fds -> Conns \union {Free, Listening}]
          /\ \A f \in Fds : os'[f] = IF f \in endpoint[p] THEN 0 ELSE os[f]
      BY <1>1, <3>2 DEF Free
    <3>4. \A f \in endpoint[p] : os[f] = -1
      BY <1>1 DEF EndpointsOpen, Listening
    <3>5. /\ endpoint' \in [Ports -> SUBSET Fds] /\ endpoint'[p] = {}
          /\ \A q \in Ports \ {p} : endpoint'[q] = endpoint[q]
      BY <1>1, <3>2
    <3>6. EndpointsOpen'
      <4>1. ASSUME NEW q \in Ports, NEW f \in endpoint'[q] PROVE os'[f] = Listening
        <5>1. q # p /\ f \in endpoint[q]
          BY <3>5, <4>1
        <5>2. f \notin endpoint[p] /\ os[f] = Listening /\ f \in Fds
          BY <1>1, <5>1 DEF EndpointsOpen
        <5> QED BY <3>3, <5>2
      <4>2. \A q, s \in Ports : q # s => endpoint'[q] \intersect endpoint'[s] = {}
        BY <1>1, <3>5 DEF EndpointsOpen
      <4> QED BY <4>1, <4>2 DEF EndpointsOpen
    <3> QED BY <3>3, <3>4, <3>5, <3>6 DEF PortsHeld
  <2>2. CASE th[h].port \notin Ports
    <3>1. os' = os /\ endpoint' = endpoint
      BY <2>2 DEF Retire
    <3> QED BY <1>1, <3>1, QuietPorts
  <2> QED BY <2>1, <2>2
<1> QED BY <1>1, <1>2, <1>3, IdleType, PortsStep DEF Critical

LEMMA BoundIs ==
    ASSUME Types, NEW S, S \subseteq FreeFds, Bound(S)
    PROVE  /\ os' \in [Fds -> Conns \union {Free, Listening}]
           /\ \A f \in Fds : os'[f] = os[f] \/ (os[f] \in {0, -1} /\ os'[f] \in {0, -1})
           /\ \A f \in Fds : os[f] = Listening => os'[f] = Listening
           /\ \A f \in S : f \in Fds /\ os'[f] = Listening /\ os[f] # Listening
<1>1. os \in [Fds -> Conns \union {Free, Listening}]
  BY DEF Types
<1>2. os' = [f \in Fds |-> IF f \in S THEN Listening ELSE os[f]]
  BY DEF Bound
<1>3. \A f \in S : f \in Fds /\ os[f] = Free
  BY DEF FreeFds
<1> QED BY <1>1, <1>2, <1>3 DEF Free, Listening

LEMMA ListenKeeps ==
    ASSUME SocketAssumption, Inv, NEW h \in Handlers, NEW p \in Ports, Listen(h, p) PROVE Inv'
<1>1. Types /\ PortsHeld /\ os \in [Fds -> Conns \union {Free, Listening}]
      /\ endpoint \in [Ports -> SUBSET Fds] /\ EndpointsOpen
      /\ th[h] \in ThreadSet /\ th \in [Handlers -> ThreadSet]
  BY DEF Inv, Types, PortsHeld
<1>2. /\ global = "nobody" /\ fatal = "no" /\ th[h].pc = "ready"
      /\ UNCHANGED <<table, global, lock, accepted, sock, conns>>
  BY DEF Listen, MayListen, Global, Locks
<1>3. th[h].conn # 0
  BY <1>2 DEF Inv, ThreadsBusy
<1>4. CASE endpoint[p] # {}
  <2>1. fatal' = "listen" /\ os' = os /\ endpoint' = endpoint /\ th' = th
    BY <1>4 DEF Listen
  <2>2. th' = [th EXCEPT ![h] = th[h]]
    BY <1>1, <2>1
  <2>3. PortsHeld'
    BY <1>1, <2>1, QuietPorts
  <2> QED BY <1>1, <1>2, <1>3, <2>1, <2>2, <2>3, PortsStep DEF Critical
<1>5. CASE endpoint[p] = {}
  <2>1. PICK S : S = Lowest(Addresses)
    OBVIOUS
  <2>2. PICK r : r = [th[h] EXCEPT !.port = p]
    OBVIOUS
  <2>3. S \subseteq FreeFds
    BY <2>1 DEF Lowest
  <2>4. /\ Bound(S) /\ endpoint' = [endpoint EXCEPT ![p] = S] /\ fatal' = fatal
        /\ th' = [th EXCEPT ![h].port = p]
    BY <1>5, <2>1 DEF Listen
  <2>5. th' = [th EXCEPT ![h] = r] /\ r \in ThreadSet /\ r.pc = "ready" /\ r.conn = th[h].conn
    BY <1>1, <1>2, <2>2, <2>4 DEF ThreadSet
  <2>6. /\ os' \in [Fds -> Conns \union {Free, Listening}]
        /\ \A f \in Fds : os'[f] = os[f] \/ (os[f] \in {0, -1} /\ os'[f] \in {0, -1})
        /\ \A f \in Fds : os[f] = Listening => os'[f] = Listening
        /\ \A f \in S : f \in Fds /\ os'[f] = Listening /\ os[f] # Listening
    BY <1>1, <2>3, <2>4, BoundIs
  <2>7. /\ endpoint' \in [Ports -> SUBSET Fds] /\ endpoint'[p] = S
        /\ \A q \in Ports \ {p} : endpoint'[q] = endpoint[q]
    BY <1>1, <2>4, <2>6
  <2>8. \A q \in Ports : endpoint[q] \intersect S = {}
    BY <1>1, <2>6 DEF EndpointsOpen
  <2>9. EndpointsOpen'
    <3>1. \A q \in Ports : \A f \in endpoint'[q] : os'[f] = Listening
      BY <1>1, <2>6, <2>7 DEF EndpointsOpen
    <3>2. \A q, s \in Ports : q # s => endpoint'[q] \intersect endpoint'[s] = {}
      BY <1>1, <2>7, <2>8 DEF EndpointsOpen
    <3> QED BY <3>1, <3>2 DEF EndpointsOpen
  <2>10. PortsHeld' /\ fatal' = "no"
    BY <1>2, <2>4, <2>7, <2>9 DEF PortsHeld
  <2> QED BY <1>2, <1>3, <2>5, <2>6, <2>10, PortsStep DEF Critical
<1> QED BY <1>4, <1>5

LEMMA ListenFailsKeeps ==
    ASSUME SocketAssumption, Inv, NEW h \in Handlers, NEW p \in Ports, ListenFails(h, p) PROVE Inv'
<1>1. /\ global = "nobody" /\ fatal = "no" /\ th[h].pc = "ready" /\ th' = [th EXCEPT ![h] = Idle]
      /\ UNCHANGED <<table, global, lock, accepted, sock, conns, endpoint, fatal>>
  BY DEF ListenFails, MayListen, Global, Locks, Faults
<1>2. PICK n : Bound(Lowest(n))
  BY DEF ListenFails
<1>3. Lowest(n) \subseteq FreeFds
  BY DEF Lowest
<1>4. Types /\ PortsHeld
  BY DEF Inv
<1>5. /\ os' \in [Fds -> Conns \union {Free, Listening}]
      /\ \A f \in Fds : os'[f] = os[f] \/ (os[f] \in {0, -1} /\ os'[f] \in {0, -1})
      /\ \A f \in Fds : os[f] = Listening => os'[f] = Listening
  BY <1>2, <1>3, <1>4, BoundIs
<1>6. PortsHeld'
  BY <1>1, <1>4, <1>5, QuietPorts
<1> QED BY <1>1, <1>5, <1>6, IdleType, PortsStep DEF Critical

-----------------------------------------------------------------------------
LEMMA InvStutters == ASSUME Inv, UNCHANGED vars PROVE Inv'
<1>1. UNCHANGED <<os, table, global, lock, accepted, th, sock, endpoint, conns, fatal>>
  BY DEF vars
<1>2. Types'
  BY <1>1 DEF Inv, Types
<1>3. Descriptors'
  BY <1>1 DEF Inv, Descriptors, GlobalHeld, SocketsEntered, EntriesOpen, ClosingAlone, InsertsAlone,
     StreamsAccounted
<1>4. LocksHeld' /\ ThreadsBusy' /\ PortsHeld'
  BY <1>1 DEF Inv, LocksHeld, ThreadsBusy, PortsHeld, EndpointsOpen
<1> QED BY <1>2, <1>3, <1>4 DEF Inv

LEMMA InvSteps == ASSUME SocketAssumption, Inv, [Next]_vars PROVE Inv'
<1>1. CASE AcceptKernel \/ AcceptChecks \/ UNCHANGED vars
  BY <1>1, AcceptKernelKeeps, AcceptChecksKeeps, InvStutters, Zenon
<1>2. ASSUME NEW h \in Handlers,
             \/ AcceptInserts(h) \/ LookUp(h) \/ LockEntry(h) \/ Syscall(h)
             \/ CloseOwn(h) \/ CloseKernel(h) \/ CloseErase(h) \/ Retire(h)
             \/ ConnectBegin(h) \/ Connected(h) \/ ConnectFails(h)
      PROVE  Inv'
  BY <1>2, AcceptInsertsKeeps, LookUpKeeps, LockEntryKeeps, SyscallKeeps, CloseOwnKeeps,
     CloseKernelKeeps, CloseEraseKeeps, RetireKeeps, ConnectBeginKeeps, ConnectedKeeps,
     ConnectFailsKeeps, Zenon
<1>3. ASSUME NEW h \in Handlers, NEW c \in Conns, RecoverClient(h, c) PROVE Inv'
  BY <1>3, RecoverClientKeeps, Zenon
<1>4. ASSUME NEW h \in Handlers, NEW p \in Ports, Listen(h, p) \/ ListenFails(h, p) PROVE Inv'
  BY <1>4, ListenKeeps, ListenFailsKeeps, Zenon
<1> QED BY <1>1, <1>2, <1>3, <1>4, Zenon DEF Next

\* However reads, writes, closes, accepts and connects of any number of threads
\* interleave: an entry of activeSocketMutexes is about the connection it was
\* inserted for, but for the one that close is erasing; socketFd of every
\* connection is its own open descriptor; no descriptor is lost; and
\* addToActiveSockets never meets an old entry, so that the assertion in it
\* cannot fail, although the kernel gives numbers out again before their entry
\* is erased.
THEOREM TableCorrect == ASSUME SocketAssumption PROVE Spec => []TableInv
<1>1. Init => TableInv
  BY InitKeeps, InvFromParts
<1>2. TableInv /\ [Next]_vars => TableInv'
  BY InvParts, InvSteps, InvFromPartsNext, Zenon
<1> QED BY <1>1, <1>2, PTL DEF Spec

-----------------------------------------------------------------------------
(* RightPeer, where no client comes back during its own handshake.         *)

Using == {"ready", "found", "io"}
Owners == OwnersDiffer /\ OwnersKeepFd

\* Threads keep their connections, or give them up.
LEMMA OwnersStay ==
    ASSUME Inv, OwnersDiffer, conns' = conns,
           \A u \in Handlers : th'[u].conn = th[u].conn \/ th'[u].conn = 0,
           accepted'.pc # "idle" => accepted.pc # "idle" /\ accepted'.conn = accepted.conn
    PROVE  OwnersDiffer'
<1>1. conns \in 0..MaxConns
  BY DEF Inv, Types
<1>2. \A u \in Handlers : th'[u].conn <= conns
  BY <1>1 DEF OwnersDiffer
<1>3. \A u, v \in Handlers : th'[u].conn # 0 /\ th'[u].conn = th'[v].conn => u = v
  BY DEF OwnersDiffer
<1>4. accepted'.pc # "idle" => accepted'.conn <= conns
  BY DEF OwnersDiffer
<1>5. accepted'.pc # "idle" => accepted.conn # 0
  BY DEF Inv, Descriptors, InsertsAlone
<1>6. accepted'.pc # "idle" => \A u \in Handlers : th'[u].conn # accepted'.conn
  BY <1>5 DEF OwnersDiffer
<1> QED BY <1>2, <1>3, <1>4, <1>6 DEF OwnersDiffer

\* Every other thread is as it was, and so is the socketFd of its connection.
LEMMA OthersStay ==
    ASSUME Inv, Owners, NEW h \in Handlers, NEW r \in ThreadSet, th' = [th EXCEPT ![h] = r],
           \A u \in Handlers \ {h} : th[u].pc \in Using => sock'[th[u].conn] = sock[th[u].conn],
           r.pc \in Using => r.fd # 0 /\ sock'[r.conn] = r.fd,
           r.pc \in {"closing", "erasing"} => r.it = r.conn
    PROVE  OwnersKeepFd'
<1>1. th \in [Handlers -> ThreadSet]
  BY DEF Inv, Types
<1>2. th'[h] = r /\ \A u \in Handlers \ {h} : th'[u] = th[u]
  BY <1>1
<1> QED BY <1>2 DEF Owners, OwnersKeepFd, Using

\* One thread goes on with its connection.
LEMMA OwnerGoesOn ==
    ASSUME Inv, Owners, NEW h \in Handlers, NEW r \in ThreadSet, th' = [th EXCEPT ![h] = r],
           sock' = sock, r.conn = th[h].conn, conns' = conns, accepted' = accepted,
           r.pc \in Using => r.fd # 0 /\ sock[r.conn] = r.fd,
           r.pc \in {"closing", "erasing"} => r.it = r.conn
    PROVE  Owners'
<1>1. th \in [Handlers -> ThreadSet]
  BY DEF Inv, Types
<1>2. \A u \in Handlers : th'[u].conn = th[u].conn
  BY <1>1
<1>3. OwnersDiffer'
  BY <1>2, OwnersStay DEF Owners
<1>4. OwnersKeepFd'
  BY OthersStay
<1> QED BY <1>3, <1>4 DEF Owners

\* One thread has ended.
LEMMA OwnerEnds ==
    ASSUME SocketAssumption, Inv, Owners, NEW h \in Handlers, th' = [th EXCEPT ![h] = Idle],
           sock' = sock, conns' = conns, accepted' = accepted
    PROVE  Owners'
<1>1. th \in [Handlers -> ThreadSet]
  BY DEF Inv, Types
<1>2. Idle.conn = 0 /\ Idle.pc = "idle" /\ Idle \in ThreadSet
  BY IdleType DEF Idle
<1>3. \A u \in Handlers : th'[u].conn = th[u].conn \/ th'[u].conn = 0
  BY <1>1, <1>2
<1>4. OwnersDiffer'
  BY <1>3, OwnersStay DEF Owners
<1>5. OwnersKeepFd'
  BY <1>2, OthersStay DEF Using
<1> QED BY <1>4, <1>5 DEF Owners

LEMMA LookUpOwners ==
    ASSUME SocketAssumption, Inv, Owners, NEW h \in Handlers, LookUp(h) PROVE Owners'
<1>1. /\ th[h].pc = "ready" /\ UNCHANGED <<accepted, sock, conns>>
  BY DEF LookUp
<1>2. th \in [Handlers -> ThreadSet] /\ th[h] \in ThreadSet
  BY ThreadType
<1>3. th[h].fd # 0 /\ sock[th[h].conn] = th[h].fd
  BY <1>1 DEF Owners, OwnersKeepFd
<1>4. FdOf(h) = th[h].fd /\ th[h].fd \in Fds
  BY <1>2, <1>3 DEF FdOf, ThreadSet
<1>5. PICK x : x = table[th[h].fd]
  OBVIOUS
<1>6. x \in Conns \union {0} /\ 0 \in 0..MaxTries
  BY <1>4, <1>5, Numbers DEF Inv, Types
<1>7. CASE th' = [th EXCEPT ![h].pc = "failed"]
  <2>1. PICK r : r = [th[h] EXCEPT !.pc = "failed"]
    OBVIOUS
  <2>2. r \in ThreadSet /\ r.pc = "failed" /\ r.conn = th[h].conn
    BY <1>2, <2>1 DEF ThreadSet
  <2>3. th' = [th EXCEPT ![h] = r]
    BY <1>2, <1>7, <2>1
  <2> QED BY <1>1, <2>2, <2>3, OwnerGoesOn DEF Using
<1>8. CASE th' = [th EXCEPT ![h].pc = "found", ![h].fd = th[h].fd, ![h].it = x, ![h].tries = 0]
  <2>1. PICK r : r = [th[h] EXCEPT !.pc = "found", !.fd = th[h].fd, !.it = x, !.tries = 0]
    OBVIOUS
  <2>2. r \in ThreadSet /\ r.pc = "found" /\ r.conn = th[h].conn /\ r.fd = th[h].fd
    BY <1>2, <1>6, <2>1 DEF ThreadSet
  <2>3. th' = [th EXCEPT ![h] = r]
    BY <1>2, <1>8, <2>1
  <2> QED BY <1>1, <1>3, <2>2, <2>3, OwnerGoesOn
<1> QED BY <1>4, <1>5, <1>7, <1>8 DEF LookUp

LEMMA LockEntryOwners ==
    ASSUME SocketAssumption, Inv, Owners, NEW h \in Handlers, LockEntry(h) PROVE Owners'
<1>1. /\ th[h].pc = "found" /\ th' = [th EXCEPT ![h].pc = "io"]
      /\ accepted' = accepted /\ sock' = sock /\ conns' = conns
  BY Zenon DEF LockEntry
<1>2. th \in [Handlers -> ThreadSet] /\ th[h] \in ThreadSet
  BY ThreadType
<1>3. th[h].fd # 0 /\ sock[th[h].conn] = th[h].fd
  BY <1>1 DEF Owners, OwnersKeepFd
<1>4. PICK r : r = [th[h] EXCEPT !.pc = "io"]
  OBVIOUS
<1>5. /\ r \in ThreadSet /\ r.pc = "io" /\ r.conn = th[h].conn /\ r.fd = th[h].fd
  BY <1>2, <1>4 DEF ThreadSet
<1>6. th' = [th EXCEPT ![h] = r]
  BY <1>1, <1>2, <1>4
<1> QED BY <1>1, <1>3, <1>5, <1>6, OwnerGoesOn

LEMMA SyscallOwners ==
    ASSUME SocketAssumption, Inv, Owners, NEW h \in Handlers, Syscall(h) PROVE Owners'
<1>1. th[h].pc = "io" /\ accepted' = accepted /\ sock' = sock /\ conns' = conns
  BY Zenon DEF Syscall
<1>2. th \in [Handlers -> ThreadSet] /\ th[h] \in ThreadSet
  BY ThreadType
<1>3. th[h].fd # 0 /\ sock[th[h].conn] = th[h].fd
  BY <1>1 DEF Owners, OwnersKeepFd
<1>4. PICK n : n = Min({th[h].tries + 1, MaxTries})
  OBVIOUS
<1>5. n \in 0..MaxTries
  <2>1. th[h].tries \in 0..MaxTries /\ MaxTries \in Int
    BY <1>2, Numbers DEF ThreadSet
  <2> QED BY <1>4, <2>1, MinOfTwo
<1>6. CASE th' = [th EXCEPT ![h].pc = "ready", ![h].stage = "serve", ![h].it = 0]
  <2>1. PICK r : r = [th[h] EXCEPT !.pc = "ready", !.stage = "serve", !.it = 0]
    OBVIOUS
  <2>2. r \in ThreadSet /\ r.pc = "ready" /\ r.conn = th[h].conn /\ r.fd = th[h].fd
    BY <1>2, <2>1 DEF ThreadSet
  <2>3. th' = [th EXCEPT ![h] = r]
    BY <1>2, <1>6, <2>1
  <2> QED BY <1>1, <1>3, <2>2, <2>3, OwnerGoesOn
<1>7. CASE th' = [th EXCEPT ![h].pc = "found", ![h].tries = Min({@ + 1, MaxTries})]
  <2>1. PICK r : r = [th[h] EXCEPT !.pc = "found", !.tries = n]
    OBVIOUS
  <2>2. r \in ThreadSet /\ r.pc = "found" /\ r.conn = th[h].conn /\ r.fd = th[h].fd
    BY <1>2, <1>5, <2>1 DEF ThreadSet
  <2>3. th' = [th EXCEPT ![h] = r]
    BY <1>2, <1>4, <1>7, <2>1
  <2> QED BY <1>1, <1>3, <2>2, <2>3, OwnerGoesOn
<1>8. CASE th' = [th EXCEPT ![h].pc = "failed"]
  <2>1. PICK r : r = [th[h] EXCEPT !.pc = "failed"]
    OBVIOUS
  <2>2. r \in ThreadSet /\ r.pc = "failed" /\ r.conn = th[h].conn
    BY <1>2, <2>1 DEF ThreadSet
  <2>3. th' = [th EXCEPT ![h] = r]
    BY <1>2, <1>8, <2>1
  <2> QED BY <1>1, <2>2, <2>3, OwnerGoesOn DEF Using
<1> QED BY <1>6, <1>7, <1>8 DEF Syscall

LEMMA CloseOwnOwners ==
    ASSUME SocketAssumption, Inv, Owners, NEW h \in Handlers, CloseOwn(h) PROVE Owners'
<1>1. PICK c : c = th[h].conn
  OBVIOUS
<1>2. th[h].pc \in {"ready", "failed", "done"} /\ CloseBegin(h, c)
  BY <1>1 DEF CloseOwn
<1>3. /\ c \in Conns /\ 0 \notin Conns
      /\ th \in [Handlers -> ThreadSet] /\ th[h] \in ThreadSet
      /\ sock \in [Conns -> Fds \union {0}]
  BY <1>1, <1>2, ThreadType, Numbers DEF Types
<1>4. /\ sock' = [sock EXCEPT ![c] = 0] /\ accepted' = accepted /\ conns' = conns
      /\ \/ th' = [th EXCEPT ![h].pc = "done"]
         \/ th' = [th EXCEPT ![h].pc = "closing", ![h].fd = sock[c], ![h].it = c]
  BY <1>2 DEF CloseBegin
<1>5. PICK r \in ThreadSet : /\ th' = [th EXCEPT ![h] = r] /\ r.conn = c
                             /\ r.pc \notin Using
                             /\ r.pc \in {"closing", "erasing"} => r.it = c
  <2>1. CASE th' = [th EXCEPT ![h].pc = "done"]
    <3>1. PICK r : r = [th[h] EXCEPT !.pc = "done"]
      OBVIOUS
    <3>2. r \in ThreadSet /\ r.pc = "done" /\ r.conn = c
      BY <1>1, <1>3, <3>1 DEF ThreadSet
    <3>3. th' = [th EXCEPT ![h] = r]
      BY <1>3, <2>1, <3>1
    <3> QED BY <3>2, <3>3 DEF Using
  <2>2. CASE th' = [th EXCEPT ![h].pc = "closing", ![h].fd = sock[c], ![h].it = c]
    <3>1. PICK r : r = [th[h] EXCEPT !.pc = "closing", !.fd = sock[c], !.it = c]
      OBVIOUS
    <3>2. r \in ThreadSet /\ r.pc = "closing" /\ r.conn = c /\ r.it = c
      BY <1>1, <1>3, <3>1 DEF ThreadSet
    <3>3. th' = [th EXCEPT ![h] = r]
      BY <1>3, <2>2, <3>1
    <3> QED BY <3>2, <3>3 DEF Using
  <2> QED BY <1>4, <2>1, <2>2
<1>6. \A u \in Handlers : th'[u].conn = th[u].conn
  BY <1>1, <1>3, <1>5
<1>7. OwnersDiffer'
  BY <1>4, <1>6, OwnersStay DEF Owners
<1>8. \A u \in Handlers \ {h} : th[u].pc \in Using => sock'[th[u].conn] = sock[th[u].conn]
  <2>1. \A u \in Handlers \ {h} : th[u].conn # c
    BY <1>1, <1>3 DEF Owners, OwnersDiffer
  <2> QED BY <1>3, <1>4, <2>1
<1>9. OwnersKeepFd'
  BY <1>5, <1>8, OthersStay
<1> QED BY <1>7, <1>9 DEF Owners

LEMMA CloseKernelOwners ==
    ASSUME SocketAssumption, Inv, Owners, NEW h \in Handlers, CloseKernel(h) PROVE Owners'
<1>1. /\ th[h].pc = "closing" /\ th' = [th EXCEPT ![h].pc = "erasing"]
      /\ accepted' = accepted /\ sock' = sock /\ conns' = conns
  BY Zenon DEF CloseKernel
<1>2. th \in [Handlers -> ThreadSet] /\ th[h] \in ThreadSet /\ th[h].it = th[h].conn
  BY <1>1, ThreadType DEF Owners, OwnersKeepFd
<1>3. PICK r : r = [th[h] EXCEPT !.pc = "erasing"]
  OBVIOUS
<1>4. r \in ThreadSet /\ r.pc = "erasing" /\ r.conn = th[h].conn /\ r.it = r.conn
  BY <1>2, <1>3 DEF ThreadSet
<1>5. th' = [th EXCEPT ![h] = r]
  BY <1>1, <1>2, <1>3
<1> QED BY <1>1, <1>4, <1>5, OwnerGoesOn DEF Using

LEMMA CloseEraseOwners ==
    ASSUME SocketAssumption, Inv, Owners, NEW h \in Handlers, CloseErase(h) PROVE Owners'
<1>1. /\ th[h].pc = "erasing"
      /\ th' = [th EXCEPT ![h].pc = IF th[h].it = th[h].conn THEN "done" ELSE "ready"]
      /\ accepted' = accepted /\ sock' = sock /\ conns' = conns
  BY DEF CloseErase
<1>2. th \in [Handlers -> ThreadSet] /\ th[h] \in ThreadSet /\ th[h].it = th[h].conn
  BY <1>1, ThreadType DEF Owners, OwnersKeepFd
<1>3. PICK r : r = [th[h] EXCEPT !.pc = "done"]
  OBVIOUS
<1>4. r \in ThreadSet /\ r.pc = "done" /\ r.conn = th[h].conn
  BY <1>2, <1>3 DEF ThreadSet
<1>5. th' = [th EXCEPT ![h] = r]
  BY <1>1, <1>2, <1>3
<1> QED BY <1>1, <1>4, <1>5, OwnerGoesOn DEF Using

\* A thread begins to serve a connection that nobody served.
LEMMA AcceptInsertsOwners ==
    ASSUME SocketAssumption, Inv, Owners, NEW h \in Handlers, AcceptInserts(h) PROVE Owners'
<1>1. PICK c : c = accepted.conn
  OBVIOUS
<1>2. PICK f : f = accepted.fd
  OBVIOUS
<1>3. PICK r : r = [Idle EXCEPT !.pc = "ready", !.stage = "respond", !.conn = c, !.fd = f]
  OBVIOUS
<1>4. /\ accepted.pc = "inserting" /\ sock' = [sock EXCEPT ![c] = f]
      /\ th' = [th EXCEPT ![h] = r] /\ accepted' = [accepted EXCEPT !.pc = "idle"]
      /\ conns' = conns
  BY <1>1, <1>2, <1>3 DEF AcceptInserts
<1>5. /\ f \in Fds /\ c # 0 /\ c \in Conns /\ accepted \in AcceptSet
      /\ sock \in [Conns -> Fds \union {0}] /\ th \in [Handlers -> ThreadSet] /\ 0 \notin Fds
  BY <1>1, <1>2, <1>4, Numbers DEF Inv, Types, Descriptors, InsertsAlone, AcceptSet
<1>6. r \in ThreadSet /\ r.pc = "ready" /\ r.conn = c /\ r.fd = f
  <2>1. 0 \in 0..MaxTries
    BY Numbers
  <2> QED BY <1>3, <1>5, <2>1 DEF Idle, ThreadSet
<1>7. c <= conns /\ \A u \in Handlers : th[u].conn # c
  BY <1>1, <1>4 DEF Owners, OwnersDiffer
<1>8. accepted'.pc = "idle"
  BY <1>4, <1>5 DEF AcceptSet
<1>9. th'[h].conn = c /\ \A u \in Handlers \ {h} : th'[u] = th[u]
  BY <1>4, <1>5, <1>6
<1>10. OwnersDiffer'
  BY <1>4, <1>7, <1>8, <1>9 DEF Owners, OwnersDiffer
<1>11. \A u \in Handlers \ {h} : th[u].pc \in Using => sock'[th[u].conn] = sock[th[u].conn]
  BY <1>4, <1>5, <1>7
<1>12. sock'[c] = f /\ f # 0
  BY <1>4, <1>5
<1>13. OwnersKeepFd'
  BY <1>4, <1>6, <1>11, <1>12, OthersStay
<1> QED BY <1>10, <1>13 DEF Owners

LEMMA ConnectBeginOwners ==
    ASSUME SocketAssumption, Inv, Owners, NEW h \in Handlers, ConnectBegin(h) PROVE Owners'
<1>1. PICK f : f = Min(FreeFds)
  OBVIOUS
<1>2. PICK n : n = conns + 1
  OBVIOUS
<1>3. PICK r : r = [Idle EXCEPT !.pc = "connecting", !.conn = n, !.fd = f]
  OBVIOUS
<1>4. /\ FreeFds # {} /\ conns < MaxConns /\ conns' = n /\ th' = [th EXCEPT ![h] = r]
      /\ accepted' = accepted /\ sock' = sock
  BY <1>1, <1>2, <1>3 DEF ConnectBegin
<1>5. Types /\ conns \in 0..MaxConns /\ th \in [Handlers -> ThreadSet] /\ MaxConns \in Nat
      /\ 0 \in 0..MaxTries
  BY Numbers DEF Inv, Types
<1>6. f \in Fds /\ n \in Conns /\ n > conns /\ n \in Nat
  BY <1>1, <1>2, <1>4, <1>5, FreeFdsAre DEF Conns
<1>7. r \in ThreadSet /\ r.pc = "connecting" /\ r.conn = n
  BY <1>3, <1>5, <1>6 DEF Idle, ThreadSet
<1>8. th'[h].conn = n /\ \A u \in Handlers \ {h} : th'[u] = th[u]
  BY <1>4, <1>5, <1>7
<1>9. \A u \in Handlers : th[u].conn \in Conns \union {0} /\ th[u].conn <= conns
  BY <1>5 DEF Owners, OwnersDiffer, ThreadSet
<1>10. \A u \in Handlers : th[u].conn # n /\ th[u].conn <= n
  BY <1>5, <1>6, <1>9 DEF Conns
<1>11. accepted.pc # "idle" => accepted.conn <= n /\ accepted.conn # n
  <2>1. accepted.pc # "idle" => accepted.conn <= conns /\ accepted.conn \in Conns \union {0}
    BY DEF Owners, OwnersDiffer, Inv, Types, AcceptSet
  <2> QED BY <1>5, <1>6, <2>1 DEF Conns
<1>12. OwnersDiffer'
  <2>1. n <= n
    BY <1>6
  <2>2. \A u \in Handlers : th'[u].conn <= n
    BY <1>8, <1>10, <2>1
  <2>3. \A u, v \in Handlers : th'[u].conn # 0 /\ th'[u].conn = th'[v].conn => u = v
    BY <1>8, <1>10 DEF Owners, OwnersDiffer
  <2>4. accepted.pc # "idle" => accepted.conn <= n /\ \A u \in Handlers : th'[u].conn # accepted.conn
    BY <1>8, <1>11 DEF Owners, OwnersDiffer
  <2> QED BY <1>4, <2>2, <2>3, <2>4 DEF OwnersDiffer
<1>13. OwnersKeepFd'
  BY <1>4, <1>7, OthersStay DEF Using
<1> QED BY <1>12, <1>13 DEF Owners

LEMMA ConnectedOwners ==
    ASSUME SocketAssumption, Inv, Owners, NEW h \in Handlers, Connected(h) PROVE Owners'
<1>1. PICK r : r = [th[h] EXCEPT !.pc = "ready", !.stage = "serve"]
  OBVIOUS
<1>2. /\ th[h].pc = "connecting" /\ sock' = [sock EXCEPT ![th[h].conn] = th[h].fd]
      /\ th' = [th EXCEPT ![h].pc = "ready", ![h].stage = "serve"]
      /\ accepted' = accepted /\ conns' = conns
  BY DEF Connected
<1>3. /\ th[h].fd \in Fds /\ th[h].conn \in Conns /\ 0 \notin Fds /\ 0 \notin Conns
      /\ th \in [Handlers -> ThreadSet] /\ th[h] \in ThreadSet
      /\ sock \in [Conns -> Fds \union {0}]
  BY <1>2, Connecting, ThreadType, Numbers DEF Types
<1>4. r \in ThreadSet /\ r.pc = "ready" /\ r.conn = th[h].conn /\ r.fd = th[h].fd
  BY <1>1, <1>3 DEF ThreadSet
<1>5. th' = [th EXCEPT ![h] = r]
  BY <1>1, <1>2, <1>3
<1>6. \A u \in Handlers : th'[u].conn = th[u].conn
  BY <1>3, <1>4, <1>5
<1>7. OwnersDiffer'
  BY <1>2, <1>6, OwnersStay DEF Owners
<1>8. \A u \in Handlers \ {h} : th[u].pc \in Using => sock'[th[u].conn] = sock[th[u].conn]
  <2>1. \A u \in Handlers \ {h} : th[u].conn # th[h].conn
    BY <1>3 DEF Owners, OwnersDiffer
  <2> QED BY <1>2, <1>3, <2>1
<1>9. sock'[r.conn] = r.fd /\ r.fd # 0
  BY <1>2, <1>3, <1>4
<1>10. OwnersKeepFd'
  BY <1>4, <1>5, <1>8, <1>9, OthersStay
<1> QED BY <1>7, <1>10 DEF Owners

LEMMA ListenOwners ==
    ASSUME SocketAssumption, Inv, Owners, NEW h \in Handlers, NEW p \in Ports, Listen(h, p)
    PROVE  Owners'
<1>1. /\ th[h].pc = "ready" /\ accepted' = accepted /\ sock' = sock /\ conns' = conns
      /\ th' = th \/ th' = [th EXCEPT ![h].port = p]
  BY DEF Listen, MayListen
<1>2. th \in [Handlers -> ThreadSet] /\ th[h] \in ThreadSet
  BY ThreadType
<1>3. th[h].fd # 0 /\ sock[th[h].conn] = th[h].fd
  BY <1>1 DEF Owners, OwnersKeepFd
<1>4. CASE th' = th
  <2>1. th' = [th EXCEPT ![h] = th[h]]
    BY <1>2, <1>4
  <2> QED BY <1>1, <1>2, <1>3, <2>1, OwnerGoesOn
<1>5. CASE th' = [th EXCEPT ![h].port = p]
  <2>1. PICK r : r = [th[h] EXCEPT !.port = p]
    OBVIOUS
  <2>2. r \in ThreadSet /\ r.pc = "ready" /\ r.conn = th[h].conn /\ r.fd = th[h].fd
    BY <1>1, <1>2, <2>1 DEF ThreadSet
  <2>3. th' = [th EXCEPT ![h] = r]
    BY <1>2, <1>5, <2>1
  <2> QED BY <1>1, <1>3, <2>2, <2>3, OwnerGoesOn
<1> QED BY <1>1, <1>4, <1>5

LEMMA EndOwners ==
    ASSUME SocketAssumption, Inv, Owners, NEW h \in Handlers,
           Retire(h) \/ ConnectFails(h) \/ \E p \in Ports : ListenFails(h, p)
    PROVE  Owners'
<1>1. th' = [th EXCEPT ![h] = Idle] /\ sock' = sock /\ conns' = conns /\ accepted' = accepted
  BY DEF Retire, ConnectFails, ListenFails
<1> QED BY <1>1, OwnerEnds

LEMMA AcceptOwners ==
    ASSUME SocketAssumption, Inv, Owners, AcceptKernel \/ AcceptChecks PROVE Owners'
<1>1. th' = th /\ sock' = sock
  BY DEF AcceptKernel, AcceptChecks
<1>2. OwnersKeepFd'
  BY <1>1 DEF Owners, OwnersKeepFd
<1>3. CASE AcceptChecks
  <2>1. accepted \in AcceptSet
    BY DEF Inv, Types
  <2>2. accepted.pc # "idle" /\ accepted'.conn = accepted.conn /\ conns' = conns
    BY <1>3, <2>1 DEF AcceptChecks, AcceptSet
  <2>3. OwnersDiffer'
    BY <1>1, <2>2, OwnersStay DEF Owners
  <2> QED BY <1>2, <2>3 DEF Owners
<1>4. CASE AcceptKernel
  <2>1. conns' = conns + 1 /\ accepted'.conn = conns + 1 /\ conns < MaxConns
    BY <1>4 DEF AcceptKernel
  <2>2. conns \in Nat
    BY DEF Inv, Types
  <2>3. \A u \in Handlers : th[u].conn \in Int /\ th[u].conn <= conns
    BY DEF Inv, Types, ThreadSet, Conns, Owners, OwnersDiffer
  <2>4. OwnersDiffer'
    BY <1>1, <2>1, <2>2, <2>3 DEF Owners, OwnersDiffer
  <2> QED BY <1>2, <2>4 DEF Owners
<1> QED BY <1>3, <1>4

LEMMA OwnersSteps ==
    ASSUME SocketAssumption, ~Returning, Inv, Owners, [Next]_vars PROVE Owners'
<1>1. CASE UNCHANGED vars
  <2>1. th' = th /\ sock' = sock /\ accepted' = accepted /\ conns' = conns
    BY <1>1 DEF vars
  <2> QED BY <2>1 DEF Owners, OwnersDiffer, OwnersKeepFd
<1>2. CASE AcceptKernel \/ AcceptChecks
  BY <1>2, AcceptOwners
<1>3. ASSUME NEW h \in Handlers,
             \/ AcceptInserts(h) \/ LookUp(h) \/ LockEntry(h) \/ Syscall(h)
             \/ CloseOwn(h) \/ CloseKernel(h) \/ CloseErase(h) \/ Retire(h)
             \/ ConnectBegin(h) \/ Connected(h) \/ ConnectFails(h)
      PROVE  Owners'
  BY <1>3, AcceptInsertsOwners, LookUpOwners, LockEntryOwners, SyscallOwners, CloseOwnOwners,
     CloseKernelOwners, CloseEraseOwners, ConnectBeginOwners, ConnectedOwners, EndOwners, Zenon
<1>4. ASSUME NEW h \in Handlers, NEW p \in Ports, Listen(h, p) \/ ListenFails(h, p) PROVE Owners'
  BY <1>4, ListenOwners, EndOwners, Zenon
<1>5. ASSUME NEW h \in Handlers, NEW c \in Conns, RecoverClient(h, c) PROVE Owners'
  BY <1>5, Zenon DEF RecoverClient
<1> QED BY <1>1, <1>2, <1>3, <1>4, <1>5, Zenon DEF Next

\* The system call of a thread is on its own connection's descriptor.
LEMMA OwnDescriptor ==
    ASSUME SocketAssumption, Inv, Owners, NEW h \in Handlers, th[h].pc = "io"
    PROVE  os[th[h].fd] = th[h].conn
<1>1. th[h].fd # 0 /\ sock[th[h].conn] = th[h].fd
  BY DEF Owners, OwnersKeepFd, Using
<1>2. th[h].conn \in Conns
  BY ThreadType
<1> QED BY <1>1, <1>2 DEF Inv, Descriptors, SocketsEntered

LEMMA StraySteps ==
    ASSUME SocketAssumption, Inv, Owners, ~stray, [Next]_vars PROVE ~stray'
<1>1. ASSUME NEW h \in Handlers, Syscall(h) PROVE ~stray'
  <2>1. th[h].pc = "io" /\ stray' = (stray \/ os[th[h].fd] \notin {Free, th[h].conn})
    BY <1>1, Zenon DEF Syscall
  <2>2. os[th[h].fd] = th[h].conn
    BY <2>1, OwnDescriptor, Zenon
  <2> QED BY <2>1, <2>2, Zenon
<1>2. ASSUME NEW h \in Handlers, CloseKernel(h) PROVE ~stray'
  <2>1. th[h].pc = "closing" /\ stray' = (stray \/ os[th[h].fd] # th[h].it)
    BY <1>2, Zenon DEF CloseKernel
  <2>2. Descriptors
    BY Zenon DEF Inv
  <2>3. th[h].pc \in {"closing", "erasing"}
    BY <2>1
  <2>4. os[th[h].fd] = th[h].it
    BY <2>1, <2>2, <2>3, Zenon DEF Descriptors, ClosingAlone
  <2> QED BY <2>1, <2>4, Zenon
<1>3. CASE stray' = stray
  BY <1>3, Zenon
<1>4. \/ stray' = stray
      \/ \E h \in Handlers : Syscall(h) \/ CloseKernel(h)
  BY Zenon DEF Next, vars, Faults, AcceptKernel, AcceptChecks, AcceptInserts, LookUp, LockEntry,
     CloseOwn, RecoverClient, CloseBegin, CloseErase, Retire, ConnectBegin, Connected, ConnectFails,
     Listen, ListenFails
<1> QED BY <1>1, <1>2, <1>3, <1>4, Zenon

\* While no client comes back during its own handshake (README.md, Known
\* deviations, has what may happen then), every read and write is on the
\* descriptor of the connection it is for and every close closes that one,
\* however descriptors are given out again, for any number of threads and
\* connections.
THEOREM PeerCorrect == ASSUME SocketAssumption, ~Returning PROVE Spec => []PeerInv
<1>1. Init => Inv /\ Owners /\ ~stray
  <2> SUFFICES ASSUME Init PROVE Inv /\ Owners /\ ~stray
    OBVIOUS
  <2>1. Inv
    BY InitKeeps
  <2>2. \A h \in Handlers : th[h].pc = "idle" /\ th[h].conn = 0
    BY DEF Init, Idle
  <2>3. Owners
    BY <2>2 DEF Init, Owners, OwnersDiffer, OwnersKeepFd
  <2>4. ~stray
    BY Zenon DEF Init
  <2> QED BY <2>1, <2>3, <2>4, Zenon
<1>2. Inv /\ Owners /\ ~stray /\ [Next]_vars => Inv' /\ Owners' /\ ~stray'
  BY InvSteps, OwnersSteps, StraySteps, Zenon
<1>3. Owners /\ ~stray => PeerInv
  BY Zenon DEF PeerInv, RightPeer, Owners
<1> QED BY <1>1, <1>2, <1>3, PTL DEF Spec

=============================================================================
