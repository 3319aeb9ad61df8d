----------------------------- MODULE Telemetry ------------------------------
(***************************************************************************)
(* TelemetryService: every thread that logs an error appends it to a       *)
(* buffer, a background thread posts the buffer, and whatever ends the     *)
(* process (main returning, a signal, a fatal log) shuts the service down  *)
(* first.                                                                  *)
(*                                                                         *)
(* A message is its number.  Any thread may log, main included.  A signal  *)
(* handler runs on top of the thread it interrupts and ends in exit(), so  *)
(* it simply takes that thread over, with the (recursive) logMutex the     *)
(* thread may hold.  The HTTP post has timeouts and its result is ignored: *)
(* a posted message has been handed to the HTTP client.                    *)
(***************************************************************************)
EXTENDS Integers, Sequences

CONSTANTS
    Loggers,     \* threads that log, next to the main thread
    Main,        \* the main thread, which logs too and may return
    Victims,     \* the threads a signal may interrupt
    BufferSize,  \* 16 * 1024, what logToDatadog compares the size with
    BatchSize,   \* 1024, the size that is posted without waiting
    MaxLogs,     \* bound: messages logged
    MaxEnds      \* bound: how many threads set out to end the process

TelemetryAssumption ==
    /\ Main \notin Loggers /\ Victims \subseteq Loggers \cup {Main}
    /\ {BufferSize, BatchSize, MaxLogs, MaxEnds} \subseteq Nat

Threads == Loggers \cup {Main}
Nobody == "nobody"

VARIABLES
    instance,      \* telemetryServiceInstance is set
    shuttingDown,
    logBuffer,
    logMutex,      \* its holder, where it is held over a step
    pc,            \* pc[t]: where thread t is
    level,         \* level[t]: the level of the message t logs
    sender,        \* logSendingThread: [pc, lastRun, size, payload]
    posted,        \* what has been posted, in order
    accepted,      \* what has been appended, in order
    due,           \* how much had been appended when the flag was set
    logged,        \* messages logged so far
    ends,          \* threads that have set out to end the process
    process        \* "runs", "exit", "abort", or "late get" (a fatal get())

vars == <<instance, shuttingDown, logBuffer, logMutex, pc, level, sender,
          posted, accepted, due, logged, ends, process>>
service == <<instance, shuttingDown>>
history == <<posted, accepted, due, logged>>

TypeOK ==
    /\ instance \in BOOLEAN /\ shuttingDown \in BOOLEAN
    /\ logBuffer \in Seq(Nat) /\ Len(logBuffer) <= BufferSize + 1
    /\ logMutex \in Threads \cup {Nobody}
    /\ pc \in [Threads -> {"idle", "get", "lock", "append", "abort", "exists",
                           "shutdown", "join", "die"}]
    /\ level \in [Threads -> {"error", "fatal", "exit"}]
    /\ sender \in [pc : {"read", "decide", "take", "post", "ended"},
                   lastRun : BOOLEAN, size : Nat, payload : Seq(Nat)]
    /\ posted \in Seq(Nat) /\ accepted \in Seq(Nat)
    /\ due \in Nat /\ logged \in 0..MaxLogs /\ ends \in 0..MaxEnds
    /\ process \in {"runs", "exit", "abort", "late get"}

\* The constructor has started the thread and main has gone on.
Init ==
    /\ instance = TRUE /\ shuttingDown = FALSE
    /\ logBuffer = <<>> /\ logMutex = Nobody
    /\ pc = [t \in Threads |-> "idle"]
    /\ level = [t \in Threads |-> "error"]
    /\ sender = [pc |-> "read", lastRun |-> FALSE, size |-> 0, payload |-> <<>>]
    /\ posted = <<>> /\ accepted = <<>> /\ due = 0 /\ logged = 0 /\ ends = 0
    /\ process = "runs"

Goto(t, label) == pc' = [pc EXCEPT ![t] = label]
MayLock(who) == logMutex \in {Nobody, who}

-----------------------------------------------------------------------------
(* A thread logs: TelemetryDispatcher::handle and logToDatadog.            *)

\* exists(), on the way to get(); only errors and fatal messages are kept.
Log(t, l) ==
    /\ pc[t] = "idle" /\ logged < MaxLogs
    /\ l = "fatal" => ends < MaxEnds
    /\ logged' = logged + 1
    /\ ends' = IF l = "fatal" THEN ends + 1 ELSE ends
    /\ level' = [level EXCEPT ![t] = l]
    /\ Goto(t, IF instance THEN "get" ELSE IF l = "fatal" THEN "abort" ELSE "idle")
    /\ UNCHANGED <<service, logBuffer, logMutex, sender, posted, accepted, due, process>>

\* Without the instance get() is itself a fatal log.
Get(t) ==
    /\ pc[t] = "get"
    /\ IF instance THEN Goto(t, "lock") /\ UNCHANGED process
       ELSE process' = "late get" /\ UNCHANGED pc
    /\ UNCHANGED <<service, logBuffer, logMutex, level, sender, history, ends>>

Lock(t) ==
    /\ pc[t] = "lock" /\ MayLock(t)
    /\ logMutex' = t
    /\ Goto(t, "append")
    /\ UNCHANGED <<service, logBuffer, level, sender, history, ends, process>>

AppendAt(t, limit) ==
    /\ pc[t] = "append"
    /\ IF Len(logBuffer) > limit THEN UNCHANGED <<logBuffer, accepted>>
       ELSE /\ logBuffer' = Append(logBuffer, Len(accepted) + 1)
            /\ accepted' = Append(accepted, Len(accepted) + 1)
    /\ logMutex' = Nobody
    /\ Goto(t, IF level[t] = "fatal" THEN "abort" ELSE "idle")
    /\ UNCHANGED <<service, level, sender, posted, due, logged, ends, process>>

AppendLog(t) == AppendAt(t, BufferSize)

-----------------------------------------------------------------------------
(* What ends the process: all of it goes through shutdownTelemetry, but    *)
(* for main, which calls shutdown() before destroy().                      *)

\* abort() of a fatal log raises SIGABRT, whose handler is shutdownTelemetry.
Abort(t) ==
    /\ pc[t] = "abort"
    /\ Goto(t, "exists")
    /\ UNCHANGED <<service, logBuffer, logMutex, level, sender, history, ends, process>>

\* SIGTERM or SIGINT interrupts t.
Signal(t) ==
    /\ t \in Victims /\ pc[t] \in {"idle", "get", "lock", "append", "join"}
    /\ level[t] # "fatal" /\ ends < MaxEnds
    /\ ends' = ends + 1
    /\ level' = [level EXCEPT ![t] = "exit"]
    /\ Goto(t, "exists")
    /\ UNCHANGED <<service, logBuffer, logMutex, sender, history, process>>

\* shutdownTelemetry: the instance is taken and destroyed.
Exists(t) ==
    /\ pc[t] = "exists"
    /\ instance' = FALSE
    /\ Goto(t, IF instance THEN "shutdown" ELSE "die")
    /\ UNCHANGED <<shuttingDown, logBuffer, logMutex, level, sender, history, ends,
                   process>>

MainReturns ==
    /\ pc[Main] = "idle" /\ instance /\ ends < MaxEnds
    /\ ends' = ends + 1
    /\ level' = [level EXCEPT ![Main] = "exit"]
    /\ Goto(Main, "shutdown")
    /\ UNCHANGED <<service, logBuffer, logMutex, sender, history, process>>

\* shutdown(): only the first caller goes on to wait for the sender.
Shutdown(t) ==
    /\ pc[t] = "shutdown" /\ MayLock(t)
    /\ shuttingDown' = TRUE
    /\ due' = IF shuttingDown THEN due ELSE Len(accepted)
    /\ Goto(t, IF shuttingDown THEN "die" ELSE "join")
    /\ UNCHANGED <<instance, logBuffer, logMutex, level, sender, posted, accepted,
                   logged, ends, process>>

Join(t) ==
    /\ pc[t] = "join" /\ sender.pc = "ended"
    /\ Goto(t, "die")
    /\ UNCHANGED <<service, logBuffer, logMutex, level, sender, history, ends, process>>

\* exit(), or the end of the abort; main destroys the instance before.
Die(t) ==
    /\ pc[t] = "die"
    /\ instance' = FALSE
    /\ process' = IF level[t] = "fatal" THEN "abort" ELSE "exit"
    /\ UNCHANGED <<shuttingDown, logBuffer, logMutex, pc, level, sender, history, ends>>

-----------------------------------------------------------------------------
(* logSendingThread.                                                       *)

SenderReads ==
    /\ sender.pc = "read" /\ logMutex = Nobody
    /\ sender' = [sender EXCEPT !.pc = "decide", !.lastRun = shuttingDown,
                                !.size = Len(logBuffer)]
    /\ UNCHANGED <<service, logBuffer, logMutex, pc, level, history, ends, process>>

MustSend == sender.size > 0 /\ (sender.size >= BatchSize \/ sender.lastRun)

\* Mutated form: only a full batch or the last run is posted.
SenderFlushesFull ==
    /\ sender.pc = "decide" /\ MustSend
    /\ sender' = [sender EXCEPT !.pc = "take"]
    /\ UNCHANGED <<service, logBuffer, logMutex, pc, level, history, ends, process>>

\* nextDumpTime has passed, or there is a reason not to wait for it.
SenderFlushes ==
    /\ sender.pc = "decide" /\ sender.size > 0
    /\ sender' = [sender EXCEPT !.pc = "take"]
    /\ UNCHANGED <<service, logBuffer, logMutex, pc, level, history, ends, process>>

SenderWaits ==
    /\ sender.pc = "decide" /\ ~MustSend
    /\ sender' = [sender EXCEPT !.pc = IF sender.lastRun THEN "ended" ELSE "read"]
    /\ UNCHANGED <<service, logBuffer, logMutex, pc, level, history, ends, process>>

\* Mutated form: the payload is built before the buffer is locked to clear it.
SenderTakesUnlocked ==
    /\ sender.pc = "take" /\ logMutex = Nobody
    /\ sender' = [sender EXCEPT !.pc = "post",
                                !.payload = SubSeq(logBuffer, 1, sender.size)]
    /\ logBuffer' = <<>>
    /\ UNCHANGED <<service, logMutex, pc, level, history, ends, process>>

SenderTakes ==
    /\ sender.pc = "take" /\ logMutex = Nobody
    /\ sender' = [sender EXCEPT !.pc = "post", !.payload = logBuffer]
    /\ logBuffer' = <<>>
    /\ UNCHANGED <<service, logMutex, pc, level, history, ends, process>>

SenderPosts ==
    /\ sender.pc = "post"
    /\ posted' = posted \o sender.payload
    /\ sender' = [sender EXCEPT !.pc = IF sender.lastRun THEN "ended" ELSE "read",
                                !.payload = <<>>]
    /\ UNCHANGED <<service, logBuffer, logMutex, pc, level, accepted, due, logged,
                   ends, process>>

Sender == SenderReads \/ SenderFlushes \/ SenderWaits \/ SenderTakes \/ SenderPosts

-----------------------------------------------------------------------------
Step(t) ==
    \/ Get(t) \/ Lock(t) \/ AppendLog(t)
    \/ Abort(t) \/ Exists(t) \/ Shutdown(t) \/ Join(t) \/ Die(t)

Next ==
    /\ process = "runs"
    /\ \/ \E t \in Threads : Step(t) \/ Signal(t)
       \/ \E t \in Threads, l \in {"error", "fatal"} : Log(t, l)
       \/ MainReturns
       \/ Sender

Spec == Init /\ [][Next]_vars

\* Threads are scheduled; nextDumpTime is at most thirty seconds ahead, so a
\* sender that keeps coming back to the question finds it passed.
Fairness ==
    /\ \A t \in Threads : WF_vars(process = "runs" /\ Step(t))
    /\ WF_vars(process = "runs" /\ Sender)
    /\ SF_vars(process = "runs" /\ SenderFlushes)

FairSpec == Spec /\ Fairness

-----------------------------------------------------------------------------
(* Properties.                                                             *)

\* The sender reads the size, unlocks, and locks again to take the buffer:
\* nothing that a thread appends in between is lost or posted twice, and
\* messages are posted in the order they were appended.
PostedInOrder == posted \o sender.payload \o logBuffer = accepted

\* shutdown(): "stops the background thread and flushes the log buffer".
\* Whatever way the process ends, the messages appended before the flag was
\* set, the fatal one included, have been posted by then.
Flushed ==
    process \in {"exit", "abort"} => shuttingDown /\ Len(posted) >= due

\* What the sender knows: a run that it takes for the last one began after the
\* flag was set, and it ends with all that was due posted.
SenderInv ==
    /\ sender.pc # "post" => sender.payload = <<>>
    /\ sender.pc = "ended" => sender.lastRun
    /\ sender.lastRun => shuttingDown
    /\ due <= Len(accepted)
    /\ sender.lastRun =>
        /\ sender.pc = "decide" => Len(posted) + sender.size >= due
        /\ sender.pc \in {"post", "ended"} => Len(posted) + Len(sender.payload) >= due

\* One thread at most sets out to end the process: it alone takes the instance
\* and sets the flag, and it dies after the sender.
Ending == {t \in Threads : level[t] # "error"}
OneEnder ==
    /\ \A t, u \in Ending : t = u
    /\ Ending # {} => ends > 0
    /\ \A t \in Threads :
        /\ pc[t] \in {"abort", "exists", "shutdown", "join", "die"} => t \in Ending
        /\ pc[t] = "idle" => t \notin Ending
        /\ pc[t] \in {"get", "lock", "append"} => level[t] # "exit"
        /\ pc[t] = "join" => shuttingDown
        /\ pc[t] = "die" => shuttingDown /\ sender.pc = "ended"
    /\ ~instance => \E t \in Threads : pc[t] \in {"shutdown", "join", "die"}
    /\ shuttingDown => \E t \in Threads : pc[t] \in {"join", "die"}

\* The inductive invariant.  The second of two threads that end the process
\* does not wait for the flush.
LogInv ==
    /\ TypeOK
    /\ PostedInOrder
    /\ SenderInv
    /\ MaxEnds <= 1 => OneEnder /\ Flushed

\* get() "Tried to get a singleton before it was created!" is never reached:
\* a thread that has seen the instance still finds it.
\* Does not hold: see Known deviations in README.md.
NoLateGet == process # "late get"

\* A signal handler runs on a thread that holds logMutex: the handler passes
\* the recursive mutex, and nothing unlocks it for the sender it then joins.
HolderInterrupted == \E t \in Threads : logMutex = t /\ pc[t] # "append"

\* What is appended is posted in the end, or the process has ended: at worst
\* after thirty seconds, however few messages there are, unless a signal
\* interrupts a thread that holds logMutex.
LogsPosted ==
    \A n \in 1..MaxLogs :
        Len(accepted) >= n ~> (Len(posted) >= n \/ process # "runs"
                               \/ sender.pc = "ended" \/ HolderInterrupted)

\* A process that sets out to end does end, although shutdown() joins the
\* sender and the sender needs logMutex, unless the signal that ends it
\* interrupts a thread that holds logMutex.
EndsOnceBegun == ends > 0 ~> (process # "runs" \/ HolderInterrupted)

\* SIGTERM: "In addition to exiting like the default SIGTERM handler would do,
\* let's shutdown sentry telemetry", whatever thread the signal interrupts.
\* Does not hold: see Known deviations in README.md.
SignalEnds == ends > 0 ~> process # "runs"
=============================================================================
