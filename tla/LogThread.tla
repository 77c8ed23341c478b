----------------------------- MODULE LogThread -----------------------------
(***************************************************************************)
(* The log server of libCore (LogThread.cpp): the main thread, and signal  *)
(* handlers that may interrupt it, or one another, at any instruction,     *)
(* hand records to a writer thread through a double queue.  addLog pushes  *)
(* on the back queue under iBackLogQueueLock; the writer pops the front    *)
(* queue and, when that is empty, moves the whole back queue over.         *)
(*                                                                         *)
(* The module covers the life of the server object: creation of the thread *)
(* (setupThread), the optional fork of be_daemon, logging, the handshake   *)
(* of ExitLogServer/stop with the loop of the writer, in which stop()      *)
(* reads iKilled and the front queue one after the other and without a     *)
(* lock, and the deletion of the object.  Only popLog takes                *)
(* iFrontLogQueueLock and only the writer calls popLog, so that lock is    *)
(* never contended and is left out.  The text of a record, its level and   *)
(* its file name are abstracted to a serial number, and all records go to  *)
(* one log file.                                                           *)
(***************************************************************************)
EXTENDS Naturals, Sequences

CONSTANTS
    MaxLogs,        \* bound: calls of LogInfo (by main and by handlers)
    MaxSignals,     \* bound: signals delivered to the process
    MaxOpenFails,   \* bound: failures of fopen in openFile
    DaemonSettings, \* the values of the "Daemon" entry of the configuration
    HoistedReads    \* the -O2 build: stop() may read what it waits for once

ASSUME BoundsAssumption ==
    MaxLogs \in Nat /\ MaxSignals \in Nat /\ MaxOpenFails \in Nat

ASSUME BuildAssumption ==
    DaemonSettings \in SUBSET BOOLEAN /\ HoistedReads \in BOOLEAN

Records == 1..MaxLogs

\* Handlers run on top of the main thread and of one another: sa_mask is
\* empty, so a handler blocks no signal but its own.  Three different signals
\* log, so at most three handlers that log are stacked.
Handlers == {"handler1", "handler2", "handler3"}
Callers == {"main"} \cup Handlers

\* The handlers that run on top of p.
Above(p) == CASE p = "main" -> Handlers
              [] p = "handler1" -> {"handler2", "handler3"}
              [] p = "handler2" -> {"handler3"}
              [] OTHER -> {}

VARIABLES
    pc,         \* where each caller is
    rec,        \* the log_t a caller holds between new and push (0: none)
    lpc,        \* where the writer thread is in loop()
    cur,        \* the record popLog returned, as a sequence of 0 or 1
    server,     \* the global pointer logServer: "null", "live", "dangling"
    iRun, iKilled,
    back, front, backLock,
    cache,      \* the iCachedFile entry: "none", "open", "dangling"
    armed,      \* ServerApp::setupSignal has run
    early,      \* stop() read iKilled before the writer entered its loop
    signals, issued, openFails,           \* counters for the bounds
    queued, consumed, dropped, direct,    \* histories of records
    uaf         \* where freed memory has been used

callerVars == <<pc, rec>>
history    == <<queued, consumed, dropped, direct>>
bounds     == <<signals, issued, openFails>>
vars == <<pc, rec, lpc, cur, server, iRun, iKilled, back, front, backLock,
          cache, armed, early, signals, issued, openFails, queued, consumed,
          dropped, direct, uaf>>

MainPc    == {"boot", "created", "idle", "lock", "push", "spin", "killed",
              "stopped", "hung", "deleted", "done"}
HandlerPc == {"idle", "lock", "push"}
WriterPc  == {"none", "start", "pop", "swap", "moving", "write", "check",
              "ending", "done", "gone"}

FlagsOK == /\ iRun \in BOOLEAN /\ iKilled \in BOOLEAN
           /\ armed \in BOOLEAN /\ early \in BOOLEAN

ControlOK ==
    /\ pc \in [Callers -> MainPc] /\ \A h \in Handlers : pc[h] \in HandlerPc
    /\ rec \in [Callers -> Records \cup {0}]
    /\ lpc \in WriterPc
    /\ server \in {"null", "live", "dangling"}
    /\ backLock \in Callers \cup {"none", "writer"}
    /\ cache \in {"none", "open", "dangling"}
    /\ signals \in Nat /\ issued \in 0..MaxLogs /\ openFails \in Nat

QueuesOK ==
    /\ cur \in Seq(Records) /\ back \in Seq(Records) /\ front \in Seq(Records)
    /\ queued \in Seq(Records) /\ consumed \in Seq(Records)
    /\ dropped \in SUBSET Records /\ direct \in SUBSET Records
    /\ uaf \in SUBSET (WriterPc \cup Handlers \cup {"file"})

TypeOK == FlagsOK /\ ControlOK /\ QueuesOK

Init ==
    /\ pc = [p \in Callers |-> IF p = "main" THEN "boot" ELSE "idle"]
    /\ rec = [p \in Callers |-> 0]
    /\ lpc = "none" /\ cur = <<>> /\ server = "null"
    /\ iRun = FALSE /\ iKilled = TRUE
    /\ back = <<>> /\ front = <<>> /\ backLock = "none"
    /\ cache = "none" /\ armed = FALSE /\ early = FALSE
    /\ signals = 0 /\ issued = 0 /\ openFails = 0
    /\ queued = <<>> /\ consumed = <<>> /\ dropped = {} /\ direct = {}
    /\ uaf = {}

\* A caller runs only while no handler runs on top of it.
CanRun(p) == \A h \in Above(p) : pc[h] = "idle"

MainRuns == CanRun("main")

-----------------------------------------------------------------------------
(* The life of the server object, in the main thread.                      *)

\* setupThread: pthread_create has returned.
CreateThread ==
    /\ MainRuns /\ pc["main"] = "boot"
    /\ pc' = [pc EXCEPT !["main"] = "created"]
    /\ lpc' = "start"
    /\ UNCHANGED <<rec, cur, server, iRun, iKilled, back, front, backLock,
                   cache, armed, early, bounds, history, uaf>>

\* setupThread sets iRun after the thread was created; StartLogServer then
\* publishes the object in logServer.
PublishServer ==
    /\ MainRuns /\ pc["main"] = "created"
    /\ pc' = [pc EXCEPT !["main"] = "idle"]
    /\ iRun' = TRUE
    /\ server' = "live"
    /\ UNCHANGED <<rec, lpc, cur, iKilled, back, front, backLock, cache,
                   armed, early, bounds, history, uaf>>

\* ServerApp::init: be_daemon() when configured (the child of a fork has no
\* thread but the one that forked, and a copy of all memory, locks included),
\* then setupSignal().  The parents exit at once.
InitServer ==
    /\ MainRuns /\ pc["main"] = "idle" /\ server = "live" /\ ~armed
    /\ armed' = TRUE
    /\ \E daemon \in DaemonSettings : lpc' = IF daemon THEN "gone" ELSE lpc
    /\ UNCHANGED <<callerVars, cur, server, iRun, iKilled, back, front,
                   backLock, cache, early, bounds, history, uaf>>

\* ExitLogServer calls stop: iRun is cleared, then main waits busily.
BeginStop ==
    /\ MainRuns /\ pc["main"] = "idle" /\ server = "live"
    /\ pc' = [pc EXCEPT !["main"] = "spin"]
    /\ iRun' = FALSE
    /\ UNCHANGED <<rec, lpc, cur, server, iKilled, back, front, backLock,
                   cache, armed, early, bounds, history, uaf>>

\* Fault: stop() does not wait for iKilled.
ReadKilled_Ignored ==
    /\ MainRuns /\ pc["main"] = "spin"
    /\ pc' = [pc EXCEPT !["main"] = "killed"]
    /\ early' = (lpc = "start")
    /\ UNCHANGED <<rec, lpc, cur, server, iRun, iKilled, back, front, backLock,
                   cache, armed, bounds, history, uaf>>

\* The first operand of the wait, !iKilled, is read and false.  (A read that
\* finds it true leaves main where it is.)  iKilled is also TRUE before the
\* writer enters its loop.
ReadKilled ==
    /\ MainRuns /\ pc["main"] = "spin" /\ iKilled
    /\ pc' = [pc EXCEPT !["main"] = "killed"]
    /\ early' = (lpc = "start")
    /\ UNCHANGED <<rec, lpc, cur, server, iRun, iKilled, back, front, backLock,
                   cache, armed, bounds, history, uaf>>

\* The second operand, !iFrontLogQueue.empty(), is read in a later step:
\* stop() returns, or starts over.
ReadQueue ==
    /\ MainRuns /\ pc["main"] = "killed"
    /\ pc' = [pc EXCEPT !["main"] = IF front = <<>> THEN "stopped" ELSE "spin"]
    /\ UNCHANGED <<rec, lpc, cur, server, iRun, iKilled, back, front, backLock,
                   cache, armed, early, bounds, history, uaf>>

\* iKilled and the queue are plain memory read in an empty loop: an
\* optimising build may read them once and spin on what it has read.
StopHangs ==
    /\ HoistedReads
    /\ MainRuns
    /\ \/ pc["main"] = "spin" /\ ~iKilled
       \/ pc["main"] = "killed" /\ front # <<>>
    /\ pc' = [pc EXCEPT !["main"] = "hung"]
    /\ UNCHANGED <<rec, lpc, cur, server, iRun, iKilled, back, front, backLock,
                   cache, armed, early, bounds, history, uaf>>

\* delete logServer, once stop() has returned.
DeleteServer ==
    /\ MainRuns /\ pc["main"] = "stopped"
    /\ pc' = [pc EXCEPT !["main"] = "deleted"]
    /\ server' = "dangling"
    /\ UNCHANGED <<rec, lpc, cur, iRun, iKilled, back, front, backLock, cache,
                   armed, early, bounds, history, uaf>>

\* logServer = NULL, after the delete.
ClearPointer ==
    /\ MainRuns /\ pc["main"] = "deleted"
    /\ pc' = [pc EXCEPT !["main"] = "done"]
    /\ server' = "null"
    /\ UNCHANGED <<rec, lpc, cur, iRun, iKilled, back, front, backLock, cache,
                   armed, early, bounds, history, uaf>>

-----------------------------------------------------------------------------
(* LogInfo and addLog, by the main thread or by a signal handler.          *)

\* Fault: the log_t that is queued was never filled in.
CallLog_NotFilled(p) ==
    /\ issued < MaxLogs /\ server = "live" /\ iRun
    /\ issued' = issued + 1
    /\ pc' = [pc EXCEPT ![p] = "lock"]
    /\ UNCHANGED <<rec, direct, uaf>>

\* LogInfo: without a server the record is discarded; addLog writes it to
\* the file at once when ~iRun, and allocates a log_t to queue otherwise.
CallLog(p) ==
    /\ issued < MaxLogs
    /\ issued' = issued + 1
    /\ \/ /\ server = "null"
          /\ UNCHANGED <<callerVars, direct, uaf>>
       \/ /\ server = "live" /\ ~iRun
          /\ direct' = direct \cup {issued + 1}
          /\ UNCHANGED <<callerVars, uaf>>
       \/ /\ server = "live" /\ iRun
          /\ pc' = [pc EXCEPT ![p] = "lock"]
          /\ rec' = [rec EXCEPT ![p] = issued + 1]
          /\ UNCHANGED <<direct, uaf>>
       \/ /\ server = "dangling"
          /\ uaf' = uaf \cup {p}
          /\ UNCHANGED <<callerVars, direct>>

MainLogs ==
    /\ MainRuns /\ pc["main"] \in {"boot", "idle"}
    /\ CallLog("main")
    /\ UNCHANGED <<lpc, cur, server, iRun, iKilled, back, front, backLock,
                   cache, armed, early, signals, openFails, queued, consumed,
                   dropped>>

\* sh(): SIGUSR1 logs, SIGINT and SIGTERM log through MQNet::disconnect.  The
\* handler interrupts whatever runs: the main thread or another handler.
SignalLogs(h) ==
    /\ armed /\ signals < MaxSignals
    /\ pc[h] = "idle" /\ CanRun(h)
    /\ \A q \in Handlers : h \in Above(q) => pc[q] # "idle"
    /\ signals' = signals + 1
    /\ CallLog(h)
    /\ UNCHANGED <<lpc, cur, server, iRun, iKilled, back, front, backLock,
                   cache, armed, early, openFails, queued, consumed, dropped>>

\* Fault: the lock is taken without waiting for its holder.
LockBack_NoWait(p) ==
    /\ CanRun(p) /\ pc[p] = "lock"
    /\ backLock' = p
    /\ pc' = [pc EXCEPT ![p] = "push"]
    /\ UNCHANGED <<rec, lpc, cur, server, iRun, iKilled, back, front, cache,
                   armed, early, bounds, history, uaf>>

\* pthread_mutex_lock(&iBackLogQueueLock): it blocks while anyone holds
\* the lock, the main thread or the handler it interrupted included.
LockBack(p) ==
    /\ CanRun(p) /\ pc[p] = "lock" /\ backLock = "none"
    /\ backLock' = p
    /\ pc' = [pc EXCEPT ![p] = "push"]
    /\ UNCHANGED <<rec, lpc, cur, server, iRun, iKilled, back, front, cache,
                   armed, early, bounds, history, uaf>>

\* iBackFrontLogQueue.push(log) and unlock.
PushBack(p) ==
    /\ CanRun(p) /\ pc[p] = "push"
    /\ back' = Append(back, rec[p])
    /\ queued' = Append(queued, rec[p])
    /\ backLock' = "none"
    /\ rec' = [rec EXCEPT ![p] = 0]
    /\ pc' = [pc EXCEPT ![p] = "idle"]
    /\ UNCHANGED <<lpc, cur, server, iRun, iKilled, front, cache, armed, early,
                   bounds, consumed, dropped, direct, uaf>>

-----------------------------------------------------------------------------
(* The writer thread: loop() and popLog().                                 *)

ObjectExists == pc["main"] \notin {"deleted", "done"}

\* Fault: loop() does not clear iKilled.
EnterLoop_KilledStays ==
    /\ ObjectExists /\ lpc = "start"
    /\ lpc' = "pop"
    /\ UNCHANGED <<callerVars, cur, server, iRun, iKilled, back, front,
                   backLock, cache, armed, early, bounds, history, uaf>>

EnterLoop ==
    /\ ObjectExists /\ lpc = "start"
    /\ iKilled' = FALSE
    /\ lpc' = "pop"
    /\ UNCHANGED <<callerVars, cur, server, iRun, back, front, backLock,
                   cache, armed, early, bounds, history, uaf>>

\* Fault: popLog takes the newest record of the front queue.
PopFront_Newest ==
    /\ ObjectExists /\ lpc = "pop" /\ front # <<>>
    /\ cur' = <<front[Len(front)]>>
    /\ front' = SubSeq(front, 1, Len(front) - 1)
    /\ lpc' = "write"
    /\ UNCHANGED <<callerVars, server, iRun, iKilled, back, backLock, cache,
                   armed, early, bounds, history, uaf>>

\* popLog with a record in the front queue.
PopFront ==
    /\ ObjectExists /\ lpc = "pop" /\ front # <<>>
    /\ cur' = <<Head(front)>>
    /\ front' = Tail(front)
    /\ lpc' = "write"
    /\ UNCHANGED <<callerVars, server, iRun, iKilled, back, backLock, cache,
                   armed, early, bounds, history, uaf>>

\* Fault: popLog returns without moving the back queue.
PopEmpty_NoMove ==
    /\ ObjectExists /\ lpc = "pop" /\ front = <<>>
    /\ lpc' = "check"
    /\ UNCHANGED <<callerVars, cur, server, iRun, iKilled, back, front,
                   backLock, cache, armed, early, bounds, history, uaf>>

\* popLog with an empty front queue: it goes for the other lock.
PopEmpty ==
    /\ ObjectExists /\ lpc = "pop" /\ front = <<>>
    /\ lpc' = "swap"
    /\ UNCHANGED <<callerVars, cur, server, iRun, iKilled, back, front,
                   backLock, cache, armed, early, bounds, history, uaf>>

LockForMove ==
    /\ ObjectExists /\ lpc = "swap" /\ backLock = "none"
    /\ backLock' = "writer"
    /\ lpc' = "moving"
    /\ UNCHANGED <<callerVars, cur, server, iRun, iKilled, back, front,
                   cache, armed, early, bounds, history, uaf>>

\* Fault: the records moved to the front queue also stay in the back queue.
MoveBack_Copies ==
    /\ ObjectExists /\ lpc = "moving"
    /\ front' = front \o back
    /\ backLock' = "none"
    /\ lpc' = "check"
    /\ UNCHANGED <<callerVars, cur, server, iRun, iKilled, back, cache, armed,
                   early, bounds, history, uaf>>

\* The while loop of popLog and the unlock; popLog returns no record, and
\* loop() sleeps before its check.
MoveBack ==
    /\ ObjectExists /\ lpc = "moving"
    /\ front' = front \o back
    /\ back' = <<>>
    /\ backLock' = "none"
    /\ lpc' = "check"
    /\ UNCHANGED <<callerVars, cur, server, iRun, iKilled, cache, armed, early,
                   bounds, history, uaf>>

\* The record is written if its file is open; a failed fopen drops it.
Finish(isWritten) ==
    /\ consumed' = consumed \o cur
    /\ dropped' = IF isWritten THEN dropped ELSE dropped \cup {cur[1]}
    /\ cur' = <<>>
    /\ lpc' = "check"

FailOpen == openFails < MaxOpenFails /\ openFails' = openFails + 1

\* writestring.  A new hour makes it close the cached file and open another;
\* when that open fails the map keeps the pointer that was just freed.
WriteRecord ==
    /\ ObjectExists /\ lpc = "write"
    /\ \/ /\ cache = "none" /\ cache' = "open"
          /\ Finish(TRUE)
          /\ UNCHANGED <<openFails, uaf>>
       \/ /\ cache = "none" /\ FailOpen
          /\ Finish(FALSE)
          /\ UNCHANGED <<cache, uaf>>
       \/ /\ cache = "open"
          /\ Finish(TRUE)
          /\ UNCHANGED <<cache, openFails, uaf>>
       \/ /\ cache = "open" /\ FailOpen
          /\ cache' = "dangling"
          /\ Finish(FALSE)
          /\ UNCHANGED uaf
       \/ /\ cache = "dangling"
          /\ uaf' = uaf \cup {"file"}
          /\ \E isWritten \in BOOLEAN : Finish(isWritten)
          /\ UNCHANGED <<cache, openFails>>
    /\ UNCHANGED <<callerVars, server, iRun, iKilled, back, front, backLock,
                   armed, early, signals, issued, queued, direct>>

\* Fault: an idle writer ends although the server runs.
LoopEnds_WhenIdle == front = <<>>

\* The check at the end of the loop body: it looks at the front queue only.
LoopEnds == ~iRun /\ front = <<>>

CheckEnd ==
    /\ ObjectExists /\ lpc = "check"
    /\ lpc' = IF LoopEnds THEN "ending" ELSE "pop"
    /\ UNCHANGED <<callerVars, cur, server, iRun, iKilled, back, front,
                   backLock, cache, armed, early, bounds, history, uaf>>

\* Fault: the end of the loop is not announced in iKilled.
AnnounceEnd_Silent ==
    /\ ObjectExists /\ lpc = "ending"
    /\ lpc' = "done"
    /\ UNCHANGED <<callerVars, cur, server, iRun, iKilled, back, front,
                   backLock, cache, armed, early, bounds, history, uaf>>

\* iKilled = true after the loop, the last access of the thread.
AnnounceEnd ==
    /\ ObjectExists /\ lpc = "ending"
    /\ iKilled' = TRUE
    /\ lpc' = "done"
    /\ UNCHANGED <<callerVars, cur, server, iRun, back, front, backLock,
                   cache, armed, early, bounds, history, uaf>>

\* The thread takes a step in an object that has been deleted.
UseDeleted ==
    /\ ~ObjectExists /\ lpc \notin {"none", "done", "gone"}
    /\ uaf' = uaf \cup {lpc}
    /\ lpc' = "gone"
    /\ UNCHANGED <<callerVars, cur, server, iRun, iKilled, back, front,
                   backLock, cache, armed, early, bounds, history>>

-----------------------------------------------------------------------------
LifeCycle == CreateThread \/ PublishServer \/ InitServer \/ BeginStop
                 \/ ReadKilled \/ ReadQueue \/ StopHangs \/ DeleteServer
                 \/ ClearPointer

Writer == EnterLoop \/ PopFront \/ PopEmpty \/ LockForMove \/ MoveBack
              \/ WriteRecord \/ CheckEnd \/ AnnounceEnd \/ UseDeleted

Next ==
    \/ LifeCycle
    \/ MainLogs
    \/ \E h \in Handlers : SignalLogs(h)
    \/ \E p \in Callers : LockBack(p) \/ PushBack(p)
    \/ Writer

Spec == Init /\ [][Next]_vars

\* The operating system runs every thread that can run.  Main and the writer
\* contend for the back lock; the writer releases it for a sleep of 100 ms
\* each time, so main's attempts are repeatedly given a chance.
Fairness ==
    /\ WF_vars(Writer)
    /\ WF_vars(CreateThread \/ PublishServer)
    /\ WF_vars(ReadKilled \/ ReadQueue)
    /\ WF_vars(DeleteServer \/ ClearPointer)
    /\ \A p \in Callers : SF_vars(LockBack(p)) /\ WF_vars(PushBack(p))

FairSpec == Spec /\ Fairness

-----------------------------------------------------------------------------
(* Safety.                                                                 *)

\* No record is lost, duplicated or reordered between the push in addLog and
\* the end of writestring: the records handed over are those the writer has
\* finished with, then the one in its hands, then the two queues in order.
NothingLostInTransit == queued = consumed \o cur \o front \o back

\* The writer never leaves its loop in the middle of a run: if it has ended
\* while the server still counts as running, then it ended before iRun was
\* set, having written nothing.
NoExitWhileRunning == lpc \in {"ending", "done"} /\ iRun => consumed = <<>>

\* Who uses freed memory, and why: the writer, wherever it is by then, only if
\* stop() took the initial TRUE of iKilled for the end of a loop that had not
\* begun; a handler only after the delete, so after a signal; the cached file
\* only after a failed open; and the main thread never.
UseAfterFreeCauses ==
    /\ uaf \cap WriterPc # {} => early /\ ~ObjectExists
    /\ uaf \cap Handlers # {} => signals > 0 /\ ~ObjectExists
    /\ "file" \in uaf => openFails > 0
    /\ "main" \notin uaf

\* When the object is deleted after a stop() that has seen the writer's loop
\* end, the only records not dealt with are those still in the back queue: a
\* record that reached the front queue is not abandoned.  The one exception
\* is a stop() that read iKilled before the writer had entered its loop.
OnlyBackAbandoned ==
    ~ObjectExists => early \/ queued = consumed \o back

\* The back lock excludes: nobody is inside a critical section of it but its
\* holder, whatever the handlers interrupt (a fork leaves the writer's lock
\* held by nobody that still runs).
BackLockExcludes ==
    /\ \A p \in Callers : pc[p] = "push" <=> backLock = p
    /\ lpc = "moving" => backLock = "writer"

\* Refinement: what the two queues and two threads do is a FIFO channel.
Fifo == INSTANCE LogFifo WITH
    Records <- Records, queued <- queued, consumed <- consumed
FifoSpec == Fifo!Spec

-----------------------------------------------------------------------------
(* The inductive invariant behind the safety properties.                   *)

\* A caller inside addLog holds a record and, when pushing, the lock; nobody
\* is inside addLog when stop() has cleared iRun.
CallerInv ==
    /\ \A p \in Callers :
          pc[p] \in {"lock", "push"} => rec[p] \in Records /\ iRun
    /\ iRun <=> pc["main"] \in {"idle", "lock", "push"}
    /\ BackLockExcludes

\* The writer holds a record only while it writes it; a fork may leave one in
\* the memory of the child.
WriterInv ==
    /\ lpc = "write" => \E r \in Records : cur = <<r>>
    /\ lpc \notin {"write", "gone"} => cur = <<>>
    /\ (openFails = 0 => cache # "dangling")

\* Before the server is published nothing has been queued.
StartInv ==
    /\ pc["main"] = "boot" <=> lpc = "none"
    /\ pc["main"] \in {"boot", "created"} =>
          /\ server = "null" /\ ~armed /\ MainRuns
          /\ queued = <<>> /\ consumed = <<>>
          /\ cur = <<>> /\ front = <<>> /\ back = <<>>

\* iKilled tells that the writer is outside its loop, with nothing in its
\* hands nor in the front queue.  Once stop() has read it, and not too early,
\* that stays so.
HandshakeInv ==
    /\ lpc = "ending" => front = <<>>
    /\ iKilled => /\ lpc \in {"none", "start", "done", "gone"}
                  /\ cur = <<>> /\ front = <<>>
    /\ pc["main"] \in {"killed", "stopped", "deleted", "done"} =>
          early \/ (iKilled /\ lpc \in {"done", "gone"})
    /\ server = "dangling" <=> pc["main"] = "deleted"

IInv ==
    /\ TypeOK
    /\ CallerInv
    /\ WriterInv
    /\ StartInv
    /\ HandshakeInv
    /\ NothingLostInTransit
    /\ NoExitWhileRunning
    /\ UseAfterFreeCauses

-----------------------------------------------------------------------------
(* Liveness.                                                               *)

\* Nobody will empty the queues: the writer ended before setupThread set iRun,
\* or the process became a daemon after the writer was created.
Stranded == (lpc = "done" /\ iRun) \/ lpc = "gone"

\* A handler waits for a lock that the code it interrupted holds: the main
\* thread, or another handler.
SelfDeadlock ==
    \E p \in Callers : \E h \in Above(p) : pc[h] = "lock" /\ backLock = p

\* A record that was handed over is dealt with, unless the server is stopped,
\* nobody is left to empty the queues, or a signal arrived while main or a
\* handler was inside addLog: these are all the ways to lose the log of a run.
QueuedIsConsumed ==
    \A n \in 1..MaxLogs :
        (Len(queued) >= n) ~>
            (Len(consumed) >= n \/ ~iRun \/ Stranded \/ SelfDeadlock)

\* stop() returns and the object is deleted: the busy wait ends once the
\* writer has emptied the front queue and left its loop, unless be_daemon left
\* the writer behind or the build reads what the wait depends on only once.
StopTerminates ==
    (pc["main"] = "spin") ~>
        (pc["main"] \in {"done", "hung"} \/ (lpc = "gone" /\ ObjectExists))
=============================================================================
