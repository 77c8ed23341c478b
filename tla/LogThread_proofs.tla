-------------------------- MODULE LogThread_proofs --------------------------
(***************************************************************************)
(* Proofs about the log server, for every number of records, signals and   *)
(* failing opens, with and without the daemon fork and the optimised build.*)
(***************************************************************************)
EXTENDS LogThread, SequenceTheorems, TLAPS

USE BoundsAssumption

\* The state the process starts in satisfies the invariant.
LEMMA InitIInv == Init => IInv
<1> SUFFICES ASSUME Init PROVE IInv
    OBVIOUS
<1> USE DEF Init, Callers, Handlers, Records, MainPc, HandlerPc, WriterPc
<1>1. FlagsOK
  BY DEF FlagsOK
<1>2. ControlOK /\ QueuesOK
  BY EmptySeq DEF ControlOK, QueuesOK
<1>3. NothingLostInTransit
  BY EmptySeq, ConcatEmptySeq DEF NothingLostInTransit
<1>4. CallerInv /\ WriterInv /\ StartInv
  BY DEF CallerInv, WriterInv, StartInv, BackLockExcludes, MainRuns, CanRun,
         Above
<1>5. HandshakeInv /\ NoExitWhileRunning /\ UseAfterFreeCauses
  BY DEF HandshakeInv, NoExitWhileRunning, UseAfterFreeCauses, ObjectExists
<1> QED
  BY <1>1, <1>2, <1>3, <1>4, <1>5 DEF IInv, TypeOK

\* Every step keeps the flags Boolean.
LEMMA FlagsStep == FlagsOK /\ [Next]_vars => FlagsOK'
BY DEF FlagsOK, Next, LifeCycle, CreateThread, PublishServer, InitServer,
       BeginStop, ReadKilled, ReadQueue, StopHangs, DeleteServer, ClearPointer,
       MainLogs, SignalLogs, LockBack, PushBack, Writer, EnterLoop, PopFront,
       PopEmpty, LockForMove, MoveBack, WriteRecord, CheckEnd, AnnounceEnd,
       UseDeleted, vars

\* Every step keeps the types of the control state.
LEMMA ControlStep == IInv /\ [Next]_vars => ControlOK'
<1> SUFFICES ASSUME ControlOK, [Next]_vars PROVE ControlOK'
    BY DEF IInv, TypeOK
<1> USE DEF ControlOK, Callers, Handlers, MainPc, HandlerPc, WriterPc,
            Records, callerVars, bounds
<1>1. CASE LifeCycle
  BY <1>1 DEF LifeCycle, CreateThread, PublishServer, InitServer, BeginStop,
              ReadKilled, ReadQueue, StopHangs, DeleteServer,
              ClearPointer
<1>2. CASE MainLogs
  BY <1>2 DEF MainLogs, CallLog
<1>3. ASSUME NEW h \in Handlers, SignalLogs(h) PROVE ControlOK'
  BY <1>3 DEF SignalLogs, CallLog
<1>4. ASSUME NEW p \in Callers, LockBack(p) \/ PushBack(p)
      PROVE  ControlOK'
  BY <1>4 DEF LockBack, PushBack
<1>5. CASE Writer
  <2>1. CASE EnterLoop \/ PopFront \/ PopEmpty \/ LockForMove \/ MoveBack
    BY <2>1 DEF EnterLoop, PopFront, PopEmpty, LockForMove, MoveBack
  <2>2. CASE WriteRecord
    BY <2>2 DEF WriteRecord, Finish, FailOpen
  <2>3. CASE CheckEnd \/ AnnounceEnd
    BY <2>3 DEF CheckEnd, AnnounceEnd
  <2>4. CASE UseDeleted
    BY <2>4 DEF UseDeleted
  <2> QED
    BY <1>5, <2>1, <2>2, <2>3, <2>4 DEF Writer
<1>6. CASE UNCHANGED vars
  BY <1>6 DEF vars
<1> QED
  BY <1>1, <1>2, <1>3, <1>4, <1>5, <1>6 DEF Next

\* Every step keeps the types of the queues and of the history.
LEMMA QueuesStep == IInv /\ [Next]_vars => QueuesOK'
<1> SUFFICES ASSUME IInv, [Next]_vars PROVE QueuesOK'
    OBVIOUS
<1> USE DEF IInv, TypeOK, QueuesOK, history
<1>1. CASE LifeCycle
  BY <1>1 DEF LifeCycle, CreateThread, PublishServer, InitServer, BeginStop,
              ReadKilled, ReadQueue, StopHangs, DeleteServer,
              ClearPointer
<1>2. CASE MainLogs
  <2>0. issued + 1 \in Records
    BY <1>2 DEF MainLogs, CallLog, ControlOK, Records
  <2>1. direct' \in {direct, direct \cup {issued + 1}}
    BY <1>2, Zenon DEF MainLogs, CallLog
  <2>2. server # "dangling"
    BY <1>2 DEF MainLogs, HandshakeInv
  <2>3. uaf' = uaf
    BY <1>2, <2>2 DEF MainLogs, CallLog
  <2> QED
    BY <1>2, <2>0, <2>1, <2>3 DEF MainLogs
<1>3. ASSUME NEW h \in Handlers, SignalLogs(h) PROVE QueuesOK'
  <2>0. issued + 1 \in Records
    BY <1>3 DEF SignalLogs, CallLog, ControlOK, Records
  <2>1. direct' \in {direct, direct \cup {issued + 1}}
    BY <1>3, Zenon DEF SignalLogs, CallLog
  <2>2. uaf' \in {uaf, uaf \cup {h}}
    BY <1>3, Zenon DEF SignalLogs, CallLog
  <2> QED
    BY <1>3, <2>0, <2>1, <2>2 DEF SignalLogs
<1>4. ASSUME NEW p \in Callers, LockBack(p) \/ PushBack(p)
      PROVE  QueuesOK'
  <2>1. CASE LockBack(p)
    BY <2>1 DEF LockBack
  <2>2. CASE PushBack(p)
    <3>1. rec[p] \in Records
      BY <2>2 DEF PushBack, CallerInv
    <3> QED
      BY <2>2, <3>1, AppendProperties DEF PushBack
  <2> QED
    BY <1>4, <2>1, <2>2
<1>5. CASE Writer
  <2>1. CASE EnterLoop \/ PopEmpty \/ LockForMove \/ CheckEnd \/ AnnounceEnd
    BY <2>1 DEF EnterLoop, PopEmpty, LockForMove, CheckEnd, AnnounceEnd
  <2>2. CASE PopFront
    <3>1. Head(front) \in Records /\ Tail(front) \in Seq(Records)
      BY <2>2, HeadTailProperties DEF PopFront
    <3> QED
      BY <2>2, <3>1 DEF PopFront
  <2>3. CASE MoveBack
    BY <2>3, ConcatProperties, EmptySeq DEF MoveBack
  <2>4. CASE WriteRecord
    <3>1. PICK r \in Records : cur = <<r>>
      BY <2>4 DEF WriteRecord, WriterInv
    <3>2. consumed \o cur \in Seq(Records) /\ cur[1] \in Records
      BY <3>1, ConcatProperties
    <3>3. uaf' \in SUBSET (WriterPc \cup Handlers \cup {"file"})
      BY <2>4 DEF WriteRecord
    <3> QED
      BY <2>4, <3>2, <3>3, EmptySeq DEF WriteRecord, Finish
  <2>5. CASE UseDeleted
    BY <2>5 DEF UseDeleted, ControlOK
  <2> QED
    BY <1>5, <2>1, <2>2, <2>3, <2>4, <2>5 DEF Writer
<1>6. CASE UNCHANGED vars
  BY <1>6 DEF vars
<1> QED
  BY <1>1, <1>2, <1>3, <1>4, <1>5, <1>6 DEF Next

\* Together: every step keeps the type invariant.
LEMMA TypeStep == IInv /\ [Next]_vars => TypeOK'
BY FlagsStep, ControlStep, QueuesStep DEF IInv, TypeOK

\* Every step keeps what is known of main and of the signal handlers: who
\* holds a record, who holds the lock, and that all have left addLog when iRun
\* is cleared.
LEMMA CallerStep == IInv /\ [Next]_vars => CallerInv'
<1> SUFFICES ASSUME ControlOK, CallerInv, WriterInv, [Next]_vars
             PROVE  CallerInv'
    BY DEF IInv, TypeOK
<1> USE DEF CallerInv, BackLockExcludes, ControlOK, Callers, Handlers, Records,
            HandlerPc, callerVars, bounds
<1>1. CASE LifeCycle
  <2>1. CASE BeginStop
    BY <2>1 DEF BeginStop, MainRuns, CanRun, Above
  <2>2. CASE CreateThread \/ PublishServer \/ InitServer
    BY <2>2 DEF CreateThread, PublishServer, InitServer
  <2>3. CASE ReadKilled \/ ReadQueue \/ StopHangs \/ DeleteServer
             \/ ClearPointer
    BY <2>3 DEF ReadKilled, ReadQueue, StopHangs, DeleteServer, ClearPointer
  <2> QED
    BY <1>1, <2>1, <2>2, <2>3 DEF LifeCycle
<1>2. CASE MainLogs
  BY <1>2 DEF MainLogs, CallLog
<1>3. ASSUME NEW h \in Handlers, SignalLogs(h) PROVE CallerInv'
  BY <1>3 DEF SignalLogs, CallLog
<1>4. ASSUME NEW p \in Callers, LockBack(p) \/ PushBack(p)
      PROVE  CallerInv'
  BY <1>4 DEF LockBack, PushBack
<1>5. CASE Writer
  <2>1. CASE EnterLoop \/ PopFront \/ PopEmpty \/ LockForMove
    BY <2>1 DEF EnterLoop, PopFront, PopEmpty, LockForMove
  <2>2. CASE MoveBack
    BY <2>2 DEF MoveBack
  <2>3. CASE WriteRecord
    BY <2>3 DEF WriteRecord, Finish
  <2>4. CASE CheckEnd \/ AnnounceEnd
    BY <2>4 DEF CheckEnd, AnnounceEnd
  <2>5. CASE UseDeleted
    BY <2>5 DEF UseDeleted
  <2> QED
    BY <1>5, <2>1, <2>2, <2>3, <2>4, <2>5 DEF Writer
<1>6. CASE UNCHANGED vars
  BY <1>6 DEF vars
<1> QED
  BY <1>1, <1>2, <1>3, <1>4, <1>5, <1>6 DEF Next

\* Every step keeps what is known of the writer thread: it has a record
\* in its hands just while it writes, and the lock just while it moves.
LEMMA WriterStep == IInv /\ [Next]_vars => WriterInv'
<1> SUFFICES ASSUME ControlOK, QueuesOK, CallerInv, WriterInv, StartInv,
                    [Next]_vars
             PROVE  WriterInv'
    BY DEF IInv, TypeOK
<1> USE DEF WriterInv, ControlOK, callerVars, bounds
<1>1. CASE LifeCycle
  BY <1>1 DEF LifeCycle, StartInv, CreateThread, PublishServer, InitServer, BeginStop,
              ReadKilled, ReadQueue, StopHangs, DeleteServer,
              ClearPointer
<1>2. CASE MainLogs \/ \E h \in Handlers : SignalLogs(h)
  BY <1>2 DEF MainLogs, SignalLogs
<1>3. ASSUME NEW p \in Callers, LockBack(p) \/ PushBack(p)
      PROVE  WriterInv'
  BY <1>3 DEF LockBack, PushBack
<1>4. CASE Writer
  <2>1. CASE EnterLoop \/ PopEmpty \/ LockForMove \/ MoveBack \/ UseDeleted
    BY <2>1 DEF EnterLoop, PopEmpty, LockForMove, MoveBack, UseDeleted
  <2>2. CASE PopFront
    BY <2>2, HeadTailProperties DEF PopFront, QueuesOK
  <2>3. CASE WriteRecord
    BY <2>3 DEF WriteRecord, Finish, FailOpen
  <2>4. CASE CheckEnd \/ AnnounceEnd
    BY <2>4 DEF CheckEnd, AnnounceEnd
  <2> QED
    BY <1>4, <2>1, <2>2, <2>3, <2>4 DEF Writer
<1>5. CASE UNCHANGED vars
  BY <1>5 DEF vars
<1> QED
  BY <1>1, <1>2, <1>3, <1>4, <1>5 DEF Next

\* Every step keeps what is known of the start of the thread.
LEMMA StartStep == IInv /\ [Next]_vars => StartInv'
<1> SUFFICES ASSUME ControlOK, CallerInv, WriterInv, StartInv, [Next]_vars
             PROVE  StartInv'
    BY DEF IInv, TypeOK
<1> USE DEF StartInv, ControlOK, Callers, Handlers, MainRuns, CanRun, Above,
            callerVars, history
<1>1. CASE LifeCycle
  BY <1>1 DEF LifeCycle, CreateThread, PublishServer, InitServer, BeginStop,
              ReadKilled, ReadQueue, StopHangs, DeleteServer,
              ClearPointer
<1>2. CASE MainLogs \/ \E h \in Handlers : SignalLogs(h)
  BY <1>2 DEF MainLogs, SignalLogs, CallLog
<1>3. ASSUME NEW p \in Callers, LockBack(p) \/ PushBack(p)
      PROVE  StartInv'
  BY <1>3 DEF LockBack, PushBack, CallerInv
<1>4. CASE Writer
  <2>1. CASE EnterLoop \/ PopEmpty \/ LockForMove
    BY <2>1 DEF EnterLoop, PopEmpty, LockForMove
  <2>2. CASE PopFront
    BY <2>2 DEF PopFront
  <2>3. CASE MoveBack
    <3>1. << >> \o << >> = << >>
      BY EmptySeq, ConcatEmptySeq
    <3> QED
      BY <2>3, <3>1 DEF MoveBack
  <2>4. CASE WriteRecord
    <3>0. cur # <<>>
      BY <2>4, EmptySeq DEF WriteRecord, WriterInv
    <3>1. pc["main"] \notin {"boot", "created"}
      BY <3>0
    <3>2. pc' = pc /\ lpc' # "none"
      BY <2>4 DEF WriteRecord, Finish
    <3> QED
      BY <3>1, <3>2
  <2>5. CASE CheckEnd \/ AnnounceEnd
    BY <2>5 DEF CheckEnd, AnnounceEnd
  <2>6. CASE UseDeleted
    <3>1. pc["main"] \notin {"boot", "created"}
      BY <2>6 DEF UseDeleted, ObjectExists
    <3>2. pc' = pc /\ lpc' # "none"
      BY <2>6 DEF UseDeleted
    <3> QED
      BY <3>1, <3>2
  <2> QED
    BY <1>4, <2>1, <2>2, <2>3, <2>4, <2>5, <2>6 DEF Writer
<1>5. CASE UNCHANGED vars
  BY <1>5 DEF vars
<1> QED
  BY <1>1, <1>2, <1>3, <1>4, <1>5 DEF Next

\* Every step keeps the handshake of stop(): what iRun and iKilled tell
\* of the writer.
LEMMA HandshakeStep == IInv /\ [Next]_vars => HandshakeInv'
<1> SUFFICES ASSUME ControlOK, WriterInv, StartInv, HandshakeInv, [Next]_vars
             PROVE  HandshakeInv'
    BY DEF IInv, TypeOK
<1> USE DEF HandshakeInv, ControlOK, Callers, Handlers, ObjectExists, callerVars
<1>1. CASE LifeCycle
  <2>1. CASE CreateThread \/ PublishServer
    BY <2>1 DEF CreateThread, PublishServer, StartInv
  <2>2. CASE InitServer
    BY <2>2 DEF InitServer
  <2>3. CASE BeginStop \/ StopHangs
    BY <2>3 DEF BeginStop, StopHangs
  <2>4. CASE ReadKilled
    BY <2>4 DEF ReadKilled, StartInv
  <2>5. CASE ReadQueue \/ DeleteServer \/ ClearPointer
    BY <2>5 DEF ReadQueue, DeleteServer, ClearPointer
  <2> QED
    BY <1>1, <2>1, <2>2, <2>3, <2>4, <2>5 DEF LifeCycle
<1>2. CASE MainLogs \/ \E h \in Handlers : SignalLogs(h)
  BY <1>2 DEF MainLogs, SignalLogs, CallLog
<1>3. ASSUME NEW p \in Callers, LockBack(p) \/ PushBack(p)
      PROVE  HandshakeInv'
  BY <1>3 DEF LockBack, PushBack
<1>4. CASE Writer
  <2>1. CASE EnterLoop \/ PopFront \/ PopEmpty \/ LockForMove \/ MoveBack
    BY <2>1 DEF EnterLoop, PopFront, PopEmpty, LockForMove, MoveBack
  <2>2. CASE WriteRecord
    BY <2>2 DEF WriteRecord, Finish
  <2>3. CASE CheckEnd \/ AnnounceEnd
    BY <2>3 DEF CheckEnd, AnnounceEnd, LoopEnds, WriterInv
  <2>4. CASE UseDeleted
    BY <2>4 DEF UseDeleted
  <2> QED
    BY <1>4, <2>1, <2>2, <2>3, <2>4 DEF Writer
<1>5. CASE UNCHANGED vars
  BY <1>5 DEF vars
<1> QED
  BY <1>1, <1>2, <1>3, <1>4, <1>5 DEF Next

\* The algebra of the two queues: a push at the far end, a pop at the near
\* end and the move of the back queue leave the sequence of records alone.
LEMMA Regroup ==
  ASSUME NEW a \in Seq(Records), NEW b \in Seq(Records), NEW c \in Seq(Records)
  PROVE  (a \o b) \o c = a \o (b \o c)
BY ConcatAssociative

\* Handing over the head of a sequence leaves the whole unchanged.
LEMMA Join ==
  ASSUME NEW a \in Seq(Records), NEW b \in Seq(Records)
  PROVE  a \o b \in Seq(Records) /\ a \o << >> = a
BY ConcatProperties, ConcatEmptySeq

\* Taking a record from the front queue leaves the order alone.
LEMMA PopKeeps ==
  ASSUME NEW s \in Seq(Records), s # << >>
  PROVE  /\ <<Head(s)>> \o Tail(s) = s
         /\ <<Head(s)>> \in Seq(Records) /\ Tail(s) \in Seq(Records)
BY HeadTailProperties

\* A record pushed to the back queue comes last.
LEMMA PushKeeps ==
  ASSUME NEW s \in Seq(Records), NEW t \in Seq(Records), NEW e \in Records
  PROVE  Append(s \o t, e) = s \o Append(t, e)
<1>1. <<e>> \in Seq(Records) /\ s \o t \in Seq(Records)
  BY ConcatProperties
<1>2. Append(s \o t, e) = (s \o t) \o <<e>> /\ Append(t, e) = t \o <<e>>
  BY <1>1, AppendIsConcat
<1> QED
  BY <1>1, <1>2, ConcatAssociative

\* Every step keeps the records in transit: none lost, none out of order.
LEMMA TransitStep == IInv /\ [Next]_vars => NothingLostInTransit'
<1> SUFFICES ASSUME QueuesOK, CallerInv, WriterInv, NothingLostInTransit,
                    [Next]_vars
             PROVE  NothingLostInTransit'
    BY DEF IInv, TypeOK
<1> USE DEF NothingLostInTransit, QueuesOK, history
<1>1. CASE LifeCycle
  BY <1>1 DEF LifeCycle, CreateThread, PublishServer, InitServer, BeginStop,
              ReadKilled, ReadQueue, StopHangs, DeleteServer,
              ClearPointer
<1>2. CASE MainLogs \/ \E h \in Handlers : SignalLogs(h)
  BY <1>2 DEF MainLogs, SignalLogs
<1>3. ASSUME NEW p \in Callers, LockBack(p) \/ PushBack(p)
      PROVE  NothingLostInTransit'
  <2>1. CASE LockBack(p)
    BY <2>1 DEF LockBack
  <2>2. CASE PushBack(p)
    <3>1. rec[p] \in Records
      BY <2>2 DEF PushBack, CallerInv
    <3>2. consumed \o cur \o front \in Seq(Records)
      BY Join
    <3> QED
      BY <2>2, <3>1, <3>2, PushKeeps DEF PushBack
  <2> QED
    BY <1>3, <2>1, <2>2
<1>4. CASE Writer
  <2>1. CASE EnterLoop \/ PopEmpty \/ LockForMove \/ CheckEnd \/ AnnounceEnd
             \/ UseDeleted
    BY <2>1 DEF EnterLoop, PopEmpty, LockForMove, CheckEnd, AnnounceEnd,
                UseDeleted
  <2>2. CASE PopFront
    <3>1. cur = <<>> /\ front # <<>>
      BY <2>2 DEF PopFront, WriterInv
    <3>2. /\ <<Head(front)>> \o Tail(front) = front
          /\ <<Head(front)>> \in Seq(Records) /\ Tail(front) \in Seq(Records)
      BY <3>1, PopKeeps
    <3>3. consumed \o cur = consumed
      BY <3>1, Join
    <3>4. (consumed \o <<Head(front)>>) \o Tail(front)
            = consumed \o (<<Head(front)>> \o Tail(front))
      BY <3>2, Regroup
    <3> QED
      BY <2>2, <3>2, <3>3, <3>4 DEF PopFront
  <2>3. CASE MoveBack
    <3>1. consumed \o cur \in Seq(Records)
      BY Join
    <3>2. (consumed \o cur) \o (front \o back)
            = ((consumed \o cur) \o front) \o back
      BY <3>1, Regroup
    <3>3. (consumed \o cur) \o (front \o back) \in Seq(Records)
      <4>1. front \o back \in Seq(Records)
        BY Join
      <4> QED
        BY <3>1, <4>1, Join
    <3>4. ((consumed \o cur) \o (front \o back)) \o <<>>
            = (consumed \o cur) \o (front \o back)
      BY <3>3, Join
    <3> QED
      BY <2>3, <3>2, <3>4 DEF MoveBack
  <2>4. CASE WriteRecord
    <3>1. (consumed \o cur) \o <<>> = consumed \o cur
      <4>1. consumed \o cur \in Seq(Records)
        BY Join
      <4> QED
        BY <4>1, Join
    <3> QED
      BY <2>4, <3>1 DEF WriteRecord, Finish
  <2> QED
    BY <1>4, <2>1, <2>2, <2>3, <2>4 DEF Writer
<1>5. CASE UNCHANGED vars
  BY <1>5 DEF vars
<1> QED
  BY <1>1, <1>2, <1>3, <1>4, <1>5 DEF Next

\* No step makes the writer leave its loop in the middle of a run.
LEMMA NoExitStep == IInv /\ [Next]_vars => NoExitWhileRunning'
<1> SUFFICES ASSUME ControlOK, WriterInv, StartInv, NoExitWhileRunning,
                    [Next]_vars
             PROVE  NoExitWhileRunning'
    BY DEF IInv, TypeOK
<1> USE DEF NoExitWhileRunning, history
<1>1. CASE LifeCycle
  <2>1. CASE PublishServer
    BY <2>1 DEF PublishServer, StartInv
  <2>2. CASE InitServer
    BY <2>2 DEF InitServer
  <2>3. CASE CreateThread \/ BeginStop
    BY <2>3 DEF CreateThread, BeginStop
  <2>4. CASE ReadKilled \/ ReadQueue \/ StopHangs \/ DeleteServer
             \/ ClearPointer
    BY <2>4 DEF ReadKilled, ReadQueue, StopHangs, DeleteServer, ClearPointer
  <2> QED
    BY <1>1, <2>1, <2>2, <2>3, <2>4 DEF LifeCycle
<1>2. CASE MainLogs \/ \E h \in Handlers : SignalLogs(h)
  BY <1>2 DEF MainLogs, SignalLogs
<1>3. ASSUME NEW p \in Callers, LockBack(p) \/ PushBack(p)
      PROVE  NoExitWhileRunning'
  BY <1>3 DEF LockBack, PushBack
<1>4. CASE Writer
  <2>1. CASE EnterLoop \/ PopFront \/ PopEmpty \/ LockForMove \/ MoveBack
             \/ UseDeleted
    BY <2>1 DEF EnterLoop, PopFront, PopEmpty, LockForMove, MoveBack, UseDeleted
  <2>2. CASE WriteRecord
    BY <2>2 DEF WriteRecord, Finish
  <2>3. CASE CheckEnd
    BY <2>3 DEF CheckEnd, LoopEnds
  <2>4. CASE AnnounceEnd
    BY <2>4 DEF AnnounceEnd
  <2> QED
    BY <1>4, <2>1, <2>2, <2>3, <2>4 DEF Writer
<1>5. CASE UNCHANGED vars
  BY <1>5 DEF vars
<1> QED
  BY <1>1, <1>2, <1>3, <1>4, <1>5 DEF Next

\* No step uses freed memory for a cause that is not named.
LEMMA UseAfterFreeStep == IInv /\ [Next]_vars => UseAfterFreeCauses'
<1> SUFFICES ASSUME ControlOK, WriterInv, StartInv, HandshakeInv,
                    UseAfterFreeCauses, [Next]_vars
             PROVE  UseAfterFreeCauses'
    BY DEF IInv, TypeOK
<1> USE DEF UseAfterFreeCauses, ControlOK, ObjectExists, Callers, WriterPc,
            Handlers, callerVars, bounds
<1>1. CASE LifeCycle
  <2>1. CASE ReadKilled
    <3>1. uaf \cap WriterPc = {}
      BY <2>1 DEF ReadKilled
    <3> QED
      BY <2>1, <3>1 DEF ReadKilled
  <2>2. CASE CreateThread \/ PublishServer \/ InitServer \/ BeginStop
             \/ ReadQueue \/ StopHangs \/ DeleteServer \/ ClearPointer
    BY <2>2 DEF CreateThread, PublishServer, InitServer, BeginStop, ReadQueue,
                StopHangs, DeleteServer, ClearPointer
  <2> QED
    BY <1>1, <2>1, <2>2 DEF LifeCycle
<1>2. CASE MainLogs
  <2>1. server # "dangling"
    BY <1>2 DEF MainLogs, HandshakeInv
  <2>2. uaf' = uaf
    BY <1>2, <2>1 DEF MainLogs, CallLog
  <2> QED
    BY <1>2, <2>2 DEF MainLogs
<1>3. ASSUME NEW h \in Handlers, SignalLogs(h) PROVE UseAfterFreeCauses'
  <2>1. pc'["main"] = pc["main"]
    BY <1>3 DEF SignalLogs, CallLog
  <2>2. \/ uaf' = uaf
        \/ uaf' = uaf \cup {h} /\ server = "dangling" /\ pc' = pc
    BY <1>3, Zenon DEF SignalLogs, CallLog
  <2>3. server = "dangling" => ~ObjectExists
    BY DEF HandshakeInv
  <2>4. signals' > 0 /\ openFails' = openFails /\ early' = early
    BY <1>3 DEF SignalLogs
  <2> QED
    BY <2>1, <2>2, <2>3, <2>4
<1>4. ASSUME NEW p \in Callers, LockBack(p) \/ PushBack(p)
      PROVE  UseAfterFreeCauses'
  BY <1>4 DEF LockBack, PushBack
<1>5. CASE Writer
  <2>1. CASE EnterLoop \/ PopFront \/ PopEmpty \/ LockForMove \/ MoveBack
    BY <2>1 DEF EnterLoop, PopFront, PopEmpty, LockForMove, MoveBack
  <2>2. CASE WriteRecord
    <3>1. /\ signals' = signals /\ early' = early /\ pc' = pc
          /\ openFails' \in {openFails, openFails + 1}
      BY <2>2, Zenon DEF WriteRecord, FailOpen, callerVars
    <3>2. CASE uaf' = uaf
      BY <3>1, <3>2
    <3>3. CASE cache = "dangling" /\ uaf' = uaf \cup {"file"}
      BY <3>1, <3>3 DEF WriterInv
    <3>4. uaf' = uaf \/ (cache = "dangling" /\ uaf' = uaf \cup {"file"})
      BY <2>2, Zenon DEF WriteRecord
    <3> QED
      BY <3>2, <3>3, <3>4
  <2>3. CASE CheckEnd \/ AnnounceEnd
    BY <2>3 DEF CheckEnd, AnnounceEnd
  <2>4. CASE UseDeleted
    <3>1. early
      BY <2>4 DEF UseDeleted, HandshakeInv, ObjectExists
    <3> QED
      BY <2>4, <3>1 DEF UseDeleted
  <2> QED
    BY <1>5, <2>1, <2>2, <2>3, <2>4 DEF Writer
<1>6. CASE UNCHANGED vars
  BY <1>6 DEF vars
<1> QED
  BY <1>1, <1>2, <1>3, <1>4, <1>5, <1>6 DEF Next

\* The inductive invariant holds in every reachable state.
THEOREM Invariance == Spec => []IInv
<1>1. IInv /\ [Next]_vars => IInv'
  BY TypeStep, CallerStep, WriterStep, StartStep, HandshakeStep, TransitStep,
     NoExitStep, UseAfterFreeStep DEF IInv
<1> QED
  BY InitIInv, <1>1, PTL DEF Spec

\* Type correctness.
THEOREM TypeCorrect == Spec => []TypeOK
<1>1. IInv => TypeOK
  BY DEF IInv
<1> QED
  BY Invariance, <1>1, PTL

\* No record is lost, duplicated or reordered on its way through the queues.
THEOREM TransitSafe == Spec => []NothingLostInTransit
<1>1. IInv => NothingLostInTransit
  BY DEF IInv
<1> QED
  BY Invariance, <1>1, PTL

\* The writer's loop never ends in the middle of a run.
THEOREM WriterStays == Spec => []NoExitWhileRunning
<1>1. IInv => NoExitWhileRunning
  BY DEF IInv
<1> QED
  BY Invariance, <1>1, PTL

\* Freed memory is used only for the three causes the property names: an
\* initial iKilled read as the end of the loop, a signal, a failed open.
THEOREM UseAfterFree == Spec => []UseAfterFreeCauses
<1>1. IInv => UseAfterFreeCauses
  BY DEF IInv
<1> QED
  BY Invariance, <1>1, PTL

\* The back lock is a mutual exclusion lock for its three users.
THEOREM BackLock == Spec => []BackLockExcludes
<1>1. IInv => BackLockExcludes
  BY DEF IInv, CallerInv
<1> QED
  BY Invariance, <1>1, PTL

\* After a stop() that saw the loop end, the unwritten records are those of
\* the back queue.
THEOREM Abandoned == Spec => []OnlyBackAbandoned
<1>1. IInv => OnlyBackAbandoned
  <2> SUFFICES ASSUME IInv, ~ObjectExists, ~early
               PROVE  queued = consumed \o back
      BY DEF OnlyBackAbandoned
  <2>1. cur = <<>> /\ front = <<>>
    BY DEF IInv, HandshakeInv, ObjectExists
  <2>2. consumed \o cur \o front = consumed
    BY <2>1, Join DEF IInv, TypeOK, QueuesOK
  <2> QED
    BY <2>2 DEF IInv, NothingLostInTransit
<1> QED
  BY Invariance, <1>1, PTL

\* The record in the writer's hands is the oldest one it has not finished.
LEMMA NextInLine ==
  ASSUME NEW c \in Seq(Records), NEW f \in Seq(Records),
         NEW b \in Seq(Records), NEW r \in Records
  PROVE  /\ Len(c) < Len(c \o <<r>> \o f \o b)
         /\ (c \o <<r>> \o f \o b)[Len(c) + 1] = r
<1>1. /\ c \o <<r>> \in Seq(Records) /\ Len(c \o <<r>>) = Len(c) + 1
      /\ (c \o <<r>>)[Len(c) + 1] = r
  BY ConcatProperties
<1>2. /\ c \o <<r>> \o f \in Seq(Records)
      /\ Len(c \o <<r>> \o f) = Len(c) + 1 + Len(f)
      /\ (c \o <<r>> \o f)[Len(c) + 1] = r
  BY <1>1, ConcatProperties
<1> QED
  BY <1>2, ConcatProperties

\* A step of the log server is a Put, a Take or a stutter of the channel.
LEMMA FifoStep == IInv /\ [Next]_vars => [Fifo!Next]_(Fifo!vars)
<1> SUFFICES ASSUME IInv, [Next]_vars PROVE [Fifo!Next]_(Fifo!vars)
    OBVIOUS
<1> USE DEF Fifo!vars, history
<1>1. CASE LifeCycle
  BY <1>1 DEF LifeCycle, CreateThread, PublishServer, InitServer, BeginStop,
              ReadKilled, ReadQueue, StopHangs, DeleteServer,
              ClearPointer
<1>2. CASE MainLogs \/ \E h \in Handlers : SignalLogs(h)
  BY <1>2 DEF MainLogs, SignalLogs
<1>3. ASSUME NEW p \in Callers, LockBack(p) \/ PushBack(p)
      PROVE  [Fifo!Next]_(Fifo!vars)
  <2>1. CASE LockBack(p)
    BY <2>1 DEF LockBack
  <2>2. CASE PushBack(p)
    <3>1. rec[p] \in Records
      BY <2>2 DEF PushBack, IInv, CallerInv
    <3>2. Fifo!Put(rec[p])
      BY <2>2 DEF PushBack, Fifo!Put
    <3> QED
      BY <3>1, <3>2 DEF Fifo!Next
  <2> QED
    BY <1>3, <2>1, <2>2
<1>4. CASE Writer
  <2>1. CASE EnterLoop \/ PopFront \/ PopEmpty \/ LockForMove \/ MoveBack
             \/ CheckEnd \/ AnnounceEnd \/ UseDeleted
    BY <2>1 DEF EnterLoop, PopFront, PopEmpty, LockForMove, MoveBack,
                CheckEnd, AnnounceEnd, UseDeleted
  <2>2. CASE WriteRecord
    <3>1. PICK r \in Records : cur = <<r>>
      BY <2>2 DEF WriteRecord, IInv, WriterInv
    <3>2. queued = consumed \o <<r>> \o front \o back
      BY <3>1 DEF IInv, NothingLostInTransit
    <3>3. Len(consumed) < Len(queued) /\ queued[Len(consumed) + 1] = r
      <4>1. /\ consumed \in Seq(Records) /\ front \in Seq(Records)
            /\ back \in Seq(Records)
        BY DEF IInv, TypeOK, QueuesOK
      <4>2. /\ Len(consumed) < Len(consumed \o <<r>> \o front \o back)
            /\ (consumed \o <<r>> \o front \o back)[Len(consumed) + 1] = r
        BY ONLY <3>1, <4>1, NextInLine
      <4> QED
        BY <3>2, <4>2
    <3>4. consumed' = Append(consumed, r)
      <4>1. consumed' = consumed \o <<r>>
        BY <2>2, <3>1 DEF WriteRecord, Finish
      <4>2. consumed \in Seq(Records)
        BY DEF IInv, TypeOK, QueuesOK
      <4> QED
        BY ONLY <3>1, <4>1, <4>2, AppendIsConcat
    <3>5. queued' = queued
      BY <2>2 DEF WriteRecord
    <3> QED
      BY <3>3, <3>4, <3>5 DEF Fifo!Next, Fifo!Take
  <2> QED
    BY <1>4, <2>1, <2>2 DEF Writer
<1>5. CASE UNCHANGED vars
  BY <1>5 DEF vars
<1> QED
  BY <1>1, <1>2, <1>3, <1>4, <1>5 DEF Next

\* Refinement: the log server implements the FIFO channel LogFifo.
THEOREM Refinement == Spec => FifoSpec
<1>1. Init => Fifo!Init
  BY DEF Init, Fifo!Init
<1> QED
  BY <1>1, FifoStep, Invariance, PTL DEF Spec, FifoSpec, Fifo!Spec
=============================================================================
