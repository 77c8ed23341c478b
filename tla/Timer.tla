------------------------------- MODULE Timer -------------------------------
(***************************************************************************)
(* Timers: the map of the C++ Timer (timer.cpp), the list of callbacks of  *)
(* the script (util/timer.lua) and the clock both read (arch.cpp).  They   *)
(* run in the one thread of the server.  Timer::update goes through its    *)
(* map and calls the script for every timer that is due; the callback may  *)
(* set and remove other timers while update and DoTimer are under way, and *)
(* time goes on meanwhile.  A callback does not remove its own timer:      *)
(* test/test_timer.lua says so and update relies on it.                    *)
(*                                                                         *)
(* What a callback does besides is abstracted to its result: 0, anything   *)
(* else, or an error.  CallLater is the only caller of addTimer, so that   *)
(* stTime.expires is always 0.                                             *)
(***************************************************************************)
EXTENDS Integers, SequencesExt

CONSTANTS
    MaxCalls,       \* bound: calls of CallLater
    MaxHandleId,    \* MAX_HANDLE_ID, 2^31 - 1
    Delays,         \* the delays that scripts pass to CallLater
    MaxClock,       \* bound: the microseconds the clock counts
    SecondTicks,    \* ticks of timer_get_time() for a whole second (1000)
    SecondMicros,   \* microseconds in a second
    StartMicro,     \* the microsecond within a second of the first call
    UintRange       \* 2^32

ASSUME CountsAssumption ==
    /\ MaxCalls \in Nat /\ MaxHandleId \in Nat \ {0} /\ MaxClock \in Nat
    /\ Delays \subseteq Nat

ASSUME ClockAssumption ==
    /\ SecondTicks \in Nat \ {0} /\ SecondMicros \in Nat \ {0}
    /\ StartMicro \in 0..(SecondMicros - 1) /\ UintRange \in Nat \ {0}

Ids == 1..MaxHandleId
NOT_REPEAT == 0
REPEAT     == 1

VARIABLES
    clock,          \* microseconds since the first call of timer_get_time
    timerMap_,      \* the map of the C++ Timer: id to stTime
    timerHandleId,  \* _timerHandleId
    timerList,      \* _timerList, without the callbacks and their arguments
    pc,             \* "idle", or in update: "scan", "call" (in a callback)
    iter,           \* the timer update is at
    curTime,        \* the time update read when it started
    k,              \* the index at which DoTimer found the timer
    calls,          \* bound: calls of CallLater so far
    age,            \* history: microseconds since each timer of the map was
                    \* set or fired
    fired,          \* history: the one-shot timers that fired
    twice,          \* history: those that fired a second time
    removed,        \* history: the timers the script removed
    failed,         \* history: the timers whose callback raised an error
    ended,          \* history: the repeating ones that ended themselves
    early,          \* history: the timers called before their delay was over
    repeating,      \* history: the timers that are to fire repeatedly
    shifted         \* history: a callback that ended its own timer had
                    \* removed one before it in the list

luaTimers == <<timerHandleId, timerList, calls>>
scan == <<iter, curTime, k>>
history == <<fired, twice, removed, failed, ended, early, repeating, shifted>>
vars == <<clock, timerMap_, timerHandleId, timerList, pc, iter, curTime, k,
          calls, age, fired, twice, removed, failed, ended, early, repeating,
          shifted>>

Times == [lasttime: 0..(UintRange - 1), cycle: Nat]
Entries == [id: Ids, cycle: {NOT_REPEAT, REPEAT}]

\* Every variable keeps its type.
TypeOK ==
    /\ clock \in 0..MaxClock /\ calls \in 0..MaxCalls
    /\ DOMAIN timerMap_ \subseteq Ids /\ DOMAIN age = DOMAIN timerMap_
    /\ \A id \in DOMAIN timerMap_ : timerMap_[id] \in Times /\ age[id] \in Nat
    /\ timerHandleId \in 0..MaxHandleId /\ timerList \in Seq(Entries)
    /\ pc \in {"idle", "scan", "call"} /\ iter \in 0..MaxHandleId
    /\ curTime \in 0..(UintRange - 1) /\ k \in Nat
    /\ fired \subseteq Ids /\ twice \subseteq Ids /\ removed \subseteq Ids
    /\ failed \subseteq Ids /\ ended \subseteq Ids /\ early \subseteq Ids
    /\ repeating \subseteq Ids /\ shifted \in BOOLEAN

Init ==
    /\ clock = 0 /\ calls = 0
    /\ timerMap_ = <<>> /\ timerList = <<>> /\ timerHandleId = 0
    /\ pc = "idle" /\ iter = 0 /\ curTime = 0 /\ k = 0
    /\ age = <<>>
    /\ fired = {} /\ twice = {} /\ removed = {} /\ failed = {} /\ ended = {}
    /\ early = {} /\ repeating = {} /\ shifted = FALSE

-----------------------------------------------------------------------------
(* The clock.                                                              *)

\* Fault: the difference is kept signed.
TimerGetTime_Signed ==
    LET now == StartMicro + clock
    IN SecondTicks * (now \div SecondMicros) + (now % SecondMicros) - StartMicro

\* timer_get_time: a thousand ticks for each second gone by, and the
\* difference of the nanoseconds within the second divided by a thousand.
TimerGetTime ==
    LET now == StartMicro + clock
    IN (SecondTicks * (now \div SecondMicros)
            + (now % SecondMicros) - StartMicro) % UintRange

\* GetTimeDiff, on 64-bit numbers: an older newtime gives a huge difference.
GetTimeDiff(newtime, oldtime) ==
    IF newtime >= oldtime THEN newtime - oldtime
    ELSE newtime + (UintRange * UintRange - 1 - oldtime)

\* The microseconds a delay of so many thousandths of a second stands for.
Micros(delay) == (delay * SecondMicros) \div SecondTicks

Tick ==
    /\ clock < MaxClock
    /\ clock' = clock + 1
    /\ age' = [id \in DOMAIN age |-> age[id] + 1]
    /\ UNCHANGED <<timerMap_, luaTimers, scan, pc, history>>

-----------------------------------------------------------------------------
(* What scripts call, from other handlers or from a timer callback.        *)

Listed(id) == {i \in DOMAIN timerList : timerList[i].id = id}

\* timerMap_.insert, which keeps an entry there is, and timerMap_.erase.
With(f, id, value) ==
    [j \in DOMAIN f \cup {id} |-> IF j \in DOMAIN f THEN f[j] ELSE value]
Without(f, id) == [j \in DOMAIN f \ {id} |-> f[j]]

\* Fault: the timer stays in the map.
Erase_Forgotten(id) == UNCHANGED <<timerMap_, age>>

Erase(id) == timerMap_' = Without(timerMap_, id) /\ age' = Without(age, id)

\* Fault: the entry of a timer stays in the list.
DropEntry_Forgotten(i) == UNCHANGED timerList

\* Fault: the index counts from zero.
DropEntry_FromZero(i) ==
    timerList' = IF i + 1 <= Len(timerList) THEN RemoveAt(timerList, i + 1)
                 ELSE timerList

\* table.remove, which ignores an index past the end.
DropEntry(i) ==
    timerList' = IF i <= Len(timerList) THEN RemoveAt(timerList, i) ELSE timerList

\* CallLater and addTimer.
CallLater(delay, repeat) ==
    /\ pc \in {"idle", "call"} /\ calls < MaxCalls
    /\ calls' = calls + 1
    /\ LET id == IF timerHandleId >= MaxHandleId THEN 1 ELSE timerHandleId + 1
       IN /\ timerHandleId' = id
          /\ timerList' = Append(timerList, [id |-> id, cycle |-> repeat])
          /\ timerMap_' =
                With(timerMap_, id, [lasttime |-> TimerGetTime, cycle |-> delay])
          /\ age' = With(age, id, 0)
          /\ repeating' = IF repeat = REPEAT THEN repeating \cup {id} ELSE repeating
    /\ UNCHANGED <<clock, scan, pc, fired, twice, removed, failed, ended, early,
                   shifted>>

\* RemoveCallLater and delTimer: both entries go.
RemoveCallLater(id) ==
    /\ pc \in {"idle", "call"} /\ ~(pc = "call" /\ id = iter)
    /\ id \in DOMAIN timerMap_ \/ Listed(id) # {}
    /\ Erase(id)
    /\ IF Listed(id) = {} THEN UNCHANGED timerList ELSE DropEntry(Min(Listed(id)))
    /\ removed' = removed \cup {id}
    /\ UNCHANGED <<clock, timerHandleId, calls, scan, pc, fired, twice, failed,
                   ended, early, repeating, shifted>>

-----------------------------------------------------------------------------
(* Timer::update and DoTimer.                                              *)

\* The next timer of the map after this one, 0 at its end.
Successor(id) ==
    LET later == {j \in DOMAIN timerMap_ : j > id}
    IN IF later = {} THEN 0 ELSE Min(later)

\* Fault: the iterator stays at the timer, which may be erased.
MoveOn_Stays == UNCHANGED iter /\ pc' = "scan"

\* The iterator moves on; at the end of the map the pass is over.
MoveOn ==
    /\ iter' = Successor(iter)
    /\ pc' = IF iter' = 0 THEN "idle" ELSE "scan"

BeginUpdate ==
    /\ pc = "idle" /\ DOMAIN timerMap_ # {}
    /\ curTime' = TimerGetTime
    /\ iter' = Min(DOMAIN timerMap_)
    /\ pc' = "scan"
    /\ UNCHANGED <<clock, timerMap_, luaTimers, k, age, fired, twice, removed,
                   failed, ended, early, repeating, shifted>>

Due(id) == GetTimeDiff(curTime, timerMap_[id].lasttime) >= timerMap_[id].cycle

SkipTimer ==
    /\ pc = "scan" /\ ~Due(iter)
    /\ MoveOn
    /\ UNCHANGED <<clock, timerMap_, luaTimers, curTime, k, age, history>>

\* The script has no entry for the timer: DoTimer returns 0 and update
\* erases the timer.
DoTimerUnlisted ==
    /\ pc = "scan" /\ Due(iter) /\ Listed(iter) = {}
    /\ Erase(iter)
    /\ MoveOn
    /\ UNCHANGED <<clock, luaTimers, curTime, k, history>>

\* DoTimer finds the entry at index k and calls its callback.
DoTimer ==
    /\ pc = "scan" /\ Due(iter) /\ Listed(iter) # {}
    /\ k' = Min(Listed(iter))
    /\ pc' = "call"
    /\ IF timerList[k'].cycle = NOT_REPEAT
       THEN /\ fired' = fired \cup {iter}
            /\ twice' = IF iter \in fired THEN twice \cup {iter} ELSE twice
       ELSE UNCHANGED <<fired, twice>>
    /\ early' = IF age[iter] < Micros(timerMap_[iter].cycle) THEN early \cup {iter} ELSE early
    /\ UNCHANGED <<clock, timerMap_, luaTimers, iter, curTime, age, removed,
                   failed, ended, repeating, shifted>>

\* The entry of the running callback: nothing removes it meanwhile.
RunningEntry == timerList[Min(Listed(iter))]

\* The callback returns 0, or the timer is to fire once: DoTimer removes
\* what is now at index k of the list, and update erases the timer.
CallbackEnds ==
    /\ pc = "call"
    /\ \E ret \in {0, 1} :
          /\ ret = 0 \/ RunningEntry.cycle = NOT_REPEAT
          /\ ended' = IF ret = 0 THEN ended \cup {iter} ELSE ended
    /\ DropEntry(k)
    /\ shifted' = (shifted \/ k > Len(timerList) \/ timerList[k].id # iter)
    /\ Erase(iter)
    /\ MoveOn
    /\ UNCHANGED <<clock, timerHandleId, calls, curTime, k, fired, twice,
                   removed, failed, early, repeating>>

\* A repeating timer starts again from the time update read.
CallbackRepeats ==
    /\ pc = "call" /\ RunningEntry.cycle = REPEAT
    /\ timerMap_' = [timerMap_ EXCEPT ![iter].lasttime = curTime]
    /\ age' = [age EXCEPT ![iter] = 0]
    /\ MoveOn
    /\ UNCHANGED <<clock, luaTimers, curTime, k, history>>

\* The callback raises an error: scriptCall fails and update erases the
\* timer; the entry in the list stays.
CallbackFails ==
    /\ pc = "call"
    /\ failed' = failed \cup {iter}
    /\ Erase(iter)
    /\ MoveOn
    /\ UNCHANGED <<clock, luaTimers, curTime, k, fired, twice, removed, ended,
                   early, repeating, shifted>>

Next ==
    \/ Tick \/ BeginUpdate \/ SkipTimer \/ DoTimerUnlisted \/ DoTimer
    \/ CallbackEnds \/ CallbackRepeats \/ CallbackFails
    \/ \E delay \in Delays, repeat \in {NOT_REPEAT, REPEAT} :
          CallLater(delay, repeat)
    \/ \E id \in Ids : RemoveCallLater(id)

Spec == Init /\ [][Next]_vars

-----------------------------------------------------------------------------
(* Properties, while ids are not reused (MaxCalls <= MaxHandleId).         *)

\* A timer with cycle 0 fires once, even when its callback raises an error
\* or removes and sets other timers, and however update's passes fall.
OneShotOnce == twice = {}

\* A timer that was removed, by whichever callback, is gone from the map and
\* from the list, so it does not fire again.
RemovedIsGone == \A id \in removed : id \notin DOMAIN timerMap_ /\ Listed(id) = {}

\* The map and the list agree, but for the entries that callbacks which
\* raised an error leave in the list; this ends when DoTimer removes at an
\* index that a callback has made stale, and only then.
Coupled ==
    ~shifted =>
        /\ \A id \in DOMAIN timerMap_ : Cardinality(Listed(id)) = 1
        /\ \A i \in DOMAIN timerList : timerList[i].id \in DOMAIN timerMap_ \cup failed

\* Whatever callbacks set and remove, the iterator of update stays valid:
\* the timer it is at is in the map.
IteratorValid == pc # "idle" => iter \in DOMAIN timerMap_

\* timer.lua: a timer that fires repeatedly has to be removed by hand.  It
\* stays until it is removed or its own callback ends it or fails.
RepeatsUntilRemoved ==
    \A id \in repeating \ (removed \cup failed \cup ended) :
        id \in DOMAIN timerMap_ /\ Listed(id) # {}

\* The stale index of DoTimer is the only way to lose one: before it first
\* removes a wrong entry, no callback that sets, removes, ends or fails, and
\* no position of update in the map, makes a repeating timer of another go.
RepeatsUntilShifted == ~shifted => RepeatsUntilRemoved

\* timer.lua: delay is the interval.  No timer fires before it is over.
NotEarly == early = {}
=============================================================================
