---------------------------- MODULE Timer_proofs ----------------------------
(***************************************************************************)
(* The theorems about timers, for any number of calls, delays and any      *)
(* clock, while ids are not reused: whatever callbacks set, remove, end,   *)
(* repeat or fail while update goes through its map.                       *)
(*                                                                         *)
(* They rest on two facts that no line of the code states: an id stands at *)
(* most once in the list of the script, and a timer that has fired for the *)
(* only time is in the map just as long as its callback runs.              *)
(***************************************************************************)
EXTENDS Timer, SequenceTheorems, FiniteSetTheorems, NatLemmas

-----------------------------------------------------------------------------
(* The invariant.                                                          *)

\* An id is given out once; every trace of a timer is of an id given out.
Given ==
    /\ timerHandleId = calls
    /\ \A id \in DOMAIN timerMap_ \cup fired \cup removed \cup failed \cup ended : id <= calls
    /\ \A i \in 1..Len(timerList) : timerList[i].id <= calls
    /\ \A i, j \in 1..Len(timerList) : timerList[i].id = timerList[j].id => i = j

\* A callback runs for a timer that is in the list.
Running ==
    pc = "call" => k >= 1 /\ \E i \in 1..Len(timerList) : timerList[i].id = iter

\* What has fired for the only time is in the map while its callback runs.
FiredOnce ==
    /\ \A id \in fired \cap DOMAIN timerMap_ : pc = "call" /\ iter = id
    /\ \A i \in 1..Len(timerList) :
          timerList[i].id \in fired => timerList[i].cycle = NOT_REPEAT

Gone ==
    \A id \in removed :
        id \notin DOMAIN timerMap_ /\ \A i \in 1..Len(timerList) : timerList[i].id # id

\* Coupled, said of the positions.
Matched ==
    ~shifted =>
        /\ \A id \in DOMAIN timerMap_ : \E i \in 1..Len(timerList) : timerList[i].id = id
        /\ \A i \in 1..Len(timerList) : timerList[i].id \in DOMAIN timerMap_ \cup failed

IInv ==
    /\ TypeOK /\ IteratorValid /\ OneShotOnce
    /\ Given /\ Running /\ FiredOnce /\ Gone /\ Matched

-----------------------------------------------------------------------------
(* Maps, lists and the least of some numbers.                              *)

LEMMA LeastOf ==
    ASSUME NEW S \in SUBSET Nat, S # {}
    PROVE  Min(S) \in S /\ \A x \in S : Min(S) <= x
  <1>1. \E x \in S : \A y \in S : ~(<<y, x>> \in OpToRel(<, Nat))
    BY NatLessThanWellFounded, WFMin
  <1>2. \A x, y \in S : <<y, x>> \in OpToRel(<, Nat) <=> y < x
    BY DEF OpToRel
  <1>3. \E x \in S : \A y \in S : x <= y
    <2>1. PICK x \in S : \A y \in S : ~(y < x)
      BY <1>1, <1>2
    <2> QED  BY <2>1
  <1> QED  BY <1>3 DEF Min

LEMMA Types ==
    ASSUME TypeOK
    PROVE  /\ Len(timerList) \in Nat /\ timerList \in Seq(Entries)
           /\ DOMAIN timerList = 1..Len(timerList)
           /\ \A i \in 1..Len(timerList) : timerList[i] \in Entries
           /\ \A id : Listed(id) = {i \in 1..Len(timerList) : timerList[i].id = id}
  <1>1. timerList \in Seq(Entries)
    BY DEF TypeOK
  <1> QED  BY <1>1, LenProperties, ElementOfSeq DEF Listed

LEMMA Dropping ==
    ASSUME TypeOK, NEW n \in 1..Len(timerList), DropEntry(n)
    PROVE  /\ timerList' \in Seq(Entries) /\ Len(timerList') = Len(timerList) - 1
           /\ \A j \in 1..Len(timerList') :
                 timerList'[j] = timerList[IF j < n THEN j ELSE j + 1]
  <1>1. timerList \in Seq(Entries) /\ Len(timerList) \in Nat /\ n \in Nat
    BY Types
  <1> DEFINE L == Len(timerList)
             a == SubSeq(timerList, 1, n - 1)
             b == SubSeq(timerList, n + 1, L)
  <1>2. timerList' = a \o b
    <2>1. n <= Len(timerList)
      BY <1>1
    <2>2. timerList' = RemoveAt(timerList, n)
      BY <2>1 DEF DropEntry
    <2> QED  BY <2>2 DEF RemoveAt
  <1>3. /\ a \in Seq(Entries) /\ Len(a) = n - 1
        /\ \A j \in 1..(n - 1) : a[j] = timerList[j]
    <2>1. \A j \in 1..(n - 1) : timerList[j] \in Entries
      BY <1>1, Types
    <2>2. /\ a \in Seq(Entries)
          /\ Len(a) = IF 1 <= n - 1 THEN (n - 1) - 1 + 1 ELSE 0
          /\ \A j \in 1..((n - 1) - 1 + 1) : a[j] = timerList[1 + j - 1]
      BY <1>1, <2>1, SubSeqProperties
    <2> HIDE DEF a
    <2>3. \A j \in 1..(n - 1) : a[j] = timerList[j]
      BY <1>1, <2>2
    <2> QED  BY <1>1, <2>2, <2>3
  <1>4. /\ b \in Seq(Entries) /\ Len(b) = L - n
        /\ \A j \in 1..(L - n) : b[j] = timerList[n + j]
    <2>1. \A j \in (n + 1)..L : timerList[j] \in Entries
      BY <1>1, Types
    <2>2. /\ b \in Seq(Entries)
          /\ Len(b) = IF n + 1 <= L THEN L - (n + 1) + 1 ELSE 0
          /\ \A j \in 1..(L - (n + 1) + 1) : b[j] = timerList[(n + 1) + j - 1]
      BY <1>1, <2>1, SubSeqProperties
    <2> HIDE DEF b
    <2>3. \A j \in 1..(L - n) : b[j] = timerList[n + j]
      BY <1>1, <2>2
    <2> QED  BY <1>1, <2>2, <2>3
  <1> HIDE DEF a, b
  <1>5. /\ timerList' \in Seq(Entries) /\ Len(timerList') = Len(a) + Len(b)
        /\ \A j \in 1..(Len(a) + Len(b)) :
              timerList'[j] = IF j <= Len(a) THEN a[j] ELSE b[j - Len(a)]
    BY <1>2, <1>3, <1>4, ConcatProperties
  <1>6. Len(timerList') = L - 1
    BY <1>1, <1>3, <1>4, <1>5
  <1>7. ASSUME NEW j \in 1..(L - 1)
        PROVE  timerList'[j] = timerList[IF j < n THEN j ELSE j + 1]
    <2>1. CASE j < n
      <3>1. j \in 1..(n - 1) /\ j \in 1..(Len(a) + Len(b)) /\ j <= Len(a)
        BY <1>1, <1>3, <1>4, <2>1
      <3>2. timerList'[j] = a[j]
        BY <1>5, <3>1
      <3> QED  BY <1>3, <2>1, <3>1, <3>2
    <2>2. CASE j >= n
      <3>1. timerList'[j] = b[j - (n - 1)] /\ j - (n - 1) \in 1..(L - n)
        <4>1. /\ j \in 1..(Len(a) + Len(b)) /\ ~(j <= Len(a)) /\ j - Len(a) = j - (n - 1)
              /\ j - (n - 1) \in 1..(L - n)
          BY <1>1, <1>3, <1>4, <2>2
        <4> QED  BY <1>5, <4>1
      <3>2. b[j - (n - 1)] = timerList[n + (j - (n - 1))]
        BY <1>4, <3>1
      <3>3. n + (j - (n - 1)) = j + 1
        BY <1>1
      <3> QED  BY <1>1, <2>2, <3>1, <3>2, <3>3
    <2> QED  BY <1>1, <2>1, <2>2
  <1> QED  BY <1>5, <1>6, <1>7

\* The list without the entry of one timer: the entries of the others.
Others(id) ==
    /\ timerList' \in Seq(Entries)
    /\ \A i \in 1..Len(timerList') : timerList'[i].id # id
    /\ \A i \in 1..Len(timerList') : \E j \in 1..Len(timerList) : timerList'[i] = timerList[j]
    /\ \A j \in 1..Len(timerList) : timerList[j].id # id =>
          \E i \in 1..Len(timerList') : timerList'[i] = timerList[j]
    /\ \A i, j \in 1..Len(timerList') : timerList'[i].id = timerList'[j].id => i = j

LEMMA DroppingOne ==
    ASSUME TypeOK, Given, NEW n \in 1..Len(timerList), DropEntry(n)
    PROVE  Others(timerList[n].id)
  <1>1. /\ Len(timerList) \in Nat /\ n \in Nat /\ n <= Len(timerList)
        /\ \A i, j \in 1..Len(timerList) : timerList[i].id = timerList[j].id => i = j
    BY Types DEF Given
  <1> DEFINE L == Len(timerList)
             From(j) == IF j < n THEN j ELSE j + 1
             To(j) == IF j < n THEN j ELSE j - 1
  <1>2. /\ timerList' \in Seq(Entries) /\ Len(timerList') = L - 1
        /\ \A j \in 1..(L - 1) : timerList'[j] = timerList[From(j)]
    BY Dropping
  <1>3. /\ \A j \in 1..(L - 1) : From(j) \in 1..L /\ From(j) # n
        /\ \A i, j \in 1..(L - 1) : From(i) = From(j) => i = j
        /\ \A j \in 1..L : j # n => To(j) \in 1..(L - 1) /\ From(To(j)) = j
    BY <1>1
  <1> HIDE DEF From, To
  <1>4. ASSUME NEW i \in 1..(L - 1)
        PROVE  /\ timerList'[i].id # timerList[n].id
               /\ \E j \in 1..L : timerList'[i] = timerList[j]
    <2>1. timerList'[i] = timerList[From(i)] /\ From(i) \in 1..L /\ From(i) # n
      BY <1>2, <1>3
    <2> QED  BY <1>1, <2>1
  <1>5. ASSUME NEW j \in 1..L, timerList[j].id # timerList[n].id
        PROVE  \E i \in 1..(L - 1) : timerList'[i] = timerList[j]
    <2>1. j # n
      BY <1>5
    <2>2. To(j) \in 1..(L - 1) /\ From(To(j)) = j
      BY <1>3, <2>1
    <2> QED  BY <1>2, <2>2
  <1>6. ASSUME NEW i \in 1..(L - 1), NEW j \in 1..(L - 1), timerList'[i].id = timerList'[j].id
        PROVE  i = j
    <2>1. /\ timerList'[i] = timerList[From(i)] /\ timerList'[j] = timerList[From(j)]
          /\ From(i) \in 1..L /\ From(j) \in 1..L
      BY <1>2, <1>3
    <2>2. From(i) = From(j)
      BY <1>1, <1>6, <2>1
    <2> QED  BY <1>3, <2>2
  <1> QED  BY <1>2, <1>4, <1>5, <1>6 DEF Others

\* Without a timer in either, the map and the list match as before.
LEMMA OthersMatched ==
    ASSUME NEW id, Others(id), Matched, ~shifted' => ~shifted,
           DOMAIN timerMap_' = DOMAIN timerMap_ \ {id}, failed' = failed
    PROVE  Matched'
  <1> SUFFICES ASSUME ~shifted' PROVE Matched'
    BY DEF Matched
  <1>0. ~shifted
    OBVIOUS
  <1>1. /\ \A i \in 1..Len(timerList') : timerList'[i].id # id
        /\ \A i \in 1..Len(timerList') : \E j \in 1..Len(timerList) : timerList'[i] = timerList[j]
        /\ \A j \in 1..Len(timerList) : timerList[j].id # id =>
              \E i \in 1..Len(timerList') : timerList'[i] = timerList[j]
    BY DEF Others
  <1>2. ASSUME NEW x \in DOMAIN timerMap_'
        PROVE  \E i \in 1..Len(timerList') : timerList'[i].id = x
    <2>1. PICK j \in 1..Len(timerList) : timerList[j].id = x
      BY <1>0, <1>2 DEF Matched
    <2> QED  BY <1>1, <2>1
  <1>3. ASSUME NEW i \in 1..Len(timerList')
        PROVE  timerList'[i].id \in DOMAIN timerMap_' \cup failed'
    <2>1. PICK j \in 1..Len(timerList) : timerList'[i] = timerList[j]
      BY <1>1
    <2>2. timerList[j].id \in DOMAIN timerMap_ \cup failed /\ timerList[j].id # id
      BY <1>0, <1>1, <2>1 DEF Matched
    <2> QED  BY <2>1, <2>2
  <1> QED  BY <1>2, <1>3 DEF Matched

\* Where one entry stands, no other has its id.
LEMMA OneListed ==
    ASSUME TypeOK, Given, NEW n \in 1..Len(timerList)
    PROVE  Min(Listed(timerList[n].id)) = n /\ Listed(timerList[n].id) = {n}
  <1>1. Listed(timerList[n].id) = {n}
    BY Types DEF Given
  <1>2. n \in Nat
    OBVIOUS
  <1>3. Min({n}) \in {n}
    BY <1>2, LeastOf
  <1> QED  BY <1>1, <1>3

\* The iterator moves to a timer of the map as it is then.
LEMMA Moving ==
    ASSUME TypeOK, MoveOn
    PROVE  /\ iter' \in 0..MaxHandleId /\ pc' \in {"idle", "scan"}
           /\ pc' = "scan" => iter' \in DOMAIN timerMap_ /\ iter' > iter
  <1> DEFINE later == {j \in DOMAIN timerMap_ : j > iter}
  <1>1. DOMAIN timerMap_ \subseteq 1..MaxHandleId /\ MaxHandleId \in Nat
    BY CountsAssumption DEF TypeOK, Ids
  <1>2. iter' = IF later = {} THEN 0 ELSE Min(later)
    BY DEF MoveOn, Successor
  <1>3. later \in SUBSET Nat /\ (later # {} => Min(later) \in later)
    BY <1>1, LeastOf
  <1>4. pc' = IF iter' = 0 THEN "idle" ELSE "scan"
    BY DEF MoveOn
  <1>5. CASE later = {}
    BY <1>1, <1>2, <1>4, <1>5
  <1>6. CASE later # {}
    BY <1>1, <1>2, <1>3, <1>4, <1>6
  <1> QED  BY <1>5, <1>6

LEMMA ClockType ==
    ASSUME TypeOK
    PROVE  TimerGetTime \in 0..(UintRange - 1)
  <1>1. clock \in Int /\ StartMicro \in Int
    BY CountsAssumption, ClockAssumption DEF TypeOK
  <1> DEFINE now == StartMicro + clock
             whole == SecondTicks * (now \div SecondMicros) + (now % SecondMicros) - StartMicro
  <1>2. now \in Int /\ SecondMicros \in Nat \ {0} /\ SecondTicks \in Nat
    BY <1>1, ClockAssumption
  <1> HIDE DEF now
  <1>3. now \div SecondMicros \in Int /\ now % SecondMicros \in Int
    BY <1>2
  <1>4. SecondTicks * (now \div SecondMicros) \in Int
    BY <1>2, <1>3
  <1>5. whole \in Int
    BY <1>1, <1>3, <1>4
  <1> HIDE DEF whole
  <1>6. whole % UintRange \in 0..(UintRange - 1)
    BY <1>5, ClockAssumption
  <1> QED  BY <1>6 DEF TimerGetTime, whole, now

LEMMA InitIInv == Init => IInv
  <1> SUFFICES ASSUME Init PROVE IInv
    OBVIOUS
  <1>1. /\ DOMAIN timerMap_ = {} /\ DOMAIN age = {} /\ Len(timerList) = 0
        /\ timerList \in Seq(Entries)
    BY EmptySeq DEF Init
  <1>2. TypeOK
    <2>1. 0 \in 0..MaxClock /\ 0 \in 0..MaxCalls /\ 0 \in 0..MaxHandleId /\ 0 \in 0..(UintRange - 1)
      BY CountsAssumption, ClockAssumption
    <2> QED  BY <1>1, <2>1 DEF Init, TypeOK
  <1> QED  BY <1>1, <1>2, CountsAssumption DEF Init, IInv, IteratorValid, OneShotOnce, Given,
              Running, FiredOnce, Gone, Matched

-----------------------------------------------------------------------------
(* The steps.                                                              *)

LEMMA TickKeeps == IInv /\ Tick => IInv'
  <1> SUFFICES ASSUME IInv, Tick PROVE IInv'
    OBVIOUS
  <1>1. /\ clock < MaxClock /\ clock' = clock + 1 /\ age' = [id \in DOMAIN age |-> age[id] + 1]
        /\ UNCHANGED <<timerMap_, timerHandleId, timerList, calls, iter, curTime, k, pc, fired,
                       twice, removed, failed, ended, early, repeating, shifted>>
    BY DEF Tick, luaTimers, scan, history
  <1>2. TypeOK'
    BY <1>1, CountsAssumption DEF IInv, TypeOK
  <1> QED  BY <1>1, <1>2 DEF IInv, IteratorValid, OneShotOnce, Given, Running, FiredOnce,
              Gone, Matched

LEMMA CallLaterKeeps ==
    ASSUME MaxCalls <= MaxHandleId, NEW delay \in Delays, NEW repeat \in {NOT_REPEAT, REPEAT}
    PROVE  IInv /\ CallLater(delay, repeat) => IInv'
  <1> SUFFICES ASSUME IInv, CallLater(delay, repeat) PROVE IInv'
    OBVIOUS
  <1>0. TypeOK /\ IteratorValid /\ OneShotOnce /\ Given /\ Running /\ FiredOnce /\ Gone /\ Matched
    BY DEF IInv
  <1>1. PICK id : id = calls + 1
    OBVIOUS
  <1>2. /\ calls \in Nat /\ calls < MaxCalls /\ id \in Ids /\ id <= MaxCalls /\ timerHandleId = calls
        /\ id = IF timerHandleId >= MaxHandleId THEN 1 ELSE timerHandleId + 1
    BY <1>0, <1>1, CountsAssumption DEF CallLater, TypeOK, Given, Ids
  <1> DEFINE entry == [id |-> id, cycle |-> repeat]
             time == [lasttime |-> TimerGetTime, cycle |-> delay]
  <1>3. /\ pc \in {"idle", "call"}
        /\ calls' = id /\ timerHandleId' = id
        /\ timerList' = Append(timerList, entry)
        /\ timerMap_' = With(timerMap_, id, time) /\ age' = With(age, id, 0)
        /\ repeating' = IF repeat = REPEAT THEN repeating \cup {id} ELSE repeating
        /\ UNCHANGED <<clock, iter, curTime, k, pc, fired, twice, removed, failed, ended, early,
                       shifted>>
    BY <1>1, <1>2 DEF CallLater, scan
  <1>4. entry \in Entries /\ time \in Times
    BY <1>0, <1>2, CountsAssumption, ClockType DEF Entries, Times
  <1>5. /\ timerList' \in Seq(Entries) /\ Len(timerList') = Len(timerList) + 1
        /\ timerList'[Len(timerList) + 1] = entry
        /\ \A i \in 1..Len(timerList) : timerList'[i] = timerList[i]
        /\ Len(timerList) \in Nat
        /\ \A i \in 1..Len(timerList) : timerList[i] \in Entries
    <2>1. timerList \in Seq(Entries) /\ Len(timerList) \in Nat
          /\ \A i \in 1..Len(timerList) : timerList[i] \in Entries
      BY <1>0, Types
    <2> HIDE DEF entry
    <2> QED  BY <1>3, <1>4, <2>1
  <1>6. /\ DOMAIN timerMap_' = DOMAIN timerMap_ \cup {id} /\ DOMAIN age' = DOMAIN age \cup {id}
        /\ \A j \in DOMAIN timerMap_ : timerMap_'[j] = timerMap_[j] /\ age'[j] = age[j]
        /\ id \notin DOMAIN timerMap_ => timerMap_'[id] = time /\ age'[id] = 0
        /\ DOMAIN timerMap_ = DOMAIN age
    BY <1>0, <1>3 DEF With, TypeOK
  <1>7. id \notin DOMAIN timerMap_ \cup fired \cup removed \cup failed \cup ended
    BY <1>0, <1>1, <1>2 DEF Given
  <1>8. \A i \in 1..Len(timerList) : timerList[i].id # id
    BY <1>0, <1>1, <1>2 DEF Given
  <1>9. entry.id = id /\ entry.cycle = repeat
    OBVIOUS
  <1> HIDE DEF entry, time
  <1>10. /\ \A i \in 1..Len(timerList') : i \in 1..Len(timerList) \/ i = Len(timerList) + 1
         /\ \A i \in 1..Len(timerList) : i \in 1..Len(timerList')
         /\ Len(timerList) + 1 \in 1..Len(timerList')
    <2>1. Len(timerList') = Len(timerList) + 1 /\ Len(timerList) \in Nat
      BY <1>5
    <2> QED  BY <2>1
  <1>11. TypeOK'
    <2>1. /\ DOMAIN timerMap_' \subseteq Ids /\ DOMAIN age' = DOMAIN timerMap_'
          /\ \A j \in DOMAIN timerMap_' : timerMap_'[j] \in Times /\ age'[j] \in Nat
      BY <1>0, <1>2, <1>4, <1>6, <1>7 DEF TypeOK
    <2>2. calls' \in 0..MaxCalls /\ timerHandleId' \in 0..MaxHandleId /\ repeating' \subseteq Ids
      BY <1>0, <1>2, <1>3, CountsAssumption DEF TypeOK, Ids
    <2> QED  BY <1>0, <1>3, <1>5, <2>1, <2>2 DEF TypeOK
  <1>12. Given'
    <2>1. \A j \in DOMAIN timerMap_' \cup fired \cup removed \cup failed \cup ended : j <= id
      <3>1. \A j \in DOMAIN timerMap_ \cup fired \cup removed \cup failed \cup ended :
                j \in Int /\ j <= calls
        <4>1. DOMAIN timerMap_ \cup fired \cup removed \cup failed \cup ended \subseteq 1..MaxHandleId
          BY <1>0 DEF TypeOK, Ids
        <4> QED  BY <1>0, <4>1 DEF Given
      <3>2. id \in Int /\ \A j \in Int : j <= calls => j <= id
        BY <1>1, <1>2
      <3>3. id <= id
        BY <3>2
      <3> QED  BY <1>6, <3>1, <3>2, <3>3
    <2>2. \A i \in 1..Len(timerList') : timerList'[i].id <= id
      <3>1. \A i \in 1..Len(timerList) : timerList[i].id \in Int /\ timerList[i].id <= calls
        BY <1>0, <1>5 DEF Given, Entries, Ids
      <3>2. id \in Int /\ id <= id /\ \A x \in Int : x <= calls => x <= id
        BY <1>1, <1>2
      <3> QED  BY <1>5, <1>9, <1>10, <3>1, <3>2
    <2>3. \A i, j \in 1..Len(timerList') : timerList'[i].id = timerList'[j].id => i = j
      BY <1>0, <1>5, <1>8, <1>9, <1>10 DEF Given
    <2> QED  BY <1>3, <2>1, <2>2, <2>3 DEF Given
  <1>13. Running' /\ IteratorValid' /\ OneShotOnce'
    BY <1>0, <1>3, <1>5, <1>6, <1>10 DEF Running, IteratorValid, OneShotOnce
  <1>14. FiredOnce'
    BY <1>0, <1>3, <1>5, <1>6, <1>7, <1>9, <1>10 DEF FiredOnce
  <1>15. Gone'
    BY <1>0, <1>3, <1>5, <1>6, <1>7, <1>9, <1>10 DEF Gone
  <1>16. Matched'
    BY <1>0, <1>3, <1>5, <1>6, <1>9, <1>10 DEF Matched
  <1> QED  BY <1>11, <1>12, <1>13, <1>14, <1>15, <1>16 DEF IInv

LEMMA RemoveCallLaterKeeps ==
    ASSUME NEW id \in Ids
    PROVE  IInv /\ RemoveCallLater(id) => IInv'
  <1> SUFFICES ASSUME IInv, RemoveCallLater(id) PROVE IInv'
    OBVIOUS
  <1>0. TypeOK /\ IteratorValid /\ OneShotOnce /\ Given /\ Running /\ FiredOnce /\ Gone /\ Matched
    BY DEF IInv
  <1>1. /\ pc \in {"idle", "call"} /\ ~(pc = "call" /\ id = iter)
        /\ id \in DOMAIN timerMap_ \/ Listed(id) # {}
        /\ timerMap_' = [j \in DOMAIN timerMap_ \ {id} |-> timerMap_[j]]
        /\ age' = [j \in DOMAIN age \ {id} |-> age[j]]
        /\ IF Listed(id) = {} THEN timerList' = timerList ELSE DropEntry(Min(Listed(id)))
        /\ removed' = removed \cup {id}
        /\ UNCHANGED <<clock, timerHandleId, calls, iter, curTime, k, pc, fired, twice, failed,
                       ended, early, repeating, shifted>>
    BY DEF RemoveCallLater, Erase, Without, scan
  <1>2. /\ Len(timerList) \in Nat /\ timerList \in Seq(Entries)
        /\ \A i \in 1..Len(timerList) : timerList[i] \in Entries
        /\ Listed(id) = {i \in 1..Len(timerList) : timerList[i].id = id}
    BY <1>0, Types
  \* What is left in the list are the entries of the other timers.
  <1>3. Others(id)
    <2>1. CASE Listed(id) = {}
      BY <1>0, <1>1, <1>2, <2>1 DEF Given, Others
    <2>2. CASE Listed(id) # {}
      <3>1. PICK n \in 1..Len(timerList) : timerList[n].id = id
        BY <1>2, <2>2
      <3>2. Min(Listed(id)) = n
        BY <1>0, <3>1, OneListed
      <3> QED  BY <1>0, <1>1, <2>2, <3>1, <3>2, DroppingOne
    <2> QED  BY <2>1, <2>2
  <1>4. /\ DOMAIN timerMap_' = DOMAIN timerMap_ \ {id} /\ DOMAIN age' = DOMAIN age \ {id}
        /\ \A j \in DOMAIN timerMap_' : timerMap_'[j] = timerMap_[j]
        /\ \A j \in DOMAIN age' : age'[j] = age[j]
    BY <1>1
  <1>5. TypeOK'
    <2>1. /\ DOMAIN timerMap_' \subseteq Ids /\ DOMAIN age' = DOMAIN timerMap_'
          /\ \A j \in DOMAIN timerMap_' : timerMap_'[j] \in Times /\ age'[j] \in Nat
      BY <1>0, <1>4 DEF TypeOK
    <2> QED  BY <1>0, <1>1, <1>3, <2>1 DEF TypeOK, Others
  <1>6. id <= calls
    BY <1>0, <1>1, <1>2 DEF Given
  <1>7. Given'
    BY <1>0, <1>1, <1>3, <1>4, <1>6 DEF Given, Others
  <1>8. IteratorValid' /\ OneShotOnce'
    BY <1>0, <1>1, <1>4 DEF IteratorValid, OneShotOnce
  <1>9. Running'
    BY <1>0, <1>1, <1>3 DEF Running, Others
  <1>10. FiredOnce' /\ Gone'
    <2>1. \A i \in 1..Len(timerList') : \E j \in 1..Len(timerList) : timerList'[i] = timerList[j]
      BY <1>3 DEF Others
    <2>2. \A i \in 1..Len(timerList') : timerList'[i].id # id
      BY <1>3 DEF Others
    <2>3. FiredOnce'
      BY <1>0, <1>1, <1>4, <2>1 DEF FiredOnce
    <2>4. Gone'
      BY <1>0, <1>1, <1>4, <2>1, <2>2 DEF Gone
    <2> QED  BY <2>3, <2>4
  <1>11. Matched'
    BY <1>0, <1>1, <1>3, <1>4, OthersMatched
  <1> QED  BY <1>5, <1>7, <1>8, <1>9, <1>10, <1>11 DEF IInv

LEMMA BeginUpdateKeeps == IInv /\ BeginUpdate => IInv'
  <1> SUFFICES ASSUME IInv, BeginUpdate PROVE IInv'
    OBVIOUS
  <1>0. TypeOK /\ IteratorValid /\ OneShotOnce /\ Given /\ Running /\ FiredOnce /\ Gone /\ Matched
    BY DEF IInv
  <1>1. /\ pc = "idle" /\ DOMAIN timerMap_ # {} /\ curTime' = TimerGetTime
        /\ iter' = Min(DOMAIN timerMap_) /\ pc' = "scan"
        /\ UNCHANGED <<clock, timerMap_, timerHandleId, timerList, calls, k, age, fired, twice,
                       removed, failed, ended, early, repeating, shifted>>
    BY DEF BeginUpdate, luaTimers
  <1>2. iter' \in DOMAIN timerMap_ /\ DOMAIN timerMap_ \subseteq Ids
    <2>1. DOMAIN timerMap_ \in SUBSET Nat /\ DOMAIN timerMap_ \subseteq Ids
      BY <1>0 DEF TypeOK, Ids
    <2> QED  BY <1>1, <2>1, LeastOf
  <1>3. TypeOK'
    <2>1. curTime' \in 0..(UintRange - 1) /\ iter' \in 0..MaxHandleId
      BY <1>0, <1>1, <1>2, ClockType, CountsAssumption DEF Ids
    <2> QED  BY <1>0, <1>1, <2>1 DEF TypeOK
  <1>4. IteratorValid' /\ OneShotOnce' /\ Given' /\ Gone' /\ Matched' /\ Running'
    BY <1>0, <1>1, <1>2 DEF IteratorValid, OneShotOnce, Given, Gone, Matched, Running
  <1>5. FiredOnce'
    BY <1>0, <1>1 DEF FiredOnce
  <1> QED  BY <1>3, <1>4, <1>5 DEF IInv

LEMMA SkipTimerKeeps == IInv /\ SkipTimer => IInv'
  <1> SUFFICES ASSUME IInv, SkipTimer PROVE IInv'
    OBVIOUS
  <1>0. TypeOK /\ IteratorValid /\ OneShotOnce /\ Given /\ Running /\ FiredOnce /\ Gone /\ Matched
    BY DEF IInv
  <1>1. /\ pc = "scan" /\ MoveOn
        /\ UNCHANGED <<clock, timerMap_, timerHandleId, timerList, calls, curTime, k, age, fired,
                       twice, removed, failed, ended, early, repeating, shifted>>
    BY DEF SkipTimer, luaTimers, history
  <1>2. /\ iter' \in 0..MaxHandleId /\ pc' \in {"idle", "scan"}
        /\ pc' = "scan" => iter' \in DOMAIN timerMap_
    BY <1>0, <1>1, Moving
  <1>3. TypeOK'
    BY <1>0, <1>1, <1>2 DEF TypeOK
  <1>4. IteratorValid' /\ OneShotOnce' /\ Given' /\ Gone' /\ Matched' /\ Running'
    BY <1>0, <1>1, <1>2 DEF IteratorValid, OneShotOnce, Given, Gone, Matched, Running
  <1>5. FiredOnce'
    BY <1>0, <1>1 DEF FiredOnce
  <1> QED  BY <1>3, <1>4, <1>5 DEF IInv

LEMMA DoTimerUnlistedKeeps == IInv /\ DoTimerUnlisted => IInv'
  <1> SUFFICES ASSUME IInv, DoTimerUnlisted PROVE IInv'
    OBVIOUS
  <1>0. TypeOK /\ IteratorValid /\ OneShotOnce /\ Given /\ Running /\ FiredOnce /\ Gone /\ Matched
    BY DEF IInv
  <1>1. /\ pc = "scan" /\ Listed(iter) = {} /\ MoveOn
        /\ timerMap_' = [j \in DOMAIN timerMap_ \ {iter} |-> timerMap_[j]]
        /\ age' = [j \in DOMAIN age \ {iter} |-> age[j]]
        /\ UNCHANGED <<clock, timerHandleId, timerList, calls, curTime, k, fired,
                       twice, removed, failed, ended, early, repeating, shifted>>
    BY DEF DoTimerUnlisted, Erase, Without, luaTimers, history
  <1>2. /\ iter' \in 0..MaxHandleId /\ pc' \in {"idle", "scan"}
        /\ pc' = "scan" => iter' \in DOMAIN timerMap_'
    BY <1>0, <1>1, Moving DEF TypeOK
  <1>3. \A i \in 1..Len(timerList) : timerList[i].id # iter
    BY <1>0, <1>1, Types
  <1>4. /\ DOMAIN timerMap_' = DOMAIN timerMap_ \ {iter} /\ DOMAIN age' = DOMAIN age \ {iter}
        /\ \A j \in DOMAIN timerMap_' : timerMap_'[j] = timerMap_[j]
        /\ \A j \in DOMAIN age' : age'[j] = age[j]
    BY <1>1
  <1>5. TypeOK'
    <2>1. /\ DOMAIN timerMap_' \subseteq Ids /\ DOMAIN age' = DOMAIN timerMap_'
          /\ \A j \in DOMAIN timerMap_' : timerMap_'[j] \in Times /\ age'[j] \in Nat
      BY <1>0, <1>4 DEF TypeOK
    <2> QED  BY <1>0, <1>1, <1>2, <2>1 DEF TypeOK
  <1>6. IteratorValid' /\ OneShotOnce' /\ Given' /\ Gone' /\ Running'
    BY <1>0, <1>1, <1>2, <1>4 DEF IteratorValid, OneShotOnce, Given, Gone, Running
  <1>7. FiredOnce' /\ Matched'
    BY <1>0, <1>1, <1>3, <1>4 DEF FiredOnce, Matched
  <1> QED  BY <1>5, <1>6, <1>7 DEF IInv

LEMMA DoTimerKeeps == IInv /\ DoTimer => IInv'
  <1> SUFFICES ASSUME IInv, DoTimer PROVE IInv'
    OBVIOUS
  <1>0. TypeOK /\ IteratorValid /\ OneShotOnce /\ Given /\ Running /\ FiredOnce /\ Gone /\ Matched
    BY DEF IInv
  <1>1. /\ pc = "scan" /\ Listed(iter) # {} /\ k' = Min(Listed(iter)) /\ pc' = "call"
        /\ IF timerList[k'].cycle = NOT_REPEAT
           THEN /\ fired' = fired \cup {iter}
                /\ twice' = IF iter \in fired THEN twice \cup {iter} ELSE twice
           ELSE UNCHANGED <<fired, twice>>
        /\ early' = IF age[iter] < Micros(timerMap_[iter].cycle) THEN early \cup {iter} ELSE early
        /\ UNCHANGED <<clock, timerMap_, timerHandleId, timerList, calls, iter, curTime, age,
                       removed, failed, ended, repeating, shifted>>
    BY DEF DoTimer, luaTimers
  <1>2. PICK n \in 1..Len(timerList) : timerList[n].id = iter
    BY <1>0, <1>1, Types
  <1>3. k' = n /\ n \in Nat
    BY <1>0, <1>1, <1>2, OneListed
  <1>4. iter \in DOMAIN timerMap_ /\ iter \in Ids /\ iter \notin fired /\ iter <= calls
    BY <1>0, <1>1 DEF IteratorValid, FiredOnce, TypeOK, Given
  <1>5. /\ twice' = twice /\ fired' \subseteq fired \cup {iter} /\ fired \subseteq fired'
        /\ iter \in fired' => timerList[n].cycle = NOT_REPEAT
    BY <1>1, <1>3, <1>4
  <1>6. TypeOK'
    BY <1>0, <1>1, <1>3, <1>4, <1>5 DEF TypeOK
  <1>7. IteratorValid' /\ OneShotOnce' /\ Gone' /\ Matched' /\ Running'
    BY <1>0, <1>1, <1>2, <1>3, <1>4, <1>5 DEF IteratorValid, OneShotOnce, Gone, Matched, Running
  <1>8. Given'
    BY <1>0, <1>1, <1>4, <1>5 DEF Given
  <1>9. FiredOnce'
    BY <1>0, <1>1, <1>2, <1>5 DEF FiredOnce, Given
  <1> QED  BY <1>6, <1>7, <1>8, <1>9 DEF IInv

LEMMA CallbackEndsKeeps == IInv /\ CallbackEnds => IInv'
  <1> SUFFICES ASSUME IInv, CallbackEnds PROVE IInv'
    OBVIOUS
  <1>0. TypeOK /\ IteratorValid /\ OneShotOnce /\ Given /\ Running /\ FiredOnce /\ Gone /\ Matched
    BY DEF IInv
  <1>1. /\ pc = "call" /\ ended' \subseteq ended \cup {iter}
        /\ DropEntry(k)
        /\ shifted' = (shifted \/ k > Len(timerList) \/ timerList[k].id # iter)
        /\ timerMap_' = [j \in DOMAIN timerMap_ \ {iter} |-> timerMap_[j]]
        /\ age' = [j \in DOMAIN age \ {iter} |-> age[j]]
        /\ MoveOn
        /\ UNCHANGED <<clock, timerHandleId, calls, curTime, k, fired, twice,
                       removed, failed, early, repeating>>
    BY DEF CallbackEnds, Erase, Without
  <1>2. /\ iter' \in 0..MaxHandleId /\ pc' \in {"idle", "scan"}
        /\ pc' = "scan" => iter' \in DOMAIN timerMap_'
    BY <1>0, <1>1, Moving DEF TypeOK
  <1>3. iter \in DOMAIN timerMap_ /\ iter \in Ids /\ iter <= calls
    BY <1>0, <1>1 DEF IteratorValid, TypeOK, Given
  <1>4. /\ DOMAIN timerMap_' = DOMAIN timerMap_ \ {iter} /\ DOMAIN age' = DOMAIN age \ {iter}
        /\ \A j \in DOMAIN timerMap_' : timerMap_'[j] = timerMap_[j]
        /\ \A j \in DOMAIN age' : age'[j] = age[j]
    BY <1>1
  \* Whatever entry goes, those that are left are entries there were.
  <1>5. /\ timerList' \in Seq(Entries)
        /\ \A i \in 1..Len(timerList') : \E j \in 1..Len(timerList) : timerList'[i] = timerList[j]
        /\ \A i, j \in 1..Len(timerList') : timerList'[i].id = timerList'[j].id => i = j
        /\ k \in 1..Len(timerList) => Others(timerList[k].id)
    <2>1. /\ Len(timerList) \in Nat /\ timerList \in Seq(Entries) /\ k \in Nat /\ k >= 1
          /\ \A i, j \in 1..Len(timerList) : timerList[i].id = timerList[j].id => i = j
      BY <1>0, <1>1, Types DEF TypeOK, Running, Given
    <2>2. CASE k <= Len(timerList)
      <3>1. k \in 1..Len(timerList)
        BY <2>1, <2>2
      <3>2. Others(timerList[k].id)
        BY <1>0, <1>1, <3>1, DroppingOne
      <3> QED  BY <3>2 DEF Others
    <2>3. CASE ~(k <= Len(timerList))
      <3>1. timerList' = timerList /\ k \notin 1..Len(timerList)
        BY <1>1, <2>1, <2>3 DEF DropEntry
      <3> QED  BY <2>1, <3>1
    <2> QED  BY <2>2, <2>3
  <1>6. TypeOK'
    <2>1. /\ DOMAIN timerMap_' \subseteq Ids /\ DOMAIN age' = DOMAIN timerMap_'
          /\ \A j \in DOMAIN timerMap_' : timerMap_'[j] \in Times /\ age'[j] \in Nat
      BY <1>0, <1>4 DEF TypeOK
    <2> QED  BY <1>0, <1>1, <1>2, <1>3, <1>5, <2>1 DEF TypeOK
  <1>7. IteratorValid' /\ OneShotOnce' /\ Running'
    BY <1>0, <1>1, <1>2 DEF IteratorValid, OneShotOnce, Running
  <1>8. Given'
    BY <1>0, <1>1, <1>3, <1>4, <1>5 DEF Given
  <1>9. FiredOnce' /\ Gone'
    BY <1>0, <1>1, <1>4, <1>5 DEF FiredOnce, Gone
  <1>10. Matched'
    <2> SUFFICES ASSUME ~shifted' PROVE Matched'
      BY DEF Matched
    <2>1. /\ Len(timerList) \in Nat /\ k \in Nat /\ k >= 1
          /\ ~shifted /\ ~(k > Len(timerList)) /\ timerList[k].id = iter
      BY <1>0, <1>1, Types DEF TypeOK, Running
    <2>2. Others(iter)
      BY <1>5, <2>1
    <2> QED  BY <1>0, <1>1, <1>4, <2>1, <2>2, OthersMatched
  <1> QED  BY <1>6, <1>7, <1>8, <1>9, <1>10 DEF IInv

LEMMA CallbackRepeatsKeeps == IInv /\ CallbackRepeats => IInv'
  <1> SUFFICES ASSUME IInv, CallbackRepeats PROVE IInv'
    OBVIOUS
  <1>0. TypeOK /\ IteratorValid /\ OneShotOnce /\ Given /\ Running /\ FiredOnce /\ Gone /\ Matched
    BY DEF IInv
  <1>1. /\ pc = "call" /\ timerList[Min(Listed(iter))].cycle = REPEAT
        /\ timerMap_' = [timerMap_ EXCEPT ![iter].lasttime = curTime]
        /\ age' = [age EXCEPT ![iter] = 0]
        /\ MoveOn
        /\ UNCHANGED <<clock, timerHandleId, timerList, calls, curTime, k, fired, twice, removed,
                       failed, ended, early, repeating, shifted>>
    BY DEF CallbackRepeats, RunningEntry, luaTimers, history
  <1>2. /\ iter' \in 0..MaxHandleId /\ pc' \in {"idle", "scan"}
        /\ pc' = "scan" => iter' \in DOMAIN timerMap_
    BY <1>0, <1>1, Moving
  <1>3. iter \in DOMAIN timerMap_
    BY <1>0, <1>1 DEF IteratorValid
  <1>4. DOMAIN timerMap_' = DOMAIN timerMap_ /\ DOMAIN age' = DOMAIN age
    BY <1>1
  <1>5. TypeOK'
    <2>1. timerMap_[iter] \in Times /\ curTime \in 0..(UintRange - 1)
      BY <1>0, <1>3 DEF TypeOK
    <2>2. [timerMap_[iter] EXCEPT !.lasttime = curTime] \in Times
      BY <2>1 DEF Times
    <2>3. \A j \in DOMAIN timerMap_' : timerMap_'[j] \in Times /\ age'[j] \in Nat
      BY <1>0, <1>1, <1>3, <1>4, <2>2 DEF TypeOK
    <2> QED  BY <1>0, <1>1, <1>2, <1>4, <2>3 DEF TypeOK
  <1>6. IteratorValid' /\ OneShotOnce' /\ Given' /\ Gone' /\ Matched' /\ Running'
    BY <1>0, <1>1, <1>2, <1>4 DEF IteratorValid, OneShotOnce, Given, Gone, Matched, Running
  \* A timer that repeats is none of those that fired for the only time.
  <1>7. iter \notin fired
    <2>1. PICK n \in 1..Len(timerList) : timerList[n].id = iter
      BY <1>0, <1>1 DEF Running
    <2>2. Min(Listed(iter)) = n
      BY <1>0, <2>1, OneListed
    <2>3. timerList[n].cycle # NOT_REPEAT
      BY <1>1, <2>2 DEF REPEAT, NOT_REPEAT
    <2> QED  BY <1>0, <2>1, <2>3 DEF FiredOnce
  <1>8. FiredOnce'
    BY <1>0, <1>1, <1>4, <1>7 DEF FiredOnce
  <1> QED  BY <1>5, <1>6, <1>8 DEF IInv

LEMMA CallbackFailsKeeps == IInv /\ CallbackFails => IInv'
  <1> SUFFICES ASSUME IInv, CallbackFails PROVE IInv'
    OBVIOUS
  <1>0. TypeOK /\ IteratorValid /\ OneShotOnce /\ Given /\ Running /\ FiredOnce /\ Gone /\ Matched
    BY DEF IInv
  <1>1. /\ pc = "call" /\ failed' = failed \cup {iter} /\ MoveOn
        /\ timerMap_' = [j \in DOMAIN timerMap_ \ {iter} |-> timerMap_[j]]
        /\ age' = [j \in DOMAIN age \ {iter} |-> age[j]]
        /\ UNCHANGED <<clock, timerHandleId, timerList, calls, curTime, k, fired, twice, removed,
                       ended, early, repeating, shifted>>
    BY DEF CallbackFails, Erase, Without, luaTimers
  <1>2. /\ iter' \in 0..MaxHandleId /\ pc' \in {"idle", "scan"}
        /\ pc' = "scan" => iter' \in DOMAIN timerMap_'
    BY <1>0, <1>1, Moving DEF TypeOK
  <1>3. iter \in DOMAIN timerMap_ /\ iter \in Ids /\ iter <= calls
    BY <1>0, <1>1 DEF IteratorValid, TypeOK, Given
  <1>4. /\ DOMAIN timerMap_' = DOMAIN timerMap_ \ {iter} /\ DOMAIN age' = DOMAIN age \ {iter}
        /\ \A j \in DOMAIN timerMap_' : timerMap_'[j] = timerMap_[j]
        /\ \A j \in DOMAIN age' : age'[j] = age[j]
    BY <1>1
  <1>5. TypeOK'
    <2>1. /\ DOMAIN timerMap_' \subseteq Ids /\ DOMAIN age' = DOMAIN timerMap_'
          /\ \A j \in DOMAIN timerMap_' : timerMap_'[j] \in Times /\ age'[j] \in Nat
      BY <1>0, <1>4 DEF TypeOK
    <2> QED  BY <1>0, <1>1, <1>2, <1>3, <2>1 DEF TypeOK
  <1>6. IteratorValid' /\ OneShotOnce' /\ Gone' /\ Running'
    BY <1>0, <1>1, <1>2, <1>4 DEF IteratorValid, OneShotOnce, Gone, Running
  <1>7. Given'
    BY <1>0, <1>1, <1>3, <1>4 DEF Given
  <1>8. FiredOnce' /\ Matched'
    BY <1>0, <1>1, <1>4 DEF FiredOnce, Matched
  <1> QED  BY <1>5, <1>6, <1>7, <1>8 DEF IInv

LEMMA Inductive ==
    ASSUME MaxCalls <= MaxHandleId
    PROVE  IInv /\ [Next]_vars => IInv'
  <1> SUFFICES ASSUME IInv, [Next]_vars PROVE IInv'
    OBVIOUS
  <1>1. ASSUME UNCHANGED vars PROVE IInv'
    BY <1>1 DEF vars, IInv, TypeOK, IteratorValid, OneShotOnce, Given, Running, FiredOnce, Gone,
       Matched
  <1>2. ASSUME NEW delay \in Delays, NEW repeat \in {NOT_REPEAT, REPEAT}, CallLater(delay, repeat)
        PROVE  IInv'
    BY <1>2, CallLaterKeeps
  <1>3. ASSUME NEW id \in Ids, RemoveCallLater(id) PROVE IInv'
    BY <1>3, RemoveCallLaterKeeps
  <1> QED  BY <1>1, <1>2, <1>3, TickKeeps, BeginUpdateKeeps, SkipTimerKeeps, DoTimerUnlistedKeeps,
              DoTimerKeeps, CallbackEndsKeeps, CallbackRepeatsKeeps, CallbackFailsKeeps DEF Next

LEMMA Invariant ==
    ASSUME MaxCalls <= MaxHandleId
    PROVE  Spec => []IInv
  <1>1. IInv /\ [Next]_vars => IInv'
    BY Inductive
  <1> QED  BY <1>1, InitIInv, PTL DEF Spec

-----------------------------------------------------------------------------
(* Timers that repeat.                                                     *)

\* The list says of a timer whether it repeats as the history does, and one
\* that repeats stays in the map until something ended it.
Lasting ==
    /\ \A id \in repeating : id <= calls
    /\ \A i \in 1..Len(timerList) :
          timerList[i].id \in repeating <=> timerList[i].cycle = REPEAT
    /\ ~shifted => \A id \in repeating \ (removed \cup failed \cup ended) :
                      id \in DOMAIN timerMap_

\* A step that sets no timer, loses none of the map but those it accounts
\* for, and keeps of the list what it has.
LEMMA LastingStep ==
    ASSUME Lasting, NEW lost,
           \A i \in 1..Len(timerList') :
              \E j \in 1..Len(timerList) : timerList'[i] = timerList[j],
           repeating' = repeating, calls' = calls,
           removed \cup failed \cup ended \subseteq removed' \cup failed' \cup ended',
           ~shifted' => ~shifted,
           DOMAIN timerMap_ \subseteq DOMAIN timerMap_' \cup lost,
           ~shifted' => \A id \in lost \cap repeating : id \in removed' \cup failed' \cup ended'
    PROVE  Lasting'
  <1>1. \A id \in repeating' : id <= calls'
    BY DEF Lasting
  <1>2. \A i \in 1..Len(timerList') :
            timerList'[i].id \in repeating' <=> timerList'[i].cycle = REPEAT
    BY DEF Lasting
  <1>3. ASSUME ~shifted', NEW id \in repeating' \ (removed' \cup failed' \cup ended')
        PROVE  id \in DOMAIN timerMap_'
    <2>1. id \in DOMAIN timerMap_
      BY <1>3 DEF Lasting
    <2> QED  BY <1>3, <2>1
  <1> QED  BY <1>1, <1>2, <1>3 DEF Lasting

LEMMA CallLaterLasts ==
    ASSUME MaxCalls <= MaxHandleId, NEW delay \in Delays, NEW repeat \in {NOT_REPEAT, REPEAT},
           IInv, Lasting, CallLater(delay, repeat)
    PROVE  Lasting'
  <1>0. TypeOK /\ Given
    BY DEF IInv
  <1>1. PICK id : id = calls + 1
    OBVIOUS
  <1>2. /\ calls \in Nat /\ id \in Nat /\ calls < id
        /\ id = IF timerHandleId >= MaxHandleId THEN 1 ELSE timerHandleId + 1
    BY <1>0, <1>1, CountsAssumption DEF CallLater, TypeOK, Given
  <1> DEFINE entry == [id |-> id, cycle |-> repeat]
  <1>3. /\ calls' = id /\ timerList' = Append(timerList, entry)
        /\ timerMap_' = With(timerMap_, id, [lasttime |-> TimerGetTime, cycle |-> delay])
        /\ repeating' = IF repeat = REPEAT THEN repeating \cup {id} ELSE repeating
        /\ UNCHANGED <<removed, failed, ended, shifted>>
    BY <1>1, <1>2 DEF CallLater
  <1>4. entry.id = id /\ entry.cycle = repeat
    OBVIOUS
  <1> HIDE DEF entry
  <1>5. /\ Len(timerList) \in Nat /\ Len(timerList') = Len(timerList) + 1
        /\ \A i \in 1..Len(timerList) : timerList'[i] = timerList[i]
        /\ timerList'[Len(timerList) + 1] = entry
    BY <1>0, <1>3, Types
  <1>6. /\ \A i \in 1..Len(timerList') : i \in 1..Len(timerList) \/ i = Len(timerList) + 1
        /\ \A i \in 1..Len(timerList) : timerList[i].id # id
        /\ id \notin repeating
    BY <1>0, <1>1, <1>2, <1>5 DEF Given, Lasting
  <1>7. \A x \in repeating' : x <= calls'
    <2>1. \A x \in repeating : x \in Nat /\ x <= calls
      BY <1>0 DEF TypeOK, Ids, Lasting
    <2>2. \A x \in Nat : x <= calls => x <= id
      BY <1>2
    <2> QED  BY <1>2, <1>3, <2>1, <2>2
  <1>8. ASSUME NEW i \in 1..Len(timerList')
        PROVE  timerList'[i].id \in repeating' <=> timerList'[i].cycle = REPEAT
    <2>1. CASE i \in 1..Len(timerList)
      BY <1>3, <1>5, <1>6, <2>1 DEF Lasting
    <2>2. CASE i = Len(timerList) + 1
      BY <1>3, <1>4, <1>5, <1>6, <2>2
    <2> QED  BY <1>6, <2>1, <2>2
  <1>9. DOMAIN timerMap_' = DOMAIN timerMap_ \cup {id}
    BY <1>3 DEF With
  <1>10. ~shifted' => \A x \in repeating' \ (removed' \cup failed' \cup ended') :
                         x \in DOMAIN timerMap_'
    BY <1>3, <1>9 DEF Lasting
  <1> QED  BY <1>7, <1>8, <1>10 DEF Lasting

LEMMA RemoveCallLaterLasts ==
    ASSUME NEW id \in Ids, IInv, Lasting, RemoveCallLater(id)
    PROVE  Lasting'
  <1>0. TypeOK /\ Given
    BY DEF IInv
  <1>1. /\ timerMap_' = [j \in DOMAIN timerMap_ \ {id} |-> timerMap_[j]]
        /\ IF Listed(id) = {} THEN timerList' = timerList ELSE DropEntry(Min(Listed(id)))
        /\ removed' = removed \cup {id}
        /\ UNCHANGED <<calls, failed, ended, repeating, shifted>>
    BY DEF RemoveCallLater, Erase, Without
  <1>2. \A i \in 1..Len(timerList') : \E j \in 1..Len(timerList) : timerList'[i] = timerList[j]
    <2>1. CASE Listed(id) = {}
      BY <1>1, <2>1
    <2>2. CASE Listed(id) # {}
      <3>1. PICK n \in 1..Len(timerList) : timerList[n].id = id
        BY <1>0, <2>2, Types
      <3>2. Min(Listed(id)) = n
        BY <1>0, <3>1, OneListed
      <3>3. Others(id)
        BY <1>0, <1>1, <2>2, <3>1, <3>2, DroppingOne
      <3> QED  BY <3>3 DEF Others
    <2> QED  BY <2>1, <2>2
  <1>3. DOMAIN timerMap_ \subseteq DOMAIN timerMap_' \cup {id}
    BY <1>1
  <1>4. \A x \in {id} \cap repeating : x \in removed' \cup failed' \cup ended'
    BY <1>1
  <1> QED  BY <1>1, <1>2, <1>3, <1>4, LastingStep

\* The script still knows a timer that update is at: it is not forgotten.
LEMMA DoTimerUnlistedLasts ==
    ASSUME IInv, Lasting, DoTimerUnlisted
    PROVE  Lasting'
  <1>0. TypeOK /\ IteratorValid /\ Matched
    BY DEF IInv
  <1>1. /\ pc = "scan" /\ Listed(iter) = {}
        /\ timerMap_' = [j \in DOMAIN timerMap_ \ {iter} |-> timerMap_[j]]
        /\ UNCHANGED <<calls, timerList, removed, failed, ended, repeating, shifted>>
    BY DEF DoTimerUnlisted, Erase, Without, luaTimers, history
  <1>2. shifted
    <2>1. iter \in DOMAIN timerMap_
      BY <1>0, <1>1 DEF IteratorValid
    <2>2. \A i \in 1..Len(timerList) : timerList[i].id # iter
      BY <1>0, <1>1, Types
    <2> QED  BY <1>0, <2>1, <2>2 DEF Matched
  <1>3. DOMAIN timerMap_ \subseteq DOMAIN timerMap_' \cup {iter}
    BY <1>1
  <1> QED  BY <1>1, <1>2, <1>3, LastingStep

\* A timer whose callback ends returned 0 or does not repeat.
LEMMA CallbackEndsLasts ==
    ASSUME IInv, Lasting, CallbackEnds
    PROVE  Lasting'
  <1>0. TypeOK /\ Given /\ Running
    BY DEF IInv
  <1>1. /\ pc = "call" /\ DropEntry(k)
        /\ shifted' = (shifted \/ k > Len(timerList) \/ timerList[k].id # iter)
        /\ timerMap_' = [j \in DOMAIN timerMap_ \ {iter} |-> timerMap_[j]]
        /\ UNCHANGED <<calls, removed, failed, repeating>>
    BY DEF CallbackEnds, Erase, Without
  <1>2. PICK ret \in {0, 1} :
            /\ ret = 0 \/ RunningEntry.cycle = NOT_REPEAT
            /\ ended' = IF ret = 0 THEN ended \cup {iter} ELSE ended
    BY DEF CallbackEnds
  <1>3. PICK n \in 1..Len(timerList) : timerList[n].id = iter
    BY <1>0, <1>1 DEF Running
  <1>4. RunningEntry = timerList[n]
    BY <1>0, <1>3, OneListed DEF RunningEntry
  <1>5. iter \in repeating => iter \in ended'
    BY <1>2, <1>3, <1>4 DEF Lasting, REPEAT, NOT_REPEAT
  <1>6. \A i \in 1..Len(timerList') : \E j \in 1..Len(timerList) : timerList'[i] = timerList[j]
    <2>1. k \in Nat /\ k >= 1 /\ Len(timerList) \in Nat
      BY <1>0, <1>1, Types DEF TypeOK, Running
    <2>2. CASE k <= Len(timerList)
      <3>1. Others(timerList[k].id)
        BY <1>0, <1>1, <2>1, <2>2, DroppingOne
      <3> QED  BY <3>1 DEF Others
    <2>3. CASE ~(k <= Len(timerList))
      BY <1>1, <2>3 DEF DropEntry
    <2> QED  BY <2>2, <2>3
  <1>7. DOMAIN timerMap_ \subseteq DOMAIN timerMap_' \cup {iter}
    BY <1>1
  <1>8. removed \cup failed \cup ended \subseteq removed' \cup failed' \cup ended'
    BY <1>1, <1>2
  <1>9. \A x \in {iter} \cap repeating : x \in removed' \cup failed' \cup ended'
    BY <1>5
  <1> QED  BY <1>1, <1>6, <1>7, <1>8, <1>9, LastingStep

LEMMA CallbackFailsLasts ==
    ASSUME Lasting, CallbackFails
    PROVE  Lasting'
  <1>1. /\ failed' = failed \cup {iter}
        /\ timerMap_' = [j \in DOMAIN timerMap_ \ {iter} |-> timerMap_[j]]
        /\ UNCHANGED <<calls, timerList, removed, ended, repeating, shifted>>
    BY DEF CallbackFails, Erase, Without, luaTimers
  <1>2. DOMAIN timerMap_ \subseteq DOMAIN timerMap_' \cup {iter}
    BY <1>1
  <1> QED  BY <1>1, <1>2, LastingStep

LEMMA LastingKept ==
    ASSUME MaxCalls <= MaxHandleId
    PROVE  IInv /\ Lasting /\ [Next]_vars => Lasting'
  <1> SUFFICES ASSUME IInv, Lasting, [Next]_vars PROVE Lasting'
    OBVIOUS
  <1>1. CASE /\ DOMAIN timerMap_' = DOMAIN timerMap_
             /\ UNCHANGED <<calls, timerList, removed, failed, ended, repeating, shifted>>
    BY <1>1 DEF Lasting
  <1>2. CASE Tick \/ BeginUpdate \/ SkipTimer \/ DoTimer \/ UNCHANGED vars
    BY <1>1, <1>2 DEF Tick, BeginUpdate, SkipTimer, DoTimer, vars, luaTimers, history
  <1>3. CASE CallbackRepeats
    BY <1>1, <1>3 DEF CallbackRepeats, luaTimers, history
  <1>4. CASE DoTimerUnlisted \/ CallbackEnds \/ CallbackFails
    BY <1>4, DoTimerUnlistedLasts, CallbackEndsLasts, CallbackFailsLasts
  <1>5. ASSUME NEW delay \in Delays, NEW repeat \in {NOT_REPEAT, REPEAT}, CallLater(delay, repeat)
        PROVE  Lasting'
    BY <1>5, CallLaterLasts
  <1>6. ASSUME NEW id \in Ids, RemoveCallLater(id) PROVE Lasting'
    BY <1>6, RemoveCallLaterLasts
  <1> QED  BY <1>2, <1>3, <1>4, <1>5, <1>6 DEF Next

-----------------------------------------------------------------------------
(* The theorems.                                                           *)

\* Every variable keeps its type.
THEOREM TypeCorrect ==
    ASSUME MaxCalls <= MaxHandleId
    PROVE  Spec => []TypeOK
  <1>1. IInv => TypeOK
    BY DEF IInv
  <1> QED  BY <1>1, Invariant, PTL

\* A timer set to fire once fires once, whatever the callbacks do (update and
\* DoTimer, which erase it in either of two places or not at all).
THEOREM FiresOnce ==
    ASSUME MaxCalls <= MaxHandleId
    PROVE  Spec => []OneShotOnce
  <1>1. IInv => OneShotOnce
    BY DEF IInv
  <1> QED  BY <1>1, Invariant, PTL

\* The iterator of update is at a timer of the map during the whole pass,
\* whatever the callbacks erase.
THEOREM IteratorStaysValid ==
    ASSUME MaxCalls <= MaxHandleId
    PROVE  Spec => []IteratorValid
  <1>1. IInv => IteratorValid
    BY DEF IInv
  <1> QED  BY <1>1, Invariant, PTL

\* A timer that the script removed does not come back.
THEOREM RemovedStaysGone ==
    ASSUME MaxCalls <= MaxHandleId
    PROVE  Spec => []RemovedIsGone
  <1>1. ASSUME IInv PROVE RemovedIsGone
    <2>1. TypeOK /\ Gone
      BY <1>1 DEF IInv
    <2> QED  BY <2>1, Types DEF Gone, RemovedIsGone
  <1> QED  BY <1>1, Invariant, PTL

\* The map of update and the list of the script hold the same timers, but for
\* the entries that failed callbacks leave, until DoTimer removes at an index
\* that its callback made stale.
THEOREM MapAndList ==
    ASSUME MaxCalls <= MaxHandleId
    PROVE  Spec => []Coupled
  <1>1. ASSUME IInv PROVE Coupled
    <2>1. TypeOK /\ Given /\ Matched
      BY <1>1 DEF IInv
    <2> SUFFICES ASSUME ~shifted
                 PROVE  /\ \A id \in DOMAIN timerMap_ : Cardinality(Listed(id)) = 1
                        /\ \A i \in DOMAIN timerList : timerList[i].id \in DOMAIN timerMap_ \cup failed
      BY DEF Coupled
    <2>2. ASSUME NEW id \in DOMAIN timerMap_ PROVE Cardinality(Listed(id)) = 1
      <3>1. PICK n \in 1..Len(timerList) : timerList[n].id = id
        BY <2>1 DEF Matched
      <3>2. Listed(id) = {n}
        BY <2>1, <3>1, OneListed
      <3> QED  BY <3>2, FS_Singleton
    <2>3. \A i \in DOMAIN timerList : timerList[i].id \in DOMAIN timerMap_ \cup failed
      BY <2>1, Types DEF Matched
    <2> QED  BY <2>2, <2>3
  <1> QED  BY <1>1, Invariant, PTL

\* A repeating timer is lost only by the stale index of DoTimer: until that
\* first removes a wrong entry, it is in the map of update and in the list of
\* the script unless it was removed, ended itself or failed.
THEOREM RepeatingLasts ==
    ASSUME MaxCalls <= MaxHandleId
    PROVE  Spec => []RepeatsUntilShifted
  <1>1. Init => Lasting
    BY EmptySeq DEF Init, Lasting
  <1>2. IInv /\ Lasting /\ [Next]_vars => Lasting'
    BY LastingKept
  <1>3. ASSUME IInv, Lasting PROVE RepeatsUntilShifted
    <2> SUFFICES ASSUME ~shifted, NEW id \in repeating \ (removed \cup failed \cup ended)
                 PROVE  id \in DOMAIN timerMap_ /\ Listed(id) # {}
      BY DEF RepeatsUntilShifted, RepeatsUntilRemoved
    <2>1. TypeOK /\ Matched
      BY <1>3 DEF IInv
    <2>2. id \in DOMAIN timerMap_
      BY <1>3 DEF Lasting
    <2>3. PICK n \in 1..Len(timerList) : timerList[n].id = id
      BY <2>1, <2>2 DEF Matched
    <2> QED  BY <2>1, <2>2, <2>3, Types
  <1> QED  BY <1>1, <1>2, <1>3, Invariant, PTL DEF Spec

\* How wrong the clock is (timer_get_time, arch.cpp): at each whole second
\* since its start it is right; in between it gains a tick each microsecond,
\* and once in a second, where the second of the system begins, it jumps back
\* by the microseconds of a second less its ticks.
THEOREM ClockDrift ==
    ASSUME NEW q \in Nat, NEW r \in 0..(SecondMicros - 1), clock = q * SecondMicros + r
    PROVE  TimerGetTime =
              (SecondTicks * q + (IF StartMicro + r < SecondMicros THEN r
                                  ELSE r - (SecondMicros - SecondTicks))) % UintRange
  <1> DEFINE now == StartMicro + clock
             whole == SecondTicks * (now \div SecondMicros) + (now % SecondMicros) - StartMicro
  <1>1. /\ SecondMicros \in Nat \ {0} /\ SecondTicks \in Nat /\ StartMicro \in Nat
        /\ StartMicro < SecondMicros /\ q * SecondMicros \in Nat
    BY ClockAssumption
  <1>2. TimerGetTime = whole % UintRange
    BY DEF TimerGetTime
  <1>3. CASE StartMicro + r < SecondMicros
    <2>1. StartMicro + r \in 0..(SecondMicros - 1)
      BY <1>1, <1>3
    <2>2. now = q * SecondMicros + (StartMicro + r)
      BY <1>1
    <2> HIDE DEF now
    <2>3. now \div SecondMicros = q /\ now % SecondMicros = StartMicro + r
      BY <1>1, <2>1, <2>2, Quotient
    <2>4. whole = SecondTicks * q + r
      <3>1. SecondTicks * q \in Nat
        BY <1>1
      <3> QED  BY <1>1, <2>3, <3>1
    <2> HIDE DEF whole
    <2> QED  BY <1>2, <1>3, <2>4
  <1>4. CASE ~(StartMicro + r < SecondMicros)
    <2>0. PICK p, e : p = q + 1 /\ e = StartMicro + r - SecondMicros
      OBVIOUS
    <2>1. p \in Int /\ e \in 0..(SecondMicros - 1)
      BY <1>1, <1>4, <2>0
    <2>2. now = p * SecondMicros + e
      <3>1. p * SecondMicros = q * SecondMicros + SecondMicros
        BY <1>1, <2>0
      <3> QED  BY <1>1, <2>0, <3>1
    <2> HIDE DEF now
    <2>3. now \div SecondMicros = p /\ now % SecondMicros = e
      BY <1>1, <2>1, <2>2, Quotient
    <2>4. whole = SecondTicks * q + (r - (SecondMicros - SecondTicks))
      <3>1. SecondTicks * p = SecondTicks * q + SecondTicks /\ SecondTicks * q \in Nat
        BY <1>1, <2>0
      <3> QED  BY <1>1, <2>0, <2>3, <3>1
    <2> HIDE DEF whole
    <2> QED  BY <1>2, <1>4, <2>4
  <1> QED  BY <1>3, <1>4
=============================================================================
