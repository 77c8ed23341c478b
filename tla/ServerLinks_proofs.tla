------------------------- MODULE ServerLinks_proofs -------------------------
(***************************************************************************)
(* The theorems about the links between servers, for any number of servers *)
(* and routers, queues of any length, and whatever ends and is started     *)
(* again.                                                                  *)
(*                                                                         *)
(* Everything about messages rests on two facts.  A packet carries the     *)
(* message it was made for, between the servers and over the router of its *)
(* route (Placed).  And on one route the messages get later from what the  *)
(* script of the target has seen to what it has still to read and to what  *)
(* the router has still to take (Ordered): so a message is in one place    *)
(* only, and the messages of a route are handled in their order.  A START  *)
(* is followed the same way (Shaken), and the servers of a message that    *)
(* was sent to a server that was there stay there (Connected).             *)
(***************************************************************************)
EXTENDS ServerLinks, SequenceTheorems, FiniteSetTheorems, TLAPS

Queues == [Servers -> [Routers -> Seq(Packets)]]

-----------------------------------------------------------------------------
(* The invariant.                                                          *)

\* No queue is longer than ZeroMQ allows, and what has ended has none, but for
\* what a router has still to read of it.
Short(q) == \A s \in Servers, r \in Routers : Len(q[s][r]) <= Hwm
Closed ==
    \A s \in Servers, r \in Routers : s \notin up =>
        in[s][r] = <<>> /\ (<<s, r>> \in linked \/ out[s][r] = <<>>)
Sizes == Len(route) <= MaxSends /\ Short(out) /\ Short(in) /\ Closed

\* A message is where its route leads.
Placed ==
    /\ \A s \in Servers, r \in Routers : \A i \in 1..Len(out[s][r]) :
          out[s][r][i].kind = "msg" =>
              /\ out[s][r][i].val \in 1..Len(route)
              /\ route[out[s][r][i].val] = [from |-> s, to |-> out[s][r][i].peer, via |-> r]
    /\ \A s \in Servers, r \in Routers : \A i \in 1..Len(in[s][r]) :
          in[s][r][i].kind = "msg" =>
              /\ in[s][r][i].val \in 1..Len(route)
              /\ route[in[s][r][i].val] = [from |-> in[s][r][i].peer, to |-> s, via |-> r]
    /\ \A s \in Servers : \A i \in 1..Len(handled[s]) :
          handled[s][i] \in 1..Len(route) /\ route[handled[s][i]].to = s

\* In a queue, and among what a script has handled.
InQueue(q) ==
    \A s \in Servers, r \in Routers : \A i, j \in 1..Len(q[s][r]) :
        /\ i < j /\ q[s][r][i].kind = "msg" /\ q[s][r][j].kind = "msg"
        /\ route[q[s][r][i].val] = route[q[s][r][j].val]
        => q[s][r][i].val < q[s][r][j].val

InHandled ==
    \A s \in Servers : \A i, j \in 1..Len(handled[s]) :
        i < j /\ route[handled[s][i]] = route[handled[s][j]] => handled[s][i] < handled[s][j]

\* What a script has handled is earlier than what is in a queue.
HandledBefore(q) ==
    \A s, t \in Servers, r \in Routers : \A i \in 1..Len(handled[t]), j \in 1..Len(q[s][r]) :
        q[s][r][j].kind = "msg" /\ route[handled[t][i]] = route[q[s][r][j].val]
        => handled[t][i] < q[s][r][j].val

\* What has passed the router is earlier than what has not.
InBeforeOut ==
    \A s, t \in Servers, r, u \in Routers : \A i \in 1..Len(in[t][u]), j \in 1..Len(out[s][r]) :
        /\ in[t][u][i].kind = "msg" /\ out[s][r][j].kind = "msg"
        /\ route[in[t][u][i].val] = route[out[s][r][j].val]
        => in[t][u][i].val < out[s][r][j].val

Ordered ==
    /\ InQueue(out) /\ InQueue(in) /\ InHandled
    /\ HandledBefore(out) /\ HandledBefore(in) /\ InBeforeOut

\* A message that is nowhere is lost, and no other is.
IsIn(q, m) ==
    \E s \in Servers, r \in Routers : \E i \in 1..Len(q[s][r]) :
        q[s][r][i].kind = "msg" /\ q[s][r][i].val = m
IsHandled(m) == \E s \in Servers : \E i \in 1..Len(handled[s]) : handled[s][i] = m

Accounted ==
    \A m \in 1..Len(route) :
        lost[m] = "no" <=> IsIn(out, m) \/ IsIn(in, m) \/ IsHandled(m)

\* Between the servers of a known message nothing has ended.
Connected ==
    \A m \in known :
        /\ lost[m] \in {"no", "full"}
        /\ route[m].via \in Routers
        /\ <<route[m].from, route[m].via>> \in linked /\ <<route[m].to, route[m].via>> \in linked
        /\ route[m].from \in up /\ route[m].to \in serverok_

\* The handshake of a server is in one place: START or its echo is on its
\* way, the server is connected, or the handshake was lost.
HasStart(q, s) == \E r \in Routers : \E i \in 1..Len(q[s][r]) : q[s][r][i].kind = "start"
OneStart(q, s) ==
    \A r, u \in Routers : \A i \in 1..Len(q[s][r]), j \in 1..Len(q[s][u]) :
        q[s][r][i].kind = "start" /\ q[s][u][j].kind = "start" => r = u /\ i = j

Shaken(s) ==
    /\ OneStart(out, s) /\ OneStart(in, s)
    /\ ~(HasStart(out, s) /\ HasStart(in, s))
    /\ s \in serverok_ \/ startLost[s] # "no" => ~HasStart(out, s) /\ ~HasStart(in, s)
    /\ s \in serverok_ => startLost[s] = "no"
    /\ HasStart(out, s) \/ HasStart(in, s) \/ s \in serverok_ \/ startLost[s] # "no"

Handshake == \A s \in up : Shaken(s)

-----------------------------------------------------------------------------
(* Queues.                                                                 *)

LEMMA Consts ==
    /\ NRouters \in Nat /\ First \in Routers /\ Hwm \in Nat /\ Hwm >= 1
    /\ PackUnit \in Nat /\ PackUnit >= 1 /\ {MaxSends, MaxStarts} \subseteq Nat
    /\ \A s \in Servers : Version[s] \in Nat /\ Version[s] # 0
  BY LinksAssumption DEF First, Routers

LEMMA QueueTypes ==
    ASSUME NEW q \in Queues, NEW s \in Servers, NEW r \in Routers
    PROVE  /\ q[s][r] \in Seq(Packets) /\ Len(q[s][r]) \in Nat
           /\ \A i \in 1..Len(q[s][r]) :
                 /\ q[s][r][i] \in Packets
                 /\ q[s][r][i].kind \in {"start", "stop", "msg"}
                 /\ q[s][r][i].peer \in Servers /\ q[s][r][i].val \in Nat
  <1>1. q[s][r] \in Seq(Packets)
    BY DEF Queues
  <1>2. Len(q[s][r]) \in Nat /\ \A i \in 1..Len(q[s][r]) : q[s][r][i] \in Packets
    BY <1>1, LenProperties, ElementOfSeq
  <1> QED  BY <1>1, <1>2 DEF Packets

LEMMA PutIn ==
    ASSUME NEW q \in Queues, NEW s \in Servers, NEW r \in Routers, NEW p \in Packets
    PROVE  /\ Put(q, s, r, p) \in Queues
           /\ Put(q, s, r, p)[s][r] = Append(q[s][r], p)
           /\ \A t \in Servers, u \in Routers :
                 t # s \/ u # r => Put(q, s, r, p)[t][u] = q[t][u]
  <1>1. Append(q[s][r], p) \in Seq(Packets)
    BY QueueTypes, AppendProperties
  <1> QED  BY <1>1 DEF Put, Queues

LEMMA PopFrom ==
    ASSUME NEW q \in Queues, NEW s \in Servers, NEW r \in Routers, q[s][r] # <<>>
    PROVE  /\ Pop(q, s, r) \in Queues
           /\ Pop(q, s, r)[s][r] = Tail(q[s][r])
           /\ \A t \in Servers, u \in Routers : t # s \/ u # r => Pop(q, s, r)[t][u] = q[t][u]
  <1>1. Tail(q[s][r]) \in Seq(Packets)
    BY QueueTypes, HeadTailProperties
  <1> QED  BY <1>1 DEF Pop, Queues

\* A sequence with a packet added at its end, and one without its head.
LEMMA Added ==
    ASSUME NEW q \in Seq(Packets), NEW p \in Packets
    PROVE  /\ Append(q, p) \in Seq(Packets) /\ Len(Append(q, p)) = Len(q) + 1 /\ Len(q) \in Nat
           /\ Append(q, p)[Len(q) + 1] = p /\ Append(q, p) # <<>>
           /\ \A i \in 1..Len(q) : Append(q, p)[i] = q[i] /\ i \in 1..Len(Append(q, p))
           /\ \A i \in 1..Len(Append(q, p)) : i \in 1..Len(q) \/ i = Len(q) + 1
  <1>1. /\ Append(q, p) \in Seq(Packets) /\ Len(Append(q, p)) = Len(q) + 1 /\ Len(q) \in Nat
        /\ Append(q, p)[Len(q) + 1] = p
        /\ \A i \in 1..Len(q) : Append(q, p)[i] = q[i]
    BY LenProperties, AppendProperties
  <1>2. Append(q, p) # <<>>
    BY AppendProperties
  <1> DEFINE q1 == Append(q, p)
  <1> HIDE DEF q1
  <1>3. Len(q1) = Len(q) + 1 => /\ \A i \in 1..Len(q) : i \in 1..Len(q1)
                                /\ \A i \in 1..Len(q1) : i \in 1..Len(q) \/ i = Len(q) + 1
    BY <1>1
  <1> QED  BY <1>1, <1>2, <1>3 DEF q1

LEMMA Removed ==
    ASSUME NEW q \in Seq(Packets), q # <<>>
    PROVE  /\ Tail(q) \in Seq(Packets) /\ Len(Tail(q)) = Len(q) - 1 /\ Len(q) \in Nat /\ Len(q) >= 1
           /\ Head(q) = q[1] /\ Head(q) \in Packets
           /\ \A i \in 1..Len(Tail(q)) : Tail(q)[i] = q[i + 1] /\ i + 1 \in 1..Len(q)
           /\ \A i \in 1..Len(q) : i = 1 \/ (i - 1 \in 1..Len(Tail(q)) /\ Tail(q)[i - 1] = q[i])
  <1>1. /\ Tail(q) \in Seq(Packets) /\ Len(Tail(q)) = Len(q) - 1 /\ Len(q) \in Nat
        /\ Head(q) = q[1] /\ Head(q) \in Packets
        /\ \A i \in 1..Len(Tail(q)) : Tail(q)[i] = q[i + 1]
    BY LenProperties, HeadTailProperties, ElementOfSeq
  <1>2. Len(q) >= 1
    BY <1>1, EmptySeq
  <1> DEFINE q1 == Tail(q)
  <1> HIDE DEF q1
  <1>3. ASSUME Len(q1) = Len(q) - 1, \A i \in 1..Len(q1) : q1[i] = q[i + 1]
        PROVE  /\ \A i \in 1..Len(q1) : i + 1 \in 1..Len(q)
               /\ \A i \in 1..Len(q) : i = 1 \/ (i - 1 \in 1..Len(q1) /\ q1[i - 1] = q[i])
    <2>1. \A i \in 1..Len(q1) : i + 1 \in 1..Len(q)
      BY <1>1, <1>3
    <2>2. ASSUME NEW i \in 1..Len(q), i # 1
          PROVE  i - 1 \in 1..Len(q1) /\ q1[i - 1] = q[i]
      <3>1. i - 1 \in 1..Len(q1) /\ (i - 1) + 1 = i
        BY <1>1, <1>3, <2>2
      <3> QED  BY <1>3, <3>1
    <2> QED  BY <2>1, <2>2
  <1> QED  BY <1>1, <1>2, <1>3 DEF q1

\* A prefix, and what is left without one.
LEMMA Prefix ==
    ASSUME NEW q \in Seq(Packets), NEW n \in Nat, n <= Len(q)
    PROVE  /\ SubSeq(q, 1, n) \in Seq(Packets) /\ Len(SubSeq(q, 1, n)) = n
           /\ \A i \in 1..n : SubSeq(q, 1, n)[i] = q[i]
  <1>1. Len(q) \in Nat /\ \A i \in 1..n : q[i] \in Packets
    BY LenProperties, ElementOfSeq
  <1> DEFINE p == SubSeq(q, 1, n)
  <1>2. /\ p \in Seq(Packets) /\ Len(p) = IF 1 <= n THEN n - 1 + 1 ELSE 0
        /\ \A i \in 1..(n - 1 + 1) : p[i] = q[1 + i - 1]
    BY <1>1, SubSeqProperties
  <1> HIDE DEF p
  <1>3. \A i \in 1..n : p[i] = q[i]
    BY <1>2
  <1>4. Len(p) = n
    BY <1>2
  <1> QED  BY <1>2, <1>3, <1>4 DEF p

LEMMA Suffix ==
    ASSUME NEW q \in Seq(Packets), NEW n \in Nat, n <= Len(q)
    PROVE  /\ SubSeq(q, n + 1, Len(q)) \in Seq(Packets)
           /\ Len(SubSeq(q, n + 1, Len(q))) = Len(q) - n
           /\ \A i \in 1..(Len(q) - n) : SubSeq(q, n + 1, Len(q))[i] = q[i + n]
  <1>1. Len(q) \in Nat /\ \A i \in (n + 1)..Len(q) : q[i] \in Packets
    BY LenProperties, ElementOfSeq
  <1> DEFINE p == SubSeq(q, n + 1, Len(q))
  <1>2. /\ p \in Seq(Packets) /\ Len(p) = IF n + 1 <= Len(q) THEN Len(q) - (n + 1) + 1 ELSE 0
        /\ \A i \in 1..(Len(q) - (n + 1) + 1) : p[i] = q[(n + 1) + i - 1]
    BY <1>1, SubSeqProperties
  <1> HIDE DEF p
  <1>3. \A i \in 1..(Len(q) - n) : p[i] = q[i + n]
    BY <1>1, <1>2
  <1>4. Len(p) = Len(q) - n
    BY <1>1, <1>2
  <1> QED  BY <1>2, <1>3, <1>4 DEF p

LEMMA PutShort ==
    ASSUME NEW q \in Queues, NEW s \in Servers, NEW r \in Routers, NEW p \in Packets,
           Short(q), Room(q, s, r)
    PROVE  Short(Put(q, s, r, p))
  <1> DEFINE q1 == Put(q, s, r, p)
  <1> SUFFICES ASSUME NEW t \in Servers, NEW u \in Routers
               PROVE  Len(q1[t][u]) <= Hwm
    BY DEF Short
  <1>1. CASE t = s /\ u = r
    <2>1. q1[t][u] = Append(q[s][r], p) /\ Len(q[s][r]) < Hwm /\ q[s][r] \in Seq(Packets)
      BY <1>1, PutIn, QueueTypes DEF Room
    <2>2. Len(q1[t][u]) = Len(q[s][r]) + 1 /\ Len(q[s][r]) \in Nat
      BY <2>1, Added
    <2> HIDE DEF q1
    <2> QED  BY <2>1, <2>2, Consts
  <1>2. CASE t # s \/ u # r
    <2>1. q1[t][u] = q[t][u]
      BY <1>2, PutIn
    <2> QED  BY <2>1 DEF Short
  <1> QED  BY <1>1, <1>2

LEMMA PopShort ==
    ASSUME NEW q \in Queues, NEW s \in Servers, NEW r \in Routers, q[s][r] # <<>>, Short(q)
    PROVE  Short(Pop(q, s, r))
  <1> DEFINE q1 == Pop(q, s, r)
  <1> SUFFICES ASSUME NEW t \in Servers, NEW u \in Routers
               PROVE  Len(q1[t][u]) <= Hwm
    BY DEF Short
  <1>1. CASE t = s /\ u = r
    <2>1. q1[t][u] = Tail(q[s][r]) /\ Len(q[s][r]) <= Hwm /\ q[s][r] \in Seq(Packets)
      BY <1>1, PopFrom, QueueTypes DEF Short
    <2>2. Len(q1[t][u]) = Len(q[s][r]) - 1 /\ Len(q[s][r]) \in Nat
      BY <2>1, Removed
    <2> HIDE DEF q1
    <2> QED  BY <2>1, <2>2, Consts
  <1>2. CASE t # s \/ u # r
    <2>1. q1[t][u] = q[t][u]
      BY <1>2, PopFrom
    <2> QED  BY <2>1 DEF Short
  <1> QED  BY <1>1, <1>2

\* Some messages are lost.
LEMMA Losses ==
    ASSUME lost \in Seq(Causes), NEW ms, NEW cause \in Causes
    PROVE  /\ Lose(ms, cause) \in Seq(Causes) /\ Len(Lose(ms, cause)) = Len(lost)
           /\ \A m \in 1..Len(lost) :
                 Lose(ms, cause)[m] = IF m \in ms THEN cause ELSE lost[m]
  <1>1. Len(lost) \in Nat /\ \A m \in 1..Len(lost) : lost[m] \in Causes
    BY LenProperties, ElementOfSeq
  <1>2. /\ Lose(ms, cause) \in [1..Len(lost) -> Causes]
        /\ \A m \in 1..Len(lost) :
              Lose(ms, cause)[m] = IF m \in ms THEN cause ELSE lost[m]
    BY <1>1 DEF Lose
  <1>3. Lose(ms, cause) \in Seq(Causes)
    BY <1>1, <1>2, SeqDef
  <1>4. Len(Lose(ms, cause)) \in Nat /\ DOMAIN Lose(ms, cause) = 1..Len(Lose(ms, cause))
    BY <1>3, LenProperties
  <1>5. 1..Len(Lose(ms, cause)) = 1..Len(lost)
    BY <1>2, <1>4
  <1>6. Len(Lose(ms, cause)) = Len(lost)
    BY <1>1, <1>4, <1>5
  <1> QED  BY <1>2, <1>3, <1>6

\* The packets of a queue that a router, or a connection, has taken.
LEMMA TakenOut ==
    ASSUME TypeOK, Sizes, NEW s \in Servers, NEW r \in Routers, NEW kind, Taken(s, r, kind)
    PROVE  /\ out' \in Queues /\ Short(out')
           /\ out[s][r] \in Seq(Packets) /\ out[s][r] # <<>>
           /\ Head(out[s][r]) = out[s][r][1] /\ out[s][r][1] \in Packets /\ out[s][r][1].kind = kind
           /\ 1 \in 1..Len(out[s][r])
           /\ out'[s][r] = Tail(out[s][r]) /\ <<s, r>> \in linked
           /\ \A t \in Servers, u \in Routers : t # s \/ u # r => out'[t][u] = out[t][u]
  <1>1. out \in Queues /\ Short(out) /\ out[s][r] # <<>> /\ out' = Pop(out, s, r)
    BY DEF TypeOK, Queues, Sizes, Taken
  <1>2. /\ Head(out[s][r]) = out[s][r][1] /\ out[s][r][1] \in Packets
        /\ Len(out[s][r]) \in Nat /\ Len(out[s][r]) >= 1
        /\ out[s][r] \in Seq(Packets)
    BY <1>1, QueueTypes, Removed
  <1>3. out' \in Queues /\ Short(out')
    BY <1>1, PopFrom, PopShort
  <1>4. /\ out'[s][r] = Tail(out[s][r])
        /\ \A t \in Servers, u \in Routers : t # s \/ u # r => out'[t][u] = out[t][u]
    BY <1>1, PopFrom
  <1>5. 1 \in 1..Len(out[s][r])
    BY <1>2
  <1> QED  BY <1>1, <1>2, <1>3, <1>4, <1>5 DEF Taken

LEMMA ArrivedIn ==
    ASSUME TypeOK, Sizes, NEW s \in Servers, NEW r \in Routers,
           in[s][r] # <<>>, in' = Pop(in, s, r)
    PROVE  /\ in' \in Queues /\ Short(in')
           /\ in[s][r] \in Seq(Packets)
           /\ Head(in[s][r]) = in[s][r][1] /\ in[s][r][1] \in Packets
           /\ 1 \in 1..Len(in[s][r])
           /\ in'[s][r] = Tail(in[s][r])
           /\ \A t \in Servers, u \in Routers : t # s \/ u # r => in'[t][u] = in[t][u]
  <1>1. in \in Queues /\ Short(in)
    BY DEF TypeOK, Queues, Sizes
  <1>2. /\ Head(in[s][r]) = in[s][r][1] /\ in[s][r][1] \in Packets
        /\ Len(in[s][r]) \in Nat /\ Len(in[s][r]) >= 1
        /\ in[s][r] \in Seq(Packets)
    BY <1>1, QueueTypes, Removed
  <1>3. in' \in Queues /\ Short(in')
    BY <1>1, PopFrom, PopShort
  <1>4. /\ in'[s][r] = Tail(in[s][r])
        /\ \A t \in Servers, u \in Routers : t # s \/ u # r => in'[t][u] = in[t][u]
    BY <1>1, PopFrom
  <1>5. 1 \in 1..Len(in[s][r])
    BY <1>2
  <1> QED  BY <1>1, <1>2, <1>3, <1>4, <1>5

\* What a process leaves when it ends.
LEMMA GoneQueues ==
    ASSUME TypeOK, Sizes, NEW s \in Servers, Gone(s)
    PROVE  \E kept \in [Routers -> 0..Hwm] :
              /\ out' \in Queues /\ in' \in Queues
              /\ \A r \in Routers :
                    /\ kept[r] <= Len(out[s][r]) /\ (<<s, r>> \notin linked => kept[r] = 0)
                    /\ out'[s][r] = SubSeq(out[s][r], 1, kept[r]) /\ Len(out'[s][r]) = kept[r]
                    /\ \A i \in 1..kept[r] : out'[s][r][i] = out[s][r][i]
                    /\ in'[s][r] = <<>>
              /\ \A t \in Servers, r \in Routers :
                    t # s => out'[t][r] = out[t][r] /\ in'[t][r] = in[t][r]
              /\ LET unread == UNION {Range(in[s][r]) : r \in Routers}
                     unsent == UNION {Range(SubSeq(out[s][r], kept[r] + 1, Len(out[s][r]))) :
                                        r \in Routers}
                 IN lost' = Lose(Messages(unread \cup unsent), "ended")
  <1>0. out \in Queues /\ in \in Queues
    BY DEF TypeOK, Queues
  <1>1. PICK kept \in [Routers -> 0..Hwm] :
          /\ \A r \in Routers :
                kept[r] <= IF <<s, r>> \in linked THEN Len(out[s][r]) ELSE 0
          /\ out' = [out EXCEPT ![s] = [r \in Routers |-> SubSeq(@[r], 1, kept[r])]]
          /\ LET unread == UNION {Range(in[s][r]) : r \in Routers}
                 unsent == UNION {Range(SubSeq(out[s][r], kept[r] + 1, Len(out[s][r]))) :
                                    r \in Routers}
             IN lost' = Lose(Messages(unread \cup unsent), "ended")
    BY DEF Gone
  <1>2. ASSUME NEW r \in Routers
        PROVE  /\ kept[r] \in Nat /\ kept[r] <= Len(out[s][r])
               /\ <<s, r>> \notin linked => kept[r] = 0
               /\ SubSeq(out[s][r], 1, kept[r]) \in Seq(Packets)
               /\ Len(SubSeq(out[s][r], 1, kept[r])) = kept[r]
               /\ \A i \in 1..kept[r] : SubSeq(out[s][r], 1, kept[r])[i] = out[s][r][i]
    <2>1. out[s][r] \in Seq(Packets) /\ Len(out[s][r]) \in Nat
      BY <1>0, QueueTypes
    <2>2. kept[r] \in Nat /\ kept[r] <= IF <<s, r>> \in linked THEN Len(out[s][r]) ELSE 0
      BY <1>1, Consts
    <2>3. kept[r] <= Len(out[s][r]) /\ (<<s, r>> \notin linked => kept[r] = 0)
      BY <2>1, <2>2
    <2> QED  BY <2>1, <2>2, <2>3, Prefix
  <1>3. in' = [in EXCEPT ![s] = NoPackets] /\ NoPackets \in [Routers -> Seq(Packets)]
    BY EmptySeq DEF Gone, NoPackets
  <1>4. in' \in Queues /\ \A r \in Routers : in'[s][r] = <<>>
    BY <1>0, <1>3 DEF Queues, NoPackets
  <1>5. out' \in Queues /\ \A r \in Routers : out'[s][r] = SubSeq(out[s][r], 1, kept[r])
    <2> DEFINE left == [r \in Routers |-> SubSeq(out[s][r], 1, kept[r])]
    <2>1. left \in [Routers -> Seq(Packets)] /\ out' = [out EXCEPT ![s] = left]
      BY <1>1, <1>2
    <2>2. out'[s] = left /\ out' \in Queues
      BY <1>0, <2>1 DEF Queues
    <2> QED  BY <2>2
  <1>6. \A t \in Servers, r \in Routers :
            t # s => out'[t][r] = out[t][r] /\ in'[t][r] = in[t][r]
    BY <1>0, <1>1, <1>3 DEF Queues
  <1>7. \A r \in Routers :
            /\ kept[r] <= Len(out[s][r]) /\ (<<s, r>> \notin linked => kept[r] = 0)
            /\ Len(out'[s][r]) = kept[r]
            /\ \A i \in 1..kept[r] : out'[s][r][i] = out[s][r][i]
    BY <1>2, <1>5
  <1> QED  BY <1>1, <1>4, <1>5, <1>6, <1>7

\* What a router leaves when it is started again: of each queue to it what it
\* has not taken, if the sender still runs, and of each queue from it what it
\* has written.
LEMMA RestartQueues ==
    ASSUME TypeOK, Sizes, NEW r \in Routers, RouterRestarts(r)
    PROVE  /\ out' \in Queues /\ in' \in Queues
           /\ \A s \in Servers, u \in Routers :
                 u # r => out'[s][u] = out[s][u] /\ in'[s][u] = in[s][u]
           /\ \A s \in Servers : \E n \in Nat :
                 /\ n <= Len(out[s][r]) /\ (s \notin up => n = Len(out[s][r]))
                 /\ Len(out'[s][r]) = Len(out[s][r]) - n
                 /\ \A i \in 1..Len(out'[s][r]) : out'[s][r][i] = out[s][r][i + n]
           /\ \A s \in Servers : \E n \in Nat :
                 /\ n <= Len(in[s][r]) /\ Len(in'[s][r]) = n
                 /\ \A i \in 1..n : in'[s][r][i] = in[s][r][i]
  <1>0. out \in Queues /\ in \in Queues
    BY DEF TypeOK, Queues
  <1>1. PICK took \in [Servers -> 0..Hwm], left \in [Servers -> 0..Hwm] :
          /\ \A s \in Servers :
                /\ took[s] <= IF <<s, r>> \in linked THEN Len(out[s][r]) ELSE 0
                /\ left[s] <= Len(in[s][r])
          /\ out' = [s \in Servers |-> [out[s] EXCEPT ![r] =
                        IF s \in up THEN SubSeq(@, took[s] + 1, Len(@)) ELSE <<>>]]
          /\ in' = [s \in Servers |-> [in[s] EXCEPT ![r] = SubSeq(@, 1, left[s])]]
    BY DEF RouterRestarts
  <1>2. ASSUME NEW s \in Servers
        PROVE  /\ out[s][r] \in Seq(Packets) /\ Len(out[s][r]) \in Nat
               /\ in[s][r] \in Seq(Packets) /\ Len(in[s][r]) \in Nat
               /\ took[s] \in Nat /\ took[s] <= Len(out[s][r])
               /\ left[s] \in Nat /\ left[s] <= Len(in[s][r])
    <2>1. /\ out[s][r] \in Seq(Packets) /\ Len(out[s][r]) \in Nat
          /\ in[s][r] \in Seq(Packets) /\ Len(in[s][r]) \in Nat
      BY <1>0, QueueTypes
    <2>2. /\ took[s] \in Nat /\ took[s] <= IF <<s, r>> \in linked THEN Len(out[s][r]) ELSE 0
          /\ left[s] \in Nat /\ left[s] <= Len(in[s][r])
      BY <1>1, Consts
    <2> QED  BY <2>1, <2>2
  <1>3. ASSUME NEW s \in Servers
        PROVE  /\ SubSeq(out[s][r], took[s] + 1, Len(out[s][r])) \in Seq(Packets)
               /\ Len(SubSeq(out[s][r], took[s] + 1, Len(out[s][r]))) = Len(out[s][r]) - took[s]
               /\ \A i \in 1..(Len(out[s][r]) - took[s]) :
                     SubSeq(out[s][r], took[s] + 1, Len(out[s][r]))[i] = out[s][r][i + took[s]]
               /\ SubSeq(in[s][r], 1, left[s]) \in Seq(Packets)
               /\ Len(SubSeq(in[s][r], 1, left[s])) = left[s]
               /\ \A i \in 1..left[s] : SubSeq(in[s][r], 1, left[s])[i] = in[s][r][i]
    BY <1>2, Prefix, Suffix
  <1> DEFINE rest(s) == SubSeq(out[s][r], took[s] + 1, Len(out[s][r]))
  <1>4. /\ \A s \in Servers : out'[s][r] = IF s \in up THEN rest(s) ELSE <<>>
        /\ \A s \in Servers : in'[s][r] = SubSeq(in[s][r], 1, left[s])
        /\ \A s \in Servers, u \in Routers :
              u # r => out'[s][u] = out[s][u] /\ in'[s][u] = in[s][u]
        /\ DOMAIN out' = Servers /\ DOMAIN in' = Servers
    BY <1>0, <1>1 DEF Queues
  <1>5. out' \in Queues
    <2>1. \A s \in Servers : (IF s \in up THEN rest(s) ELSE <<>>) \in Seq(Packets)
      BY <1>3, EmptySeq
    <2>2. \A s \in Servers :
              [out[s] EXCEPT ![r] = IF s \in up THEN rest(s) ELSE <<>>] \in [Routers -> Seq(Packets)]
      <3> HIDE DEF rest
      <3> QED  BY <1>0, <2>1 DEF Queues
    <2>3. out' = [s \in Servers |-> [out[s] EXCEPT ![r] = IF s \in up THEN rest(s) ELSE <<>>]]
      BY <1>0, <1>1 DEF Queues
    <2> HIDE DEF rest
    <2> QED  BY <2>2, <2>3 DEF Queues
  <1>6. in' \in Queues
    <2>1. \A s \in Servers :
              [in[s] EXCEPT ![r] = SubSeq(in[s][r], 1, left[s])] \in [Routers -> Seq(Packets)]
      BY <1>0, <1>3 DEF Queues
    <2>2. in' = [s \in Servers |-> [in[s] EXCEPT ![r] = SubSeq(in[s][r], 1, left[s])]]
      BY <1>0, <1>1 DEF Queues
    <2> QED  BY <2>1, <2>2 DEF Queues
  <1>7. ASSUME NEW s \in Servers
        PROVE  \E n \in Nat :
                 /\ n <= Len(out[s][r]) /\ (s \notin up => n = Len(out[s][r]))
                 /\ Len(out'[s][r]) = Len(out[s][r]) - n
                 /\ \A i \in 1..Len(out'[s][r]) : out'[s][r][i] = out[s][r][i + n]
    <2>1. CASE s \in up
      <3>1. /\ Len(out'[s][r]) = Len(out[s][r]) - took[s]
            /\ \A i \in 1..(Len(out[s][r]) - took[s]) : out'[s][r][i] = out[s][r][i + took[s]]
        <4>1. out'[s][r] = SubSeq(out[s][r], took[s] + 1, Len(out[s][r]))
          BY <1>4, <2>1
        <4>2. /\ Len(SubSeq(out[s][r], took[s] + 1, Len(out[s][r]))) = Len(out[s][r]) - took[s]
              /\ \A i \in 1..(Len(out[s][r]) - took[s]) :
                    SubSeq(out[s][r], took[s] + 1, Len(out[s][r]))[i] = out[s][r][i + took[s]]
          BY <1>3
        <4> QED  BY <4>1, <4>2
      <3>2. /\ took[s] \in Nat /\ took[s] <= Len(out[s][r])
            /\ s \notin up => took[s] = Len(out[s][r])
            /\ \A i \in 1..Len(out'[s][r]) : out'[s][r][i] = out[s][r][i + took[s]]
        BY <1>2, <2>1, <3>1
      <3> QED  BY <3>1, <3>2
    <2>2. CASE s \notin up
      <3>1. out'[s][r] = <<>> /\ Len(out'[s][r]) = 0
        BY <1>4, <2>2, EmptySeq
      <3>2. Len(out'[s][r]) = Len(out[s][r]) - Len(out[s][r]) /\ 1..Len(out'[s][r]) = {}
        BY <1>2, <3>1
      <3> QED  BY <1>2, <3>2
    <2> QED  BY <2>1, <2>2
  <1>8. ASSUME NEW s \in Servers
        PROVE  \E n \in Nat :
                 /\ n <= Len(in[s][r]) /\ Len(in'[s][r]) = n
                 /\ \A i \in 1..n : in'[s][r][i] = in[s][r][i]
    <2>1. in'[s][r] = SubSeq(in[s][r], 1, left[s])
      BY <1>4
    <2>2. Len(in'[s][r]) = left[s] /\ \A i \in 1..left[s] : in'[s][r][i] = in[s][r][i]
      BY <1>3, <2>1
    <2> QED  BY <1>2, <2>2
  <1> QED  BY <1>4, <1>5, <1>6, <1>7, <1>8

LEMMA PacketTypes ==
    ASSUME NEW s \in Servers
    PROVE  /\ Start(s) \in Packets /\ Start(s).kind = "start" /\ Start(s).peer = s
           /\ Stop(s) \in Packets /\ Stop(s).kind = "stop"
           /\ \A m \in Nat : Msg(s, m) \in Packets /\ Msg(s, m).kind = "msg"
                             /\ Msg(s, m).peer = s /\ Msg(s, m).val = m
           /\ \A d \in Nat : [Start(s) EXCEPT !.val = d] \in Packets
                             /\ [Start(s) EXCEPT !.val = d].kind = "start"
  <1>1. Version[s] \in Nat
    BY Consts
  <1> QED  BY <1>1 DEF Packets, Start, Stop, Msg

-----------------------------------------------------------------------------
(* Types and sizes.                                                        *)

LEMMA TypeConnect ==
    ASSUME TypeOK, Sizes, NEW s \in Servers, Connect(s)
    PROVE  /\ TypeOK' /\ Sizes' /\ out[s][First] = <<>>
           /\ \A r \in Routers : out[s][r] = <<>> /\ in[s][r] = <<>>
  <1>1. \A r \in Routers : out[s][r] = <<>> /\ in[s][r] = <<>>
    BY DEF Connect, Sizes, Closed
  <1>2. out \in Queues /\ Short(out) /\ Start(s) \in Packets /\ First \in Routers
    BY PacketTypes, Consts DEF TypeOK, Queues, Sizes
  <1>3. Room(out, s, First)
    <2>1. out[s][First] = <<>> /\ Len(<<>>) = 0
      BY <1>1, <1>2, EmptySeq
    <2> QED  BY <2>1, Consts DEF Room
  <1>4. /\ out' \in Queues /\ Short(out')
        /\ \A t \in Servers, u \in Routers : t # s \/ u # First => out'[t][u] = out[t][u]
    <2>1. out' = Put(out, s, First, Start(s))
      BY DEF Connect
    <2> QED  BY <1>2, <1>3, <2>1, PutIn, PutShort
  <1>5. TypeOK'
    <2>1. counts' \in [{"starts", "restarts", "kills"} -> Nat]
      <3>1. counts["starts"] + 1 \in Nat
        BY DEF TypeOK
      <3> QED  BY <3>1 DEF TypeOK, Connect, Count
    <2>2. startLost' \in [Servers -> {"no", "full", "router"}] /\ up \subseteq up' /\ up' \subseteq Servers
      BY DEF TypeOK, Connect
    <2> QED  BY <1>4, <2>1, <2>2 DEF TypeOK, Queues, Connect
  <1>6. Closed'
    BY <1>4 DEF Connect, Sizes, Closed
  <1>7. Len(route') <= MaxSends /\ Short(in')
    BY DEF Connect, Sizes, Short
  <1> QED  BY <1>1, <1>2, <1>4, <1>5, <1>6, <1>7 DEF Sizes

LEMMA TypeSend ==
    ASSUME TypeOK, Sizes, NEW s \in Servers, NEW t \in Servers, Send(s, t)
    PROVE  TypeOK' /\ Sizes'
  <1>1. /\ out \in Queues /\ Short(out) /\ Len(route) \in Nat /\ Len(route) + 1 \in Nat
        /\ route \in Seq(Routes) /\ lost \in Seq(Causes)
    BY LenProperties DEF TypeOK, Queues, Sizes
  <1>2. Msg(t, Len(route) + 1) \in Packets
    BY <1>1, PacketTypes
  <1>3. \E r \in Routers \cup {0}, cause \in {"no", "full"} :
            /\ route' = Append(route, [from |-> s, to |-> t, via |-> r])
            /\ lost' = Append(lost, cause)
    BY Zenon DEF Send
  <1>4. /\ route' \in Seq(Routes) /\ lost' \in Seq(Causes)
        /\ Len(route') = Len(route) + 1 /\ Len(lost') = Len(lost) + 1
    <2>1. PICK r \in Routers \cup {0}, cause \in {"no", "full"} :
            /\ route' = Append(route, [from |-> s, to |-> t, via |-> r])
            /\ lost' = Append(lost, cause)
      BY <1>3
    <2>2. [from |-> s, to |-> t, via |-> r] \in Routes /\ cause \in Causes
      <3>1. r \in 0..NRouters
        BY Consts DEF Routers
      <3> QED  BY <3>1 DEF Routes, Causes
    <2> QED  BY <1>1, <2>1, <2>2, AppendProperties
  <1>5. /\ out' \in Queues /\ Short(out')
        /\ \A v \in Servers, u \in Routers : v # s => out'[v][u] = out[v][u]
    <2>1. CASE UNCHANGED out
      BY <1>1, <2>1 DEF Short
    <2>2. CASE \E r \in Routers : Room(out, s, r) /\ out' = Put(out, s, r, Msg(t, Len(route) + 1))
      BY <1>1, <1>2, <2>2, PutIn, PutShort
    <2> QED  BY <2>1, <2>2 DEF Send
  <1>6. known' \subseteq 1..Len(route')
    <2>1. known' \subseteq known \cup {Len(route) + 1}
      BY DEF Send
    <2>2. known \subseteq 1..Len(route)
      BY DEF TypeOK
    <2> QED  BY <1>1, <1>4, <2>1, <2>2
  <1>7. TypeOK'
    BY <1>4, <1>5, <1>6 DEF TypeOK, Queues, Send, procs
  <1>8. Closed'
    BY <1>5 DEF Send, Sizes, Closed, procs
  <1>9. Short(in')
    BY DEF Send, Sizes, Short
  <1>10. Len(route') <= MaxSends
    <2>1. Len(route) < MaxSends /\ MaxSends \in Nat
      BY Consts DEF Send
    <2> QED  BY <1>1, <1>4, <2>1
  <1> QED  BY <1>5, <1>7, <1>8, <1>9, <1>10 DEF Sizes

LEMMA TypeDisconnect ==
    ASSUME TypeOK, Sizes, NEW s \in Servers, Disconnect(s)
    PROVE  TypeOK' /\ Sizes'
  <1>1. out \in Queues /\ Short(out) /\ Stop(s) \in Packets
    BY PacketTypes DEF TypeOK, Queues, Sizes
  <1>2. /\ out' \in Queues /\ Short(out')
        /\ \A v \in Servers, u \in Routers : v # s => out'[v][u] = out[v][u]
    <2>1. CASE UNCHANGED out
      BY <1>1, <2>1 DEF Short
    <2>2. CASE \E r \in Routers : Room(out, s, r) /\ out' = Put(out, s, r, Stop(s))
      BY <1>1, <2>2, PutIn, PutShort
    <2> QED  BY <2>1, <2>2 DEF Disconnect
  <1>3. TypeOK'
    BY <1>2 DEF TypeOK, Queues, Disconnect, history
  <1>4. Closed'
    BY <1>2 DEF Disconnect, Sizes, Closed
  <1>5. Short(in') /\ Len(route') <= MaxSends
    BY DEF Disconnect, history, Sizes, Short
  <1> QED  BY <1>2, <1>3, <1>4, <1>5 DEF Sizes

\* The end of a process, whatever else the step does to counters.
LEMMA TypeGone ==
    ASSUME TypeOK, Sizes, NEW s \in Servers, Gone(s),
           counts' \in [{"starts", "restarts", "kills"} -> Nat],
           UNCHANGED <<linked, digi, route, handled, startLost>>
    PROVE  TypeOK' /\ Sizes'
  <1>1. PICK kept \in [Routers -> 0..Hwm] :
              /\ out' \in Queues /\ in' \in Queues
              /\ \A r \in Routers :
                    /\ kept[r] <= Len(out[s][r]) /\ (<<s, r>> \notin linked => kept[r] = 0)
                    /\ Len(out'[s][r]) = kept[r]
                    /\ in'[s][r] = <<>>
              /\ \A t \in Servers, r \in Routers :
                    t # s => out'[t][r] = out[t][r] /\ in'[t][r] = in[t][r]
              /\ \E ms : lost' = Lose(ms, "ended")
    BY GoneQueues
  <1>2. Short(out) /\ Short(in) /\ out \in Queues
    BY DEF TypeOK, Queues, Sizes
  <1>3. Short(out') /\ Short(in')
    <2> SUFFICES ASSUME NEW t \in Servers, NEW r \in Routers
                 PROVE  Len(out'[t][r]) <= Hwm /\ Len(in'[t][r]) <= Hwm
      BY DEF Short
    <2>1. CASE t = s
      <3>1. Len(out'[s][r]) = kept[r] /\ kept[r] \in 0..Hwm /\ in'[s][r] = <<>> /\ Len(<<>>) = 0
        BY <1>1, EmptySeq
      <3> QED  BY <2>1, <3>1, Consts
    <2>2. CASE t # s
      BY <1>1, <1>2, <2>2 DEF Short
    <2> QED  BY <2>1, <2>2
  <1>4. lost' \in Seq(Causes) /\ Len(lost') = Len(lost)
    <2>1. lost \in Seq(Causes) /\ "ended" \in Causes
      BY DEF TypeOK, Causes
    <2> QED  BY <1>1, <2>1, Losses
  <1>5. Closed'
    <2> SUFFICES ASSUME NEW t \in Servers, NEW r \in Routers, t \notin up'
                 PROVE  in'[t][r] = <<>> /\ (<<t, r>> \in linked' \/ out'[t][r] = <<>>)
      BY DEF Closed
    <2>1. CASE t = s
      <3>1. <<s, r>> \notin linked => Len(out'[s][r]) = 0
        BY <1>1
      <3>2. out'[s][r] \in Seq(Packets)
        BY <1>1, QueueTypes
      <3> QED  BY <1>1, <2>1, <3>1, <3>2, EmptySeq
    <2>2. CASE t # s
      <3>1. t \notin up
        BY <2>2 DEF Gone
      <3> QED  BY <1>1, <2>2, <3>1 DEF Sizes, Closed
    <2> QED  BY <2>1, <2>2
  <1>6. TypeOK'
    BY <1>1, <1>4, Consts DEF TypeOK, Queues, Gone
  <1>7. Len(route') <= MaxSends
    BY DEF Sizes
  <1> QED  BY <1>3, <1>5, <1>6, <1>7 DEF Sizes

LEMMA Counted ==
    ASSUME TypeOK, NEW c \in {"starts", "restarts", "kills"}, Count(c)
    PROVE  counts' \in [{"starts", "restarts", "kills"} -> Nat]
  <1>1. counts[c] + 1 \in Nat
    BY DEF TypeOK
  <1> QED  BY <1>1 DEF TypeOK, Count

LEMMA TypeLinks ==
    ASSUME TypeOK, Sizes, NEW s \in Servers, NEW r \in Routers, Link(s, r) \/ Unlink(s, r)
    PROVE  TypeOK' /\ Sizes'
  <1>1. UNCHANGED <<procs, out, in, digi, counts, history>> /\ linked' \subseteq Servers \X Routers
    BY DEF Link, Unlink, TypeOK
  <1>2. TypeOK'
    BY <1>1 DEF TypeOK, procs, history
  <1>3. Closed'
    BY <1>1 DEF Link, Unlink, Sizes, Closed, procs
  <1>4. Short(out') /\ Short(in') /\ Len(route') <= MaxSends
    BY <1>1 DEF Sizes, Short, history
  <1> QED  BY <1>2, <1>3, <1>4 DEF Sizes

\* A router passes a packet on.
LEMMA PassedOn ==
    ASSUME TypeOK, Sizes, NEW t \in Servers, NEW r \in Routers, NEW p \in Packets,
           Room(in, t, r), in' = Put(in, t, r, p)
    PROVE  /\ in' \in Queues /\ Short(in') /\ in'[t][r] = Append(in[t][r], p)
           /\ \A v \in Servers, u \in Routers : v # t \/ u # r => in'[v][u] = in[v][u]
  <1>1. in \in Queues /\ Short(in)
    BY DEF TypeOK, Queues, Sizes
  <1> QED  BY <1>1, PutIn, PutShort

LEMMA TypeEchoes ==
    ASSUME TypeOK, Sizes, NEW s \in Servers, NEW r \in Routers, RouterEchoes(s, r)
    PROVE  TypeOK' /\ Sizes'
  <1>1. Taken(s, r, "start")
    BY DEF RouterEchoes
  <1>2. /\ out' \in Queues /\ Short(out') /\ <<s, r>> \in linked
        /\ Head(out[s][r]) \in Packets
        /\ \A t \in Servers, u \in Routers : t # s \/ u # r => out'[t][u] = out[t][u]
    BY <1>1, TakenOut
  <1>3. digi' \in [Routers -> Nat] /\ digi'[r] \in Nat
    <2>1. Head(out[s][r]).val \in Nat
      BY <1>2 DEF Packets
    <2> QED  BY <2>1 DEF RouterEchoes, TypeOK
  <1>4. /\ in' \in Queues /\ Short(in')
        /\ \A t \in Servers, u \in Routers : t \notin up => in'[t][u] = in[t][u]
    <2>1. CASE s \in up /\ Room(in, s, r)
      <3>1. in' = Put(in, s, r, [Start(s) EXCEPT !.val = digi'[r]])
        BY <2>1 DEF RouterEchoes
      <3>2. [Start(s) EXCEPT !.val = digi'[r]] \in Packets
        BY <1>3, PacketTypes
      <3> QED  BY <2>1, <3>1, <3>2, PassedOn
    <2>2. CASE ~(s \in up /\ Room(in, s, r))
      <3>1. in' = in
        BY <2>2 DEF RouterEchoes
      <3> QED  BY <3>1 DEF TypeOK, Queues, Sizes, Short
    <2> QED  BY <2>1, <2>2
  <1>5. startLost' \in [Servers -> {"no", "full", "router"}]
    BY DEF RouterEchoes, TypeOK
  <1>6. TypeOK'
    BY <1>2, <1>3, <1>4, <1>5 DEF TypeOK, Queues, RouterEchoes, procs
  <1>7. Closed'
    BY <1>2, <1>4 DEF RouterEchoes, procs, Sizes, Closed
  <1>8. Len(route') <= MaxSends
    BY DEF RouterEchoes, Sizes
  <1> QED  BY <1>2, <1>4, <1>6, <1>7, <1>8 DEF Sizes

LEMMA TypeSeesStop ==
    ASSUME TypeOK, Sizes, NEW s \in Servers, NEW r \in Routers, RouterSeesStop(s, r)
    PROVE  TypeOK' /\ Sizes'
  <1>1. Taken(s, r, "stop") /\ UNCHANGED <<procs, in, linked, digi, counts, history>>
    BY DEF RouterSeesStop
  <1>2. /\ out' \in Queues /\ Short(out') /\ <<s, r>> \in linked
        /\ \A t \in Servers, u \in Routers : t # s \/ u # r => out'[t][u] = out[t][u]
    BY <1>1, TakenOut
  <1>3. TypeOK'
    BY <1>1, <1>2 DEF TypeOK, Queues, procs, history
  <1>4. Closed'
    BY <1>1, <1>2 DEF procs, Sizes, Closed
  <1>5. Short(in') /\ Len(route') <= MaxSends
    BY <1>1 DEF Sizes, Short, history
  <1> QED  BY <1>2, <1>3, <1>4, <1>5 DEF Sizes

\* What a router does with a message.
LEMMA Forwarded ==
    ASSUME TypeOK, Sizes, NEW s \in Servers, NEW r \in Routers, RouterForwards(s, r)
    PROVE  LET p == out[s][r][1]
           IN /\ p.peer \in Servers /\ p.val \in Nat
              /\ \/ /\ p.peer \in up /\ <<p.peer, r>> \in linked /\ Room(in, p.peer, r)
                    /\ Msg(s, p.val) \in Packets
                    /\ in' = Put(in, p.peer, r, Msg(s, p.val)) /\ UNCHANGED lost
                 \/ /\ \E cause \in {"unknown", "dead", "full"} :
                          /\ cause # "full" => p.peer \notin up \/ <<p.peer, r>> \notin linked
                          /\ lost' = Lose({p.val}, cause)
                    /\ UNCHANGED in
  <1>1. Taken(s, r, "msg")
    BY DEF RouterForwards
  <1>2. Head(out[s][r]) = out[s][r][1] /\ out[s][r][1] \in Packets
    BY ZenonT(60), <1>1, TakenOut
  <1> DEFINE t == out[s][r][1].peer
             m == out[s][r][1].val
  <1>3. t \in Servers /\ m \in Nat
    BY <1>2 DEF Packets
  <1>4. Msg(s, m) \in Packets
    BY <1>3, PacketTypes
  <1>5. IF t \in up /\ <<t, r>> \in linked /\ Room(in, t, r)
        THEN in' = Put(in, t, r, Msg(s, m)) /\ UNCHANGED lost
        ELSE /\ lost' = Lose({m}, IF <<t, r>> \notin linked THEN "unknown"
                                  ELSE IF t \notin up THEN "dead" ELSE "full")
             /\ UNCHANGED in
    BY <1>2 DEF RouterForwards
  <1> HIDE DEF t, m
  <1>6. CASE t \in up /\ <<t, r>> \in linked /\ Room(in, t, r)
    BY <1>3, <1>4, <1>5, <1>6 DEF t, m
  <1>7. CASE ~(t \in up /\ <<t, r>> \in linked /\ Room(in, t, r))
    <2>1. \E cause \in {"unknown", "dead", "full"} :
             /\ cause # "full" => t \notin up \/ <<t, r>> \notin linked
             /\ lost' = Lose({m}, cause)
      <3>1. CASE <<t, r>> \notin linked
        BY <1>5, <1>7, <3>1
      <3>2. CASE <<t, r>> \in linked /\ t \notin up
        BY <1>5, <1>7, <3>2
      <3>3. CASE <<t, r>> \in linked /\ t \in up
        BY <1>5, <1>7, <3>3
      <3> QED  BY <3>1, <3>2, <3>3
    <2> QED  BY <1>3, <1>5, <1>7, <2>1 DEF t, m
  <1> QED  BY <1>6, <1>7

LEMMA TypeForwards ==
    ASSUME TypeOK, Sizes, NEW s \in Servers, NEW r \in Routers, RouterForwards(s, r)
    PROVE  TypeOK' /\ Sizes'
  <1> DEFINE p == out[s][r][1]
  <1>1. Taken(s, r, "msg")
    BY DEF RouterForwards
  <1>2. /\ out' \in Queues /\ Short(out') /\ <<s, r>> \in linked
        /\ \A t \in Servers, u \in Routers : t # s \/ u # r => out'[t][u] = out[t][u]
    BY <1>1, TakenOut
  <1>3. CASE /\ p.peer \in up /\ Room(in, p.peer, r) /\ Msg(s, p.val) \in Packets
             /\ in' = Put(in, p.peer, r, Msg(s, p.val)) /\ UNCHANGED lost
    <2>1. p.peer \in Servers
      BY <1>3 DEF TypeOK
    <2>2. /\ in' \in Queues /\ Short(in')
          /\ \A v \in Servers, u \in Routers : v # p.peer \/ u # r => in'[v][u] = in[v][u]
      <3> HIDE DEF p
      <3> QED  BY <1>3, <2>1, PassedOn
    <2>3. TypeOK'
      BY <1>2, <1>3, <2>2 DEF TypeOK, Queues, RouterForwards, procs
    <2>4. Closed'
      <3>1. up' = up /\ linked' = linked
        BY DEF RouterForwards, procs
      <3>2. ASSUME NEW t \in Servers, NEW u \in Routers, t \notin up
            PROVE  in'[t][u] = <<>> /\ (<<t, u>> \in linked \/ out'[t][u] = <<>>)
        <4>1. in[t][u] = <<>> /\ (<<t, u>> \in linked \/ out[t][u] = <<>>)
          BY <3>2 DEF Sizes, Closed
        <4>2. in'[t][u] = in[t][u]
          <5>1. t # p.peer
            BY <1>3, <3>2
          <5> QED  BY <2>2, <5>1
        <4>3. <<t, u>> = <<s, r>> \/ out'[t][u] = out[t][u]
          BY <1>2
        <4> QED  BY <1>2, <4>1, <4>2, <4>3
      <3> QED  BY <3>1, <3>2 DEF Closed
    <2> QED  BY <1>2, <2>2, <2>3, <2>4 DEF Sizes, RouterForwards
  <1>4. CASE UNCHANGED in /\ \E ms : \E cause \in Causes : lost' = Lose(ms, cause)
    <2>1. lost' \in Seq(Causes) /\ Len(lost') = Len(lost)
      BY <1>4, Losses DEF TypeOK
    <2>2. TypeOK'
      BY <1>2, <1>4, <2>1 DEF TypeOK, Queues, RouterForwards, procs
    <2>3. Closed'
      BY <1>2, <1>4 DEF RouterForwards, procs, Sizes, Closed
    <2> QED  BY <1>2, <1>4, <2>2, <2>3 DEF Sizes, Short, RouterForwards
  <1>5. {"unknown", "dead", "full"} \subseteq Causes
    BY DEF Causes
  <1>6. \/ /\ p.peer \in up /\ Room(in, p.peer, r) /\ Msg(s, p.val) \in Packets
           /\ in' = Put(in, p.peer, r, Msg(s, p.val)) /\ UNCHANGED lost
        \/ UNCHANGED in /\ \E ms : \E cause \in Causes : lost' = Lose(ms, cause)
    <2>1. \/ /\ p.peer \in up /\ Room(in, p.peer, r) /\ Msg(s, p.val) \in Packets
             /\ in' = Put(in, p.peer, r, Msg(s, p.val)) /\ UNCHANGED lost
          \/ /\ \E cause \in {"unknown", "dead", "full"} : lost' = Lose({p.val}, cause)
             /\ UNCHANGED in
      BY Forwarded
    <2> QED  BY <1>5, <2>1
  <1> QED  BY <1>3, <1>4, <1>6

LEMMA TypeRestarts ==
    ASSUME TypeOK, Sizes, NEW r \in Routers, RouterRestarts(r)
    PROVE  TypeOK' /\ Sizes'
  <1>1. /\ out' \in Queues /\ in' \in Queues
        /\ \A s \in Servers, u \in Routers :
              u # r => out'[s][u] = out[s][u] /\ in'[s][u] = in[s][u]
        /\ \A s \in Servers :
              /\ Len(out'[s][r]) <= Len(out[s][r]) /\ (s \notin up => Len(out'[s][r]) = 0)
              /\ Len(in'[s][r]) <= Len(in[s][r])
    <2>1. \A s \in Servers : Len(out[s][r]) \in Nat /\ Len(in[s][r]) \in Nat
      BY QueueTypes DEF TypeOK, Queues
    <2>2. ASSUME NEW s \in Servers
          PROVE  /\ Len(out'[s][r]) <= Len(out[s][r]) /\ (s \notin up => Len(out'[s][r]) = 0)
                 /\ Len(in'[s][r]) <= Len(in[s][r])
      <3>1. PICK n \in Nat : n <= Len(out[s][r]) /\ (s \notin up => n = Len(out[s][r]))
                             /\ Len(out'[s][r]) = Len(out[s][r]) - n
        BY RestartQueues
      <3>2. PICK k \in Nat : k <= Len(in[s][r]) /\ Len(in'[s][r]) = k
        BY RestartQueues
      <3> QED  BY <2>1, <3>1, <3>2
    <2> QED  BY <2>2, RestartQueues
  <1>2. /\ \A s \in Servers : /\ Len(out[s][r]) \in Nat /\ Len(out[s][r]) <= Hwm
                              /\ Len(in[s][r]) \in Nat /\ Len(in[s][r]) <= Hwm
                              /\ Len(out'[s][r]) \in Nat /\ Len(in'[s][r]) \in Nat
    BY <1>1, QueueTypes DEF TypeOK, Queues, Sizes, Short
  <1>3. Short(out') /\ Short(in')
    <2> SUFFICES ASSUME NEW s \in Servers, NEW u \in Routers
                 PROVE  Len(out'[s][u]) <= Hwm /\ Len(in'[s][u]) <= Hwm
      BY DEF Short
    <2>1. CASE u = r
      BY <1>1, <1>2, <2>1, Consts
    <2>2. CASE u # r
      BY <1>1, <2>2 DEF Sizes, Short
    <2> QED  BY <2>1, <2>2
  <1>4. Closed'
    <2> SUFFICES ASSUME NEW s \in Servers, NEW u \in Routers, s \notin up
                 PROVE  in'[s][u] = <<>> /\ (<<s, u>> \in linked' \/ out'[s][u] = <<>>)
      BY DEF Closed, RouterRestarts, procs
    <2>1. CASE u = r
      <3>1. out'[s][r] = <<>>
        BY <1>1, QueueTypes, EmptySeq
      <3>2. Len(in'[s][r]) = 0
        <4>1. in[s][r] = <<>> /\ Len(<<>>) = 0
          BY EmptySeq DEF Sizes, Closed
        <4> QED  BY <1>1, <1>2, <4>1
      <3>3. in'[s][r] = <<>>
        BY <1>1, <3>2, QueueTypes, EmptySeq
      <3> QED  BY <2>1, <3>1, <3>3
    <2>2. CASE u # r
      <3>1. <<s, u>> \in linked => <<s, u>> \in linked'
        BY <2>2 DEF RouterRestarts
      <3> QED  BY <1>1, <2>2, <3>1 DEF Sizes, Closed
    <2> QED  BY <2>1, <2>2
  <1>5. lost' \in Seq(Causes) /\ Len(lost') = Len(lost)
    <2>1. lost \in Seq(Causes) /\ "router" \in Causes
      BY DEF TypeOK, Causes
    <2>2. \E ms : lost' = Lose(ms, "router")
      BY DEF RouterRestarts
    <2> QED  BY <2>1, <2>2, Losses
  <1>6. startLost' \in [Servers -> {"no", "full", "router"}]
    <2>1. \E S : startLost' = [s \in Servers |-> IF s \in S THEN "router" ELSE startLost[s]]
      <3> DEFINE gone(s) == (Range(out[s][r]) \ Range(out'[s][r]))
                            \cup (Range(in[s][r]) \ Range(in'[s][r]))
                 S == {s \in Servers : \E p \in gone(s) : p.kind = "start"}
      <3>1. startLost' = [s \in Servers |->
                IF \E p \in gone(s) : p.kind = "start" THEN "router" ELSE startLost[s]]
        BY DEF RouterRestarts
      <3>2. startLost' = [s \in Servers |-> IF s \in S THEN "router" ELSE startLost[s]]
        <4> HIDE DEF gone
        <4> QED  BY <3>1
      <3> QED  BY <3>2
    <2> QED  BY <2>1 DEF TypeOK
  <1>7. linked' \subseteq Servers \X Routers /\ digi' \in [Routers -> Nat]
    BY DEF RouterRestarts, TypeOK
  <1>8. counts' \in [{"starts", "restarts", "kills"} -> Nat]
    BY Counted DEF RouterRestarts
  <1>9. TypeOK'
    BY <1>1, <1>5, <1>6, <1>7, <1>8 DEF TypeOK, Queues, RouterRestarts, procs
  <1>10. Len(route') <= MaxSends
    BY DEF RouterRestarts, Sizes
  <1> QED  BY <1>3, <1>4, <1>9, <1>10 DEF Sizes

\* A step of a pass, whatever it does with what it read.
LEMMA TypePass ==
    ASSUME TypeOK, Sizes, NEW s \in Servers, s \in up,
           UNCHANGED <<up, stopping, out, linked, digi, counts, route, startLost, known>>,
           UNCHANGED in \/ \E r \in Routers : in[s][r] # <<>> /\ in' = Pop(in, s, r),
           reading' \subseteq reading \cup {s}, serverok_' \subseteq serverok_ \cup {s},
           mp' \in [Servers -> Nat], maxPackHandle' \in [Servers -> Nat],
           lost' \in Seq(Causes), Len(lost') = Len(lost), handled' \in [Servers -> Seq(Nat)]
    PROVE  TypeOK' /\ Sizes'
  <1>1. /\ in' \in Queues /\ Short(in')
        /\ \A t \in Servers, u \in Routers : t # s => in'[t][u] = in[t][u]
    <2>1. CASE UNCHANGED in
      BY <2>1 DEF TypeOK, Queues, Sizes, Short
    <2>2. CASE \E r \in Routers : in[s][r] # <<>> /\ in' = Pop(in, s, r)
      BY <2>2, ArrivedIn
    <2> QED  BY <2>1, <2>2
  <1>2. TypeOK'
    BY <1>1 DEF TypeOK, Queues
  <1>3. Closed'
    BY ZenonT(60), <1>1 DEF Sizes, Closed
  <1>4. Short(out') /\ Len(route') <= MaxSends
    BY DEF Sizes, Short
  <1> QED  BY <1>1, <1>2, <1>3, <1>4 DEF Sizes

\* The counters of a pass.
LEMMA PassCounts ==
    ASSUME TypeOK, NEW s \in Servers
    PROVE  /\ [mp EXCEPT ![s] = 0] \in [Servers -> Nat]
           /\ [mp EXCEPT ![s] = @ + 1] \in [Servers -> Nat]
           /\ [maxPackHandle EXCEPT ![s] = @ + PackUnit] \in [Servers -> Nat]
           /\ [maxPackHandle EXCEPT ![s] =
                  IF @ < 2 * PackUnit THEN PackUnit ELSE @ - PackUnit] \in [Servers -> Nat]
  <1>1. mp[s] \in Nat /\ maxPackHandle[s] \in Nat /\ PackUnit \in Nat
    BY Consts DEF TypeOK
  <1>2. /\ mp[s] + 1 \in Nat /\ maxPackHandle[s] + PackUnit \in Nat
        /\ (IF maxPackHandle[s] < 2 * PackUnit THEN PackUnit ELSE maxPackHandle[s] - PackUnit) \in Nat
    BY <1>1
  <1> QED  BY <1>1, <1>2 DEF TypeOK

LEMMA TypeRead ==
    ASSUME TypeOK, Sizes, NEW s \in Servers, Read(s)
    PROVE  TypeOK' /\ Sizes'
  <1>0. reading \subseteq up /\ lost \in Seq(Causes) /\ handled \in [Servers -> Seq(Nat)]
    BY DEF TypeOK
  <1>1. ASSUME BeginRead(s)
        PROVE  TypeOK' /\ Sizes'
    BY <1>1, <1>0, TypePass DEF BeginRead, network, history, TypeOK
  <1>2. ASSUME PassLimit(s) \/ PassEmpty(s)
        PROVE  TypeOK' /\ Sizes'
    <2>1. s \in up /\ UNCHANGED <<up, stopping, serverok_, network, counts, history>>
          /\ reading' \subseteq reading
      BY <1>0, <1>2 DEF PassLimit, PassEmpty, EndPass, LeavePass
    <2>2. mp' \in [Servers -> Nat] /\ maxPackHandle' \in [Servers -> Nat]
      BY <1>2, PassCounts DEF PassLimit, PassEmpty, EndPass, LeavePass
    <2> QED  BY <1>0, <2>1, <2>2, TypePass DEF network, history
  <1>3. ASSUME NEW r \in Routers, EchoArrives(s, r)
        PROVE  TypeOK' /\ Sizes'
    <2>1. /\ s \in up /\ in[s][r] # <<>> /\ in' = Pop(in, s, r)
          /\ mp' \in [Servers -> Nat]
      BY <1>0, <1>3, PassCounts DEF EchoArrives, Arrived
    <2> QED  BY <1>0, <1>3, <2>1, TypePass DEF EchoArrives, history, TypeOK
  <1>4. ASSUME NEW r \in Routers, WrongVersion(s, r)
        PROVE  TypeOK' /\ Sizes'
    <2>1. CASE Gone(s)
      BY <1>4, <2>1, TypeGone DEF WrongVersion, TypeOK
    <2>2. CASE /\ in' = Pop(in, s, r) /\ serverok_' = serverok_ \cup {s} /\ EndPass(s)
               /\ UNCHANGED <<up, stopping, out, lost, known>>
      <3>1. /\ s \in up /\ in[s][r] # <<>> /\ UNCHANGED <<linked, digi, counts, route, handled, startLost>>
        BY <1>0, <1>4 DEF WrongVersion
      <3>2. mp' \in [Servers -> Nat] /\ maxPackHandle' \in [Servers -> Nat] /\ reading' \subseteq reading
        BY <2>2, PassCounts DEF EndPass, LeavePass
      <3> QED  BY <1>0, <2>2, <3>1, <3>2, TypePass
    <2> QED  BY <1>4, <2>1, <2>2 DEF WrongVersion
  <1>5. ASSUME NEW r \in Routers, TooEarly(s, r)
        PROVE  TypeOK' /\ Sizes'
    <2>1. /\ s \in up /\ in[s][r] # <<>> /\ in' = Pop(in, s, r)
          /\ mp' \in [Servers -> Nat] /\ reading' \subseteq reading
      BY <1>0, <1>5, PassCounts DEF TooEarly, Arrived, LeavePass
    <2>2. lost' \in Seq(Causes) /\ Len(lost') = Len(lost)
      BY <1>0, <1>5, Losses DEF TooEarly, Causes
    <2> QED  BY <1>0, <1>5, <2>1, <2>2, TypePass DEF TooEarly, TypeOK
  <1>6. ASSUME NEW r \in Routers, HandleMsg(s, r)
        PROVE  TypeOK' /\ Sizes'
    <2>1. /\ s \in up /\ in[s][r] # <<>> /\ in' = Pop(in, s, r)
          /\ mp' \in [Servers -> Nat]
      BY <1>0, <1>6, PassCounts DEF HandleMsg, Arrived
    <2>2. Head(in[s][r]).val \in Nat
      BY <2>1, ArrivedIn DEF Packets
    <2>3. handled' \in [Servers -> Seq(Nat)]
      <3>1. Append(handled[s], Head(in[s][r]).val) \in Seq(Nat)
        BY <1>0, <2>2, AppendProperties
      <3> QED  BY <1>0, <1>6, <3>1 DEF HandleMsg
    <2> QED  BY <1>0, <1>6, <2>1, <2>3, TypePass DEF HandleMsg, TypeOK
  <1> QED  BY <1>1, <1>2, <1>3, <1>4, <1>5, <1>6 DEF Read

LEMMA TypeKeeps == TypeOK /\ Sizes /\ [Next]_vars => TypeOK' /\ Sizes'
  <1> SUFFICES ASSUME TypeOK, Sizes, [Next]_vars
               PROVE  TypeOK' /\ Sizes'
    OBVIOUS
  <1>1. ASSUME NEW s \in Servers, Connect(s) \/ Disconnect(s)
        PROVE  TypeOK' /\ Sizes'
    BY <1>1, TypeConnect, TypeDisconnect
  <1>2. ASSUME NEW s \in Servers, Finish(s) \/ Killed(s)
        PROVE  TypeOK' /\ Sizes'
    <2>1. counts' \in [{"starts", "restarts", "kills"} -> Nat]
      BY <1>2, Counted DEF Finish, Killed, TypeOK
    <2> QED  BY <1>2, <2>1, TypeGone DEF Finish, Killed
  <1>3. ASSUME NEW s \in Servers, NEW t \in Servers, Send(s, t)
        PROVE  TypeOK' /\ Sizes'
    BY <1>3, TypeSend
  <1>4. ASSUME NEW s \in Servers, NEW r \in Routers, Link(s, r) \/ Unlink(s, r) \/ RouterTakes(s, r)
        PROVE  TypeOK' /\ Sizes'
    BY <1>4, TypeLinks, TypeEchoes, TypeSeesStop, TypeForwards DEF RouterTakes
  <1>5. CASE UNCHANGED vars
    BY <1>5 DEF TypeOK, Sizes, Short, Closed, vars
  <1> QED  BY <1>1, <1>2, <1>3, <1>4, <1>5, TypeRead, TypeRestarts DEF Next

LEMMA InitTypes == Init => TypeOK /\ Sizes
  <1> SUFFICES ASSUME Init
               PROVE  TypeOK /\ Sizes
    OBVIOUS
  <1>1. <<>> \in Seq(Packets) /\ <<>> \in Seq(Routes) /\ <<>> \in Seq(Causes) /\ <<>> \in Seq(Nat)
        /\ Len(<<>>) = 0
    BY EmptySeq
  <1>2. out \in Queues /\ in \in Queues
        /\ \A s \in Servers, r \in Routers : out[s][r] = <<>> /\ in[s][r] = <<>>
    BY <1>1 DEF Init, NoPackets, Queues
  <1>3. TypeOK
    BY <1>1, <1>2, Consts DEF Init, TypeOK, Queues
  <1>4. Sizes
    BY <1>1, <1>2, Consts DEF Init, Sizes, Short, Closed
  <1> QED  BY <1>3, <1>4

\* Every variable has its type in every state: no queue, route or set names a
\* server, a router or a message that there is not, and MaxPackHandle does not
\* fall below 0, where the code would read no more.
THEOREM TypeCorrect == Spec => []TypeOK
  <1>1. Init => TypeOK /\ Sizes
    BY InitTypes
  <1>2. TypeOK /\ Sizes /\ [Next]_vars => (TypeOK /\ Sizes)'
    BY TypeKeeps
  <1> QED  BY <1>1, <1>2, PTL DEF Spec

-----------------------------------------------------------------------------
(* Steps that take messages away, or move none.                            *)

\* The messages of p are those of q, but for some at its ends.
Remains(p, q) ==
    \E d \in Nat : \A i \in 1..Len(p) :
        p[i].kind = "msg" => i + d \in 1..Len(q) /\ p[i] = q[i + d]

Remain(p, q) == \A s \in Servers, r \in Routers : Remains(p[s][r], q[s][r])

LEMMA RemainsSame ==
    ASSUME NEW q \in Queues
    PROVE  Remain(q, q)
  <1> SUFFICES ASSUME NEW s \in Servers, NEW r \in Routers
               PROVE  Remains(q[s][r], q[s][r])
    BY DEF Remain
  <1>1. \A i \in 1..Len(q[s][r]) : i + 0 \in 1..Len(q[s][r]) /\ q[s][r][i] = q[s][r][i + 0]
    BY QueueTypes
  <1> QED  BY <1>1 DEF Remains

LEMMA RemainsPop ==
    ASSUME NEW q \in Queues, NEW s \in Servers, NEW r \in Routers, q[s][r] # <<>>
    PROVE  Remain(Pop(q, s, r), q)
  <1> DEFINE p == Pop(q, s, r)
  <1> SUFFICES ASSUME NEW t \in Servers, NEW u \in Routers
               PROVE  Remains(p[t][u], q[t][u])
    BY DEF Remain
  <1>1. CASE t = s /\ u = r
    <2>1. p[t][u] = Tail(q[s][r]) /\ q[s][r] \in Seq(Packets)
      BY <1>1, PopFrom, QueueTypes
    <2>2. \A i \in 1..Len(Tail(q[s][r])) : Tail(q[s][r])[i] = q[s][r][i + 1] /\ i + 1 \in 1..Len(q[s][r])
      BY <2>1, Removed
    <2> DEFINE a == Tail(q[s][r])
               b == q[s][r]
    <2> HIDE DEF a, b
    <2>3. 1 \in Nat /\ \A i \in 1..Len(a) : a[i].kind = "msg" => i + 1 \in 1..Len(b) /\ a[i] = b[i + 1]
      BY <2>2 DEF a, b
    <2>4. Remains(a, b)
      BY <2>3 DEF Remains
    <2> HIDE DEF p
    <2> QED  BY <1>1, <2>1, <2>4 DEF a, b
  <1>2. CASE t # s \/ u # r
    <2>1. p[t][u] = q[t][u]
      BY <1>2, PopFrom
    <2>2. Remains(q[t][u], q[t][u])
      BY RemainsSame DEF Remain
    <2> QED  BY <2>1, <2>2
  <1> QED  BY <1>1, <1>2

LEMMA RemainsPut ==
    ASSUME NEW q \in Queues, NEW s \in Servers, NEW r \in Routers, NEW x \in Packets, x.kind # "msg"
    PROVE  Remain(Put(q, s, r, x), q)
  <1> DEFINE p == Put(q, s, r, x)
  <1> SUFFICES ASSUME NEW t \in Servers, NEW u \in Routers
               PROVE  Remains(p[t][u], q[t][u])
    BY DEF Remain
  <1>1. CASE t = s /\ u = r
    <2>1. p[t][u] = Append(q[s][r], x) /\ q[s][r] \in Seq(Packets)
      BY <1>1, PutIn, QueueTypes
    <2>2. /\ Len(q[s][r]) \in Nat
          /\ \A i \in 1..Len(q[s][r]) : Append(q[s][r], x)[i] = q[s][r][i]
          /\ Append(q[s][r], x)[Len(q[s][r]) + 1] = x
          /\ \A i \in 1..Len(Append(q[s][r], x)) : i \in 1..Len(q[s][r]) \/ i = Len(q[s][r]) + 1
      BY <2>1, Added
    <2> DEFINE a == Append(q[s][r], x)
               b == q[s][r]
    <2> HIDE DEF a, b
    <2>3. \A i \in 1..Len(a) : a[i].kind = "msg" => i \in 1..Len(b) /\ a[i] = b[i]
      BY <2>2 DEF a, b
    <2>4. \A i \in 1..Len(a) : i + 0 = i
      BY <2>2 DEF a, b
    <2>5. Remains(a, b)
      BY <2>3, <2>4 DEF Remains
    <2> HIDE DEF p
    <2> QED  BY <1>1, <2>1, <2>5 DEF a, b
  <1>2. CASE t # s \/ u # r
    <2>1. p[t][u] = q[t][u]
      BY <1>2, PutIn
    <2>2. Remains(q[t][u], q[t][u])
      BY RemainsSame DEF Remain
    <2> QED  BY <2>1, <2>2
  <1> QED  BY <1>1, <1>2

\* Where messages leave a queue its order stays.
LEMMA InOrderStays ==
    ASSUME NEW q \in Queues, NEW p \in Queues, Remain(p, q), InQueue(q)
    PROVE  InQueue(p)
  <1> SUFFICES ASSUME NEW s \in Servers, NEW r \in Routers,
                      NEW i \in 1..Len(p[s][r]), NEW j \in 1..Len(p[s][r]), i < j,
                      p[s][r][i].kind = "msg", p[s][r][j].kind = "msg",
                      route[p[s][r][i].val] = route[p[s][r][j].val]
               PROVE  p[s][r][i].val < p[s][r][j].val
    BY DEF InQueue
  <1>1. PICK d \in Nat : /\ i + d \in 1..Len(q[s][r]) /\ p[s][r][i] = q[s][r][i + d]
                         /\ j + d \in 1..Len(q[s][r]) /\ p[s][r][j] = q[s][r][j + d]
    BY DEF Remain, Remains
  <1>2. i + d < j + d
    <2>1. i \in Int /\ j \in Int
      BY QueueTypes
    <2> QED  BY <2>1
  <1> QED  BY <1>1, <1>2 DEF InQueue

LEMMA HandledStays ==
    ASSUME NEW q \in Queues, NEW p \in Queues, Remain(p, q), HandledBefore(q)
    PROVE  HandledBefore(p)
  <1> SUFFICES ASSUME NEW s \in Servers, NEW t \in Servers, NEW r \in Routers,
                      NEW i \in 1..Len(handled[t]), NEW j \in 1..Len(p[s][r]),
                      p[s][r][j].kind = "msg", route[handled[t][i]] = route[p[s][r][j].val]
               PROVE  handled[t][i] < p[s][r][j].val
    BY DEF HandledBefore
  <1>1. PICK d \in Nat : j + d \in 1..Len(q[s][r]) /\ p[s][r][j] = q[s][r][j + d]
    BY DEF Remain, Remains
  <1> QED  BY <1>1 DEF HandledBefore

\* No message comes to a place it was not in, and none is handled.
Shrunk == Remain(out', out) /\ Remain(in', in) /\ UNCHANGED <<route, handled>>

LEMMA Shrinks ==
    ASSUME TypeOK, TypeOK', Placed, Ordered, Shrunk
    PROVE  Placed' /\ Ordered'
  <1>1. /\ out \in Queues /\ in \in Queues /\ out' \in Queues /\ in' \in Queues
        /\ Remain(out', out) /\ Remain(in', in) /\ route' = route /\ handled' = handled
    BY DEF TypeOK, Queues, Shrunk
  <1>2. Placed'
    <2>1. ASSUME NEW s \in Servers, NEW r \in Routers, NEW i \in 1..Len(out'[s][r]),
                 out'[s][r][i].kind = "msg"
          PROVE  /\ out'[s][r][i].val \in 1..Len(route)
                 /\ route[out'[s][r][i].val] = [from |-> s, to |-> out'[s][r][i].peer, via |-> r]
      <3>1. PICK d \in Nat : i + d \in 1..Len(out[s][r]) /\ out'[s][r][i] = out[s][r][i + d]
        BY <1>1, <2>1 DEF Remain, Remains
      <3> QED  BY <2>1, <3>1 DEF Placed
    <2>2. ASSUME NEW s \in Servers, NEW r \in Routers, NEW i \in 1..Len(in'[s][r]),
                 in'[s][r][i].kind = "msg"
          PROVE  /\ in'[s][r][i].val \in 1..Len(route)
                 /\ route[in'[s][r][i].val] = [from |-> in'[s][r][i].peer, to |-> s, via |-> r]
      <3>1. PICK d \in Nat : i + d \in 1..Len(in[s][r]) /\ in'[s][r][i] = in[s][r][i + d]
        BY <1>1, <2>2 DEF Remain, Remains
      <3> QED  BY <2>2, <3>1 DEF Placed
    <2>3. \A s \in Servers : \A i \in 1..Len(handled'[s]) :
              handled'[s][i] \in 1..Len(route') /\ route'[handled'[s][i]].to = s
      BY <1>1 DEF Placed
    <2> QED  BY <1>1, <2>1, <2>2, <2>3 DEF Placed
  <1>3. InQueue(out') /\ InQueue(in') /\ HandledBefore(out') /\ HandledBefore(in')
    BY <1>1, InOrderStays, HandledStays DEF Ordered
  <1>4. InQueue(out)' /\ InQueue(in)' /\ InHandled'
    BY <1>1, <1>3 DEF InQueue, InHandled, Ordered
  <1>5. HandledBefore(out)' /\ HandledBefore(in)'
    BY SMTT(30), <1>1, <1>3 DEF HandledBefore
  <1>6. InBeforeOut'
    <2>1. ASSUME NEW s \in Servers, NEW t \in Servers, NEW r \in Routers, NEW u \in Routers,
                 NEW i \in 1..Len(in'[t][u]), NEW j \in 1..Len(out'[s][r]),
                 in'[t][u][i].kind = "msg", out'[s][r][j].kind = "msg",
                 route[in'[t][u][i].val] = route[out'[s][r][j].val]
          PROVE  in'[t][u][i].val < out'[s][r][j].val
      <3>1. PICK d \in Nat : j + d \in 1..Len(out[s][r]) /\ out'[s][r][j] = out[s][r][j + d]
        BY <1>1, <2>1 DEF Remain, Remains
      <3>2. PICK e \in Nat : i + e \in 1..Len(in[t][u]) /\ in'[t][u][i] = in[t][u][i + e]
        BY <1>1, <2>1 DEF Remain, Remains
      <3> QED  BY <2>1, <3>1, <3>2 DEF Ordered, InBeforeOut
    <2>2. route' = route
      BY <1>1
    <2> QED  BY <2>1, <2>2 DEF InBeforeOut
  <1> QED  BY <1>2, <1>4, <1>5, <1>6 DEF Ordered

\* The packets of a queue to which one was added.
LEMMA PutEntries ==
    ASSUME NEW q \in Queues, NEW s \in Servers, NEW r \in Routers, NEW x \in Packets,
           NEW v \in Servers, NEW u \in Routers
    PROVE  /\ \A i \in 1..Len(q[v][u]) : /\ i \in 1..Len(Put(q, s, r, x)[v][u])
                                         /\ Put(q, s, r, x)[v][u][i] = q[v][u][i]
           /\ \A i \in 1..Len(Put(q, s, r, x)[v][u]) :
                 \/ i \in 1..Len(q[v][u]) /\ Put(q, s, r, x)[v][u][i] = q[v][u][i]
                 \/ /\ v = s /\ u = r /\ i = Len(q[v][u]) + 1
                    /\ Put(q, s, r, x)[v][u][i] = x
           /\ Len(q[s][r]) + 1 \in 1..Len(Put(q, s, r, x)[s][r])
           /\ Put(q, s, r, x)[s][r][Len(q[s][r]) + 1] = x
  <1> DEFINE p == Put(q, s, r, x)
  <1>1. p[s][r] = Append(q[s][r], x) /\ q[s][r] \in Seq(Packets)
    BY PutIn, QueueTypes
  <1> DEFINE a == Append(q[s][r], x)
             b == q[s][r]
  <1>2. /\ Len(a) = Len(b) + 1 /\ Len(b) \in Nat /\ a[Len(b) + 1] = x
        /\ \A i \in 1..Len(b) : a[i] = b[i] /\ i \in 1..Len(a)
        /\ \A i \in 1..Len(a) : i \in 1..Len(b) \/ i = Len(b) + 1
    BY <1>1, Added
  <1>3. Len(b) + 1 \in 1..Len(a)
    <2> HIDE DEF a, b
    <2> QED  BY <1>2
  <1>4. CASE v = s /\ u = r
    <2>1. p[v][u] = a /\ q[v][u] = b
      BY <1>1, <1>4
    <2> HIDE DEF p, a, b
    <2>2. /\ \A i \in 1..Len(q[v][u]) : i \in 1..Len(p[v][u]) /\ p[v][u][i] = q[v][u][i]
          /\ \A i \in 1..Len(p[v][u]) :
                 \/ i \in 1..Len(q[v][u]) /\ p[v][u][i] = q[v][u][i]
                 \/ v = s /\ u = r /\ i = Len(q[v][u]) + 1 /\ p[v][u][i] = x
      BY <1>2, <1>4, <2>1
    <2>3. Len(q[s][r]) + 1 \in 1..Len(p[s][r]) /\ p[s][r][Len(q[s][r]) + 1] = x
      BY <1>2, <1>3, <1>4, <2>1
    <2> QED  BY <2>2, <2>3 DEF p
  <1>5. CASE v # s \/ u # r
    <2>1. p[v][u] = q[v][u]
      BY <1>5, PutIn
    <2>2. p[s][r] = a /\ q[s][r] = b
      BY <1>1
    <2>3. Len(q[s][r]) + 1 \in 1..Len(p[s][r]) /\ p[s][r][Len(q[s][r]) + 1] = x
      <3> HIDE DEF p, a, b
      <3> QED  BY <1>2, <1>3, <2>2
    <2> HIDE DEF p
    <2> QED  BY <2>1, <2>3 DEF p
  <1> QED  BY <1>4, <1>5

LEMMA PopEntries ==
    ASSUME NEW q \in Queues, NEW s \in Servers, NEW r \in Routers, q[s][r] # <<>>,
           NEW v \in Servers, NEW u \in Routers
    PROVE  /\ \A i \in 1..Len(Pop(q, s, r)[v][u]) :
                 \/ /\ v = s /\ u = r /\ i + 1 \in 1..Len(q[v][u])
                    /\ Pop(q, s, r)[v][u][i] = q[v][u][i + 1]
                 \/ /\ v # s \/ u # r
                    /\ i \in 1..Len(q[v][u]) /\ Pop(q, s, r)[v][u][i] = q[v][u][i]
           /\ \A i \in 1..Len(q[v][u]) :
                 \/ v = s /\ u = r /\ i = 1
                 \/ /\ v = s /\ u = r /\ i - 1 \in 1..Len(Pop(q, s, r)[v][u])
                    /\ Pop(q, s, r)[v][u][i - 1] = q[v][u][i]
                 \/ /\ v # s \/ u # r
                    /\ i \in 1..Len(Pop(q, s, r)[v][u])
                    /\ Pop(q, s, r)[v][u][i] = q[v][u][i]
           /\ 1 \in 1..Len(q[s][r]) /\ q[s][r][1] = Head(q[s][r]) /\ q[s][r][1] \in Packets
  <1> DEFINE p == Pop(q, s, r)
             a == Tail(q[s][r])
             b == q[s][r]
  <1>1. p[s][r] = a /\ b \in Seq(Packets)
    BY PopFrom, QueueTypes
  <1>2. /\ Len(b) \in Nat /\ Len(b) >= 1 /\ b[1] = Head(b) /\ Head(b) \in Packets
        /\ \A i \in 1..Len(a) : a[i] = b[i + 1] /\ i + 1 \in 1..Len(b)
        /\ \A i \in 1..Len(b) : i = 1 \/ (i - 1 \in 1..Len(a) /\ a[i - 1] = b[i])
    BY <1>1, Removed
  <1>3. 1 \in 1..Len(b)
    <2> HIDE DEF b
    <2> QED  BY <1>2
  <1>4. CASE v = s /\ u = r
    <2>1. p[v][u] = a /\ q[v][u] = b
      BY <1>1, <1>4
    <2> HIDE DEF p, a, b
    <2>2. /\ \A i \in 1..Len(p[v][u]) : i + 1 \in 1..Len(q[v][u]) /\ p[v][u][i] = q[v][u][i + 1]
          /\ \A i \in 1..Len(q[v][u]) :
                i = 1 \/ (i - 1 \in 1..Len(p[v][u]) /\ p[v][u][i - 1] = q[v][u][i])
      BY <1>2, <2>1
    <2>3. 1 \in 1..Len(b) /\ b[1] = Head(b) /\ b[1] \in Packets
      BY <1>2, <1>3
    <2> QED  BY <1>4, <2>2, <2>3 DEF p, b
  <1>5. CASE v # s \/ u # r
    <2>1. p[v][u] = q[v][u]
      BY <1>5, PopFrom
    <2>2. 1 \in 1..Len(b) /\ b[1] = Head(b) /\ b[1] \in Packets
      BY <1>2, <1>3
    <2> HIDE DEF p
    <2> QED  BY <1>5, <2>1, <2>2 DEF p
  <1> QED  BY <1>4, <1>5

-----------------------------------------------------------------------------
(* Places and order.                                                       *)

\* A message is sent.
LEMMA PlacedSend ==
    ASSUME TypeOK, TypeOK', Placed, Ordered, NEW s \in Servers, NEW t \in Servers, Send(s, t)
    PROVE  Placed' /\ Ordered'
  <1> DEFINE m == Len(route) + 1
  <1>1. /\ out \in Queues /\ in \in Queues /\ in' = in /\ handled' = handled
        /\ Len(route) \in Nat /\ m \in Nat /\ route \in Seq(Routes)
    <2>1. out \in Queues /\ in \in Queues /\ in' = in /\ handled' = handled /\ route \in Seq(Routes)
      BY DEF TypeOK, Queues, Send
    <2>2. Len(route) \in Nat
      BY <2>1, LenProperties
    <2> QED  BY <2>1, <2>2
  <1>2. Msg(t, m) \in Packets /\ Msg(t, m).kind = "msg" /\ Msg(t, m).peer = t /\ Msg(t, m).val = m
    BY <1>1, PacketTypes
  <1>3. /\ Len(route') = m /\ \A k \in 1..Len(route) : route'[k] = route[k] /\ k \in 1..m /\ k < m
        /\ m \in 1..m /\ route'[m].from = s /\ route'[m].to = t
    <2>1. PICK v \in 0..NRouters : route' = Append(route, [from |-> s, to |-> t, via |-> v])
      <3>1. \A r \in Routers : r \in 0..NRouters
        BY Consts DEF Routers
      <3>2. 0 \in 0..NRouters
        BY Consts
      <3> QED  BY <3>1, <3>2 DEF Send
    <2>2. [from |-> s, to |-> t, via |-> v] \in Routes
      BY DEF Routes
    <2>3. /\ Len(route') = m /\ route'[m] = [from |-> s, to |-> t, via |-> v]
          /\ \A k \in 1..Len(route) : route'[k] = route[k]
      BY <1>1, <2>1, <2>2, AppendProperties
    <2>4. m \in 1..m /\ \A k \in 1..Len(route) : k \in 1..m /\ k < m
      BY <1>1
    <2> QED  BY <2>3, <2>4
  <1>4. ASSUME NEW v \in Servers, NEW u \in Routers, NEW i \in 1..Len(out'[v][u])
        PROVE  \/ i \in 1..Len(out[v][u]) /\ out'[v][u][i] = out[v][u][i]
               \/ /\ i = Len(out[v][u]) + 1 /\ out'[v][u][i] = Msg(t, m)
                  /\ route'[m] = [from |-> v, to |-> t, via |-> u]
    <2>1. CASE UNCHANGED out
      BY <2>1
    <2>2. ASSUME NEW r \in Routers, route' = Append(route, [from |-> s, to |-> t, via |-> r]),
                 out' = Put(out, s, r, Msg(t, m))
          PROVE  \/ i \in 1..Len(out[v][u]) /\ out'[v][u][i] = out[v][u][i]
                 \/ /\ i = Len(out[v][u]) + 1 /\ out'[v][u][i] = Msg(t, m)
                    /\ route'[m] = [from |-> v, to |-> t, via |-> u]
      <3>1. [from |-> s, to |-> t, via |-> r] \in Routes
        BY Consts DEF Routes, Routers
      <3>2. route'[m] = [from |-> s, to |-> t, via |-> r]
        BY <1>1, <2>2, <3>1, AppendProperties
      <3>3. \/ i \in 1..Len(out[v][u]) /\ out'[v][u][i] = out[v][u][i]
            \/ v = s /\ u = r /\ i = Len(out[v][u]) + 1 /\ out'[v][u][i] = Msg(t, m)
        <4> HIDE DEF m
        <4> QED  BY <1>1, <1>2, <2>2, PutEntries
      <3> QED  BY <3>2, <3>3
    <2> QED  BY <2>1, <2>2 DEF Send
  <1> HIDE DEF m
  <1>5. ASSUME NEW v \in Servers, NEW u \in Routers, NEW i \in 1..Len(out[v][u]),
               out[v][u][i].kind = "msg"
        PROVE  /\ out[v][u][i].val \in 1..Len(route)
               /\ route'[out[v][u][i].val] = route[out[v][u][i].val]
               /\ route[out[v][u][i].val] = [from |-> v, to |-> out[v][u][i].peer, via |-> u]
    BY <1>3, <1>5 DEF Placed
  <1>6. ASSUME NEW v \in Servers, NEW u \in Routers, NEW i \in 1..Len(in[v][u]),
               in[v][u][i].kind = "msg"
        PROVE  /\ in[v][u][i].val \in 1..Len(route)
               /\ route'[in[v][u][i].val] = route[in[v][u][i].val]
               /\ route[in[v][u][i].val] = [from |-> in[v][u][i].peer, to |-> v, via |-> u]
    BY <1>3, <1>6 DEF Placed
  <1>7. ASSUME NEW v \in Servers, NEW i \in 1..Len(handled[v])
        PROVE  /\ handled[v][i] \in 1..Len(route) /\ route'[handled[v][i]] = route[handled[v][i]]
               /\ route[handled[v][i]].to = v
    BY <1>3 DEF Placed
  <1> DEFINE Old(v, u, i) == i \in 1..Len(out[v][u]) /\ out'[v][u][i] = out[v][u][i]
             New(v, u, i) == i = Len(out[v][u]) + 1 /\ out'[v][u][i] = Msg(t, m)
  <1>8. \A v \in Servers, u \in Routers : \A i \in 1..Len(out'[v][u]) :
            \/ Old(v, u, i)
            \/ New(v, u, i) /\ route'[m] = [from |-> v, to |-> t, via |-> u]
    BY <1>4
  <1>9. ASSUME NEW v \in Servers, NEW u \in Routers, NEW i \in 1..Len(out'[v][u]),
                Old(v, u, i), out'[v][u][i].kind = "msg"
         PROVE  /\ i \in 1..Len(out[v][u]) /\ out'[v][u][i] = out[v][u][i]
                /\ out[v][u][i].kind = "msg" /\ out'[v][u][i].val \in 1..Len(route)
                /\ route'[out'[v][u][i].val] = route[out[v][u][i].val]
    <2>1. i \in 1..Len(out[v][u]) /\ out'[v][u][i] = out[v][u][i] /\ out[v][u][i].kind = "msg"
      BY <1>9
    <2>2. out[v][u][i].val \in 1..Len(route) /\ route'[out[v][u][i].val] = route[out[v][u][i].val]
      BY <1>5, <2>1
    <2> QED  BY <2>1, <2>2
  <1> HIDE DEF Old, New
  <1>10. Placed'
    <2>1. ASSUME NEW v \in Servers, NEW u \in Routers, NEW i \in 1..Len(out'[v][u]),
                 out'[v][u][i].kind = "msg"
          PROVE  /\ out'[v][u][i].val \in 1..Len(route')
                 /\ route'[out'[v][u][i].val] = [from |-> v, to |-> out'[v][u][i].peer, via |-> u]
      <3>1. CASE Old(v, u, i)
        BY SMTT(30), <1>3, <1>5, <2>1, <3>1 DEF Old
      <3>2. CASE New(v, u, i) /\ route'[m] = [from |-> v, to |-> t, via |-> u]
        BY <1>2, <1>3, <3>2 DEF New
      <3> QED  BY <1>8, <3>1, <3>2
    <2>2. ASSUME NEW v \in Servers, NEW u \in Routers, NEW i \in 1..Len(in[v][u]),
                 in[v][u][i].kind = "msg"
          PROVE  /\ in[v][u][i].val \in 1..Len(route')
                 /\ route'[in[v][u][i].val] = [from |-> in[v][u][i].peer, to |-> v, via |-> u]
      <3>1. /\ in[v][u][i].val \in 1..Len(route)
            /\ route'[in[v][u][i].val] = [from |-> in[v][u][i].peer, to |-> v, via |-> u]
        BY <1>6, <2>2
      <3> QED  BY <1>3, <3>1
    <2>3. ASSUME NEW v \in Servers, NEW i \in 1..Len(handled[v])
          PROVE  handled[v][i] \in 1..Len(route') /\ route'[handled[v][i]].to = v
      BY <1>3, <1>7
    <2> QED  BY <1>1, <2>1, <2>2, <2>3 DEF Placed
  <1>11. InQueue(out)'
    <2>1. ASSUME NEW v \in Servers, NEW u \in Routers,
                 NEW i \in 1..Len(out'[v][u]), NEW j \in 1..Len(out'[v][u]), i < j,
                 out'[v][u][i].kind = "msg", out'[v][u][j].kind = "msg",
                 route'[out'[v][u][i].val] = route'[out'[v][u][j].val]
          PROVE  out'[v][u][i].val < out'[v][u][j].val
      <3>1. CASE Old(v, u, i) /\ Old(v, u, j)
        <4>1. /\ i \in 1..Len(out[v][u]) /\ out'[v][u][i] = out[v][u][i]
              /\ j \in 1..Len(out[v][u]) /\ out'[v][u][j] = out[v][u][j]
          BY <3>1 DEF Old
        <4>2. route[out[v][u][i].val] = route[out[v][u][j].val]
          <5>1. route'[out'[v][u][i].val] = route[out[v][u][i].val]
            BY <1>9, <2>1, <3>1
          <5>2. route'[out'[v][u][j].val] = route[out[v][u][j].val]
            BY <1>9, <2>1, <3>1
          <5> QED  BY <2>1, <5>1, <5>2
        <4> QED  BY <2>1, <4>1, <4>2 DEF Ordered, InQueue
      <3>2. CASE Old(v, u, i) /\ New(v, u, j)
        <4>1. out'[v][u][i].val \in 1..Len(route)
          BY <1>9, <2>1, <3>2
        <4>2. out'[v][u][j].val = m
          BY <1>2, <3>2 DEF New
        <4> QED  BY <1>3, <4>1, <4>2
      <3>3. ~(New(v, u, i) /\ (Old(v, u, j) \/ New(v, u, j)))
        <4>1. Len(out[v][u]) \in Nat
          BY <1>1, QueueTypes
        <4> QED  BY <2>1, <4>1 DEF Old, New
      <3>4. (Old(v, u, i) \/ New(v, u, i)) /\ (Old(v, u, j) \/ New(v, u, j))
        BY <1>8
      <3> QED  BY <3>1, <3>2, <3>3, <3>4
    <2> QED  BY <2>1 DEF InQueue
  <1>12. InQueue(in)'
    <2>1. ASSUME NEW v \in Servers, NEW u \in Routers,
                 NEW i \in 1..Len(in[v][u]), NEW j \in 1..Len(in[v][u]), i < j,
                 in[v][u][i].kind = "msg", in[v][u][j].kind = "msg",
                 route'[in[v][u][i].val] = route'[in[v][u][j].val]
          PROVE  in[v][u][i].val < in[v][u][j].val
      <3>1. route[in[v][u][i].val] = route[in[v][u][j].val]
        BY <1>6, <2>1
      <3> QED  BY <2>1, <3>1 DEF Ordered, InQueue
    <2> QED  BY <1>1, <2>1 DEF InQueue
  <1>13. InHandled'
    BY <1>1, <1>7 DEF Ordered, InHandled
  <1>14. HandledBefore(out)'
    <2>1. ASSUME NEW v \in Servers, NEW w \in Servers, NEW u \in Routers,
                 NEW i \in 1..Len(handled[w]), NEW j \in 1..Len(out'[v][u]),
                 out'[v][u][j].kind = "msg", route'[handled[w][i]] = route'[out'[v][u][j].val]
          PROVE  handled[w][i] < out'[v][u][j].val
      <3>1. CASE Old(v, u, j)
        <4>1. j \in 1..Len(out[v][u]) /\ out'[v][u][j] = out[v][u][j]
          BY <3>1 DEF Old
        <4>2. route[handled[w][i]] = route[out[v][u][j].val]
          <5>1. route'[out'[v][u][j].val] = route[out[v][u][j].val]
            BY <1>9, <2>1, <3>1
          <5>2. route'[handled[w][i]] = route[handled[w][i]]
            BY <1>7
          <5> QED  BY <2>1, <5>1, <5>2
        <4> QED  BY <2>1, <4>1, <4>2 DEF Ordered, HandledBefore
      <3>2. CASE New(v, u, j)
        <4>1. out'[v][u][j].val = m /\ handled[w][i] \in 1..Len(route)
          BY <1>2, <1>7, <3>2 DEF New
        <4> QED  BY <1>3, <4>1
      <3> QED  BY <1>8, <3>1, <3>2
    <2> QED  BY <1>1, <2>1 DEF HandledBefore
  <1>15. HandledBefore(in)'
    <2>1. ASSUME NEW v \in Servers, NEW w \in Servers, NEW u \in Routers,
                 NEW i \in 1..Len(handled[w]), NEW j \in 1..Len(in[v][u]),
                 in[v][u][j].kind = "msg", route'[handled[w][i]] = route'[in[v][u][j].val]
          PROVE  handled[w][i] < in[v][u][j].val
      <3>1. route[handled[w][i]] = route[in[v][u][j].val]
        BY <1>6, <1>7, <2>1
      <3> QED  BY <2>1, <3>1 DEF Ordered, HandledBefore
    <2> QED  BY <1>1, <2>1 DEF HandledBefore
  <1>16. InBeforeOut'
    <2>1. ASSUME NEW v \in Servers, NEW w \in Servers, NEW u \in Routers, NEW x \in Routers,
                 NEW i \in 1..Len(in[w][x]), NEW j \in 1..Len(out'[v][u]),
                 in[w][x][i].kind = "msg", out'[v][u][j].kind = "msg",
                 route'[in[w][x][i].val] = route'[out'[v][u][j].val]
          PROVE  in[w][x][i].val < out'[v][u][j].val
      <3>1. CASE Old(v, u, j)
        <4>1. j \in 1..Len(out[v][u]) /\ out'[v][u][j] = out[v][u][j]
          BY <3>1 DEF Old
        <4>2. route[in[w][x][i].val] = route[out[v][u][j].val]
          <5>1. route'[out'[v][u][j].val] = route[out[v][u][j].val]
            BY <1>9, <2>1, <3>1
          <5>2. route'[in[w][x][i].val] = route[in[w][x][i].val]
            BY <1>6, <2>1
          <5> QED  BY <2>1, <5>1, <5>2
        <4> QED  BY <2>1, <4>1, <4>2 DEF Ordered, InBeforeOut
      <3>2. CASE New(v, u, j)
        <4>1. out'[v][u][j].val = m /\ in[w][x][i].val \in 1..Len(route)
          BY <1>2, <1>6, <2>1, <3>2 DEF New
        <4> QED  BY <1>3, <4>1
      <3> QED  BY <1>8, <3>1, <3>2
    <2>2. ASSUME NEW v \in Servers, NEW w \in Servers, NEW u \in Routers, NEW x \in Routers,
                 NEW i \in 1..Len(in'[w][x]), NEW j \in 1..Len(out'[v][u]),
                 in'[w][x][i].kind = "msg", out'[v][u][j].kind = "msg",
                 route'[in'[w][x][i].val] = route'[out'[v][u][j].val]
          PROVE  in'[w][x][i].val < out'[v][u][j].val
      <3>1. in' = in
        BY <1>1
      <3> QED  BY <2>1, <2>2, <3>1
    <2> QED  BY SMTT(30), <2>2 DEF InBeforeOut
  <1> QED  BY <1>10, <1>11, <1>12, <1>13, <1>14, <1>15, <1>16 DEF Ordered

\* A router passes a message on.
PassesOn(s, r) ==
    /\ Taken(s, r, "msg") /\ UNCHANGED <<route, handled>>
    /\ in' = Put(in, out[s][r][1].peer, r, Msg(s, out[s][r][1].val))

LEMMA PlacedForwards ==
    ASSUME TypeOK, Sizes, TypeOK', Placed, Ordered, NEW s \in Servers, NEW r \in Routers,
           PassesOn(s, r)
    PROVE  Placed' /\ Ordered'
  <1> DEFINE t == out[s][r][1].peer
             m == out[s][r][1].val
  <1>0. route' = route /\ handled' = handled /\ Taken(s, r, "msg")
    BY DEF PassesOn
  <1>1. /\ out \in Queues /\ in \in Queues /\ out' \in Queues /\ in' \in Queues
        /\ out' = Pop(out, s, r) /\ out[s][r] # <<>>
    BY <1>0 DEF TypeOK, Queues, Taken
  <1>2. 1 \in 1..Len(out[s][r]) /\ out[s][r][1].kind = "msg" /\ out[s][r][1] \in Packets
    <2>1. 1 \in 1..Len(out[s][r])
      BY <1>0, TakenOut
    <2>2. out[s][r][1] \in Packets
      BY <1>0, TakenOut
    <2>3. Head(out[s][r]) = out[s][r][1] /\ Head(out[s][r]).kind = "msg"
      BY <1>0, TakenOut DEF Taken
    <2> QED  BY <2>1, <2>2, <2>3
  <1>3. t \in Servers /\ m \in Nat
    BY <1>2 DEF Packets
  <1>4. Msg(s, m) \in Packets /\ Msg(s, m).kind = "msg" /\ Msg(s, m).peer = s /\ Msg(s, m).val = m
    BY <1>3, PacketTypes
  <1>5. m \in 1..Len(route) /\ route[m] = [from |-> s, to |-> t, via |-> r]
    BY <1>2 DEF Placed
  <1>6. in' = Put(in, t, r, Msg(s, m))
    BY DEF PassesOn
  <1> HIDE DEF t
  <1> DEFINE Old(v, u, i) == i \in 1..Len(in[v][u]) /\ in'[v][u][i] = in[v][u][i]
             New(v, u, i) == v = t /\ u = r /\ i = Len(in[v][u]) + 1 /\ in'[v][u][i] = Msg(s, m)
  <1>7. \A v \in Servers, u \in Routers : \A i \in 1..Len(in'[v][u]) : Old(v, u, i) \/ New(v, u, i)
    <2> HIDE DEF m
    <2> QED  BY <1>1, <1>3, <1>4, <1>6, PutEntries
  <1>8. ASSUME NEW v \in Servers, NEW u \in Routers, NEW i \in 1..Len(out'[v][u])
        PROVE  \E k \in 1..Len(out[v][u]) : /\ out'[v][u][i] = out[v][u][k]
                                            /\ v = s /\ u = r => k > 1
    <2>1. \/ /\ v = s /\ u = r /\ i + 1 \in 1..Len(out[v][u])
             /\ out'[v][u][i] = out[v][u][i + 1]
          \/ /\ v # s \/ u # r
             /\ i \in 1..Len(out[v][u]) /\ out'[v][u][i] = out[v][u][i]
      BY SMTT(30), <1>1, PopEntries
    <2>2. i + 1 > 1
      <3>1. Len(out'[v][u]) \in Nat
        BY <1>1, QueueTypes
      <3> QED  BY <3>1
    <2> QED  BY <2>1, <2>2
  <1>9. ASSUME NEW v \in Servers, NEW u \in Routers, NEW i \in 1..Len(in'[v][u]),
               in'[v][u][i].kind = "msg"
        PROVE  /\ in'[v][u][i].val \in 1..Len(route)
               /\ route[in'[v][u][i].val] = [from |-> in'[v][u][i].peer, to |-> v, via |-> u]
    <2>1. CASE Old(v, u, i)
      <3>1. i \in 1..Len(in[v][u]) /\ in[v][u][i].kind = "msg" /\ in'[v][u][i] = in[v][u][i]
        BY <1>9, <2>1
      <3>2. /\ in[v][u][i].val \in 1..Len(route)
            /\ route[in[v][u][i].val] = [from |-> in[v][u][i].peer, to |-> v, via |-> u]
        BY <3>1 DEF Placed
      <3> QED  BY <3>1, <3>2
    <2>2. CASE New(v, u, i)
      <3>1. v = t /\ u = r /\ in'[v][u][i] = Msg(s, m)
        BY <2>2
      <3> HIDE DEF m
      <3> QED  BY <1>4, <1>5, <3>1
    <2> QED  BY <1>7, <2>1, <2>2
  <1> HIDE DEF m, Old, New
  <1>10. ASSUME NEW v \in Servers, NEW u \in Routers, NEW i \in 1..Len(out'[v][u]),
                out'[v][u][i].kind = "msg"
         PROVE  /\ out'[v][u][i].val \in 1..Len(route)
                /\ route[out'[v][u][i].val] = [from |-> v, to |-> out'[v][u][i].peer, via |-> u]
    <2>1. PICK k \in 1..Len(out[v][u]) : out'[v][u][i] = out[v][u][k]
      BY <1>8
    <2>2. out[v][u][k].kind = "msg"
      BY <1>10, <2>1
    <2> QED  BY <2>1, <2>2 DEF Placed
  <1>11. Placed'
    <2>1. \A v \in Servers : \A i \in 1..Len(handled[v]) :
              handled[v][i] \in 1..Len(route) /\ route[handled[v][i]].to = v
      BY DEF Placed
    <2> QED  BY <1>0, <1>9, <1>10, <2>1 DEF Placed
  <1>12. Remain(out', out)
    BY <1>1, RemainsPop
  <1>13. InQueue(out') /\ HandledBefore(out')
    BY <1>1, <1>12, InOrderStays, HandledStays DEF Ordered
  <1>14. InQueue(in')
    <2>1. ASSUME NEW v \in Servers, NEW u \in Routers,
                 NEW i \in 1..Len(in'[v][u]), NEW j \in 1..Len(in'[v][u]), i < j,
                 in'[v][u][i].kind = "msg", in'[v][u][j].kind = "msg",
                 route[in'[v][u][i].val] = route[in'[v][u][j].val]
          PROVE  in'[v][u][i].val < in'[v][u][j].val
      <3>1. CASE Old(v, u, i) /\ Old(v, u, j)
        <4>1. /\ i \in 1..Len(in[v][u]) /\ in'[v][u][i] = in[v][u][i]
              /\ j \in 1..Len(in[v][u]) /\ in'[v][u][j] = in[v][u][j]
          BY <3>1 DEF Old
        <4> QED  BY <2>1, <4>1 DEF Ordered, InQueue
      <3>2. CASE Old(v, u, i) /\ New(v, u, j)
        <4>1. i \in 1..Len(in[v][u]) /\ in'[v][u][i] = in[v][u][i]
          BY <3>2 DEF Old
        <4>2. v = t /\ u = r /\ in'[v][u][j].val = m
          BY <1>4, <3>2 DEF New
        <4>3. in[v][u][i].kind = "msg" /\ route[in[v][u][i].val] = route[out[s][r][1].val]
          BY <2>1, <4>1, <4>2 DEF m
        <4>4. in[v][u][i].val < out[s][r][1].val
          BY <1>2, <4>1, <4>3 DEF Ordered, InBeforeOut
        <4> QED  BY <4>1, <4>2, <4>4 DEF m
      <3>3. ~(New(v, u, i) /\ (Old(v, u, j) \/ New(v, u, j)))
        <4>1. Len(in[v][u]) \in Nat /\ j \in Nat
          BY <1>1, QueueTypes
        <4>2. New(v, u, i) => i = Len(in[v][u]) + 1
          BY DEF New
        <4>3. Old(v, u, j) \/ New(v, u, j) => j <= Len(in[v][u]) + 1
          BY <4>1 DEF Old, New
        <4> QED  BY <2>1, <4>1, <4>2, <4>3
      <3>4. (Old(v, u, i) \/ New(v, u, i)) /\ (Old(v, u, j) \/ New(v, u, j))
        BY <1>7
      <3> QED  BY <3>1, <3>2, <3>3, <3>4
    <2> QED  BY <2>1 DEF InQueue
  <1>15. HandledBefore(in')
    <2>1. ASSUME NEW v \in Servers, NEW w \in Servers, NEW u \in Routers,
                 NEW i \in 1..Len(handled[w]), NEW j \in 1..Len(in'[v][u]),
                 in'[v][u][j].kind = "msg", route[handled[w][i]] = route[in'[v][u][j].val]
          PROVE  handled[w][i] < in'[v][u][j].val
      <3>1. CASE Old(v, u, j)
        <4>1. j \in 1..Len(in[v][u]) /\ in'[v][u][j] = in[v][u][j]
          BY <3>1 DEF Old
        <4> QED  BY <2>1, <4>1 DEF Ordered, HandledBefore
      <3>2. CASE New(v, u, j)
        <4>1. in'[v][u][j].val = out[s][r][1].val
          BY <1>4, <3>2 DEF New, m
        <4>2. handled[w][i] < out[s][r][1].val
          BY <1>2, <2>1, <4>1 DEF Ordered, HandledBefore
        <4> QED  BY <4>1, <4>2
      <3> QED  BY <1>7, <3>1, <3>2
    <2> QED  BY <2>1 DEF HandledBefore
  <1>16. ASSUME NEW v \in Servers, NEW w \in Servers, NEW u \in Routers, NEW x \in Routers,
                NEW i \in 1..Len(in'[w][x]), NEW j \in 1..Len(out'[v][u]),
                in'[w][x][i].kind = "msg", out'[v][u][j].kind = "msg",
                route[in'[w][x][i].val] = route[out'[v][u][j].val]
         PROVE  in'[w][x][i].val < out'[v][u][j].val
    <2>1. PICK k \in 1..Len(out[v][u]) : /\ out'[v][u][j] = out[v][u][k]
                                         /\ v = s /\ u = r => k > 1
      BY <1>8
    <2>2. out[v][u][k].kind = "msg" /\ route[in'[w][x][i].val] = route[out[v][u][k].val]
      BY <1>16, <2>1
    <2>3. CASE Old(w, x, i)
      <3>1. i \in 1..Len(in[w][x]) /\ in'[w][x][i] = in[w][x][i]
        BY <2>3 DEF Old
      <3>2. in[w][x][i].val < out[v][u][k].val
        BY <1>16, <2>2, <3>1 DEF Ordered, InBeforeOut
      <3> QED  BY <2>1, <3>1, <3>2
    <2>4. CASE New(w, x, i)
      <3>1. in'[w][x][i].val = m
        BY <1>4, <2>4 DEF New
      <3>2. route[out[v][u][k].val] = [from |-> v, to |-> out[v][u][k].peer, via |-> u]
        BY <2>2 DEF Placed
      <3>3. v = s /\ u = r
        <4>1. [from |-> v, to |-> out[v][u][k].peer, via |-> u] = [from |-> s, to |-> t, via |-> r]
          BY <1>5, <2>2, <3>1, <3>2
        <4> QED  BY <4>1
      <3>4. 1 < k /\ route[out[s][r][1].val] = route[out[v][u][k].val]
        BY <2>1, <2>2, <3>1, <3>3 DEF m
      <3>5. out[s][r][1].val < out[v][u][k].val
        BY <1>2, <2>2, <3>3, <3>4 DEF Ordered, InQueue
      <3> QED  BY <2>1, <3>1, <3>5 DEF m
    <2> QED  BY <1>7, <2>3, <2>4
  <1>17. /\ InQueue(out)' /\ InQueue(in)' /\ InHandled'
         /\ HandledBefore(out)' /\ HandledBefore(in)'
    <2>1. InQueue(out)' /\ InQueue(in)'
      BY <1>0, <1>13, <1>14 DEF InQueue
    <2>2. InHandled'
      BY <1>0 DEF Ordered, InHandled
    <2>3. HandledBefore(out)' /\ HandledBefore(in)'
      BY <1>0, <1>13, <1>15 DEF HandledBefore
    <2> QED  BY <2>1, <2>2, <2>3
  <1>18. InBeforeOut'
    BY SMTT(30), <1>0, <1>16 DEF InBeforeOut
  <1> QED  BY <1>11, <1>17, <1>18 DEF Ordered

\* A script handles a message.
LEMMA PlacedHandle ==
    ASSUME TypeOK, Sizes, TypeOK', Placed, Ordered, NEW s \in Servers, NEW r \in Routers,
           HandleMsg(s, r)
    PROVE  Placed' /\ Ordered'
  <1> DEFINE m == in[s][r][1].val
  <1>1. /\ out \in Queues /\ in \in Queues /\ in' \in Queues
        /\ in' = Pop(in, s, r) /\ in[s][r] # <<>> /\ route' = route /\ out' = out
        /\ handled \in [Servers -> Seq(Nat)]
    BY DEF TypeOK, Queues, HandleMsg, Arrived
  <1>2. 1 \in 1..Len(in[s][r]) /\ in[s][r][1].kind = "msg" /\ in[s][r][1] \in Packets
        /\ in[s][r][1] = Head(in[s][r])
    BY <1>1, ArrivedIn DEF HandleMsg
  <1>3. m \in 1..Len(route) /\ route[m] = [from |-> in[s][r][1].peer, to |-> s, via |-> r]
    BY <1>2 DEF Placed
  <1>4. m \in Nat
    BY <1>2 DEF Packets
  <1>5. handled' = [handled EXCEPT ![s] = Append(@, m)]
    BY <1>2 DEF HandleMsg
  <1> DEFINE Old(w, i) == i \in 1..Len(handled[w]) /\ handled'[w][i] = handled[w][i]
             New(w, i) == w = s /\ i = Len(handled[w]) + 1 /\ handled'[w][i] = m
  <1>6. ASSUME NEW w \in Servers, NEW i \in 1..Len(handled'[w])
        PROVE  Old(w, i) \/ New(w, i)
    <2>1. handled[w] \in Seq(Nat) /\ Len(handled[w]) \in Nat
      BY <1>1, LenProperties
    <2>2. CASE w = s
      <3>1. handled'[s] = Append(handled[s], m)
        BY <1>1, <1>5
      <3>2. /\ Len(Append(handled[s], m)) = Len(handled[s]) + 1
            /\ Append(handled[s], m)[Len(handled[s]) + 1] = m
            /\ \A k \in 1..Len(handled[s]) : Append(handled[s], m)[k] = handled[s][k]
        BY <1>4, <2>1, <2>2, AppendProperties
      <3>3. i \in 1..Len(handled[s]) \/ i = Len(handled[s]) + 1
        BY <2>1, <2>2, <3>1, <3>2
      <3> QED  BY <2>2, <3>1, <3>2, <3>3
    <2>3. CASE w # s
      BY <1>1, <1>5, <2>3
    <2> QED  BY <2>2, <2>3
  <1>7. ASSUME NEW v \in Servers, NEW u \in Routers, NEW i \in 1..Len(in'[v][u])
        PROVE  \E k \in 1..Len(in[v][u]) : /\ in'[v][u][i] = in[v][u][k]
                                           /\ v = s /\ u = r => k > 1
    <2>1. \/ /\ v = s /\ u = r /\ i + 1 \in 1..Len(in[v][u])
             /\ in'[v][u][i] = in[v][u][i + 1]
          \/ /\ v # s \/ u # r
             /\ i \in 1..Len(in[v][u]) /\ in'[v][u][i] = in[v][u][i]
      BY <1>1, PopEntries
    <2>2. i + 1 > 1
      <3>1. Len(in'[v][u]) \in Nat
        BY <1>1, QueueTypes
      <3> QED  BY <3>1
    <2> QED  BY <2>1, <2>2
  <1> HIDE DEF m, Old, New
  <1>8. Placed'
    <2>1. ASSUME NEW v \in Servers, NEW u \in Routers, NEW i \in 1..Len(in'[v][u]),
                 in'[v][u][i].kind = "msg"
          PROVE  /\ in'[v][u][i].val \in 1..Len(route)
                 /\ route[in'[v][u][i].val] = [from |-> in'[v][u][i].peer, to |-> v, via |-> u]
      <3>1. PICK k \in 1..Len(in[v][u]) : in'[v][u][i] = in[v][u][k]
        BY <1>7
      <3>2. in[v][u][k].kind = "msg"
        BY <2>1, <3>1
      <3>3. /\ in[v][u][k].val \in 1..Len(route)
            /\ route[in[v][u][k].val] = [from |-> in[v][u][k].peer, to |-> v, via |-> u]
        BY <3>2 DEF Placed
      <3> QED  BY <3>1, <3>3
    <2>2. ASSUME NEW w \in Servers, NEW i \in 1..Len(handled'[w])
          PROVE  handled'[w][i] \in 1..Len(route) /\ route[handled'[w][i]].to = w
      <3>1. CASE Old(w, i)
        BY <3>1 DEF Old, Placed
      <3>2. CASE New(w, i)
        BY <1>3, <3>2 DEF New
      <3> QED  BY <1>6, <3>1, <3>2
    <2>3. \A v \in Servers, u \in Routers : \A i \in 1..Len(out[v][u]) :
            out[v][u][i].kind = "msg" =>
              /\ out[v][u][i].val \in 1..Len(route)
              /\ route[out[v][u][i].val] = [from |-> v, to |-> out[v][u][i].peer, via |-> u]
      BY DEF Placed
    <2> QED  BY <1>1, <2>1, <2>2, <2>3 DEF Placed
  <1>9. InQueue(in') /\ InQueue(out)
    <2>1. Remain(in', in)
      BY <1>1, RemainsPop
    <2> QED  BY <1>1, <2>1, InOrderStays DEF Ordered
  <1>10. ASSUME NEW w \in Servers, NEW i \in 1..Len(handled'[w]), NEW j \in 1..Len(handled'[w]),
                i < j, route[handled'[w][i]] = route[handled'[w][j]]
         PROVE  handled'[w][i] < handled'[w][j]
    <2>1. CASE Old(w, i) /\ Old(w, j)
      BY <1>10, <2>1 DEF Old, Ordered, InHandled
    <2>2. CASE Old(w, i) /\ New(w, j)
      <3>1. w = s /\ i \in 1..Len(handled[s]) /\ handled'[w][i] = handled[s][i]
            /\ handled'[w][j] = in[s][r][1].val
        BY <2>2 DEF Old, New, m
      <3>2. handled[s][i] < in[s][r][1].val
        BY <1>2, <1>10, <3>1 DEF Ordered, HandledBefore
      <3> QED  BY <3>1, <3>2
    <2>3. ~(New(w, i) /\ (Old(w, j) \/ New(w, j)))
      <3>1. Len(handled[w]) \in Nat
        BY <1>1, LenProperties
      <3> QED  BY <1>10, <3>1 DEF Old, New
    <2> QED  BY <1>6, <2>1, <2>2, <2>3
  <1>11. ASSUME NEW v \in Servers, NEW w \in Servers, NEW u \in Routers,
                NEW i \in 1..Len(handled'[w]), NEW j \in 1..Len(in'[v][u]),
                in'[v][u][j].kind = "msg", route[handled'[w][i]] = route[in'[v][u][j].val]
         PROVE  handled'[w][i] < in'[v][u][j].val
    <2>1. PICK k \in 1..Len(in[v][u]) : in'[v][u][j] = in[v][u][k] /\ (v = s /\ u = r => k > 1)
      BY <1>7
    <2>2. in[v][u][k].kind = "msg"
      BY <1>11, <2>1
    <2>3. CASE Old(w, i)
      <3>1. i \in 1..Len(handled[w]) /\ handled'[w][i] = handled[w][i]
        BY <2>3 DEF Old
      <3>2. handled[w][i] < in[v][u][k].val
        BY <1>11, <2>1, <2>2, <3>1 DEF Ordered, HandledBefore
      <3> QED  BY <2>1, <3>1, <3>2
    <2>4. CASE New(w, i)
      <3>1. handled'[w][i] = m
        BY <2>4 DEF New
      <3>2. route[in[v][u][k].val] = [from |-> in[v][u][k].peer, to |-> v, via |-> u]
        BY <2>2 DEF Placed
      <3>3. v = s /\ u = r
        <4>1. [from |-> in[v][u][k].peer, to |-> v, via |-> u]
                = [from |-> in[s][r][1].peer, to |-> s, via |-> r]
          BY <1>3, <1>11, <2>1, <3>1, <3>2
        <4> QED  BY <4>1
      <3>4. 1 < k /\ route[in[s][r][1].val] = route[in[v][u][k].val]
        BY <1>11, <2>1, <3>1, <3>3 DEF m
      <3>5. in[s][r][1].val < in[v][u][k].val
        BY <1>2, <2>2, <3>3, <3>4 DEF Ordered, InQueue
      <3> QED  BY <2>1, <3>1, <3>5 DEF m
    <2> QED  BY <1>6, <2>3, <2>4
  <1>12. ASSUME NEW v \in Servers, NEW w \in Servers, NEW u \in Routers,
                NEW i \in 1..Len(handled'[w]), NEW j \in 1..Len(out[v][u]),
                out[v][u][j].kind = "msg", route[handled'[w][i]] = route[out[v][u][j].val]
         PROVE  handled'[w][i] < out[v][u][j].val
    <2>1. CASE Old(w, i)
      BY <1>12, <2>1 DEF Old, Ordered, HandledBefore
    <2>2. CASE New(w, i)
      <3>1. handled'[w][i] = in[s][r][1].val
        BY <2>2 DEF New, m
      <3>2. in[s][r][1].val < out[v][u][j].val
        BY <1>2, <1>12, <3>1 DEF Ordered, InBeforeOut
      <3> QED  BY <3>1, <3>2
    <2> QED  BY <1>6, <2>1, <2>2
  <1>13. ASSUME NEW v \in Servers, NEW w \in Servers, NEW u \in Routers, NEW x \in Routers,
                NEW i \in 1..Len(in'[w][x]), NEW j \in 1..Len(out[v][u]),
                in'[w][x][i].kind = "msg", out[v][u][j].kind = "msg",
                route[in'[w][x][i].val] = route[out[v][u][j].val]
         PROVE  in'[w][x][i].val < out[v][u][j].val
    <2>1. PICK k \in 1..Len(in[w][x]) : in'[w][x][i] = in[w][x][k]
      BY <1>7
    <2>2. in[w][x][k].kind = "msg"
      BY <1>13, <2>1
    <2> QED  BY <1>13, <2>1, <2>2 DEF Ordered, InBeforeOut
  <1>14. InQueue(in)' /\ InQueue(out)' /\ InHandled'
    <2>1. InQueue(in)' /\ InQueue(out)'
      <3>1. route' = route /\ out' = out
        BY <1>1
      <3> QED  BY <1>9, <3>1 DEF InQueue
    <2>2. InHandled'
      BY <1>1, <1>10 DEF InHandled
    <2> QED  BY <2>1, <2>2
  <1>15. HandledBefore(in)'
    BY <1>1, <1>11 DEF HandledBefore
  <1>16. HandledBefore(out)'
    BY <1>1, <1>12 DEF HandledBefore
  <1>17. InBeforeOut'
    <2>1. route' = route /\ out' = out
      BY <1>1
    <2> QED  BY SMTT(30), <1>13, <2>1 DEF InBeforeOut
  <1> QED  BY <1>8, <1>14, <1>15, <1>16, <1>17 DEF Ordered

-----------------------------------------------------------------------------
(* A message is in one place.                                              *)

\* In one spot of one queue.
OneSpot(q, m) ==
    \A s, t \in Servers, r, u \in Routers : \A i \in 1..Len(q[s][r]), j \in 1..Len(q[t][u]) :
        /\ q[s][r][i].kind = "msg" /\ q[s][r][i].val = m
        /\ q[t][u][j].kind = "msg" /\ q[t][u][j].val = m
        => s = t /\ r = u /\ i = j

LEMMA Unique ==
    ASSUME TypeOK, Placed, Ordered, NEW m \in Nat
    PROVE  /\ OneSpot(out, m) /\ OneSpot(in, m)
           /\ \A s, t \in Servers : \A i \in 1..Len(handled[s]), j \in 1..Len(handled[t]) :
                 handled[s][i] = m /\ handled[t][j] = m => s = t /\ i = j
           /\ ~(IsIn(out, m) /\ IsIn(in, m))
           /\ ~(IsIn(out, m) /\ IsHandled(m))
           /\ ~(IsIn(in, m) /\ IsHandled(m))
  <1>1. out \in Queues /\ in \in Queues /\ handled \in [Servers -> Seq(Nat)]
    BY DEF TypeOK, Queues
  <1>2. ~(m < m)
    OBVIOUS
  <1>3. ASSUME NEW s \in Servers, NEW r \in Routers, NEW i \in 1..Len(out[s][r]),
               out[s][r][i].kind = "msg", out[s][r][i].val = m
        PROVE  route[m].from = s /\ route[m].via = r
    <2>1. route[m] = [from |-> s, to |-> out[s][r][i].peer, via |-> r]
      BY <1>3 DEF Placed
    <2> QED  BY <2>1
  <1>4. ASSUME NEW s \in Servers, NEW r \in Routers, NEW i \in 1..Len(in[s][r]),
               in[s][r][i].kind = "msg", in[s][r][i].val = m
        PROVE  route[m].to = s /\ route[m].via = r
    <2>1. route[m] = [from |-> in[s][r][i].peer, to |-> s, via |-> r]
      BY <1>4 DEF Placed
    <2> QED  BY <2>1
  <1>5. OneSpot(out, m)
    <2> SUFFICES ASSUME NEW s \in Servers, NEW t \in Servers, NEW r \in Routers, NEW u \in Routers,
                        NEW i \in 1..Len(out[s][r]), NEW j \in 1..Len(out[t][u]),
                        out[s][r][i].kind = "msg", out[s][r][i].val = m,
                        out[t][u][j].kind = "msg", out[t][u][j].val = m
                 PROVE  s = t /\ r = u /\ i = j
      BY DEF OneSpot
    <2>1. s = t /\ r = u
      BY <1>3
    <2>2. i \in Int /\ j \in Int
      BY <1>1, QueueTypes
    <2>3. ~(i < j) /\ ~(j < i)
      BY <1>2, <2>1 DEF Ordered, InQueue
    <2> QED  BY <2>1, <2>2, <2>3
  <1>6. OneSpot(in, m)
    <2> SUFFICES ASSUME NEW s \in Servers, NEW t \in Servers, NEW r \in Routers, NEW u \in Routers,
                        NEW i \in 1..Len(in[s][r]), NEW j \in 1..Len(in[t][u]),
                        in[s][r][i].kind = "msg", in[s][r][i].val = m,
                        in[t][u][j].kind = "msg", in[t][u][j].val = m
                 PROVE  s = t /\ r = u /\ i = j
      BY DEF OneSpot
    <2>1. s = t /\ r = u
      BY <1>4
    <2>2. i \in Int /\ j \in Int
      BY <1>1, QueueTypes
    <2>3. ~(i < j) /\ ~(j < i)
      BY <1>2, <2>1 DEF Ordered, InQueue
    <2> QED  BY <2>1, <2>2, <2>3
  <1>7. ASSUME NEW s \in Servers, NEW t \in Servers,
               NEW i \in 1..Len(handled[s]), NEW j \in 1..Len(handled[t]),
               handled[s][i] = m, handled[t][j] = m
        PROVE  s = t /\ i = j
    <2>1. s = t
      BY SMTT(30), <1>7 DEF Placed
    <2>2. i \in Int /\ j \in Int
      BY <1>1, LenProperties
    <2>3. ~(i < j) /\ ~(j < i)
      BY <1>2, <1>7, <2>1 DEF Ordered, InHandled
    <2> QED  BY <2>1, <2>2, <2>3
  <1>8. ~(IsIn(out, m) /\ IsIn(in, m))
    BY ZenonT(60), <1>2 DEF IsIn, Ordered, InBeforeOut
  <1>9. ASSUME IsIn(out, m), IsHandled(m)
        PROVE  FALSE
    <2>1. PICK s \in Servers, r \in Routers :
              \E j \in 1..Len(out[s][r]) : out[s][r][j].kind = "msg" /\ out[s][r][j].val = m
      BY <1>9 DEF IsIn
    <2>2. PICK t \in Servers : \E i \in 1..Len(handled[t]) : handled[t][i] = m
      BY <1>9 DEF IsHandled
    <2> QED  BY <1>2, <2>1, <2>2 DEF Ordered, HandledBefore
  <1>10. ASSUME IsIn(in, m), IsHandled(m)
        PROVE  FALSE
    <2>1. PICK s \in Servers, r \in Routers :
              \E j \in 1..Len(in[s][r]) : in[s][r][j].kind = "msg" /\ in[s][r][j].val = m
      BY <1>10 DEF IsIn
    <2>2. PICK t \in Servers : \E i \in 1..Len(handled[t]) : handled[t][i] = m
      BY <1>10 DEF IsHandled
    <2> QED  BY <1>2, <2>1, <2>2 DEF Ordered, HandledBefore
  <1> QED  BY <1>5, <1>6, <1>7, <1>8, <1>9, <1>10

LEMMA RemainsIn ==
    ASSUME NEW q \in Queues, NEW p \in Queues, Remain(p, q), NEW m, IsIn(p, m)
    PROVE  IsIn(q, m)
  <1>0. PICK s \in Servers, r \in Routers :
            \E i \in 1..Len(p[s][r]) : p[s][r][i].kind = "msg" /\ p[s][r][i].val = m
    BY DEF IsIn
  <1>1. PICK i \in 1..Len(p[s][r]) : p[s][r][i].kind = "msg" /\ p[s][r][i].val = m
    BY <1>0
  <1>2. PICK d \in Nat : i + d \in 1..Len(q[s][r]) /\ p[s][r][i] = q[s][r][i + d]
    BY <1>1 DEF Remain, Remains
  <1> QED  BY <1>1, <1>2 DEF IsIn

\* Messages are lost just when they leave a queue.
LEMMA Losing ==
    ASSUME TypeOK, TypeOK', Accounted, Shrunk, NEW L, NEW cause, cause # "no",
           \A m \in 1..Len(route) : lost'[m] = IF m \in L THEN cause ELSE lost[m],
           \A m \in 1..Len(route) : m \notin L =>
              (IsIn(out, m) => IsIn(out', m)) /\ (IsIn(in, m) => IsIn(in', m)),
           \A m \in 1..Len(route) : m \in L => ~IsIn(out', m) /\ ~IsIn(in', m) /\ ~IsHandled(m)
    PROVE  Accounted'
  <1>1. /\ out \in Queues /\ in \in Queues /\ out' \in Queues /\ in' \in Queues
        /\ Remain(out', out) /\ Remain(in', in) /\ route' = route /\ handled' = handled
    BY DEF TypeOK, Queues, Shrunk
  <1>2. ASSUME NEW m \in 1..Len(route)
        PROVE  lost'[m] = "no" <=> IsIn(out', m) \/ IsIn(in', m) \/ IsHandled(m)
    <2>1. (IsIn(out', m) => IsIn(out, m)) /\ (IsIn(in', m) => IsIn(in, m))
      BY <1>1, RemainsIn
    <2>2. lost[m] = "no" <=> IsIn(out, m) \/ IsIn(in, m) \/ IsHandled(m)
      BY DEF Accounted
    <2> QED  BY <2>1, <2>2
  <1>3. \A m : IsIn(out, m)' = IsIn(out', m) /\ IsIn(in, m)' = IsIn(in', m)
               /\ IsHandled(m)' = IsHandled(m)
    BY <1>1 DEF IsIn, IsHandled
  <1> QED  BY <1>1, <1>2, <1>3 DEF Accounted

LEMMA InPut ==
    ASSUME NEW q \in Queues, NEW s \in Servers, NEW r \in Routers, NEW x \in Packets, NEW m
    PROVE  IsIn(Put(q, s, r, x), m) <=> IsIn(q, m) \/ (x.kind = "msg" /\ x.val = m)
  <1> DEFINE p == Put(q, s, r, x)
  <1>1. ASSUME NEW v \in Servers, NEW u \in Routers
        PROVE  /\ \A i \in 1..Len(q[v][u]) : i \in 1..Len(p[v][u]) /\ p[v][u][i] = q[v][u][i]
               /\ \A i \in 1..Len(p[v][u]) :
                     (i \in 1..Len(q[v][u]) /\ p[v][u][i] = q[v][u][i]) \/ p[v][u][i] = x
    BY PutEntries
  <1>2. \E i \in 1..Len(p[s][r]) : p[s][r][i] = x
    BY PutEntries
  <1> HIDE DEF p
  <1>3. ASSUME IsIn(p, m)
        PROVE  IsIn(q, m) \/ (x.kind = "msg" /\ x.val = m)
    <2>1. PICK v \in Servers, u \in Routers :
              \E i \in 1..Len(p[v][u]) : p[v][u][i].kind = "msg" /\ p[v][u][i].val = m
      BY <1>3 DEF IsIn
    <2>2. PICK i \in 1..Len(p[v][u]) : p[v][u][i].kind = "msg" /\ p[v][u][i].val = m
      BY <2>1
    <2>3. CASE i \in 1..Len(q[v][u]) /\ p[v][u][i] = q[v][u][i]
      BY <2>2, <2>3 DEF IsIn
    <2>4. CASE p[v][u][i] = x
      BY <2>2, <2>4
    <2> QED  BY <1>1, <2>3, <2>4
  <1>4. ASSUME IsIn(q, m)
        PROVE  IsIn(p, m)
    <2>1. PICK v \in Servers, u \in Routers :
              \E i \in 1..Len(q[v][u]) : q[v][u][i].kind = "msg" /\ q[v][u][i].val = m
      BY <1>4 DEF IsIn
    <2> QED  BY <1>1, <2>1 DEF IsIn
  <1>5. x.kind = "msg" /\ x.val = m => IsIn(p, m)
    BY <1>2 DEF IsIn
  <1> QED  BY <1>3, <1>4, <1>5 DEF p

LEMMA InPop ==
    ASSUME NEW q \in Queues, NEW s \in Servers, NEW r \in Routers, q[s][r] # <<>>, NEW m
    PROVE  IsIn(q, m) <=> IsIn(Pop(q, s, r), m) \/ (q[s][r][1].kind = "msg" /\ q[s][r][1].val = m)
  <1> DEFINE p == Pop(q, s, r)
  <1>1. p \in Queues /\ Remain(p, q) /\ 1 \in 1..Len(q[s][r])
    BY PopFrom, RemainsPop, PopEntries
  <1>2. ASSUME NEW v \in Servers, NEW u \in Routers, NEW i \in 1..Len(q[v][u])
        PROVE  \/ q[v][u][i] = q[s][r][1]
               \/ \E j \in 1..Len(p[v][u]) : p[v][u][j] = q[v][u][i]
    <2>1. \/ v = s /\ u = r /\ i = 1
          \/ i - 1 \in 1..Len(p[v][u]) /\ p[v][u][i - 1] = q[v][u][i]
          \/ i \in 1..Len(p[v][u]) /\ p[v][u][i] = q[v][u][i]
      BY PopEntries
    <2> HIDE DEF p
    <2> QED  BY <2>1
  <1> HIDE DEF p
  <1>3. IsIn(p, m) => IsIn(q, m)
    BY <1>1, RemainsIn
  <1>4. q[s][r][1].kind = "msg" /\ q[s][r][1].val = m => IsIn(q, m)
    BY <1>1 DEF IsIn
  <1>5. ASSUME IsIn(q, m)
        PROVE  IsIn(p, m) \/ (q[s][r][1].kind = "msg" /\ q[s][r][1].val = m)
    <2>1. PICK v \in Servers, u \in Routers :
              \E i \in 1..Len(q[v][u]) : q[v][u][i].kind = "msg" /\ q[v][u][i].val = m
      BY <1>5 DEF IsIn
    <2>2. PICK i \in 1..Len(q[v][u]) : q[v][u][i].kind = "msg" /\ q[v][u][i].val = m
      BY <2>1
    <2>3. CASE q[v][u][i] = q[s][r][1]
      BY <2>2, <2>3
    <2>4. CASE \E j \in 1..Len(p[v][u]) : p[v][u][j] = q[v][u][i]
      BY <2>2, <2>4 DEF IsIn
    <2> QED  BY <1>2, <2>3, <2>4
  <1> QED  BY <1>3, <1>4, <1>5 DEF p

\* A queue to which, or from which, no message went.
Harmless(q, p) ==
    \/ p = q
    \/ \E s \in Servers, r \in Routers, x \in Packets : x.kind # "msg" /\ p = Put(q, s, r, x)
    \/ \E s \in Servers, r \in Routers :
          q[s][r] # <<>> /\ q[s][r][1].kind # "msg" /\ p = Pop(q, s, r)

LEMMA HarmlessKeeps ==
    ASSUME NEW q \in Queues, NEW p \in Queues, Harmless(q, p)
    PROVE  Remain(p, q) /\ \A m : IsIn(q, m) => IsIn(p, m)
  <1>1. CASE p = q
    BY <1>1, RemainsSame
  <1>2. ASSUME NEW s \in Servers, NEW r \in Routers, NEW x \in Packets,
               x.kind # "msg", p = Put(q, s, r, x)
        PROVE  Remain(p, q) /\ \A m : IsIn(q, m) => IsIn(p, m)
    BY <1>2, RemainsPut, InPut
  <1>3. ASSUME NEW s \in Servers, NEW r \in Routers,
               q[s][r] # <<>>, q[s][r][1].kind # "msg", p = Pop(q, s, r)
        PROVE  Remain(p, q) /\ \A m : IsIn(q, m) => IsIn(p, m)
    BY <1>3, RemainsPop, InPop
  <1> QED  BY <1>1, <1>2, <1>3 DEF Harmless

Calm == Harmless(out, out') /\ Harmless(in, in') /\ UNCHANGED <<route, handled, lost>>

LEMMA CalmKeeps ==
    ASSUME TypeOK, TypeOK', Placed, Ordered, Accounted, Calm
    PROVE  Placed' /\ Ordered' /\ Accounted'
  <1>1. /\ out \in Queues /\ in \in Queues /\ out' \in Queues /\ in' \in Queues
        /\ Harmless(out, out') /\ Harmless(in, in')
    BY DEF TypeOK, Queues, Calm
  <1>2. Shrunk
    BY <1>1, HarmlessKeeps DEF Shrunk, Calm
  <1>3. \A m : (IsIn(out, m) => IsIn(out', m)) /\ (IsIn(in, m) => IsIn(in', m))
    BY <1>1, HarmlessKeeps
  <1>4. Accounted'
    <2>1. \A m \in 1..Len(route) : lost'[m] = IF m \in {} THEN "full" ELSE lost[m]
      BY DEF Calm
    <2>2. "full" # "no" /\ \A m \in 1..Len(route) : m \notin {}
      OBVIOUS
    <2> QED  BY SMTT(30), <1>2, <1>3, <2>1, <2>2, Losing
  <1> QED  BY <1>2, <1>4, Shrinks

\* One message is lost: the one that leaves a queue.
Drops(m) ==
    \E s \in Servers, r \in Routers, cause \in Causes \ {"no"} :
        /\ \/ /\ out[s][r] # <<>> /\ out[s][r][1].kind = "msg" /\ out[s][r][1].val = m
              /\ out' = Pop(out, s, r) /\ in' = in
           \/ /\ in[s][r] # <<>> /\ in[s][r][1].kind = "msg" /\ in[s][r][1].val = m
              /\ in' = Pop(in, s, r) /\ out' = out
        /\ lost' = Lose({m}, cause)
        /\ UNCHANGED <<route, handled>>

\* What is left of a queue without its head comes from behind it.
LEMMA PopShifts ==
    ASSUME NEW q \in Queues, NEW s \in Servers, NEW r \in Routers, q[s][r] # <<>>,
           NEW v \in Servers, NEW u \in Routers, NEW i \in 1..Len(Pop(q, s, r)[v][u])
    PROVE  \E k \in 1..Len(q[v][u]) :
              Pop(q, s, r)[v][u][i] = q[v][u][k] /\ (v = s /\ u = r => k # 1)
  <1> DEFINE p == Pop(q, s, r)
  <1>1. \/ v = s /\ u = r /\ i + 1 \in 1..Len(q[v][u]) /\ p[v][u][i] = q[v][u][i + 1]
        \/ (v # s \/ u # r) /\ i \in 1..Len(q[v][u]) /\ p[v][u][i] = q[v][u][i]
    BY PopEntries
  <1>2. i + 1 # 1
    <2>1. Len(p[v][u]) \in Nat
      BY PopFrom, QueueTypes
    <2> HIDE DEF p
    <2> QED  BY <2>1
  <1> HIDE DEF p
  <1>3. \E k \in 1..Len(q[v][u]) : p[v][u][i] = q[v][u][k] /\ (v = s /\ u = r => k # 1)
    BY <1>1, <1>2
  <1> QED  BY <1>3 DEF p

\* What was at the head of a queue is not in it any more.
LEMMA HeadLeaves ==
    ASSUME NEW q \in Queues, NEW s \in Servers, NEW r \in Routers, q[s][r] # <<>>,
           q[s][r][1].kind = "msg", OneSpot(q, q[s][r][1].val)
    PROVE  ~IsIn(Pop(q, s, r), q[s][r][1].val)
  <1> DEFINE p == Pop(q, s, r)
             m == q[s][r][1].val
  <1>1. p \in Queues /\ 1 \in 1..Len(q[s][r])
    BY PopFrom, PopEntries
  <1>2. ASSUME NEW v \in Servers, NEW u \in Routers, NEW i \in 1..Len(p[v][u])
        PROVE  \E k \in 1..Len(q[v][u]) : p[v][u][i] = q[v][u][k] /\ (v = s /\ u = r => k # 1)
    BY PopShifts
  <1> SUFFICES ASSUME IsIn(p, m)
               PROVE  FALSE
    OBVIOUS
  <1> HIDE DEF p
  <1>3. PICK v \in Servers, u \in Routers :
            \E i \in 1..Len(p[v][u]) : p[v][u][i].kind = "msg" /\ p[v][u][i].val = m
    BY DEF IsIn
  <1>4. PICK i \in 1..Len(p[v][u]) : p[v][u][i].kind = "msg" /\ p[v][u][i].val = m
    BY <1>3
  <1>5. PICK k \in 1..Len(q[v][u]) : p[v][u][i] = q[v][u][k] /\ (v = s /\ u = r => k # 1)
    BY <1>2
  <1>6. q[v][u][k].kind = "msg" /\ q[v][u][k].val = m
    BY <1>4, <1>5
  <1>7. v = s /\ u = r /\ k = 1
    BY <1>1, <1>6 DEF OneSpot
  <1> QED  BY <1>5, <1>7

LEMMA DropsKeeps ==
    ASSUME TypeOK, TypeOK', Placed, Ordered, Accounted, NEW m, Drops(m)
    PROVE  Placed' /\ Ordered' /\ Accounted'
  <1>1. PICK s \in Servers, r \in Routers, cause \in Causes \ {"no"} :
        /\ \/ /\ out[s][r] # <<>> /\ out[s][r][1].kind = "msg" /\ out[s][r][1].val = m
              /\ out' = Pop(out, s, r) /\ in' = in
           \/ /\ in[s][r] # <<>> /\ in[s][r][1].kind = "msg" /\ in[s][r][1].val = m
              /\ in' = Pop(in, s, r) /\ out' = out
        /\ lost' = Lose({m}, cause)
        /\ UNCHANGED <<route, handled>>
    BY DEF Drops
  <1>2. /\ out \in Queues /\ in \in Queues /\ out' \in Queues /\ in' \in Queues
        /\ lost \in Seq(Causes) /\ Len(lost) = Len(route)
    BY DEF TypeOK, Queues
  <1>3. Shrunk
    BY <1>1, <1>2, RemainsSame, RemainsPop DEF Shrunk
  <1>4. \A k \in 1..Len(route) : lost'[k] = IF k \in {m} THEN cause ELSE lost[k]
    BY <1>1, <1>2, Losses
  <1>5. \A k : k \notin {m} => (IsIn(out, k) => IsIn(out', k)) /\ (IsIn(in, k) => IsIn(in', k))
    BY <1>1, <1>2, InPop
  <1>6. ~IsIn(out', m) /\ ~IsIn(in', m) /\ ~IsHandled(m)
    <2>1. CASE /\ out[s][r] # <<>> /\ out[s][r][1].kind = "msg" /\ out[s][r][1].val = m
               /\ out' = Pop(out, s, r) /\ in' = in
      <3>1. 1 \in 1..Len(out[s][r])
        BY <1>2, <2>1, PopEntries
      <3>2. IsIn(out, m) /\ m \in Nat
        BY <1>2, <2>1, <3>1, QueueTypes DEF IsIn
      <3>3. OneSpot(out, m) /\ ~IsIn(in, m) /\ ~IsHandled(m)
        BY <3>2, Unique
      <3> QED  BY <1>2, <2>1, <3>3, HeadLeaves
    <2>2. CASE /\ in[s][r] # <<>> /\ in[s][r][1].kind = "msg" /\ in[s][r][1].val = m
               /\ in' = Pop(in, s, r) /\ out' = out
      <3>1. 1 \in 1..Len(in[s][r])
        BY <1>2, <2>2, PopEntries
      <3>2. IsIn(in, m) /\ m \in Nat
        BY <1>2, <2>2, <3>1, QueueTypes DEF IsIn
      <3>3. OneSpot(in, m) /\ ~IsIn(out, m) /\ ~IsHandled(m)
        BY <3>2, Unique
      <3> QED  BY <1>2, <2>2, <3>3, HeadLeaves
    <2> QED  BY <1>1, <2>1, <2>2
  <1>7. Accounted'
    <2>1. \A k \in 1..Len(route) : k \in {m} => ~IsIn(out', k) /\ ~IsIn(in', k) /\ ~IsHandled(k)
      BY <1>6
    <2>2. cause # "no"
      OBVIOUS
    <2> QED  BY <1>3, <1>4, <1>5, <2>1, <2>2, Losing
  <1> QED  BY <1>3, <1>7, Shrinks

\* A message is among what left a queue.
Left(q, p, m) ==
    \E s \in Servers, r \in Routers : \E x \in Range(q[s][r]) \ Range(p[s][r]) :
        x.kind = "msg" /\ x.val = m

LEMMA InRange ==
    ASSUME NEW q \in Queues, NEW s \in Servers, NEW r \in Routers
    PROVE  \A x : x \in Range(q[s][r]) <=> \E i \in 1..Len(q[s][r]) : q[s][r][i] = x
  <1>1. DOMAIN q[s][r] = 1..Len(q[s][r])
    BY QueueTypes, LenProperties
  <1> QED  BY <1>1 DEF Range

LEMMA LeftOrIn ==
    ASSUME NEW q \in Queues, NEW p \in Queues, Remain(p, q), NEW m, OneSpot(q, m)
    PROVE  /\ IsIn(q, m) /\ ~Left(q, p, m) => IsIn(p, m)
           /\ Left(q, p, m) => IsIn(q, m) /\ ~IsIn(p, m)
  <1>1. ASSUME IsIn(q, m), ~Left(q, p, m)
        PROVE  IsIn(p, m)
    <2>1. PICK s \in Servers, r \in Routers :
              \E i \in 1..Len(q[s][r]) : q[s][r][i].kind = "msg" /\ q[s][r][i].val = m
      BY <1>1 DEF IsIn
    <2>2. PICK i \in 1..Len(q[s][r]) : q[s][r][i].kind = "msg" /\ q[s][r][i].val = m
      BY <2>1
    <2>3. q[s][r][i] \in Range(q[s][r])
      BY InRange
    <2>4. q[s][r][i] \in Range(p[s][r])
      BY <1>1, <2>2, <2>3 DEF Left
    <2>5. PICK j \in 1..Len(p[s][r]) : p[s][r][j] = q[s][r][i]
      BY ZenonT(60), <2>4, InRange
    <2> QED  BY <2>2, <2>5 DEF IsIn
  <1>2. ASSUME Left(q, p, m)
        PROVE  IsIn(q, m) /\ ~IsIn(p, m)
    <2>1. PICK s \in Servers, r \in Routers :
              \E x \in Range(q[s][r]) \ Range(p[s][r]) : x.kind = "msg" /\ x.val = m
      BY <1>2 DEF Left
    <2>2. PICK i \in 1..Len(q[s][r]) : /\ q[s][r][i] \notin Range(p[s][r])
                                       /\ q[s][r][i].kind = "msg" /\ q[s][r][i].val = m
      BY <2>1, InRange
    <2>3. ASSUME IsIn(p, m)
          PROVE  FALSE
      <3>1. PICK v \in Servers, u \in Routers :
                \E j \in 1..Len(p[v][u]) : p[v][u][j].kind = "msg" /\ p[v][u][j].val = m
        BY <2>3 DEF IsIn
      <3>2. PICK j \in 1..Len(p[v][u]) : p[v][u][j].kind = "msg" /\ p[v][u][j].val = m
        BY <3>1
      <3>3. PICK k \in 1..Len(q[v][u]) : p[v][u][j] = q[v][u][k]
        BY <3>2 DEF Remain, Remains
      <3>4. q[v][u][k].kind = "msg" /\ q[v][u][k].val = m
        BY <3>2, <3>3
      <3>5. v = s /\ u = r /\ k = i
        BY <2>2, <3>4 DEF OneSpot
      <3>6. p[s][r][j] \in Range(p[s][r])
        BY <3>5, InRange
      <3> QED  BY <2>2, <3>3, <3>5, <3>6
    <2> QED  BY <2>2, <2>3 DEF IsIn
  <1> QED  BY <1>1, <1>2

\* All that left the queues is lost.
LEMMA LosesAllKeeps ==
    ASSUME TypeOK, TypeOK', Placed, Ordered, Accounted, NEW L, NEW cause \in Causes \ {"no"},
           Shrunk, lost' = Lose(L, cause),
           \A m \in Nat : m \in L <=> Left(out, out', m) \/ Left(in, in', m)
    PROVE  Placed' /\ Ordered' /\ Accounted'
  <1>1. /\ out \in Queues /\ in \in Queues /\ out' \in Queues /\ in' \in Queues
        /\ lost \in Seq(Causes) /\ Len(lost) = Len(route) /\ Len(route) \in Nat
        /\ Remain(out', out) /\ Remain(in', in)
    <2>1. out \in Queues /\ in \in Queues /\ out' \in Queues /\ in' \in Queues
      BY DEF TypeOK, Queues
    <2>2. lost \in Seq(Causes) /\ Len(lost) = Len(route) /\ Len(route) \in Nat
      BY LenProperties DEF TypeOK
    <2> QED  BY <2>1, <2>2 DEF Shrunk
  <1>2. \A m \in 1..Len(route) : lost'[m] = IF m \in L THEN cause ELSE lost[m]
    BY <1>1, Losses
  <1>3. ASSUME NEW m \in 1..Len(route)
        PROVE  /\ m \in Nat /\ OneSpot(out, m) /\ OneSpot(in, m)
               /\ ~(IsIn(out, m) /\ IsIn(in, m))
               /\ ~(IsIn(out, m) /\ IsHandled(m)) /\ ~(IsIn(in, m) /\ IsHandled(m))
    <2>1. m \in Nat
      BY <1>1
    <2> QED  BY <2>1, Unique
  <1>4. ASSUME NEW m \in 1..Len(route)
        PROVE  /\ IsIn(out, m) /\ ~Left(out, out', m) => IsIn(out', m)
               /\ Left(out, out', m) => IsIn(out, m) /\ ~IsIn(out', m)
               /\ IsIn(in, m) /\ ~Left(in, in', m) => IsIn(in', m)
               /\ Left(in, in', m) => IsIn(in, m) /\ ~IsIn(in', m)
               /\ (IsIn(out', m) => IsIn(out, m)) /\ (IsIn(in', m) => IsIn(in, m))
    <2>1. OneSpot(out, m) /\ OneSpot(in, m)
      BY <1>3
    <2> QED  BY <1>1, <2>1, LeftOrIn, RemainsIn
  <1>5. \A m \in 1..Len(route) : m \notin L =>
            (IsIn(out, m) => IsIn(out', m)) /\ (IsIn(in, m) => IsIn(in', m))
    BY <1>3, <1>4
  <1>6. \A m \in 1..Len(route) : m \in L => ~IsIn(out', m) /\ ~IsIn(in', m) /\ ~IsHandled(m)
    BY <1>3, <1>4
  <1>7. cause # "no"
    OBVIOUS
  <1> QED  BY <1>2, <1>5, <1>6, <1>7, Losing, Shrinks

Ends(s) == Gone(s) /\ UNCHANGED <<route, handled>>

LEMMA GoneKeeps ==
    ASSUME TypeOK, Sizes, TypeOK', Placed, Ordered, Accounted, NEW s \in Servers, Ends(s)
    PROVE  Placed' /\ Ordered' /\ Accounted'
  <1>1. PICK kept \in [Routers -> 0..Hwm] :
              /\ \A r \in Routers :
                    /\ kept[r] <= Len(out[s][r])
                    /\ out'[s][r] = SubSeq(out[s][r], 1, kept[r]) /\ Len(out'[s][r]) = kept[r]
                    /\ \A i \in 1..kept[r] : out'[s][r][i] = out[s][r][i]
                    /\ in'[s][r] = <<>>
              /\ \A t \in Servers, r \in Routers :
                    t # s => out'[t][r] = out[t][r] /\ in'[t][r] = in[t][r]
              /\ LET unread == UNION {Range(in[s][r]) : r \in Routers}
                     unsent == UNION {Range(SubSeq(out[s][r], kept[r] + 1, Len(out[s][r]))) :
                                        r \in Routers}
                 IN lost' = Lose(Messages(unread \cup unsent), "ended")
    BY GoneQueues DEF Ends
  <1> DEFINE tail(r) == SubSeq(out[s][r], kept[r] + 1, Len(out[s][r]))
             unread == UNION {Range(in[s][r]) : r \in Routers}
             unsent == UNION {Range(tail(r)) : r \in Routers}
             L == Messages(unread \cup unsent)
  <1>2. lost' = Lose(L, "ended") /\ "ended" \in Causes \ {"no"}
    BY <1>1 DEF Causes
  <1>3. /\ out \in Queues /\ in \in Queues /\ out' \in Queues /\ in' \in Queues
        /\ \A r \in Routers : kept[r] \in Nat
    <2>1. out \in Queues /\ in \in Queues /\ out' \in Queues /\ in' \in Queues
      BY DEF TypeOK, Queues
    <2>2. \A r \in Routers : kept[r] \in Nat
      BY Consts
    <2> QED  BY <2>1, <2>2
  <1>4. ASSUME NEW r \in Routers
        PROVE  /\ Len(out[s][r]) \in Nat /\ Len(tail(r)) = Len(out[s][r]) - kept[r]
               /\ \A x : x \in Range(tail(r)) <=>
                     \E i \in (kept[r] + 1)..Len(out[s][r]) : out[s][r][i] = x
               /\ \A x : x \in Range(out[s][r]) <=> \E i \in 1..Len(out[s][r]) : out[s][r][i] = x
               /\ \A x : x \in Range(out'[s][r]) <=> \E i \in 1..kept[r] : out[s][r][i] = x
               /\ \A x : x \notin Range(in'[s][r])
    <2>1. out[s][r] \in Seq(Packets) /\ Len(out[s][r]) \in Nat /\ kept[r] \in Nat
          /\ kept[r] <= Len(out[s][r])
      BY <1>1, <1>3, QueueTypes
    <2> DEFINE n == kept[r]
               l == Len(out[s][r])
               f == tail(r)
    <2>2. /\ f \in Seq(Packets) /\ Len(f) = l - n
          /\ \A i \in 1..(l - n) : f[i] = out[s][r][i + n]
      BY <2>1, Suffix
    <2>3. DOMAIN f = 1..(l - n)
      <3> HIDE DEF f
      <3> QED  BY <2>2, LenProperties
    <2>4. \A x : x \in Range(f) <=> \E i \in (n + 1)..l : out[s][r][i] = x
      <3> HIDE DEF f, n, l
      <3>1. \A x : x \in Range(f) <=> \E i \in 1..(l - n) : f[i] = x
        BY <2>3 DEF Range
      <3>2. n \in Nat /\ l \in Nat
        BY <2>1 DEF n, l
      <3>3. ASSUME NEW i \in 1..(l - n)
            PROVE  i + n \in (n + 1)..l /\ f[i] = out[s][r][i + n]
        BY <2>2, <3>2
      <3>4. ASSUME NEW i \in (n + 1)..l
            PROVE  i - n \in 1..(l - n) /\ f[i - n] = out[s][r][i]
        <4>1. i - n \in 1..(l - n) /\ (i - n) + n = i
          BY <3>2
        <4>2. f[i - n] = out[s][r][(i - n) + n]
          BY <2>2, <4>1
        <4> QED  BY <4>1, <4>2
      <3> QED  BY <3>1, <3>3, <3>4
    <2>5. \A x : x \in Range(out'[s][r]) <=> \E i \in 1..kept[r] : out[s][r][i] = x
      <3>1. Len(out'[s][r]) = kept[r] /\ \A i \in 1..kept[r] : out'[s][r][i] = out[s][r][i]
        BY <1>1
      <3>2. \A x : x \in Range(out'[s][r]) <=> \E i \in 1..Len(out'[s][r]) : out'[s][r][i] = x
        BY <1>3, InRange
      <3> QED  BY <3>1, <3>2
    <2>6. \A x : x \notin Range(in'[s][r])
      <3>1. Len(in'[s][r]) = 0
        BY <1>1, EmptySeq
      <3>2. \A x : x \in Range(in'[s][r]) <=> \E i \in 1..Len(in'[s][r]) : in'[s][r][i] = x
        BY <1>3, InRange
      <3> QED  BY <3>1, <3>2
    <2>7. \A x : x \in Range(out[s][r]) <=> \E i \in 1..Len(out[s][r]) : out[s][r][i] = x
      BY ZenonT(60), <1>3, InRange
    <2> QED  BY <2>1, <2>2, <2>4, <2>5, <2>6, <2>7
  <1> HIDE DEF tail
  <1>5. Remain(out', out) /\ Remain(in', in)
    <2>1. ASSUME NEW t \in Servers, NEW r \in Routers
          PROVE  Remains(out'[t][r], out[t][r]) /\ Remains(in'[t][r], in[t][r])
      <3>1. CASE t = s
        <4>1. \A i \in 1..Len(out'[s][r]) : i + 0 \in 1..Len(out[s][r]) /\ out'[s][r][i] = out[s][r][i + 0]
          BY <1>1, <1>3, <1>4
        <4>2. 1..Len(in'[s][r]) = {}
          <5>1. Len(in'[s][r]) = 0
            BY <1>1, EmptySeq
          <5> QED  BY <5>1
        <4> QED  BY <3>1, <4>1, <4>2 DEF Remains
      <3>2. CASE t # s
        <4>1. out'[t][r] = out[t][r] /\ in'[t][r] = in[t][r]
          BY <1>1, <3>2
        <4> QED  BY <1>3, <4>1, RemainsSame DEF Remain
      <3> QED  BY <3>1, <3>2
    <2> QED  BY <2>1 DEF Remain
  <1>6. Shrunk
    BY <1>5 DEF Shrunk, Ends
  <1>7. ASSUME NEW m \in Nat
        PROVE  m \in L <=> Left(out, out', m) \/ Left(in, in', m)
    <2>1. m \in L <=> \E r \in Routers : \E x \in Range(in[s][r]) \cup Range(tail(r)) :
                          x.kind = "msg" /\ x.val = m
      BY DEF Messages
    <2>2. OneSpot(out, m)
      BY Unique
    <2>3. ASSUME NEW r \in Routers, NEW x \in Range(tail(r)), x.kind = "msg", x.val = m
          PROVE  x \in Range(out[s][r]) \ Range(out'[s][r])
      <3>1. PICK i \in (kept[r] + 1)..Len(out[s][r]) : x = out[s][r][i]
        BY <1>4
      <3>2. i \in 1..Len(out[s][r]) /\ i > kept[r]
        BY <1>3, <1>4
      <3>3. x \in Range(out[s][r])
        BY <1>3, <3>1, <3>2, InRange
      <3>4. ASSUME x \in Range(out'[s][r])
            PROVE  FALSE
        <4>1. PICK k \in 1..kept[r] : x = out[s][r][k]
          BY ZenonT(60), <1>4, <3>4
        <4>2. k \in 1..Len(out[s][r]) /\ k <= kept[r]
          BY <1>1, <1>3, <1>4
        <4>3. k = i
          <5>1. /\ out[s][r][k].kind = "msg" /\ out[s][r][k].val = m
                /\ out[s][r][i].kind = "msg" /\ out[s][r][i].val = m
            BY <2>3, <3>1, <4>1
          <5> QED  BY <2>2, <3>2, <4>2, <5>1 DEF OneSpot
        <4> QED  BY <1>3, <1>4, <3>2, <4>2, <4>3
      <3> QED  BY <3>3, <3>4
    <2>4. ASSUME NEW t \in Servers, NEW r \in Routers, NEW x \in Range(out[t][r]) \ Range(out'[t][r])
          PROVE  t = s /\ x \in Range(tail(r))
      <3>1. t = s
        BY <1>1, <2>4
      <3>2. PICK i \in 1..Len(out[s][r]) : x = out[s][r][i]
        <4>1. x \in Range(out[s][r])
          BY <2>4, <3>1
        <4> QED  BY <1>4, <4>1
      <3>3. ~(i \in 1..kept[r])
        BY <1>4, <2>4, <3>1, <3>2
      <3>4. i \in (kept[r] + 1)..Len(out[s][r])
        BY <1>3, <1>4, <3>3
      <3> QED  BY <1>4, <3>1, <3>2, <3>4
    <2>5. ASSUME NEW t \in Servers, NEW r \in Routers, NEW x \in Range(in[t][r]) \ Range(in'[t][r])
          PROVE  t = s
      BY <1>1, <2>5
    <2>6. \A r \in Routers : Range(in[s][r]) \ Range(in'[s][r]) = Range(in[s][r])
      BY <1>4
    <2> QED  BY ZenonT(60), <2>1, <2>3, <2>4, <2>5, <2>6 DEF Left
  <1> HIDE DEF L
  <1> QED  BY <1>2, <1>6, <1>7, LosesAllKeeps

LEMMA RestartsKeeps ==
    ASSUME TypeOK, Sizes, TypeOK', Placed, Ordered, Accounted, NEW r \in Routers, RouterRestarts(r)
    PROVE  Placed' /\ Ordered' /\ Accounted'
  <1> DEFINE gone(s) == (Range(out[s][r]) \ Range(out'[s][r]))
                        \cup (Range(in[s][r]) \ Range(in'[s][r]))
             L == Messages(UNION {gone(s) : s \in Servers})
  <1>1. lost' = Lose(L, "router") /\ route' = route /\ handled' = handled
    BY DEF RouterRestarts
  <1>2. /\ out \in Queues /\ in \in Queues
        /\ \A s \in Servers, u \in Routers :
              u # r => out'[s][u] = out[s][u] /\ in'[s][u] = in[s][u]
    BY RestartQueues DEF TypeOK, Queues
  <1>3. ASSUME NEW s \in Servers, NEW u \in Routers
        PROVE  Remains(out'[s][u], out[s][u]) /\ Remains(in'[s][u], in[s][u])
    <2>1. CASE u # r
      <3>1. out'[s][u] = out[s][u] /\ in'[s][u] = in[s][u]
        BY <1>2, <2>1
      <3> QED  BY <1>2, <3>1, RemainsSame DEF Remain
    <2>2. CASE u = r
      <3>1. Len(out[s][r]) \in Nat /\ Len(in[s][r]) \in Nat
        BY <1>2, QueueTypes
      <3>2. PICK n \in Nat : /\ n <= Len(out[s][r]) /\ Len(out'[s][r]) = Len(out[s][r]) - n
                             /\ \A i \in 1..Len(out'[s][r]) : out'[s][r][i] = out[s][r][i + n]
        BY RestartQueues
      <3>3. \A i \in 1..Len(out'[s][r]) : i + n \in 1..Len(out[s][r])
        BY <3>1, <3>2
      <3>4. PICK k \in Nat : /\ k <= Len(in[s][r]) /\ Len(in'[s][r]) = k
                             /\ \A i \in 1..k : in'[s][r][i] = in[s][r][i]
        BY RestartQueues
      <3>5. \A i \in 1..Len(in'[s][r]) : i + 0 \in 1..Len(in[s][r]) /\ i + 0 = i
        BY <3>1, <3>4
      <3>6. Remains(out'[s][r], out[s][r])
        BY <3>2, <3>3 DEF Remains
      <3>7. Remains(in'[s][r], in[s][r])
        BY <3>4, <3>5 DEF Remains
      <3> QED  BY <2>2, <3>6, <3>7
    <2> QED  BY <2>1, <2>2
  <1>4. Shrunk
    BY <1>1, <1>3 DEF Shrunk, Remain
  <1>5. ASSUME NEW m \in Nat
        PROVE  m \in L <=> Left(out, out', m) \/ Left(in, in', m)
    <2>1. m \in L <=> \E s \in Servers : \E x \in gone(s) : x.kind = "msg" /\ x.val = m
      BY DEF Messages
    <2>2. ASSUME NEW s \in Servers, NEW u \in Routers, NEW x,
                 \/ x \in Range(out[s][u]) \ Range(out'[s][u])
                 \/ x \in Range(in[s][u]) \ Range(in'[s][u])
          PROVE  u = r
      BY <1>2, <2>2
    <2> QED  BY <2>1, <2>2 DEF Left
  <1>6. "router" \in Causes \ {"no"}
    BY DEF Causes
  <1> HIDE DEF L
  <1> QED  BY <1>1, <1>4, <1>5, <1>6, LosesAllKeeps

-----------------------------------------------------------------------------
(* Steps that move a message on.                                           *)

LEMMA SendKeeps ==
    ASSUME TypeOK, TypeOK', Placed, Ordered, Accounted,
           NEW s \in Servers, NEW t \in Servers, Send(s, t)
    PROVE  Placed' /\ Ordered' /\ Accounted'
  <1> DEFINE m == Len(route) + 1
  <1>1. /\ out \in Queues /\ Len(route) \in Nat /\ Len(route') = m /\ in' = in /\ handled' = handled
        /\ lost \in Seq(Causes) /\ Len(lost) = Len(route)
    <2>1. /\ out \in Queues /\ in' = in /\ handled' = handled /\ Len(lost) = Len(route)
          /\ route \in Seq(Routes) /\ lost \in Seq(Causes) /\ route' \in Seq(Routes)
      BY DEF TypeOK, Queues, Send
    <2>2. Len(route) \in Nat /\ Len(route') \in Nat
      BY <2>1, LenProperties
    <2>3. Len(route') = Len(route) + 1
      <3>1. PICK v \in 0..NRouters : route' = Append(route, [from |-> s, to |-> t, via |-> v])
        <4>1. \A r \in Routers : r \in 0..NRouters
          BY Consts DEF Routers
        <4>2. 0 \in 0..NRouters
          BY Consts
        <4> QED  BY <4>1, <4>2 DEF Send
      <3>2. [from |-> s, to |-> t, via |-> v] \in Routes
        BY DEF Routes
      <3> QED  BY <2>1, <3>1, <3>2, AppendProperties
    <2> QED  BY <2>1, <2>2, <2>3
  <1>2. Msg(t, m) \in Packets /\ Msg(t, m).kind = "msg" /\ Msg(t, m).val = m
    BY <1>1, PacketTypes
  <1>3. \/ /\ lost' = Append(lost, "no")
           /\ \A k : IsIn(out', k) <=> IsIn(out, k) \/ k = m
        \/ /\ lost' = Append(lost, "full")
           /\ \A k : IsIn(out', k) <=> IsIn(out, k)
    <2>1. CASE \E r \in Routers : out' = Put(out, s, r, Msg(t, m)) /\ lost' = Append(lost, "no")
      <3>1. PICK r \in Routers : out' = Put(out, s, r, Msg(t, m)) /\ lost' = Append(lost, "no")
        BY <2>1
      <3> HIDE DEF m
      <3>2. \A k : IsIn(out', k) <=> IsIn(out, k) \/ (Msg(t, m).kind = "msg" /\ Msg(t, m).val = k)
        BY <1>1, <1>2, <3>1, InPut
      <3> QED  BY <1>2, <3>1, <3>2
    <2>2. CASE lost' = Append(lost, "full") /\ out' = out
      BY <2>2
    <2> QED  BY <2>1, <2>2 DEF Send
  <1>4. \A k \in 1..m : k \in 1..Len(route) \/ k = m
    BY <1>1
  <1>5. ASSUME NEW cause \in {"no", "full"}, lost' = Append(lost, cause)
        PROVE  lost'[m] = cause /\ \A k \in 1..Len(route) : lost'[k] = lost[k] /\ k # m
    <2>1. cause \in Causes
      BY DEF Causes
    <2>2. lost'[Len(lost) + 1] = cause /\ \A k \in 1..Len(lost) : lost'[k] = lost[k]
      BY <1>1, <1>5, <2>1, AppendProperties
    <2>3. \A k \in 1..Len(route) : k # m
      BY <1>1
    <2> QED  BY <1>1, <2>2, <2>3
  <1> HIDE DEF m
  <1>6. ~IsIn(out, m) /\ ~IsIn(in, m) /\ ~IsHandled(m)
    <2>1. ~(m \in 1..Len(route))
      BY <1>1 DEF m
    <2>2. ~IsIn(out, m)
      <3>1. \A v \in Servers, u \in Routers : \A i \in 1..Len(out[v][u]) :
                out[v][u][i].kind = "msg" => out[v][u][i].val \in 1..Len(route)
        BY DEF Placed
      <3> QED  BY <2>1, <3>1 DEF IsIn
    <2>3. ~IsIn(in, m)
      <3>1. \A v \in Servers, u \in Routers : \A i \in 1..Len(in[v][u]) :
                in[v][u][i].kind = "msg" => in[v][u][i].val \in 1..Len(route)
        BY DEF Placed
      <3> QED  BY <2>1, <3>1 DEF IsIn
    <2>4. ~IsHandled(m)
      BY <2>1 DEF IsHandled, Placed
    <2> QED  BY <2>2, <2>3, <2>4
  <1>7. ASSUME NEW k \in 1..m
        PROVE  lost'[k] = "no" <=> IsIn(out', k) \/ IsIn(in, k) \/ IsHandled(k)
    <2>1. CASE k = m
      BY <1>3, <1>5, <1>6, <2>1
    <2>2. CASE k \in 1..Len(route)
      <3>1. lost[k] = "no" <=> IsIn(out, k) \/ IsIn(in, k) \/ IsHandled(k)
        BY <2>2 DEF Accounted
      <3>2. lost'[k] = lost[k] /\ k # m
        BY <1>3, <1>5, <2>2
      <3> QED  BY <1>3, <3>1, <3>2
    <2> QED  BY <1>4, <2>1, <2>2
  <1>8. \A k : IsIn(out, k)' = IsIn(out', k) /\ IsIn(in, k)' = IsIn(in, k)
               /\ IsHandled(k)' = IsHandled(k)
    BY <1>1 DEF IsIn, IsHandled
  <1>9. Accounted'
    BY <1>1, <1>7, <1>8 DEF Accounted
  <1> QED  BY <1>9, PlacedSend

LEMMA PassesKeeps ==
    ASSUME TypeOK, Sizes, TypeOK', Placed, Ordered, Accounted, NEW s \in Servers, NEW r \in Routers,
           PassesOn(s, r), lost' = lost
    PROVE  Placed' /\ Ordered' /\ Accounted'
  <1> DEFINE p == out[s][r][1]
  <1>1. /\ out \in Queues /\ in \in Queues /\ route' = route /\ handled' = handled
        /\ out' = Pop(out, s, r) /\ out[s][r] # <<>> /\ in' = Put(in, p.peer, r, Msg(s, p.val))
    BY DEF TypeOK, Queues, PassesOn, Taken
  <1>2. p \in Packets /\ p.kind = "msg"
    <2>1. Taken(s, r, "msg")
      BY DEF PassesOn
    <2>2. p \in Packets
      BY <2>1, TakenOut
    <2>3. Head(out[s][r]) = out[s][r][1] /\ Head(out[s][r]).kind = "msg"
      BY <2>1, TakenOut DEF Taken
    <2> QED  BY <2>2, <2>3
  <1> HIDE DEF p
  <1>3. p.peer \in Servers /\ p.val \in Nat
    BY <1>2 DEF Packets
  <1>4. Msg(s, p.val) \in Packets /\ Msg(s, p.val).kind = "msg" /\ Msg(s, p.val).val = p.val
    BY <1>3, PacketTypes
  <1>5. \A k : IsIn(out, k) <=> IsIn(out', k) \/ (p.kind = "msg" /\ p.val = k)
    BY <1>1, InPop DEF p
  <1>6. \A k : IsIn(in', k) <=> IsIn(in, k) \/ (Msg(s, p.val).kind = "msg" /\ Msg(s, p.val).val = k)
    BY <1>1, <1>3, <1>4, InPut
  <1>7. \A k : IsIn(out, k) \/ IsIn(in, k) <=> IsIn(out', k) \/ IsIn(in', k)
    BY <1>2, <1>4, <1>5, <1>6
  <1>8. \A k : IsIn(out, k)' = IsIn(out', k) /\ IsIn(in, k)' = IsIn(in', k)
               /\ IsHandled(k)' = IsHandled(k)
    BY <1>1 DEF IsIn, IsHandled
  <1>9. Accounted'
    BY <1>1, <1>7, <1>8 DEF Accounted
  <1> QED  BY <1>9, PlacedForwards

LEMMA HandleKeeps ==
    ASSUME TypeOK, Sizes, TypeOK', Placed, Ordered, Accounted, NEW s \in Servers, NEW r \in Routers,
           HandleMsg(s, r)
    PROVE  Placed' /\ Ordered' /\ Accounted'
  <1> DEFINE p == in[s][r][1]
  <1>1. /\ in \in Queues /\ route' = route /\ out' = out /\ lost' = lost
        /\ in' = Pop(in, s, r) /\ in[s][r] # <<>> /\ handled \in [Servers -> Seq(Nat)]
    BY DEF TypeOK, Queues, HandleMsg, Arrived
  <1>2. p \in Packets /\ p = Head(in[s][r]) /\ p.kind = "msg"
    BY <1>1, ArrivedIn DEF HandleMsg
  <1>3. handled' = [handled EXCEPT ![s] = Append(@, p.val)] /\ p.val \in Nat
    BY <1>2 DEF HandleMsg, Packets
  <1> HIDE DEF p
  <1>4. \A k : IsIn(in, k) <=> IsIn(in', k) \/ (p.kind = "msg" /\ p.val = k)
    BY <1>1, InPop DEF p
  <1>5. ASSUME NEW k
        PROVE  IsHandled(k)' <=> IsHandled(k) \/ k = p.val
    <2>1. /\ Len(handled[s]) \in Nat /\ Len(handled'[s]) = Len(handled[s]) + 1
          /\ handled'[s][Len(handled[s]) + 1] = p.val
          /\ \A i \in 1..Len(handled[s]) : handled'[s][i] = handled[s][i]
      <3>1. handled'[s] = Append(handled[s], p.val) /\ handled[s] \in Seq(Nat)
        BY <1>1, <1>3
      <3> QED  BY <1>3, <3>1, LenProperties, AppendProperties
    <2>2. \A t \in Servers : t # s => handled'[t] = handled[t]
      BY <1>1, <1>3
    <2>3. \A i \in 1..Len(handled'[s]) : i \in 1..Len(handled[s]) \/ i = Len(handled[s]) + 1
      BY <2>1
    <2>4. /\ \A i \in 1..Len(handled[s]) : i \in 1..Len(handled'[s])
          /\ Len(handled[s]) + 1 \in 1..Len(handled'[s])
      BY <2>1
    <2>5. ASSUME IsHandled(k)'
          PROVE  IsHandled(k) \/ k = p.val
      <3>1. PICK t \in Servers : \E i \in 1..Len(handled'[t]) : handled'[t][i] = k
        BY <2>5 DEF IsHandled
      <3>2. CASE t = s
        BY <2>1, <2>3, <3>1, <3>2 DEF IsHandled
      <3>3. CASE t # s
        BY <2>2, <3>1, <3>3 DEF IsHandled
      <3> QED  BY <3>2, <3>3
    <2>6. ASSUME IsHandled(k)
          PROVE  IsHandled(k)'
      <3>1. PICK t \in Servers : \E i \in 1..Len(handled[t]) : handled[t][i] = k
        BY <2>6 DEF IsHandled
      <3>2. CASE t = s
        BY <2>1, <2>4, <3>1, <3>2 DEF IsHandled
      <3>3. CASE t # s
        BY <2>2, <3>1, <3>3 DEF IsHandled
      <3> QED  BY <3>2, <3>3
    <2>7. k = p.val => IsHandled(k)'
      BY <2>1, <2>4 DEF IsHandled
    <2> QED  BY <2>5, <2>6, <2>7
  <1>6. \A k : IsIn(out, k)' = IsIn(out, k) /\ IsIn(in, k)' = IsIn(in', k)
    BY <1>1 DEF IsIn
  <1>7. \A k : (IsIn(in, k) \/ IsHandled(k)) <=> (IsIn(in, k)' \/ IsHandled(k)')
    BY <1>2, <1>4, <1>5, <1>6
  <1>8. Accounted'
    BY <1>1, <1>6, <1>7 DEF Accounted
  <1> QED  BY <1>8, PlacedHandle

-----------------------------------------------------------------------------
(* Every step.                                                             *)

\* A step that leaves the queues alone.
LEMMA CalmSame ==
    ASSUME UNCHANGED <<out, in, route, handled, lost>>
    PROVE  Calm
  BY DEF Calm, Harmless

LEMMA CalmConnect ==
    ASSUME NEW s \in Servers, Connect(s) \/ Disconnect(s)
    PROVE  Calm
  <1>1. /\ Start(s) \in Packets /\ Start(s).kind # "msg" /\ First \in Routers
        /\ Stop(s) \in Packets /\ Stop(s).kind # "msg"
    BY PacketTypes, Consts
  <1>2. CASE Connect(s)
    BY <1>1, <1>2 DEF Connect, Calm, Harmless
  <1>3. CASE Disconnect(s)
    <2>1. out' = out \/ \E r \in Routers : out' = Put(out, s, r, Stop(s))
      BY <1>3 DEF Disconnect
    <2>2. in' = in /\ UNCHANGED <<route, handled, lost>>
      BY <1>3 DEF Disconnect, history
    <2> QED  BY <1>1, <2>1, <2>2 DEF Calm, Harmless
  <1> QED  BY <1>2, <1>3

LEMMA CalmRouter ==
    ASSUME TypeOK, Sizes, NEW s \in Servers, NEW r \in Routers,
           RouterEchoes(s, r) \/ RouterSeesStop(s, r)
    PROVE  Calm
  <1>1. PICK kind \in {"start", "stop"} : Taken(s, r, kind)
    BY DEF RouterEchoes, RouterSeesStop
  <1>2. out[s][r] # <<>> /\ out' = Pop(out, s, r) /\ Head(out[s][r]).kind # "msg"
    BY <1>1 DEF Taken
  <1>3. Head(out[s][r]) = out[s][r][1] /\ out[s][r][1] \in Packets
    BY ZenonT(60), <1>1, TakenOut
  <1>4. Harmless(out, out')
    BY <1>2, <1>3 DEF Harmless
  <1>5. Harmless(in, in')
    <2>1. CASE in' = in
      BY <2>1 DEF Harmless
    <2>2. CASE RouterEchoes(s, r) /\ in' = Put(in, s, r, [Start(s) EXCEPT !.val = digi'[r]])
      <3>1. digi'[r] \in Nat
        <4>1. out[s][r][1].val \in Nat
          BY <1>3 DEF Packets
        <4>2. digi' = [digi EXCEPT ![r] = IF @ = 0 THEN out[s][r][1].val ELSE @]
          BY <1>3, <2>2 DEF RouterEchoes
        <4> QED  BY <4>1, <4>2 DEF TypeOK
      <3>2. /\ [Start(s) EXCEPT !.val = digi'[r]] \in Packets
            /\ [Start(s) EXCEPT !.val = digi'[r]].kind # "msg"
        BY <3>1, PacketTypes
      <3> QED  BY <2>2, <3>2 DEF Harmless
    <2> QED  BY <2>1, <2>2 DEF RouterEchoes, RouterSeesStop
  <1> QED  BY <1>4, <1>5 DEF Calm, RouterEchoes, RouterSeesStop, history

LEMMA StepKeeps ==
    ASSUME TypeOK, Sizes, TypeOK', Placed, Ordered, Accounted, [Next]_vars
    PROVE  Placed' /\ Ordered' /\ Accounted'
  <1>1. ASSUME NEW s \in Servers, Connect(s) \/ Disconnect(s)
        PROVE  Placed' /\ Ordered' /\ Accounted'
    BY <1>1, CalmConnect, CalmKeeps
  <1>2. ASSUME NEW s \in Servers, Finish(s) \/ Killed(s)
        PROVE  Placed' /\ Ordered' /\ Accounted'
    BY <1>2, GoneKeeps DEF Ends, Finish, Killed
  <1>3. ASSUME NEW s \in Servers, NEW t \in Servers, Send(s, t)
        PROVE  Placed' /\ Ordered' /\ Accounted'
    BY <1>3, SendKeeps
  <1>4. ASSUME NEW s \in Servers, NEW r \in Routers, Link(s, r) \/ Unlink(s, r)
        PROVE  Placed' /\ Ordered' /\ Accounted'
    BY <1>4, CalmSame, CalmKeeps DEF Link, Unlink, history
  <1>5. ASSUME NEW s \in Servers, NEW r \in Routers, RouterEchoes(s, r) \/ RouterSeesStop(s, r)
        PROVE  Placed' /\ Ordered' /\ Accounted'
    BY <1>5, CalmRouter, CalmKeeps
  <1>6. ASSUME NEW s \in Servers, NEW r \in Routers, RouterForwards(s, r)
        PROVE  Placed' /\ Ordered' /\ Accounted'
    <2> DEFINE p == out[s][r][1]
    <2>1. Taken(s, r, "msg") /\ route' = route /\ handled' = handled
      BY <1>6 DEF RouterForwards
    <2>2. CASE in' = Put(in, p.peer, r, Msg(s, p.val)) /\ lost' = lost
      <3>1. PassesOn(s, r)
        BY <2>1, <2>2 DEF PassesOn
      <3> QED  BY <2>2, <3>1, PassesKeeps
    <2>3. CASE in' = in /\ \E cause \in {"unknown", "dead", "full"} : lost' = Lose({p.val}, cause)
      <3>1. PICK cause \in {"unknown", "dead", "full"} : lost' = Lose({p.val}, cause)
        BY <2>3
      <3>2. cause \in Causes \ {"no"}
        BY DEF Causes
      <3>3. /\ out[s][r] # <<>> /\ out' = Pop(out, s, r)
            /\ Head(out[s][r]).kind = "msg" /\ Head(out[s][r]) = p
        BY <2>1, TakenOut DEF Taken
      <3>4. Drops(p.val)
        BY <2>1, <2>3, <3>1, <3>2, <3>3 DEF Drops
      <3> QED  BY <3>4, DropsKeeps
    <2>4. \/ in' = Put(in, p.peer, r, Msg(s, p.val)) /\ lost' = lost
          \/ in' = in /\ \E cause \in {"unknown", "dead", "full"} : lost' = Lose({p.val}, cause)
      BY <1>6, Forwarded
    <2> QED  BY <2>2, <2>3, <2>4
  <1>7. ASSUME NEW r \in Routers, RouterRestarts(r)
        PROVE  Placed' /\ Ordered' /\ Accounted'
    BY <1>7, RestartsKeeps
  <1>8. ASSUME NEW s \in Servers, BeginRead(s) \/ PassLimit(s) \/ PassEmpty(s)
        PROVE  Placed' /\ Ordered' /\ Accounted'
    <2>1. UNCHANGED <<out, in, route, handled, lost>>
      BY <1>8 DEF BeginRead, PassLimit, PassEmpty, network, history
    <2> QED  BY <2>1, CalmSame, CalmKeeps
  <1>9. ASSUME NEW s \in Servers, NEW r \in Routers, EchoArrives(s, r) \/ WrongVersion(s, r)
        PROVE  Placed' /\ Ordered' /\ Accounted'
    <2>1. CASE WrongVersion(s, r) /\ Gone(s)
      BY <2>1, GoneKeeps DEF Ends, WrongVersion
    <2>2. CASE /\ in[s][r] # <<>> /\ in' = Pop(in, s, r) /\ Head(in[s][r]).kind = "start"
               /\ UNCHANGED <<out, route, handled, lost>>
      <3>1. Head(in[s][r]) = in[s][r][1]
        BY <2>2, ArrivedIn
      <3>2. Calm
        BY <2>2, <3>1 DEF Calm, Harmless
      <3> QED  BY <3>2, CalmKeeps
    <2>3. WrongVersion(s, r) => Gone(s) \/ (in[s][r] # <<>> /\ in' = Pop(in, s, r)
            /\ Head(in[s][r]).kind = "start" /\ UNCHANGED <<out, route, handled, lost>>)
      BY DEF WrongVersion
    <2>4. EchoArrives(s, r) => in[s][r] # <<>> /\ in' = Pop(in, s, r)
            /\ Head(in[s][r]).kind = "start" /\ UNCHANGED <<out, route, handled, lost>>
      BY DEF EchoArrives, Arrived, history
    <2> QED  BY <1>9, <2>1, <2>2, <2>3, <2>4
  <1>10. ASSUME NEW s \in Servers, NEW r \in Routers, TooEarly(s, r)
         PROVE  Placed' /\ Ordered' /\ Accounted'
    <2>1. /\ in[s][r] # <<>> /\ in' = Pop(in, s, r) /\ Head(in[s][r]).kind = "msg"
          /\ lost' = Lose({Head(in[s][r]).val}, "early") /\ UNCHANGED <<out, route, handled>>
      BY <1>10 DEF TooEarly, Arrived
    <2>2. Head(in[s][r]) = in[s][r][1] /\ "early" \in Causes \ {"no"}
      BY <2>1, ArrivedIn DEF Causes
    <2>3. Drops(in[s][r][1].val)
      BY <2>1, <2>2 DEF Drops
    <2> QED  BY <2>3, DropsKeeps
  <1>11. ASSUME NEW s \in Servers, NEW r \in Routers, HandleMsg(s, r)
         PROVE  Placed' /\ Ordered' /\ Accounted'
    BY <1>11, HandleKeeps
  <1>12. CASE UNCHANGED vars
    BY <1>12, CalmSame, CalmKeeps DEF vars
  <1> QED
    BY <1>1, <1>2, <1>3, <1>4, <1>5, <1>6, <1>7, <1>8, <1>9, <1>10, <1>11, <1>12
    DEF Next, Read, RouterTakes

LEMMA InitMessages == Init => Placed /\ Ordered /\ Accounted
  <1> SUFFICES ASSUME Init
               PROVE  Placed /\ Ordered /\ Accounted
    OBVIOUS
  <1>1. \A s \in Servers, r \in Routers : 1..Len(out[s][r]) = {} /\ 1..Len(in[s][r]) = {}
    <2>1. ASSUME NEW s \in Servers, NEW r \in Routers
          PROVE  Len(out[s][r]) = 0 /\ Len(in[s][r]) = 0
      BY EmptySeq DEF Init, NoPackets
    <2> QED  BY <2>1
  <1>2. (\A s \in Servers : 1..Len(handled[s]) = {}) /\ 1..Len(route) = {}
    <2>1. Len(route) = 0 /\ \A s \in Servers : Len(handled[s]) = 0
      BY EmptySeq DEF Init
    <2> QED  BY <2>1
  <1>3. Placed /\ Accounted
    BY <1>1, <1>2 DEF Placed, Accounted
  <1>4. Ordered
    BY <1>1, <1>2 DEF Ordered, InQueue, InHandled, HandledBefore, InBeforeOut
  <1> QED  BY <1>3, <1>4

LEMMA MessagesInvariant == Spec => [](TypeOK /\ Sizes /\ Placed /\ Ordered /\ Accounted)
  <1> DEFINE MInv == TypeOK /\ Sizes /\ Placed /\ Ordered /\ Accounted
  <1>1. Init => MInv
    BY InitTypes, InitMessages
  <1>2. MInv /\ [Next]_vars => MInv'
    BY TypeKeeps, StepKeeps
  <1> QED  BY <1>1, <1>2, PTL DEF Spec

-----------------------------------------------------------------------------
(* The links implement lossy links that keep the order of each route.      *)

LEMMA LinksInit == Init => Links!Init
  <1>1. {e.to : e \in Routes} = Servers
    <2>1. ASSUME NEW s \in Servers
          PROVE  \E e \in Routes : e.to = s
      <3>1. [from |-> s, to |-> s, via |-> 0] \in Routes
        <4>1. 0 \in 0..NRouters
          BY Consts
        <4> QED  BY <4>1 DEF Routes
      <3> QED  BY <3>1
    <2>2. \A e \in Routes : e.to \in Servers
      BY DEF Routes
    <2> QED  BY <2>1, <2>2
  <1> QED  BY <1>1 DEF Init, Links!Init, Links!Ends

LEMMA LinksSend ==
    ASSUME TypeOK, NEW s \in Servers, NEW t \in Servers, Send(s, t)
    PROVE  \E e \in Routes : Links!Send(e)
  <1>1. PICK v \in 0..NRouters : route' = Append(route, [from |-> s, to |-> t, via |-> v])
    <2>1. 0 \in 0..NRouters /\ \A r \in Routers : r \in 0..NRouters
      BY Consts DEF Routers
    <2> QED  BY <2>1 DEF Send
  <1>2. [from |-> s, to |-> t, via |-> v] \in Routes
    BY DEF Routes
  <1>3. handled' = handled
    BY DEF Send
  <1> QED  BY <1>1, <1>2, <1>3 DEF Links!Send

LEMMA LinksHandle ==
    ASSUME TypeOK, Sizes, Placed, Ordered, NEW s \in Servers, NEW r \in Routers, HandleMsg(s, r)
    PROVE  \E m \in 1..Len(route) : Links!Handle(m)
  <1> DEFINE m == in[s][r][1].val
  <1>1. in[s][r] # <<>> /\ in' = Pop(in, s, r) /\ route' = route
    BY DEF HandleMsg, Arrived
  <1>2. 1 \in 1..Len(in[s][r]) /\ in[s][r][1].kind = "msg" /\ in[s][r][1] = Head(in[s][r])
    BY <1>1, ArrivedIn DEF HandleMsg
  <1>3. m \in 1..Len(route) /\ route[m].to = s
    <2>1. m \in 1..Len(route) /\ route[m] = [from |-> in[s][r][1].peer, to |-> s, via |-> r]
      BY <1>2 DEF Placed
    <2> QED  BY <2>1
  <1>4. handled' = [handled EXCEPT ![s] = Append(@, m)]
    BY <1>2 DEF HandleMsg
  <1>5. \A i \in 1..Len(handled[s]) : route[handled[s][i]] = route[m] => handled[s][i] < m
    BY <1>2 DEF Ordered, HandledBefore
  <1> HIDE DEF m
  <1>6. Links!Handle(m)
    BY <1>1, <1>3, <1>4, <1>5 DEF Links!Handle, Links!InOrder
  <1> QED  BY <1>3, <1>6

LEMMA LinksStep ==
    ASSUME TypeOK, Sizes, Placed, Ordered, [Next]_vars
    PROVE  [Links!Next]_Links!vars
  <1>1. ASSUME NEW s \in Servers, NEW t \in Servers, Send(s, t)
        PROVE  Links!Next
    BY <1>1, LinksSend DEF Links!Next
  <1>2. ASSUME NEW s \in Servers, NEW r \in Routers, HandleMsg(s, r)
        PROVE  Links!Next
    BY <1>2, LinksHandle DEF Links!Next
  <1>3. ASSUME NEW s \in Servers, Connect(s) \/ Disconnect(s) \/ Finish(s) \/ Killed(s)
                                  \/ BeginRead(s) \/ PassLimit(s) \/ PassEmpty(s)
        PROVE  UNCHANGED <<route, handled>>
    BY <1>3 DEF Connect, Disconnect, Finish, Killed, BeginRead, PassLimit, PassEmpty, history
  <1>4. ASSUME NEW s \in Servers, NEW r \in Routers,
               Link(s, r) \/ Unlink(s, r) \/ RouterEchoes(s, r) \/ RouterSeesStop(s, r)
               \/ RouterForwards(s, r) \/ EchoArrives(s, r) \/ WrongVersion(s, r) \/ TooEarly(s, r)
        PROVE  UNCHANGED <<route, handled>>
    BY <1>4 DEF Link, Unlink, RouterEchoes, RouterSeesStop, RouterForwards, EchoArrives,
                WrongVersion, TooEarly, history
  <1>5. ASSUME NEW r \in Routers, RouterRestarts(r)
        PROVE  UNCHANGED <<route, handled>>
    BY <1>5 DEF RouterRestarts
  <1>6. CASE UNCHANGED vars
    BY <1>6 DEF vars, Links!vars
  <1> QED
    BY <1>1, <1>2, <1>3, <1>4, <1>5, <1>6 DEF Next, Read, RouterTakes, Links!vars

\* The servers and routers, with all their queues, restarts and losses, are
\* links that lose messages but deliver none twice, none to another server,
\* and none before an earlier one of its route.
THEOREM Refinement == Spec => LinksSpec
  <1>1. Init => Links!Init
    BY LinksInit
  <1>2. TypeOK /\ Sizes /\ Placed /\ Ordered /\ [Next]_vars => [Links!Next]_Links!vars
    BY LinksStep
  <1> QED  BY <1>1, <1>2, MessagesInvariant, PTL DEF Spec, LinksSpec, Links!Spec

-----------------------------------------------------------------------------
(* Each message counted.                                                   *)

LEMMA AtMostOne ==
    ASSUME NEW S, \A a, b \in S : a = b
    PROVE  Cardinality(S) = IF S = {} THEN 0 ELSE 1
  <1>1. CASE S = {}
    BY <1>1, FS_EmptySet
  <1>2. CASE S # {}
    <2>1. PICK a : a \in S
      BY <1>2
    <2>2. S = {a}
      BY <2>1
    <2>3. Cardinality({a}) = 1
      BY FS_Singleton
    <2> QED  BY <1>2, <2>2, <2>3
  <1> QED  BY <1>1, <1>2

LEMMA EntriesCount ==
    ASSUME NEW q \in Queues, Short(q), NEW m, OneSpot(q, m)
    PROVE  Cardinality(Entries(q, "msg", m)) = IF IsIn(q, m) THEN 1 ELSE 0
  <1>1. \A e : e \in Entries(q, "msg", m) <=>
            /\ e \in Servers \X Routers \X (1..Hwm)
            /\ e[3] <= Len(q[e[1]][e[2]])
            /\ q[e[1]][e[2]][e[3]].kind = "msg" /\ q[e[1]][e[2]][e[3]].val = m
    BY DEF Entries
  <1>2. ASSUME NEW e \in Servers \X Routers \X (1..Hwm), e[3] <= Len(q[e[1]][e[2]])
        PROVE  e[1] \in Servers /\ e[2] \in Routers /\ e[3] \in 1..Len(q[e[1]][e[2]])
    <2>1. e[1] \in Servers /\ e[2] \in Routers /\ e[3] \in 1..Hwm
      OBVIOUS
    <2>2. Len(q[e[1]][e[2]]) \in Nat
      BY <2>1, QueueTypes
    <2> QED  BY <1>2, <2>1, <2>2, Consts
  <1>3. ASSUME NEW e \in Entries(q, "msg", m), NEW f \in Entries(q, "msg", m)
        PROVE  e = f
    <2>1. e[1] = f[1] /\ e[2] = f[2] /\ e[3] = f[3]
      <3>1. /\ e[1] \in Servers /\ e[2] \in Routers /\ e[3] \in 1..Len(q[e[1]][e[2]])
            /\ q[e[1]][e[2]][e[3]].kind = "msg" /\ q[e[1]][e[2]][e[3]].val = m
        BY <1>1, <1>2
      <3>2. /\ f[1] \in Servers /\ f[2] \in Routers /\ f[3] \in 1..Len(q[f[1]][f[2]])
            /\ q[f[1]][f[2]][f[3]].kind = "msg" /\ q[f[1]][f[2]][f[3]].val = m
        BY <1>1, <1>2
      <3> DEFINE s == e[1]
                 r == e[2]
                 i == e[3]
                 t == f[1]
                 u == f[2]
                 j == f[3]
      <3>3. /\ s \in Servers /\ r \in Routers /\ i \in 1..Len(q[s][r])
            /\ q[s][r][i].kind = "msg" /\ q[s][r][i].val = m
            /\ t \in Servers /\ u \in Routers /\ j \in 1..Len(q[t][u])
            /\ q[t][u][j].kind = "msg" /\ q[t][u][j].val = m
        BY <3>1, <3>2
      <3> HIDE DEF s, r, i, t, u, j
      <3>4. s = t /\ r = u /\ i = j
        BY <3>3 DEF OneSpot
      <3> QED  BY <3>4 DEF s, r, i, t, u, j
    <2>2. e \in Servers \X Routers \X (1..Hwm) /\ f \in Servers \X Routers \X (1..Hwm)
      BY <1>1
    <2> QED  BY <2>1, <2>2
  <1>4. ASSUME IsIn(q, m)
        PROVE  Entries(q, "msg", m) # {}
    <2>1. PICK s \in Servers, r \in Routers :
              \E i \in 1..Len(q[s][r]) : q[s][r][i].kind = "msg" /\ q[s][r][i].val = m
      BY <1>4 DEF IsIn
    <2>2. PICK i \in 1..Len(q[s][r]) : q[s][r][i].kind = "msg" /\ q[s][r][i].val = m
      BY <2>1
    <2>3. i \in 1..Hwm /\ i <= Len(q[s][r])
      <3>1. Len(q[s][r]) \in Nat /\ Len(q[s][r]) <= Hwm
        BY QueueTypes DEF Short
      <3> QED  BY <3>1, Consts
    <2> DEFINE e == <<s, r, i>>
    <2>4. e \in Servers \X Routers \X (1..Hwm) /\ e[1] = s /\ e[2] = r /\ e[3] = i
      BY <2>3
    <2> HIDE DEF e
    <2> QED  BY <1>1, <2>2, <2>3, <2>4
  <1>5. ASSUME NEW e \in Entries(q, "msg", m)
        PROVE  IsIn(q, m)
    BY <1>1, <1>2 DEF IsIn
  <1> QED  BY <1>3, <1>4, <1>5, AtMostOne

LEMMA HandlingsCount ==
    ASSUME TypeOK, Placed, Ordered, NEW m \in Nat
    PROVE  /\ Cardinality(Handlings(m)) = IF IsHandled(m) THEN 1 ELSE 0
           /\ \A e \in Handlings(m) : e[1] = route[m].to
  <1>1. \A s \in Servers : DOMAIN handled[s] = 1..Len(handled[s])
    <2>1. \A s \in Servers : handled[s] \in Seq(Nat)
      BY DEF TypeOK
    <2> QED  BY <2>1, LenProperties
  <1>2. ASSUME NEW e \in Handlings(m)
        PROVE  /\ e = <<e[1], e[2]>> /\ e[1] \in Servers
               /\ e[2] \in 1..Len(handled[e[1]]) /\ handled[e[1]][e[2]] = m
    <2>1. PICK s \in Servers : e \in {s} \X {i \in DOMAIN handled[s] : handled[s][i] = m}
      BY DEF Handlings
    <2>2. e[1] = s /\ e[2] \in DOMAIN handled[s] /\ handled[s][e[2]] = m /\ e = <<e[1], e[2]>>
      BY <2>1
    <2> QED  BY <1>1, <2>2
  <1>3. ASSUME NEW e \in Handlings(m), NEW f \in Handlings(m)
        PROVE  e = f
    <2>1. e[1] = f[1] /\ e[2] = f[2]
      BY <1>2, Unique
    <2> QED  BY <1>2, <2>1
  <1>4. ASSUME IsHandled(m)
        PROVE  Handlings(m) # {}
    <2>1. PICK s \in Servers : \E i \in 1..Len(handled[s]) : handled[s][i] = m
      BY <1>4 DEF IsHandled
    <2>2. PICK i \in DOMAIN handled[s] : handled[s][i] = m
      BY <1>1, <2>1
    <2>3. <<s, i>> \in {s} \X {k \in DOMAIN handled[s] : handled[s][k] = m}
      BY <2>2
    <2> QED  BY <2>3 DEF Handlings
  <1>5. ASSUME NEW e \in Handlings(m)
        PROVE  IsHandled(m) /\ e[1] = route[m].to
    <2>1. IsHandled(m)
      BY <1>2 DEF IsHandled
    <2>2. e[1] = route[m].to
      BY <1>2 DEF Placed
    <2> QED  BY <2>1, <2>2
  <1>6. Handlings(m) # {} <=> IsHandled(m)
    BY <1>4, <1>5
  <1>7. Cardinality(Handlings(m)) = IF Handlings(m) = {} THEN 0 ELSE 1
    BY <1>3, AtMostOne
  <1> QED  BY <1>5, <1>6, <1>7

\* Each message is in one place, in one queue or with the script it was sent
\* to, or it is lost, through whatever ends, is killed or starts again.
THEOREM Accounting == Spec => []MessagesAccounted
  <1>1. ASSUME TypeOK, Sizes, Placed, Ordered, Accounted
        PROVE  MessagesAccounted
    <2> SUFFICES ASSUME NEW m \in 1..Len(route)
                 PROVE  /\ Cardinality(Entries(out, "msg", m)) + Cardinality(Entries(in, "msg", m))
                           + Cardinality(Handlings(m)) + (IF lost[m] = "no" THEN 0 ELSE 1) = 1
                        /\ \A e \in Handlings(m) : e[1] = route[m].to
      BY DEF MessagesAccounted
    <2>1. m \in Nat /\ out \in Queues /\ in \in Queues /\ Short(out) /\ Short(in)
      <3>1. Len(route) \in Nat
        BY <1>1, LenProperties DEF TypeOK
      <3> QED  BY <1>1, <3>1 DEF TypeOK, Queues, Sizes
    <2>2. /\ OneSpot(out, m) /\ OneSpot(in, m)
          /\ ~(IsIn(out, m) /\ IsIn(in, m))
          /\ ~(IsIn(out, m) /\ IsHandled(m)) /\ ~(IsIn(in, m) /\ IsHandled(m))
      BY <1>1, <2>1, Unique
    <2>3. /\ Cardinality(Entries(out, "msg", m)) = IF IsIn(out, m) THEN 1 ELSE 0
          /\ Cardinality(Entries(in, "msg", m)) = IF IsIn(in, m) THEN 1 ELSE 0
      BY <2>1, <2>2, EntriesCount
    <2>4. /\ Cardinality(Handlings(m)) = IF IsHandled(m) THEN 1 ELSE 0
          /\ \A e \in Handlings(m) : e[1] = route[m].to
      BY <1>1, <2>1, HandlingsCount
    <2>5. lost[m] = "no" <=> IsIn(out, m) \/ IsIn(in, m) \/ IsHandled(m)
      BY <1>1 DEF Accounted
    <2> QED  BY <2>2, <2>3, <2>4, <2>5
  <1> QED  BY <1>1, MessagesInvariant, PTL

-----------------------------------------------------------------------------
(* Messages to servers that were there.                                    *)

\* The servers of the known messages stay, and so do their links.
Stays ==
    /\ known' = known /\ route' = route /\ up \subseteq up' /\ serverok_ \subseteq serverok_'
    /\ \A m \in known : lost'[m] \in {"no", "full"}
    /\ \A s \in up, r \in Routers : <<s, r>> \in linked => <<s, r>> \in linked'

LEMMA StaysConnected ==
    ASSUME TypeOK, Connected, Stays
    PROVE  Connected'
  <1>1. ASSUME NEW m \in known'
        PROVE  /\ lost'[m] \in {"no", "full"}
               /\ route'[m].via \in Routers
               /\ <<route'[m].from, route'[m].via>> \in linked'
               /\ <<route'[m].to, route'[m].via>> \in linked'
               /\ route'[m].from \in up' /\ route'[m].to \in serverok_'
    <2>1. m \in known /\ route'[m] = route[m]
      BY <1>1 DEF Stays
    <2>2. /\ route[m].via \in Routers
          /\ <<route[m].from, route[m].via>> \in linked /\ <<route[m].to, route[m].via>> \in linked
          /\ route[m].from \in up /\ route[m].to \in serverok_
      BY <2>1 DEF Connected
    <2>3. route[m].to \in up
      BY <2>2 DEF TypeOK
    <2> QED  BY <2>1, <2>2, <2>3 DEF Stays
  <1> QED  BY <1>1 DEF Connected

LEMMA ConnectedKeeps ==
    ASSUME TypeOK, Sizes, Placed, Connected, [Next]_vars
    PROVE  Connected'
  <1>0. /\ \A m \in known : lost[m] \in {"no", "full"}
        /\ known \subseteq 1..Len(route) /\ lost \in Seq(Causes) /\ Len(lost) = Len(route)
    BY DEF Connected, TypeOK
  <1>1. ASSUME NEW s \in Servers, Connect(s) \/ Disconnect(s)
                                  \/ BeginRead(s) \/ PassLimit(s) \/ PassEmpty(s)
        PROVE  Connected'
    <2>1. Stays
      BY <1>0, <1>1 DEF Stays, Connect, Disconnect, BeginRead, PassLimit, PassEmpty, history, network
    <2> QED  BY <2>1, StaysConnected
  <1>2. ASSUME known' = {}
        PROVE  Connected'
    BY <1>2 DEF Connected
  <1>3. ASSUME NEW s \in Servers, Finish(s) \/ Killed(s)
        PROVE  Connected'
    BY <1>2, <1>3 DEF Finish, Killed, Gone
  <1>4. ASSUME NEW s \in Servers, NEW t \in Servers, Send(s, t)
        PROVE  Connected'
    <2> DEFINE n == Len(route) + 1
    <2>1. \E v \in 0..NRouters, cause \in Causes :
            /\ route' = Append(route, [from |-> s, to |-> t, via |-> v])
            /\ lost' = Append(lost, cause)
            /\ \/ known' = known
               \/ /\ v \in Routers /\ cause = "no" /\ known' = known \cup {n}
                  /\ {s, t} \X {v} \subseteq linked /\ t \in serverok_
      <3>1. 0 \in 0..NRouters /\ (\A r \in Routers : r \in 0..NRouters) /\ {"no", "full"} \subseteq Causes
        BY Consts DEF Routers, Causes
      <3>2. CASE \E r \in Routers :
                    /\ route' = Append(route, [from |-> s, to |-> t, via |-> r])
                    /\ lost' = Append(lost, "no")
                    /\ known' = IF {s, t} \X {r} \subseteq linked /\ t \in serverok_
                                THEN known \cup {n} ELSE known
        BY <3>1, <3>2
      <3>3. CASE /\ route' = Append(route, [from |-> s, to |-> t, via |-> 0])
                 /\ lost' = Append(lost, "full") /\ known' = known
        BY <3>1, <3>3
      <3> QED  BY <1>4, <3>2, <3>3 DEF Send
    <2>2. PICK v \in 0..NRouters, cause \in Causes :
            /\ route' = Append(route, [from |-> s, to |-> t, via |-> v])
            /\ lost' = Append(lost, cause)
            /\ \/ known' = known
               \/ /\ v \in Routers /\ cause = "no" /\ known' = known \cup {n}
                  /\ {s, t} \X {v} \subseteq linked /\ t \in serverok_
      BY <2>1
    <2>3. route \in Seq(Routes) /\ [from |-> s, to |-> t, via |-> v] \in Routes
      BY DEF TypeOK, Routes
    <2>4. /\ route'[n] = [from |-> s, to |-> t, via |-> v] /\ lost'[n] = cause
          /\ \A m \in 1..Len(route) : route'[m] = route[m] /\ lost'[m] = lost[m]
      BY <1>0, <2>2, <2>3, AppendProperties
    <2>5. s \in up /\ up' = up /\ serverok_' = serverok_ /\ linked' = linked
      BY <1>4 DEF Send, procs
    <2> HIDE DEF n
    <2>6. ASSUME NEW m \in known'
          PROVE  /\ lost'[m] \in {"no", "full"}
                 /\ route'[m].via \in Routers
                 /\ <<route'[m].from, route'[m].via>> \in linked
                 /\ <<route'[m].to, route'[m].via>> \in linked
                 /\ route'[m].from \in up /\ route'[m].to \in serverok_
      <3>1. CASE m \in known
        <4>1. route'[m] = route[m] /\ lost'[m] = lost[m]
          BY <1>0, <2>4, <3>1
        <4> QED  BY <3>1, <4>1 DEF Connected
      <3>2. CASE m \notin known
        <4>1. /\ v \in Routers /\ cause = "no" /\ m = n
              /\ {s, t} \X {v} \subseteq linked /\ t \in serverok_
          BY <2>2, <2>6, <3>2
        <4>2. <<s, v>> \in linked /\ <<t, v>> \in linked
          BY <4>1
        <4>3. route'[m].from = s /\ route'[m].to = t /\ route'[m].via = v /\ lost'[m] = "no"
          BY <2>4, <4>1
        <4> QED  BY <2>5, <4>1, <4>2, <4>3
      <3> QED  BY <3>1, <3>2
    <2> QED  BY <2>5, <2>6 DEF Connected
  <1>5. ASSUME NEW s \in Servers, NEW r \in Routers,
               Link(s, r) \/ RouterEchoes(s, r) \/ RouterSeesStop(s, r)
               \/ EchoArrives(s, r) \/ HandleMsg(s, r)
        PROVE  Connected'
    <2>1. Stays
      BY <1>0, <1>5 DEF Stays, Link, RouterEchoes, RouterSeesStop, EchoArrives, HandleMsg, procs, history
    <2> QED  BY <2>1, StaysConnected
  <1>6. ASSUME NEW s \in Servers, NEW r \in Routers, Unlink(s, r)
        PROVE  Connected'
    <2>1. \A v \in up, u \in Routers : <<v, u>> \in linked => <<v, u>> \in linked'
      BY <1>6 DEF Unlink
    <2>2. Stays
      BY <1>0, <1>6, <2>1 DEF Stays, Unlink, procs, history
    <2> QED  BY <2>2, StaysConnected
  <1>7. ASSUME NEW s \in Servers, NEW r \in Routers, RouterForwards(s, r)
        PROVE  Connected'
    <2> DEFINE p == out[s][r][1]
    <2>1. /\ Taken(s, r, "msg") /\ known' = known /\ route' = route /\ up' = up
          /\ serverok_' = serverok_ /\ linked' = linked
      BY <1>7 DEF RouterForwards, procs
    <2>2. 1 \in 1..Len(out[s][r]) /\ p.kind = "msg"
      <3>1. 1 \in 1..Len(out[s][r]) /\ Head(out[s][r]) = p
        BY ZenonT(60), <2>1, TakenOut
      <3> QED  BY <2>1, <3>1 DEF Taken
    <2>3. route[p.val].to = p.peer /\ route[p.val].via = r
      <3>1. route[p.val] = [from |-> s, to |-> p.peer, via |-> r]
        BY <2>2 DEF Placed
      <3> QED  BY <3>1
    <2>4. CASE lost' = lost
      <3>1. Stays
        BY <1>0, <2>1, <2>4 DEF Stays
      <3> QED  BY <3>1, StaysConnected
    <2>5. CASE \E cause \in {"unknown", "dead", "full"} :
                  /\ cause # "full" => p.peer \notin up \/ <<p.peer, r>> \notin linked
                  /\ lost' = Lose({p.val}, cause)
      <3>1. PICK cause \in {"unknown", "dead", "full"} :
                  /\ cause # "full" => p.peer \notin up \/ <<p.peer, r>> \notin linked
                  /\ lost' = Lose({p.val}, cause)
        BY <2>5
      <3>2. cause \in Causes
        BY DEF Causes
      <3>3. \A m \in 1..Len(lost) : lost'[m] = IF m \in {p.val} THEN cause ELSE lost[m]
        BY <1>0, <3>1, <3>2, Losses
      <3>4. p.val \in known => cause = "full"
        <4>1. p.val \in known => <<p.peer, r>> \in linked /\ p.peer \in serverok_
          BY <2>3 DEF Connected
        <4> QED  BY <3>1, <4>1 DEF TypeOK
      <3>5. \A m \in known : lost'[m] \in {"no", "full"}
        BY <1>0, <3>3, <3>4
      <3>6. Stays
        BY <2>1, <3>5 DEF Stays
      <3> QED  BY <3>6, StaysConnected
    <2>6. \/ lost' = lost
          \/ \E cause \in {"unknown", "dead", "full"} :
                  /\ cause # "full" => p.peer \notin up \/ <<p.peer, r>> \notin linked
                  /\ lost' = Lose({p.val}, cause)
      BY <1>7, Forwarded
    <2> QED  BY <2>4, <2>5, <2>6
  <1>8. ASSUME NEW r \in Routers, RouterRestarts(r)
        PROVE  Connected'
    BY <1>2, <1>8 DEF RouterRestarts
  <1>9. ASSUME NEW s \in Servers, NEW r \in Routers, WrongVersion(s, r)
        PROVE  Connected'
    <2>1. CASE Gone(s)
      BY <1>2, <2>1 DEF Gone
    <2>2. CASE serverok_' = serverok_ \cup {s} /\ UNCHANGED <<up, lost, known>>
      <3>1. Stays
        BY <1>0, <1>9, <2>2 DEF Stays, WrongVersion
      <3> QED  BY <3>1, StaysConnected
    <2> QED  BY <1>9, <2>1, <2>2 DEF WrongVersion
  <1>10. ASSUME NEW s \in Servers, NEW r \in Routers, TooEarly(s, r)
         PROVE  Connected'
    <2> DEFINE m == in[s][r][1].val
    <2>1. /\ in[s][r] # <<>> /\ in' = Pop(in, s, r) /\ s \notin serverok_
          /\ Head(in[s][r]).kind = "msg" /\ lost' = Lose({Head(in[s][r]).val}, "early")
          /\ UNCHANGED <<known, route, up, serverok_, linked>>
      BY <1>10 DEF TooEarly, Arrived
    <2>2. 1 \in 1..Len(in[s][r]) /\ Head(in[s][r]) = in[s][r][1]
      BY <2>1, ArrivedIn
    <2>3. route[m].to = s
      <3>1. route[m] = [from |-> in[s][r][1].peer, to |-> s, via |-> r]
        BY <2>1, <2>2 DEF Placed
      <3> QED  BY <3>1
    <2>4. m \notin known
      BY <2>1, <2>3 DEF Connected
    <2>5. \A k \in 1..Len(lost) : lost'[k] = IF k \in {m} THEN "early" ELSE lost[k]
      <3>1. "early" \in Causes
        BY DEF Causes
      <3> QED  BY <1>0, <2>1, <2>2, <3>1, Losses
    <2>6. \A k \in known : lost'[k] \in {"no", "full"}
      BY <1>0, <2>4, <2>5
    <2>7. Stays
      BY <2>1, <2>6 DEF Stays
    <2> QED  BY <2>7, StaysConnected
  <1>11. CASE UNCHANGED vars
    <2>1. Stays
      BY <1>0, <1>11 DEF Stays, vars
    <2> QED  BY <2>1, StaysConnected
  <1> QED
    BY <1>1, <1>3, <1>4, <1>5, <1>6, <1>7, <1>8, <1>9, <1>10, <1>11 DEF Next, Read, RouterTakes

\* As long as nothing ends, a message between servers that were there is
\* neither refused by a router nor thrown away as too early: it can only find
\* a full queue.
THEOREM NotRefused == Spec => []KnownNotRefused
  <1>1. Init => Connected
    BY DEF Init, Connected
  <1>2. TypeOK /\ Sizes /\ Placed /\ Connected /\ [Next]_vars => Connected'
    BY ConnectedKeeps
  <1>3. Connected => KnownNotRefused
    BY DEF Connected, KnownNotRefused
  <1> QED  BY <1>1, <1>2, <1>3, MessagesInvariant, PTL DEF Spec

-----------------------------------------------------------------------------
(* The handshake.                                                          *)

\* A queue of a server, before and after a step, has the same START in it.
SameStart(q, p, s) ==
    (HasStart(p, s) <=> HasStart(q, s)) /\ (OneStart(q, s) => OneStart(p, s))

\* Nothing happens to the handshake of a server.
Steady(s) ==
    /\ SameStart(out, out', s) /\ SameStart(in, in', s)
    /\ s \in serverok_' <=> s \in serverok_
    /\ startLost'[s] = startLost[s]

LEMMA SteadyKeeps ==
    ASSUME NEW s \in Servers, Shaken(s), Steady(s)
    PROVE  Shaken(s)'
  BY DEF Shaken, Steady, SameStart

LEMMA Untouched ==
    ASSUME NEW q, NEW p, NEW s \in Servers, \A r \in Routers : p[s][r] = q[s][r]
    PROVE  SameStart(q, p, s)
  BY DEF SameStart, HasStart, OneStart

LEMMA PutOther ==
    ASSUME NEW q \in Queues, NEW s \in Servers, NEW r \in Routers, NEW x \in Packets,
           x.kind # "start", NEW t \in Servers
    PROVE  SameStart(q, Put(q, s, r, x), t)
  <1> DEFINE p == Put(q, s, r, x)
  <1>1. ASSUME NEW u \in Routers
        PROVE  /\ \A i \in 1..Len(q[t][u]) : i \in 1..Len(p[t][u]) /\ p[t][u][i] = q[t][u][i]
               /\ \A i \in 1..Len(p[t][u]) : p[t][u][i].kind = "start" =>
                     i \in 1..Len(q[t][u]) /\ p[t][u][i] = q[t][u][i]
    BY SMTT(30), PutEntries
  <1> HIDE DEF p
  <1>2. HasStart(p, t) <=> HasStart(q, t)
    BY SMTT(30), <1>1 DEF HasStart
  <1>3. ASSUME OneStart(q, t), NEW u \in Routers, NEW v \in Routers,
               NEW i \in 1..Len(p[t][u]), NEW j \in 1..Len(p[t][v]),
               p[t][u][i].kind = "start", p[t][v][j].kind = "start"
        PROVE  u = v /\ i = j
    <2>1. i \in 1..Len(q[t][u]) /\ q[t][u][i].kind = "start"
      BY <1>1, <1>3
    <2>2. j \in 1..Len(q[t][v]) /\ q[t][v][j].kind = "start"
      BY <1>1, <1>3
    <2> QED  BY <1>3, <2>1, <2>2 DEF OneStart
  <1>4. OneStart(q, t) => OneStart(p, t)
    BY ZenonT(60), <1>3 DEF OneStart
  <1> QED  BY <1>2, <1>4 DEF SameStart, p

LEMMA PopOther ==
    ASSUME NEW q \in Queues, NEW s \in Servers, NEW r \in Routers, q[s][r] # <<>>,
           NEW t \in Servers, t = s => q[s][r][1].kind # "start"
    PROVE  SameStart(q, Pop(q, s, r), t)
  <1> DEFINE p == Pop(q, s, r)
  <1>1. CASE t # s
    <2>1. \A u \in Routers : p[t][u] = q[t][u]
      BY <1>1, PopFrom
    <2> HIDE DEF p
    <2>2. SameStart(q, p, t)
      BY <2>1, Untouched
    <2> QED  BY <2>2 DEF p
  <1>2. CASE t = s
    <2>1. ASSUME NEW u \in Routers, u # r
          PROVE  p[s][u] = q[s][u]
      BY <2>1, PopFrom
    <2>2. /\ \A i \in 1..Len(p[s][r]) : i + 1 \in 1..Len(q[s][r]) /\ p[s][r][i] = q[s][r][i + 1]
          /\ \A i \in 1..Len(q[s][r]) :
                i = 1 \/ (i - 1 \in 1..Len(p[s][r]) /\ p[s][r][i - 1] = q[s][r][i])
      BY PopEntries
    <2> HIDE DEF p
    <2>3. HasStart(p, s) => HasStart(q, s)
      BY <2>1, <2>2 DEF HasStart
    <2>4. HasStart(q, s) => HasStart(p, s)
      BY SMTT(30), <1>2, <2>1, <2>2 DEF HasStart
    <2>5. ASSUME OneStart(q, s), NEW u \in Routers, NEW v \in Routers,
                 NEW i \in 1..Len(p[s][u]), NEW j \in 1..Len(p[s][v]),
                 p[s][u][i].kind = "start", p[s][v][j].kind = "start"
          PROVE  u = v /\ i = j
      <3> DEFINE k == IF u = r THEN i + 1 ELSE i
                 l == IF v = r THEN j + 1 ELSE j
      <3>1. k \in 1..Len(q[s][u]) /\ q[s][u][k] = p[s][u][i]
        BY <2>1, <2>2
      <3>2. l \in 1..Len(q[s][v]) /\ q[s][v][l] = p[s][v][j]
        BY <2>1, <2>2
      <3> HIDE DEF k, l
      <3>3. q[s][u][k].kind = "start" /\ q[s][v][l].kind = "start" /\ OneStart(q, s)
        BY <2>5, <3>1, <3>2
      <3>4. u = v /\ k = l
        BY SMTT(30), <3>1, <3>2, <3>3 DEF OneStart
      <3>5. i = j
        BY <3>4 DEF k, l
      <3> QED  BY <3>4, <3>5
    <2>6. OneStart(q, s) => OneStart(p, s)
      BY SMTT(30), <2>5 DEF OneStart
    <2> QED  BY <1>2, <2>3, <2>4, <2>6 DEF SameStart, p
  <1> QED  BY <1>1, <1>2

LEMMA PutStart ==
    ASSUME NEW q \in Queues, NEW s \in Servers, NEW r \in Routers, NEW x \in Packets,
           x.kind = "start", ~HasStart(q, s)
    PROVE  /\ HasStart(Put(q, s, r, x), s) /\ OneStart(Put(q, s, r, x), s)
           /\ \A t \in Servers : t # s => SameStart(q, Put(q, s, r, x), t)
  <1> DEFINE p == Put(q, s, r, x)
  <1>1. /\ Len(q[s][r]) + 1 \in 1..Len(p[s][r]) /\ p[s][r][Len(q[s][r]) + 1] = x
        /\ \A u \in Routers : \A i \in 1..Len(p[s][u]) : p[s][u][i].kind = "start" =>
              u = r /\ i = Len(q[s][r]) + 1
    <2>1. Len(q[s][r]) + 1 \in 1..Len(p[s][r]) /\ p[s][r][Len(q[s][r]) + 1] = x
      BY PutEntries
    <2>2. ASSUME NEW u \in Routers, NEW i \in 1..Len(p[s][u]), p[s][u][i].kind = "start"
          PROVE  u = r /\ i = Len(q[s][r]) + 1
      <3>1. \/ i \in 1..Len(q[s][u]) /\ p[s][u][i] = q[s][u][i]
            \/ u = r /\ i = Len(q[s][u]) + 1
        BY PutEntries
      <3> QED  BY <2>2, <3>1 DEF HasStart
    <2> QED  BY <2>1, <2>2
  <1>2. \A t \in Servers : t # s => \A u \in Routers : p[t][u] = q[t][u]
    BY PutIn
  <1> HIDE DEF p
  <1>3. HasStart(p, s) /\ OneStart(p, s)
    <2>1. HasStart(p, s)
      BY <1>1 DEF HasStart
    <2>2. OneStart(p, s)
      BY <1>1 DEF OneStart
    <2> QED  BY <2>1, <2>2
  <1>4. \A t \in Servers : t # s => SameStart(q, p, t)
    BY <1>2, Untouched
  <1> QED  BY <1>3, <1>4 DEF p

LEMMA NoStart ==
    ASSUME NEW q, NEW s, ~HasStart(q, s)
    PROVE  OneStart(q, s)
  BY DEF HasStart, OneStart

LEMMA PopStart ==
    ASSUME NEW q \in Queues, NEW s \in Servers, NEW r \in Routers, q[s][r] # <<>>,
           q[s][r][1].kind = "start", OneStart(q, s)
    PROVE  HasStart(q, s) /\ ~HasStart(Pop(q, s, r), s)
  <1> DEFINE p == Pop(q, s, r)
  <1>1. 1 \in 1..Len(q[s][r])
    BY PopEntries
  <1>2. HasStart(q, s)
    BY <1>1 DEF HasStart
  <1>3. ASSUME NEW u \in Routers, NEW i \in 1..Len(p[s][u])
        PROVE  p[s][u][i].kind # "start"
    <2>1. PICK k \in 1..Len(q[s][u]) : p[s][u][i] = q[s][u][k] /\ (u = r => k # 1)
      BY PopShifts
    <2> HIDE DEF p
    <2> QED  BY <1>1, <2>1 DEF OneStart
  <1> HIDE DEF p
  <1>4. ~HasStart(p, s)
    BY <1>3 DEF HasStart
  <1> QED  BY <1>2, <1>4 DEF p

\* What a restart leaves of the queues of a server at that router.
Partly(q, p, s, r) ==
    /\ \A u \in Routers : u # r => p[s][u] = q[s][u]
    /\ \E d \in Nat : \A i \in 1..Len(p[s][r]) :
          i + d \in 1..Len(q[s][r]) /\ p[s][r][i] = q[s][r][i + d]

LEMMA StartLeft ==
    ASSUME NEW q \in Queues, NEW p \in Queues, NEW s \in Servers, NEW r \in Routers,
           OneStart(q, s), Partly(q, p, s, r)
    PROVE  /\ OneStart(p, s) /\ (HasStart(p, s) => HasStart(q, s))
           /\ (\E x \in Range(q[s][r]) \ Range(p[s][r]) : x.kind = "start")
                <=> HasStart(q, s) /\ ~HasStart(p, s)
  <1>0. \A u \in Routers : u # r => p[s][u] = q[s][u]
    BY DEF Partly
  <1> PICK d \in Nat : \A i \in 1..Len(p[s][r]) :
          i + d \in 1..Len(q[s][r]) /\ p[s][r][i] = q[s][r][i + d]
    BY DEF Partly
  <1>1. HasStart(p, s) => HasStart(q, s)
    BY <1>0 DEF HasStart
  <1>2. ASSUME NEW u \in Routers, NEW v \in Routers,
               NEW i \in 1..Len(p[s][u]), NEW j \in 1..Len(p[s][v]),
               p[s][u][i].kind = "start", p[s][v][j].kind = "start"
        PROVE  u = v /\ i = j
    <2> DEFINE k == IF u = r THEN i + d ELSE i
               l == IF v = r THEN j + d ELSE j
    <2>1. k \in 1..Len(q[s][u]) /\ q[s][u][k].kind = "start"
      BY <1>0, <1>2
    <2>2. l \in 1..Len(q[s][v]) /\ q[s][v][l].kind = "start"
      BY <1>0, <1>2
    <2> HIDE DEF k, l
    <2>3. u = v /\ k = l
      BY <2>1, <2>2 DEF OneStart
    <2>4. i \in Int /\ j \in Int
      OBVIOUS
    <2>5. i = j
      BY <2>3, <2>4 DEF k, l
    <2> QED  BY <2>3, <2>5
  <1>3. OneStart(p, s)
    BY <1>2 DEF OneStart
  <1>4. /\ \A x : x \in Range(q[s][r]) <=> \E i \in 1..Len(q[s][r]) : q[s][r][i] = x
        /\ \A x : x \in Range(p[s][r]) <=> \E i \in 1..Len(p[s][r]) : p[s][r][i] = x
    BY InRange
  <1>5. ASSUME NEW x \in Range(q[s][r]) \ Range(p[s][r]), x.kind = "start"
        PROVE  HasStart(q, s) /\ ~HasStart(p, s)
    <2>1. PICK k \in 1..Len(q[s][r]) : q[s][r][k] = x
      BY <1>4
    <2>2. HasStart(q, s)
      BY <1>5, <2>1 DEF HasStart
    <2>3. ASSUME NEW u \in Routers, NEW i \in 1..Len(p[s][u]), p[s][u][i].kind = "start"
          PROVE  FALSE
      <3>1. CASE u # r
        <4>1. i \in 1..Len(q[s][u]) /\ q[s][u][i].kind = "start"
          BY <1>0, <2>3, <3>1
        <4> QED  BY <1>5, <2>1, <3>1, <4>1 DEF OneStart
      <3>2. CASE u = r
        <4>1. i + d \in 1..Len(q[s][r]) /\ p[s][r][i] = q[s][r][i + d]
          BY <2>3, <3>2
        <4>2. i + d = k
          BY <1>5, <2>1, <2>3, <3>2, <4>1 DEF OneStart
        <4>3. p[s][r][i] = x
          BY <2>1, <4>1, <4>2
        <4> QED  BY <1>4, <3>2, <4>3
      <3> QED  BY <3>1, <3>2
    <2> QED  BY <2>2, <2>3 DEF HasStart
  <1>6. ASSUME HasStart(q, s), ~HasStart(p, s)
        PROVE  \E x \in Range(q[s][r]) \ Range(p[s][r]) : x.kind = "start"
    <2>1. PICK u \in Routers : \E i \in 1..Len(q[s][u]) : q[s][u][i].kind = "start"
      BY <1>6 DEF HasStart
    <2>2. u = r
      BY <1>0, <1>6, <2>1 DEF HasStart
    <2>3. PICK i \in 1..Len(q[s][r]) : q[s][r][i].kind = "start"
      BY <2>1, <2>2
    <2>4. q[s][r][i] \in Range(q[s][r])
      BY <1>4
    <2>5. ASSUME q[s][r][i] \in Range(p[s][r])
          PROVE  FALSE
      <3>1. PICK j \in 1..Len(p[s][r]) : p[s][r][j] = q[s][r][i]
        BY <1>4, <2>5
      <3>2. p[s][r][j].kind = "start"
        BY <2>3, <3>1
      <3> QED  BY <1>6, <3>2 DEF HasStart
    <2> QED  BY <2>3, <2>4, <2>5
  <1> QED  BY <1>1, <1>3, <1>5, <1>6

LEMMA HandshakeRestarts ==
    ASSUME TypeOK, Sizes, Handshake, NEW r \in Routers, RouterRestarts(r)
    PROVE  Handshake'
  <1> DEFINE gone(s) == (Range(out[s][r]) \ Range(out'[s][r]))
                        \cup (Range(in[s][r]) \ Range(in'[s][r]))
  <1>1. /\ up' = up /\ serverok_' = serverok_
        /\ \A s \in Servers : startLost'[s] =
              IF \E p \in gone(s) : p.kind = "start" THEN "router" ELSE startLost[s]
    BY DEF RouterRestarts, procs
  <1> HIDE DEF gone
  <1>2. ASSUME NEW s \in up
        PROVE  Shaken(s)'
    <2>1. /\ s \in Servers /\ Shaken(s) /\ out \in Queues /\ in \in Queues
          /\ Len(out[s][r]) \in Nat /\ Len(in[s][r]) \in Nat
      BY QueueTypes DEF TypeOK, Queues, Handshake
    <2>2. /\ out' \in Queues /\ in' \in Queues
          /\ \A u \in Routers : u # r => out'[s][u] = out[s][u]
          /\ \A u \in Routers : u # r => in'[s][u] = in[s][u]
      BY <2>1, RestartQueues
    <2>3. PICK n \in Nat : /\ n <= Len(out[s][r]) /\ Len(out'[s][r]) = Len(out[s][r]) - n
                           /\ \A i \in 1..Len(out'[s][r]) : out'[s][r][i] = out[s][r][i + n]
      BY <2>1, RestartQueues
    <2>4. \A i \in 1..Len(out'[s][r]) :
              i + n \in 1..Len(out[s][r]) /\ out'[s][r][i] = out[s][r][i + n]
      BY SMTT(30), <2>1, <2>3
    <2> Partly(out, out', s, r)
      BY <2>2, <2>4 DEF Partly
    <2>5. PICK k \in Nat : /\ k <= Len(in[s][r]) /\ Len(in'[s][r]) = k
                           /\ \A i \in 1..k : in'[s][r][i] = in[s][r][i]
      BY <2>1, RestartQueues
    <2>6. \A i \in 1..Len(in'[s][r]) :
              i + 0 \in 1..Len(in[s][r]) /\ in'[s][r][i] = in[s][r][i + 0]
      BY <2>1, <2>5
    <2> Partly(in, in', s, r)
      <3>1. 0 \in Nat
        OBVIOUS
      <3> QED  BY <2>2, <2>6, <3>1 DEF Partly
    <2>7. OneStart(out, s) /\ OneStart(in, s)
      BY <2>1 DEF Shaken
    <2>8. /\ OneStart(out', s) /\ (HasStart(out', s) => HasStart(out, s))
          /\ (\E x \in Range(out[s][r]) \ Range(out'[s][r]) : x.kind = "start")
                <=> HasStart(out, s) /\ ~HasStart(out', s)
      BY <2>1, <2>2, <2>7, StartLeft
    <2>9. /\ OneStart(in', s) /\ (HasStart(in', s) => HasStart(in, s))
          /\ (\E x \in Range(in[s][r]) \ Range(in'[s][r]) : x.kind = "start")
                <=> HasStart(in, s) /\ ~HasStart(in', s)
      BY <2>1, <2>2, <2>7, StartLeft
    <2>10. (\E x \in gone(s) : x.kind = "start") <=>
              \/ HasStart(out, s) /\ ~HasStart(out', s)
              \/ HasStart(in, s) /\ ~HasStart(in', s)
      <3>1. (\E x \in gone(s) : x.kind = "start") <=>
              \/ \E x \in Range(out[s][r]) \ Range(out'[s][r]) : x.kind = "start"
              \/ \E x \in Range(in[s][r]) \ Range(in'[s][r]) : x.kind = "start"
        BY DEF gone
      <3> QED  BY <2>8, <2>9, <3>1
    <2>11. startLost'[s] = IF \/ HasStart(out, s) /\ ~HasStart(out', s)
                              \/ HasStart(in, s) /\ ~HasStart(in', s)
                           THEN "router" ELSE startLost[s]
      BY <1>1, <2>1, <2>10
    <2> QED  BY <1>1, <2>1, <2>8, <2>9, <2>11 DEF Shaken
  <1> QED  BY <1>1, <1>2 DEF Handshake

LEMMA HandshakeGone ==
    ASSUME TypeOK, Sizes, Handshake, NEW s \in Servers, Gone(s), startLost' = startLost
    PROVE  Handshake'
  <1>1. up' = up \ {s} /\ serverok_' = serverok_ \ {s}
    BY DEF Gone
  <1>2. ASSUME NEW t \in up'
        PROVE  Shaken(t)'
    <2>1. t # s /\ t \in Servers /\ Shaken(t)
      BY <1>1, <1>2 DEF TypeOK, Handshake
    <2>2. \A r \in Routers : out'[t][r] = out[t][r] /\ in'[t][r] = in[t][r]
      BY <2>1, GoneQueues
    <2>3. SameStart(out, out', t) /\ SameStart(in, in', t)
      BY <2>1, <2>2, Untouched
    <2>4. Steady(t)
      BY <1>1, <2>1, <2>3 DEF Steady
    <2> QED  BY <2>1, <2>4, SteadyKeeps
  <1> QED  BY <1>2 DEF Handshake

LEMMA HandshakeConnect ==
    ASSUME TypeOK, Sizes, Handshake, NEW s \in Servers, Connect(s)
    PROVE  Handshake'
  <1>1. /\ s \notin up /\ up' = up \cup {s} /\ out' = Put(out, s, First, Start(s))
        /\ startLost' = [startLost EXCEPT ![s] = "no"] /\ in' = in /\ serverok_' = serverok_
    BY DEF Connect
  <1>2. /\ out \in Queues /\ First \in Routers /\ Start(s) \in Packets /\ Start(s).kind = "start"
    BY PacketTypes, Consts DEF TypeOK, Queues
  <1>3. ~HasStart(out, s) /\ ~HasStart(in, s)
    <2>1. \A r \in Routers : Len(out[s][r]) = 0 /\ Len(in[s][r]) = 0
      BY TypeConnect
    <2> QED  BY <2>1 DEF HasStart
  <1>4. /\ HasStart(out', s) /\ OneStart(out', s)
        /\ \A t \in Servers : t # s => SameStart(out, out', t)
    BY <1>1, <1>2, <1>3, PutStart
  <1>5. Shaken(s)'
    <2>1. s \notin serverok_ /\ startLost'[s] = "no"
      BY <1>1 DEF TypeOK
    <2>2. OneStart(in, s)
      BY <1>3, NoStart
    <2> QED  BY <1>1, <1>3, <1>4, <2>1, <2>2 DEF Shaken
  <1>6. ASSUME NEW t \in up
        PROVE  Shaken(t)'
    <2>1. t # s /\ t \in Servers /\ Shaken(t) /\ startLost'[t] = startLost[t]
      BY <1>1 DEF TypeOK, Handshake
    <2>2. SameStart(in, in', t)
      BY <1>1 DEF SameStart
    <2>3. Steady(t)
      BY <1>1, <1>4, <2>1, <2>2 DEF Steady
    <2> QED  BY <2>1, <2>3, SteadyKeeps
  <1> QED  BY <1>1, <1>5, <1>6 DEF Handshake

LEMMA HandshakeEchoes ==
    ASSUME TypeOK, Sizes, Handshake, NEW s \in Servers, NEW r \in Routers, RouterEchoes(s, r)
    PROVE  Handshake'
  <1>1. Taken(s, r, "start") /\ up' = up /\ serverok_' = serverok_
    BY DEF RouterEchoes, procs
  <1>2. /\ out \in Queues /\ in \in Queues /\ out[s][r] # <<>> /\ out' = Pop(out, s, r)
        /\ out[s][r][1].kind = "start"
    BY <1>1, TakenOut DEF TypeOK, Queues, Taken
  <1>3. \A t \in Servers : t # s => SameStart(out, out', t)
    BY <1>2, PopOther
  <1>4. \/ s \in up /\ startLost' = startLost
           /\ \E x \in Packets : x.kind = "start" /\ in' = Put(in, s, r, x)
        \/ in' = in /\ startLost' = [startLost EXCEPT ![s] = "full"]
    <2>1. CASE s \in up /\ Room(in, s, r)
      <3> DEFINE x == [Start(s) EXCEPT !.val = digi'[r]]
      <3>1. digi'[r] \in Nat
        <4>1. Head(out[s][r]).val \in Nat
          <5>1. Head(out[s][r]) = out[s][r][1] /\ out[s][r][1] \in Packets
            BY ZenonT(60), <1>1, TakenOut
          <5>2. out[s][r][1].val \in Nat
            BY <5>1 DEF Packets
          <5> QED  BY <5>1, <5>2
        <4>2. digi' = [digi EXCEPT ![r] = IF @ = 0 THEN Head(out[s][r]).val ELSE @]
          BY DEF RouterEchoes
        <4> QED  BY <4>1, <4>2 DEF TypeOK
      <3>2. x \in Packets /\ x.kind = "start"
        BY <3>1, PacketTypes
      <3>3. in' = Put(in, s, r, x) /\ startLost' = startLost
        BY <2>1 DEF RouterEchoes
      <3> HIDE DEF x
      <3> QED  BY <2>1, <3>2, <3>3
    <2>2. CASE ~(s \in up /\ Room(in, s, r))
      BY <2>2 DEF RouterEchoes
    <2> QED  BY <2>1, <2>2
  <1>5. ASSUME NEW t \in up, t # s
        PROVE  Shaken(t)'
    <2>1. t \in Servers /\ Shaken(t) /\ startLost'[t] = startLost[t]
      BY <1>4, <1>5 DEF TypeOK, Handshake
    <2>2. SameStart(in, in', t)
      <3>1. CASE in' = in
        BY <3>1 DEF SameStart
      <3>2. CASE \E x \in Packets : x.kind = "start" /\ in' = Put(in, s, r, x)
        <4>1. \A u \in Routers : in'[t][u] = in[t][u]
          BY <1>2, <1>5, <2>1, <3>2, PutIn
        <4> QED  BY <2>1, <4>1, Untouched
      <3> QED  BY <1>4, <3>1, <3>2
    <2>3. SameStart(out, out', t)
      BY <1>3, <1>5, <2>1
    <2>4. Steady(t)
      BY <1>1, <2>1, <2>2, <2>3 DEF Steady
    <2> QED  BY <2>1, <2>4, SteadyKeeps
  <1>6. ASSUME s \in up
        PROVE  Shaken(s)'
    <2>1. Shaken(s)
      BY <1>6 DEF Handshake
    <2>2. HasStart(out, s) /\ ~HasStart(out', s)
      <3>1. OneStart(out, s)
        BY <2>1 DEF Shaken
      <3> QED  BY <1>2, <3>1, PopStart
    <2>3. ~HasStart(in, s) /\ s \notin serverok_ /\ startLost[s] = "no"
      BY <2>1, <2>2 DEF Shaken
    <2>4. OneStart(out', s)
      BY <2>2, NoStart
    <2>5. CASE /\ startLost' = startLost
               /\ \E x \in Packets : x.kind = "start" /\ in' = Put(in, s, r, x)
      <3>1. HasStart(in', s) /\ OneStart(in', s)
        BY <1>2, <2>3, <2>5, PutStart
      <3> QED  BY <1>1, <2>2, <2>3, <2>4, <2>5, <3>1 DEF Shaken
    <2>6. CASE in' = in /\ startLost' = [startLost EXCEPT ![s] = "full"]
      <3>1. startLost'[s] = "full"
        BY <2>6 DEF TypeOK
      <3>2. OneStart(in, s)
        BY <2>3, NoStart
      <3> QED  BY <1>1, <2>2, <2>3, <2>4, <2>6, <3>1, <3>2 DEF Shaken
    <2> QED  BY <1>4, <2>5, <2>6
  <1> QED  BY <1>1, <1>5, <1>6 DEF Handshake

\* The echo has come, with the version it should have or another one.
EchoRead(s, r) ==
    /\ in[s][r] # <<>> /\ in' = Pop(in, s, r) /\ Head(in[s][r]).kind = "start"
    /\ serverok_' = serverok_ \cup {s}
    /\ up' = up /\ out' = out /\ startLost' = startLost

LEMMA HandshakeRead ==
    ASSUME TypeOK, Sizes, Handshake, NEW s \in Servers, NEW r \in Routers, s \in up, EchoRead(s, r)
    PROVE  Handshake'
  <1>1. /\ in \in Queues /\ in[s][r] # <<>> /\ in' = Pop(in, s, r) /\ in[s][r][1].kind = "start"
        /\ serverok_' = serverok_ \cup {s} /\ up' = up /\ out' = out /\ startLost' = startLost
    <2>1. in[s][r] # <<>> /\ in' = Pop(in, s, r)
      BY DEF EchoRead
    <2>2. Head(in[s][r]) = in[s][r][1]
      BY <2>1, ArrivedIn
    <2> QED  BY <2>1, <2>2 DEF EchoRead, TypeOK, Queues
  <1>2. ASSUME NEW t \in up, t # s
        PROVE  Shaken(t)'
    <2>1. t \in Servers /\ Shaken(t)
      BY DEF TypeOK, Handshake
    <2>2. SameStart(in, in', t)
      BY <1>1, <1>2, <2>1, PopOther
    <2>3. SameStart(out, out', t)
      BY <1>1 DEF SameStart
    <2>4. Steady(t)
      BY <1>1, <1>2, <2>2, <2>3 DEF Steady
    <2> QED  BY <2>1, <2>4, SteadyKeeps
  <1>3. Shaken(s)'
    <2>1. Shaken(s)
      BY DEF Handshake
    <2>2. HasStart(in, s) /\ ~HasStart(in', s)
      <3>1. OneStart(in, s)
        BY <2>1 DEF Shaken
      <3> QED  BY <1>1, <3>1, PopStart
    <2>3. ~HasStart(out, s) /\ OneStart(out, s) /\ startLost[s] = "no"
      BY <2>1, <2>2 DEF Shaken
    <2>4. OneStart(in', s)
      BY <2>2, NoStart
    <2> QED  BY <1>1, <2>2, <2>3, <2>4 DEF Shaken
  <1> QED  BY <1>1, <1>2, <1>3 DEF Handshake

\* A step that moves packets of other kinds only.
Elsewhere ==
    /\ \A s \in Servers : SameStart(out, out', s) /\ SameStart(in, in', s)
    /\ up' = up /\ serverok_' = serverok_ /\ startLost' = startLost

LEMMA ElsewhereKeeps ==
    ASSUME TypeOK, Handshake, Elsewhere
    PROVE  Handshake'
  <1>1. ASSUME NEW s \in up
        PROVE  Shaken(s)'
    <2>1. s \in Servers /\ Shaken(s)
      BY DEF TypeOK, Handshake
    <2>2. Steady(s)
      BY <2>1 DEF Elsewhere, Steady
    <2> QED  BY <2>1, <2>2, SteadyKeeps
  <1> QED  BY <1>1 DEF Elsewhere, Handshake

LEMMA Same ==
    ASSUME NEW q, NEW s
    PROVE  SameStart(q, q, s)
  BY DEF SameStart

LEMMA HandshakeKeeps ==
    ASSUME TypeOK, Sizes, Handshake, [Next]_vars
    PROVE  Handshake'
  <1>0. out \in Queues /\ in \in Queues
    BY DEF TypeOK, Queues
  <1>1. ASSUME NEW s \in Servers, Connect(s)
        PROVE  Handshake'
    BY <1>1, HandshakeConnect
  <1>2. ASSUME NEW s \in Servers, Finish(s) \/ Killed(s)
        PROVE  Handshake'
    <2>1. Gone(s) /\ startLost' = startLost
      BY <1>2 DEF Finish, Killed
    <2> QED  BY <2>1, HandshakeGone
  <1>3. ASSUME NEW s \in Servers, NEW t \in Servers, Send(s, t)
        PROVE  Handshake'
    <2>1. /\ out' = out \/ \E r \in Routers : out' = Put(out, s, r, Msg(t, Len(route) + 1))
          /\ in' = in /\ up' = up /\ serverok_' = serverok_ /\ startLost' = startLost
      BY <1>3 DEF Send, procs
    <2>2. /\ Msg(t, Len(route) + 1) \in Packets
          /\ Msg(t, Len(route) + 1).kind # "start"
      <3>1. Len(route) + 1 \in Nat
        BY LenProperties DEF TypeOK
      <3>2. "msg" # "start"
        OBVIOUS
      <3> QED  BY <3>1, <3>2, PacketTypes
    <2>3. \A v \in Servers : SameStart(out, out', v)
      BY <1>0, <2>1, <2>2, PutOther, Same
    <2>4. Elsewhere
      BY <2>1, <2>3, Same DEF Elsewhere
    <2> QED  BY <2>4, ElsewhereKeeps
  <1>4. ASSUME NEW s \in Servers, Disconnect(s)
        PROVE  Handshake'
    <2>1. /\ out' = out \/ \E r \in Routers : out' = Put(out, s, r, Stop(s))
          /\ in' = in /\ up' = up /\ serverok_' = serverok_ /\ startLost' = startLost
      BY <1>4 DEF Disconnect, history
    <2>2. Stop(s) \in Packets /\ Stop(s).kind # "start"
      <3>1. "stop" # "start"
        OBVIOUS
      <3> QED  BY <3>1, PacketTypes
    <2>3. \A v \in Servers : SameStart(out, out', v)
      BY <1>0, <2>1, <2>2, PutOther, Same
    <2>4. Elsewhere
      BY <2>1, <2>3, Same DEF Elsewhere
    <2> QED  BY <2>4, ElsewhereKeeps
  <1>5. ASSUME UNCHANGED <<up, serverok_, out, in, startLost>>
        PROVE  Handshake'
    <2>1. Elsewhere
      BY <1>5, Same DEF Elsewhere
    <2> QED  BY <2>1, ElsewhereKeeps
  <1>6. ASSUME NEW s \in Servers, NEW r \in Routers, Link(s, r) \/ Unlink(s, r)
        PROVE  Handshake'
    BY <1>5, <1>6 DEF Link, Unlink, procs, history
  <1>7. ASSUME NEW s \in Servers, BeginRead(s) \/ PassLimit(s) \/ PassEmpty(s)
        PROVE  Handshake'
    BY <1>5, <1>7 DEF BeginRead, PassLimit, PassEmpty, network, history
  <1>8. ASSUME NEW s \in Servers, NEW r \in Routers, RouterEchoes(s, r)
        PROVE  Handshake'
    BY <1>8, HandshakeEchoes
  <1>9. ASSUME NEW s \in Servers, NEW r \in Routers, Taken(s, r, "stop") \/ Taken(s, r, "msg")
        PROVE  \A v \in Servers : SameStart(out, out', v)
    <2>1. out[s][r] # <<>> /\ out' = Pop(out, s, r) /\ Head(out[s][r]).kind # "start"
      BY <1>9 DEF Taken
    <2>2. Head(out[s][r]) = out[s][r][1]
      BY <1>9, TakenOut
    <2> QED  BY <1>0, <2>1, <2>2, PopOther
  <1>10. ASSUME NEW s \in Servers, NEW r \in Routers, RouterSeesStop(s, r)
         PROVE  Handshake'
    <2>1. /\ Taken(s, r, "stop") /\ in' = in /\ up' = up /\ serverok_' = serverok_
          /\ startLost' = startLost
      BY <1>10 DEF RouterSeesStop, procs, history
    <2>2. Elsewhere
      BY <1>9, <2>1, Same DEF Elsewhere
    <2> QED  BY <2>2, ElsewhereKeeps
  <1>11. ASSUME NEW s \in Servers, NEW r \in Routers, RouterForwards(s, r)
         PROVE  Handshake'
    <2> DEFINE p == out[s][r][1]
    <2>1. /\ Taken(s, r, "msg") /\ up' = up /\ serverok_' = serverok_
          /\ startLost' = startLost
      BY <1>11 DEF RouterForwards, procs
    <2>2. p \in Packets
      BY <2>1, TakenOut
    <2>3. p.peer \in Servers /\ Msg(s, p.val) \in Packets /\ Msg(s, p.val).kind # "start"
      <3>1. p.peer \in Servers /\ p.val \in Nat
        BY <2>2 DEF Packets
      <3>2. "msg" # "start"
        OBVIOUS
      <3> QED  BY <3>1, <3>2, PacketTypes
    <2>4. in' = in \/ in' = Put(in, p.peer, r, Msg(s, p.val))
      BY <1>11, Forwarded
    <2> HIDE DEF p
    <2>5. \A v \in Servers : SameStart(in, in', v)
      BY <1>0, <2>3, <2>4, PutOther, Same
    <2>6. Elsewhere
      BY <1>9, <2>1, <2>5 DEF Elsewhere
    <2> QED  BY <2>6, ElsewhereKeeps
  <1>12. ASSUME NEW r \in Routers, RouterRestarts(r)
         PROVE  Handshake'
    BY <1>12, HandshakeRestarts
  <1>13. ASSUME NEW s \in Servers, NEW r \in Routers, EchoArrives(s, r) \/ WrongVersion(s, r)
         PROVE  Handshake'
    <2>1. s \in up
      BY <1>13 DEF EchoArrives, WrongVersion, Arrived, TypeOK
    <2>2. CASE Gone(s) /\ startLost' = startLost
      BY <2>2, HandshakeGone
    <2>3. CASE EchoRead(s, r)
      BY <2>1, <2>3, HandshakeRead
    <2>4. EchoArrives(s, r) => EchoRead(s, r)
      BY DEF EchoArrives, Arrived, EchoRead, history
    <2>5. WrongVersion(s, r) => EchoRead(s, r) \/ (Gone(s) /\ startLost' = startLost)
      BY DEF WrongVersion, EchoRead
    <2> QED  BY <1>13, <2>2, <2>3, <2>4, <2>5
  <1>14. ASSUME NEW s \in Servers, NEW r \in Routers, TooEarly(s, r) \/ HandleMsg(s, r)
         PROVE  Handshake'
    <2>1. /\ in[s][r] # <<>> /\ in' = Pop(in, s, r) /\ Head(in[s][r]).kind = "msg"
          /\ up' = up /\ serverok_' = serverok_ /\ out' = out /\ startLost' = startLost
      BY <1>14 DEF TooEarly, HandleMsg, Arrived
    <2>2. Head(in[s][r]) = in[s][r][1] /\ "msg" # "start"
      BY <2>1, ArrivedIn
    <2>3. \A v \in Servers : SameStart(in, in', v)
      BY <1>0, <2>1, <2>2, PopOther
    <2>4. Elsewhere
      BY <2>1, <2>3, Same DEF Elsewhere
    <2> QED  BY <2>4, ElsewhereKeeps
  <1>15. CASE UNCHANGED vars
    BY <1>5, <1>15 DEF vars
  <1> QED
    BY <1>1, <1>2, <1>3, <1>4, <1>6, <1>7, <1>8, <1>10, <1>11, <1>12, <1>13, <1>14, <1>15
    DEF Next, Read, RouterTakes

LEMMA StartsCount ==
    ASSUME NEW q \in Queues, Short(q), NEW s \in Servers, OneStart(q, s)
    PROVE  Cardinality(Starts(q[s])) = IF HasStart(q, s) THEN 1 ELSE 0
  <1>1. \A e : e \in Starts(q[s]) <=>
            /\ e \in Routers \X (1..Hwm) /\ e[2] <= Len(q[s][e[1]])
            /\ q[s][e[1]][e[2]].kind = "start"
    BY DEF Starts
  <1>2. ASSUME NEW e \in Starts(q[s])
        PROVE  /\ e = <<e[1], e[2]>> /\ e[1] \in Routers /\ e[2] \in 1..Len(q[s][e[1]])
               /\ q[s][e[1]][e[2]].kind = "start"
    <2>1. /\ e = <<e[1], e[2]>> /\ e[1] \in Routers /\ e[2] \in 1..Hwm
          /\ e[2] <= Len(q[s][e[1]]) /\ q[s][e[1]][e[2]].kind = "start"
      BY <1>1
    <2>2. Len(q[s][e[1]]) \in Nat
      BY <2>1, QueueTypes
    <2> QED  BY <2>1, <2>2, Consts
  <1>3. ASSUME NEW e \in Starts(q[s]), NEW f \in Starts(q[s])
        PROVE  e = f
    <2>1. e[1] = f[1] /\ e[2] = f[2]
      BY <1>2 DEF OneStart
    <2> QED  BY <1>2, <2>1
  <1>4. ASSUME HasStart(q, s)
        PROVE  Starts(q[s]) # {}
    <2>1. PICK r \in Routers : \E i \in 1..Len(q[s][r]) : q[s][r][i].kind = "start"
      BY <1>4 DEF HasStart
    <2>2. PICK i \in 1..Len(q[s][r]) : q[s][r][i].kind = "start"
      BY <2>1
    <2>3. Len(q[s][r]) \in Nat /\ Len(q[s][r]) <= Hwm
      BY QueueTypes DEF Short
    <2>4. i \in 1..Hwm /\ i <= Len(q[s][r])
      BY <2>3, Consts
    <2> DEFINE e == <<r, i>>
    <2>5. e \in Routers \X (1..Hwm) /\ e[1] = r /\ e[2] = i
      BY <2>4
    <2> HIDE DEF e
    <2> QED  BY <1>1, <2>2, <2>4, <2>5
  <1>5. ASSUME NEW e \in Starts(q[s])
        PROVE  HasStart(q, s)
    BY <1>2 DEF HasStart
  <1> QED  BY <1>3, <1>4, <1>5, AtMostOne

\* The handshake of a server that runs is in one place: its START or the echo
\* is on the way, or it is connected, or the handshake was lost.
THEOREM HandshakeOnce == Spec => []HandshakeAccounted
  <1>1. Init => Handshake
    BY DEF Init, Handshake
  <1>2. TypeOK /\ Sizes /\ Handshake /\ [Next]_vars => Handshake'
    BY HandshakeKeeps
  <1>3. ASSUME TypeOK, Sizes, Handshake
        PROVE  HandshakeAccounted
    <2> SUFFICES ASSUME NEW s \in up
                 PROVE  Cardinality(Starts(out[s])) + Cardinality(Starts(in[s]))
                        + (IF s \in serverok_ THEN 1 ELSE 0)
                        + (IF startLost[s] # "no" THEN 1 ELSE 0) = 1
      BY DEF HandshakeAccounted
    <2>1. s \in Servers /\ Shaken(s) /\ out \in Queues /\ in \in Queues /\ Short(out) /\ Short(in)
      BY <1>3 DEF TypeOK, Queues, Sizes, Handshake
    <2>2. OneStart(out, s) /\ OneStart(in, s)
      BY <2>1 DEF Shaken
    <2>3. /\ Cardinality(Starts(out[s])) = IF HasStart(out, s) THEN 1 ELSE 0
          /\ Cardinality(Starts(in[s])) = IF HasStart(in, s) THEN 1 ELSE 0
      BY <2>1, <2>2, StartsCount
    <2> QED  BY <2>1, <2>3 DEF Shaken
  <1> QED  BY <1>1, <1>2, <1>3, MessagesInvariant, PTL DEF Spec
=============================================================================
