----------------------------- MODULE ServerLinks -----------------------------
(***************************************************************************)
(* The links between the servers (mqnet.cpp, app.cpp) and the routers that *)
(* pass their messages on (Router.cpp).  A server has one DEALER socket    *)
(* with a connection to each router; ZeroMQ gives each message to a router *)
(* with room, and a router passes it to the server whose number it names.  *)
(* A server announces itself with PT_SERVER_START, which the router sends  *)
(* back with the version of the first server it saw; until that echo has   *)
(* come a server throws away what it receives.                             *)
(*                                                                         *)
(* ZeroMQ 4.0 and TCP are external: a connection keeps its order and loses *)
(* what is on the way when a process ends; a socket drops what it has no   *)
(* room for; connections are made again by themselves.                     *)
(***************************************************************************)
EXTENDS Integers, Sequences, FiniteSets, Functions

CONSTANTS
    Servers,        \* the numbers of the servers (ServerID)
    NRouters,       \* how many routers RouterPort names
    Version,        \* the version each server announces (10001)
    Hwm,            \* the messages a ZeroMQ pipe holds (1000 a side)
    PackUnit,       \* the step of MaxPackHandle (1000)
    Talks,          \* <<s, t>>: the scripts of server s send to server t
    MaxSends,       \* bound: messages sent
    MaxStarts,      \* bound: server processes started
    MaxRestarts,    \* bound: restarts of routers
    MaxKills        \* bound: servers killed

Routers == 1..NRouters
First == 1

ASSUME LinksAssumption ==
    /\ Servers # {} /\ NRouters \in Nat \ {0} /\ Talks \subseteq Servers \X Servers
    /\ Version \in [Servers -> Nat \ {0}]
    /\ Hwm \in Nat \ {0} /\ PackUnit \in Nat \ {0}
    /\ {MaxSends, MaxStarts, MaxRestarts, MaxKills} \subseteq Nat

VARIABLES
    up,             \* the servers that run
    stopping,       \* those whose stop() was called
    serverok_,      \* those whose own PT_SERVER_START came back
    reading,        \* those inside readFromRouter
    mp,             \* the messages the current pass has read
    maxPackHandle,  \* MaxPackHandle of each process
    out,            \* out[s][r]: from server s, not yet taken by router r
    in,             \* in[s][r]: passed on by router r, not yet read by s
    linked,         \* <<s, r>>: router r knows the identity s
    digi,           \* the version each router keeps, 0 for none
    counts,         \* how often servers and routers were started and killed
    route,          \* history: the route of each message sent
    handled,        \* history: the messages each server gave to its script
    lost,           \* history: why a message was lost, "no" if it was not
    startLost,      \* history: why the handshake of a server was lost
    known           \* history: messages sent to a server that was there

procs   == <<up, stopping, serverok_, reading, mp, maxPackHandle>>
network == <<out, in, linked, digi>>
history == <<route, handled, lost, startLost, known>>
vars == <<up, stopping, serverok_, reading, mp, maxPackHandle, out, in, linked,
          digi, counts, route, handled, lost, startLost, known>>

Routes == [from : Servers, to : Servers, via : 0..NRouters]
Causes == {"no", "full", "unknown", "dead", "early", "router", "ended"}

\* On its way to a router a message names its target, after that its source.
Packets == [kind : {"start", "stop", "msg"}, peer : Servers, val : Nat]
Start(s) == [kind |-> "start", peer |-> s, val |-> Version[s]]
Stop(s)  == [kind |-> "stop", peer |-> s, val |-> 0]
Msg(s, m) == [kind |-> "msg", peer |-> s, val |-> m]

TypeOK ==
    /\ up \subseteq Servers /\ stopping \subseteq up /\ reading \subseteq up
    /\ serverok_ \subseteq up
    /\ mp \in [Servers -> Nat] /\ maxPackHandle \in [Servers -> Nat]
    /\ out \in [Servers -> [Routers -> Seq(Packets)]]
    /\ in \in [Servers -> [Routers -> Seq(Packets)]]
    /\ linked \subseteq Servers \X Routers
    /\ digi \in [Routers -> Nat]
    /\ counts \in [{"starts", "restarts", "kills"} -> Nat]
    /\ route \in Seq(Routes) /\ lost \in Seq(Causes) /\ Len(lost) = Len(route)
    /\ handled \in [Servers -> Seq(Nat)]
    /\ startLost \in [Servers -> {"no", "full", "router"}]
    /\ known \subseteq 1..Len(route)

NoPackets == [r \in Routers |-> <<>>]

Init ==
    /\ up = {} /\ stopping = {} /\ serverok_ = {} /\ reading = {}
    /\ mp = [s \in Servers |-> 0]
    /\ maxPackHandle = [s \in Servers |-> PackUnit]
    /\ out = [s \in Servers |-> NoPackets] /\ in = [s \in Servers |-> NoPackets]
    /\ linked = {} /\ digi = [r \in Routers |-> 0]
    /\ counts = [c \in {"starts", "restarts", "kills"} |-> 0]
    /\ route = <<>> /\ lost = <<>> /\ known = {}
    /\ handled = [s \in Servers |-> <<>>]
    /\ startLost = [s \in Servers |-> "no"]

-----------------------------------------------------------------------------
(* Sequences of packets.                                                   *)

\* The messages of the scripts among a set of packets.
Messages(packets) == {p.val : p \in {p \in packets : p.kind = "msg"}}

\* The messages in a set are lost now, for one cause.
Lose(ms, cause) == [m \in 1..Len(lost) |-> IF m \in ms THEN cause ELSE lost[m]]

Put(q, s, r, p) == [q EXCEPT ![s][r] = Append(@, p)]
Pop(q, s, r) == [q EXCEPT ![s][r] = Tail(@)]

Room(q, s, r) == Len(q[s][r]) < Hwm
Count(c) == counts' = [counts EXCEPT ![c] = @ + 1]

-----------------------------------------------------------------------------
(* The life of a server.                                                   *)

\* Fault: START goes to every router that is connected.
Connect_StartsEach(s) ==
    /\ s \notin up /\ counts["starts"] < MaxStarts
    /\ \A r \in Routers : <<s, r>> \notin linked
    /\ up' = up \cup {s}
    /\ out' = [out EXCEPT ![s] = [r \in Routers |-> Append(@[r], Start(s))]]
    /\ startLost' = [startLost EXCEPT ![s] = "no"]
    /\ Count("starts")
    /\ UNCHANGED <<stopping, serverok_, reading, mp, maxPackHandle, in, linked,
                   digi, route, handled, lost, known>>

\* ServerApp::connectRouter: connect to every router in turn.  The socket is
\* made for the first one, and START is sent before it knows another.  (A
\* restart comes after the routers saw the end of the old process.)
Connect(s) ==
    /\ s \notin up /\ counts["starts"] < MaxStarts
    /\ \A r \in Routers : <<s, r>> \notin linked
    /\ up' = up \cup {s}
    /\ out' = Put(out, s, First, Start(s))
    /\ startLost' = [startLost EXCEPT ![s] = "no"]
    /\ Count("starts")
    /\ UNCHANGED <<stopping, serverok_, reading, mp, maxPackHandle, in, linked,
                   digi, route, handled, lost, known>>

\* A message of a script, with MsgChannel::send: a message that no pipe has
\* room for is lost.
Send(s, t) ==
    /\ s \in up /\ <<s, t>> \in Talks /\ Len(route) < MaxSends
    /\ LET m == Len(route) + 1
       IN \/ \E r \in Routers :
                /\ Room(out, s, r)
                /\ route' = Append(route, [from |-> s, to |-> t, via |-> r])
                /\ out' = Put(out, s, r, Msg(t, m))
                /\ lost' = Append(lost, "no")
                /\ known' = IF {s, t} \X {r} \subseteq linked /\ t \in serverok_
                            THEN known \cup {m} ELSE known
          \/ /\ \A r \in Routers : ~Room(out, s, r)
             /\ route' = Append(route, [from |-> s, to |-> t, via |-> 0])
             /\ lost' = Append(lost, "full")
             /\ UNCHANGED <<out, known>>
    /\ UNCHANGED <<procs, in, linked, digi, counts, handled, startLost>>

\* Fault: disconnect() clears serverok_ while a pass may be going on.
Disconnect_NotOK(s) ==
    /\ s \in up \ stopping
    /\ stopping' = stopping \cup {s}
    /\ serverok_' = serverok_ \ {s}
    /\ \/ \E r \in Routers : Room(out, s, r) /\ out' = Put(out, s, r, Stop(s))
       \/ (\A r \in Routers : ~Room(out, s, r)) /\ UNCHANGED out
    /\ UNCHANGED <<up, reading, mp, maxPackHandle, in, linked, digi, counts,
                   history>>

\* ServerApp::stop, called by the signal handler, and MQNet::disconnect.
Disconnect(s) ==
    /\ s \in up \ stopping
    /\ stopping' = stopping \cup {s}
    /\ \/ \E r \in Routers : Room(out, s, r) /\ out' = Put(out, s, r, Stop(s))
       \/ (\A r \in Routers : ~Room(out, s, r)) /\ UNCHANGED out
    /\ UNCHANGED <<up, serverok_, reading, mp, maxPackHandle, in, linked, digi,
                   counts, history>>

\* A process ends: what it has not read is lost, and so is what it has not
\* written to its connections, some prefix of each queue.
Gone(s) ==
    /\ up' = up \ {s} /\ stopping' = stopping \ {s}
    /\ reading' = reading \ {s} /\ serverok_' = serverok_ \ {s}
    /\ mp' = [mp EXCEPT ![s] = 0]
    /\ maxPackHandle' = [maxPackHandle EXCEPT ![s] = PackUnit]
    /\ in' = [in EXCEPT ![s] = NoPackets]
    /\ \E kept \in [Routers -> 0..Hwm] :
          /\ \A r \in Routers :
                kept[r] <= IF <<s, r>> \in linked THEN Len(out[s][r]) ELSE 0
          /\ out' = [out EXCEPT ![s] =
                        [r \in Routers |-> SubSeq(@[r], 1, kept[r])]]
          /\ LET unread == UNION {Range(in[s][r]) : r \in Routers}
                 unsent == UNION {Range(SubSeq(out[s][r], kept[r] + 1, Len(out[s][r]))) :
                                    r \in Routers}
             IN lost' = Lose(Messages(unread \cup unsent), "ended")
    /\ known' = {}

\* The main loop ends after stop(), and ~MQNet closes the socket with a
\* linger time of 0.
Finish(s) ==
    /\ s \in stopping \ reading
    /\ Gone(s)
    /\ UNCHANGED <<linked, digi, counts, route, handled, startLost>>

Killed(s) ==
    /\ s \in up /\ counts["kills"] < MaxKills
    /\ Gone(s)
    /\ Count("kills")
    /\ UNCHANGED <<linked, digi, route, handled, startLost>>

-----------------------------------------------------------------------------
(* The routers.                                                            *)

\* ZeroMQ connects and exchanges identities.
Link(s, r) ==
    /\ s \in up /\ <<s, r>> \notin linked
    /\ linked' = linked \cup {<<s, r>>}
    /\ UNCHANGED <<procs, out, in, digi, counts, history>>

\* The router has read what a server sent that has ended, and forgets it.
Unlink(s, r) ==
    /\ s \notin up /\ <<s, r>> \in linked /\ out[s][r] = <<>>
    /\ linked' = linked \ {<<s, r>>}
    /\ UNCHANGED <<procs, out, in, digi, counts, history>>

Taken(s, r, kind) ==
    /\ <<s, r>> \in linked /\ out[s][r] # <<>> /\ Head(out[s][r]).kind = kind
    /\ out' = Pop(out, s, r)

\* Fault: only the first START, the one whose version is kept, is sent back.
RouterEchoes_FirstOnly(s, r) ==
    /\ Taken(s, r, "start")
    /\ digi' = [digi EXCEPT ![r] = IF @ = 0 THEN Head(out[s][r]).val ELSE @]
    /\ in' = IF digi[r] = 0 /\ s \in up /\ Room(in, s, r)
             THEN Put(in, s, r, Start(s)) ELSE in
    /\ UNCHANGED <<procs, linked, counts, history>>

\* START goes back to its sender with the version the router keeps: that of
\* the first server it ever saw.  It is lost when there is no room.
RouterEchoes(s, r) ==
    /\ Taken(s, r, "start")
    /\ digi' = [digi EXCEPT ![r] = IF @ = 0 THEN Head(out[s][r]).val ELSE @]
    /\ IF s \in up /\ Room(in, s, r)
       THEN /\ in' = Put(in, s, r, [Start(s) EXCEPT !.val = digi'[r]])
            /\ UNCHANGED startLost
       ELSE /\ startLost' = [startLost EXCEPT ![s] = "full"]
            /\ UNCHANGED in
    /\ UNCHANGED <<procs, linked, counts, route, handled, lost, known>>

RouterSeesStop(s, r) ==
    /\ Taken(s, r, "stop")
    /\ UNCHANGED <<procs, in, linked, digi, counts, history>>

\* Fault: the source is taken for the target.
RouterForwards_ToSource(s, r) ==
    /\ Taken(s, r, "msg")
    /\ LET m == Head(out[s][r]).val
       IN IF s \in up /\ Room(in, s, r)
          THEN in' = Put(in, s, r, Msg(s, m)) /\ UNCHANGED lost
          ELSE lost' = Lose({m}, "full") /\ UNCHANGED in
    /\ UNCHANGED <<procs, linked, digi, counts, route, handled, startLost,
                   known>>

\* A message goes to the server it names, with its sender in that place; it
\* is dropped if the router does not know that server or has no room for it.
RouterForwards(s, r) ==
    /\ Taken(s, r, "msg")
    /\ LET t == Head(out[s][r]).peer
           m == Head(out[s][r]).val
       IN IF t \in up /\ <<t, r>> \in linked /\ Room(in, t, r)
          THEN in' = Put(in, t, r, Msg(s, m)) /\ UNCHANGED lost
          ELSE /\ lost' = Lose({m}, IF <<t, r>> \notin linked THEN "unknown"
                                    ELSE IF t \notin up THEN "dead" ELSE "full")
               /\ UNCHANGED in
    /\ UNCHANGED <<procs, linked, digi, counts, route, handled, startLost,
                   known>>

\* A router ends and is started again: it has lost what it had read from its
\* connections and what it had not yet written to them.
RouterRestarts(r) ==
    /\ counts["restarts"] < MaxRestarts
    /\ linked' = linked \ (Servers \X {r})
    /\ digi' = [digi EXCEPT ![r] = 0]
    /\ \E took, left \in [Servers -> 0..Hwm] :
          /\ \A s \in Servers :
                /\ took[s] <= IF <<s, r>> \in linked THEN Len(out[s][r]) ELSE 0
                /\ left[s] <= Len(in[s][r])
          /\ out' = [s \in Servers |-> [out[s] EXCEPT ![r] =
                        IF s \in up THEN SubSeq(@, took[s] + 1, Len(@)) ELSE <<>>]]
          /\ in' = [s \in Servers |-> [in[s] EXCEPT ![r] = SubSeq(@, 1, left[s])]]
    /\ LET gone(s) == (Range(out[s][r]) \ Range(out'[s][r]))
                      \cup (Range(in[s][r]) \ Range(in'[s][r]))
       IN /\ lost' = Lose(Messages(UNION {gone(s) : s \in Servers}), "router")
          /\ startLost' = [s \in Servers |->
                IF \E p \in gone(s) : p.kind = "start" THEN "router" ELSE startLost[s]]
    /\ known' = {}
    /\ Count("restarts")
    /\ UNCHANGED <<procs, route, handled>>

-----------------------------------------------------------------------------
(* MQNet::readFromRouter, one action for each way through the loop.        *)

Waiting(s) == \E r \in Routers : in[s][r] # <<>>

\* Fault: nothing is read before the handshake is done but its echo.
BeginRead_Connected(s) ==
    /\ s \in up \ (reading \cup stopping)
    /\ \E r \in Routers :
          in[s][r] # <<>> /\ (s \in serverok_ \/ Head(in[s][r]).kind = "start")
    /\ reading' = reading \cup {s}
    /\ UNCHANGED <<up, stopping, serverok_, mp, maxPackHandle, network, counts,
                   history>>

\* MQNet::update starts a pass.  (One that finds nothing and changes nothing
\* is left out; stop() lets a pass come to its end and starts no other.)
BeginRead(s) ==
    /\ s \in up \ (reading \cup stopping)
    /\ Waiting(s) \/ maxPackHandle[s] # PackUnit
    /\ reading' = reading \cup {s}
    /\ UNCHANGED <<up, stopping, serverok_, mp, maxPackHandle, network, counts,
                   history>>

\* A pass ends; mp is local to it.
LeavePass(s) ==
    /\ reading' = reading \ {s}
    /\ mp' = [mp EXCEPT ![s] = 0]

\* Fault: MaxPackHandle has no floor.
EndPass_NoFloor(s) ==
    /\ LeavePass(s)
    /\ maxPackHandle' = [maxPackHandle EXCEPT ![s] = @ - PackUnit]

\* The pass found no more: the next one may read less, but PackUnit at least.
EndPass(s) ==
    /\ LeavePass(s)
    /\ maxPackHandle' = [maxPackHandle EXCEPT ![s] =
            IF @ < 2 * PackUnit THEN PackUnit ELSE @ - PackUnit]

\* Fault: the limit is looked at after the message was taken.
PassLimit_AfterRead(s) ==
    /\ s \in reading /\ mp[s] > maxPackHandle[s]
    /\ LeavePass(s)
    /\ maxPackHandle' = [maxPackHandle EXCEPT ![s] = @ + PackUnit]
    /\ IF Waiting(s)
       THEN \E r \in Routers : in[s][r] # <<>> /\ in' = Pop(in, s, r)
       ELSE UNCHANGED in
    /\ UNCHANGED <<up, stopping, serverok_, out, linked, digi, counts, history>>

\* The pass has read all it may; the next one may read more.
PassLimit(s) ==
    /\ s \in reading /\ mp[s] > maxPackHandle[s]
    /\ LeavePass(s)
    /\ maxPackHandle' = [maxPackHandle EXCEPT ![s] = @ + PackUnit]
    /\ UNCHANGED <<up, stopping, serverok_, network, counts, history>>

PassEmpty(s) ==
    /\ s \in reading /\ mp[s] <= maxPackHandle[s] /\ ~Waiting(s)
    /\ EndPass(s)
    /\ UNCHANGED <<up, stopping, serverok_, network, counts, history>>

Arrived(s, r) ==
    /\ s \in reading /\ mp[s] <= maxPackHandle[s] /\ in[s][r] # <<>>
    /\ in' = Pop(in, s, r)

\* The echo of START: the server counts as connected.
EchoArrives(s, r) ==
    /\ Arrived(s, r)
    /\ Head(in[s][r]).kind = "start" /\ Head(in[s][r]).val = Version[s]
    /\ serverok_' = serverok_ \cup {s}
    /\ mp' = [mp EXCEPT ![s] = @ + 1]
    /\ UNCHANGED <<up, stopping, reading, maxPackHandle, out, linked, digi,
                   counts, history>>

\* An echo with another version: serverok_ is set all the same, the pass
\* ends, and the zmq_msg_t that Buf will delete is deleted.  The process may
\* survive that or not.
WrongVersion(s, r) ==
    /\ s \in reading /\ mp[s] <= maxPackHandle[s] /\ in[s][r] # <<>>
    /\ Head(in[s][r]).kind = "start" /\ Head(in[s][r]).val # Version[s]
    /\ \/ /\ in' = Pop(in, s, r)
          /\ serverok_' = serverok_ \cup {s}
          /\ EndPass(s)
          /\ UNCHANGED <<up, stopping, out, lost, known>>
       \/ Gone(s)
    /\ UNCHANGED <<linked, digi, counts, route, handled, startLost>>

\* Before the echo a message is thrown away, and the pass ends with it.
TooEarly(s, r) ==
    /\ Arrived(s, r)
    /\ Head(in[s][r]).kind = "msg" /\ s \notin serverok_
    /\ LeavePass(s)
    /\ lost' = Lose({Head(in[s][r]).val}, "early")
    /\ UNCHANGED <<up, stopping, serverok_, maxPackHandle, out, linked,
                   digi, counts, route, handled, startLost, known>>

\* ServerApp::doMqMsg gives a message to the script.
HandleMsg(s, r) ==
    /\ Arrived(s, r)
    /\ Head(in[s][r]).kind = "msg" /\ s \in serverok_
    /\ handled' = [handled EXCEPT ![s] = Append(@, Head(in[s][r]).val)]
    /\ mp' = [mp EXCEPT ![s] = @ + 1]
    /\ UNCHANGED <<up, stopping, serverok_, reading, maxPackHandle, out, linked,
                   digi, counts, route, lost, startLost, known>>

Read(s) ==
    \/ BeginRead(s) \/ PassLimit(s) \/ PassEmpty(s)
    \/ \E r \in Routers :
          EchoArrives(s, r) \/ WrongVersion(s, r) \/ TooEarly(s, r) \/ HandleMsg(s, r)

RouterTakes(s, r) ==
    RouterEchoes(s, r) \/ RouterSeesStop(s, r) \/ RouterForwards(s, r)

Next ==
    \/ \E s \in Servers :
          \/ Connect(s) \/ Disconnect(s) \/ Finish(s) \/ Killed(s) \/ Read(s)
          \/ \E t \in Servers : Send(s, t)
          \/ \E r \in Routers : Link(s, r) \/ Unlink(s, r) \/ RouterTakes(s, r)
    \/ \E r \in Routers : RouterRestarts(r)

Spec == Init /\ [][Next]_vars

\* The main loop of a server goes round until it ends after stop(); ZeroMQ
\* connects, and a router takes what has come on its connections.
FairSpec ==
    /\ Spec
    /\ \A s \in Servers : WF_vars(Read(s) \/ Finish(s))
    /\ \A s \in Servers, r \in Routers : WF_vars(Link(s, r) \/ RouterTakes(s, r))

-----------------------------------------------------------------------------
(* Properties.                                                             *)

Entries(q, kind, val) ==
    {e \in Servers \X Routers \X (1..Hwm) :
        LET packets == q[e[1]][e[2]]
        IN e[3] <= Len(packets) /\ packets[e[3]].kind = kind
                                /\ packets[e[3]].val = val}

Handlings(m) ==
    UNION {{s} \X {i \in DOMAIN handled[s] : handled[s][i] = m} : s \in Servers}

\* Through queues, routers, restarts and the ends of processes a message is
\* in one place: on its way, with a script, or lost for a cause the code or
\* ZeroMQ has.  No server handles one twice, or one that another was sent.
MessagesAccounted ==
    \A m \in 1..Len(route) :
        /\ Cardinality(Entries(out, "msg", m)) + Cardinality(Entries(in, "msg", m))
           + Cardinality(Handlings(m)) + (IF lost[m] = "no" THEN 0 ELSE 1) = 1
        /\ \A e \in Handlings(m) : e[1] = route[m].to

Starts(packets) ==
    {e \in Routers \X (1..Hwm) :
        e[2] <= Len(packets[e[1]]) /\ packets[e[1]][e[2]].kind = "start"}

\* START is sent once: a server that runs has it or its echo on the way, was
\* connected by it, or lost it.  Nothing repeats a lost handshake, so that
\* such a server throws away all it receives until it is started again.
HandshakeAccounted ==
    \A s \in up :
        Cardinality(Starts(out[s])) + Cardinality(Starts(in[s]))
        + (IF s \in serverok_ THEN 1 ELSE 0)
        + (IF startLost[s] # "no" THEN 1 ELSE 0) = 1

\* A message that was sent to a connected server by a router that knew it is
\* lost only where a queue is full, as long as no process ends: none of them
\* is refused by the router, and none comes before the handshake.
KnownNotRefused == \A m \in known : lost[m] \in {"no", "full"}

\* Messages on one route are handled in the order they were sent, at most
\* once: the links implement LossyLinks.
Links == INSTANCE LossyLinks WITH
    Routes <- Routes, route <- route, handled <- handled
LinksSpec == Links!Spec

\* Unless START is lost, a server that was started is connected in the end.
HandshakeCompletes ==
    \A s \in Servers :
        (s \in up) ~> (s \in serverok_ \/ s \notin up \/ startLost[s] # "no")

\* No message stays on its way for ever.
MessagesSettle ==
    \A m \in 1..MaxSends :
        (Len(route) >= m) ~>
            (Handlings(m) # {} \/ (Len(route) >= m /\ lost[m] # "no"))
=============================================================================
