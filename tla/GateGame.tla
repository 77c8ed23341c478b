------------------------------ MODULE GateGame ------------------------------
(***************************************************************************)
(* The clients of a gate and their sessions in the game server: the        *)
(* session map of the gate (gate/ClientSession.lua), which follows the     *)
(* connections of its core, and its mirror in the game server              *)
(* (gateService.lua, NetWork/Session.lua), which follows it by messages    *)
(* over the routers.  Client packets travel in messages of the same kind.  *)
(* The core of the game server opens a port of its own (Net::init), and    *)
(* what a client connected to it sends is read as if a server had sent it. *)
(*                                                                         *)
(* Between the two servers is what LossyLinks promises: its variables are  *)
(* part of the state, and sending and handling are its actions.  The core  *)
(* is what NetSession shows: a packet can still come from a session that   *)
(* was closed, until Net::update deletes it.                               *)
(***************************************************************************)
EXTENDS PacketCodec, Sequences, FiniteSets

CONSTANTS
    Numbers,        \* the session numbers of the clients that are followed, of
                    \* those a gate gives out, in that order
    Routers,        \* the routers between gate and game server
    MaxGates,       \* bound: processes of the gate, one after the other
    MaxGames,       \* bound: processes of the game server
    MaxSends,       \* bound: messages sent
    MaxDirect       \* bound: packets of clients of the game server's own port

ASSUME NumbersAssumption ==
    /\ Numbers \in Seq(Nat \ {0})
    /\ \A i, j \in 1..Len(Numbers) : i < j => Numbers[i] < Numbers[j]

ASSUME GatesAssumption ==
    /\ {MaxGates, MaxGames, MaxSends} \subseteq Nat \ {0}
    /\ MaxDirect \in Nat /\ Routers # {}

Sns == {Numbers[i] : i \in 1..Len(Numbers)}
Readings == {Received(sn) : sn \in Sns}
Clients == [gate : Nat, sn : Sns]
Routes == [to : {"game"}, via : Routers]
Protocols == {"G2S_ClientConn", "G2S_ClientDisConn", "G2S_RevPackage"}

VARIABLES
    gate, game,     \* the number of the process of the gate and of the game
    accepted,       \* how many of the Numbers the gate has given out
    open,           \* the open sessions of the gate's core
    closing,        \* those closed but not yet deleted by Net::update
    gtSessionMap,   \* the session map of the gate
    mirror,         \* the session map of the game server: the client for whom
                    \* a session was made, by number
    route, handled, \* the messages between them, as in LossyLinks
    packet,         \* what each message says, and of which client
    direct,         \* how many packets came to the game server's own port
    since,          \* history: messages handled before the game was restarted
    crossed         \* history: the packets handled in another's session, and
                    \* the number of that session

gateVars == <<accepted, open, closing, gtSessionMap>>
links == <<route, handled, packet>>
vars == <<gate, game, accepted, open, closing, gtSessionMap, mirror,
          route, handled, packet, direct, since, crossed>>

Links == INSTANCE LossyLinks WITH
    Routes <- Routes, route <- route, handled <- handled

\* Every variable keeps its type; a session is kept under the number that was
\* read for its client.
TypeOK ==
    /\ gate \in 1..MaxGates /\ game \in 1..MaxGames
    /\ accepted \in 0..Len(Numbers)
    /\ open \subseteq Sns /\ closing \subseteq Sns /\ gtSessionMap \subseteq Sns
    /\ \A d \in DOMAIN mirror : mirror[d] \in Clients /\ d = Received(mirror[d].sn)
    /\ route \in Seq(Routes) /\ handled \in [{"game"} -> Seq(1..Len(route))]
    /\ packet \in Seq([protocol : Protocols, client : Clients])
    /\ Len(packet) = Len(route) /\ since \in 0..Len(handled["game"])
    /\ direct \in 0..MaxDirect
    /\ crossed \subseteq [message : 1..Len(route), number : Readings, owner : Clients]

Init ==
    /\ gate = 1 /\ game = 1 /\ accepted = 0
    /\ open = {} /\ closing = {} /\ gtSessionMap = {}
    /\ mirror = <<>> /\ Links!Init /\ packet = <<>>
    /\ direct = 0 /\ since = 0 /\ crossed = {}

Client(sn) == [gate |-> gate, sn |-> sn]

\* For whom a session is made that no gate has announced.
Direct(sn) == [gate |-> 0, sn |-> sn]

-----------------------------------------------------------------------------
(* The gate.                                                               *)

\* Fault: nothing is sent.
Net_sendToServer_Silent(protocol, sn) == UNCHANGED links

\* Net.sendToServer, to the one game server there is.
Net_sendToServer(protocol, sn) ==
    /\ Len(route) < MaxSends
    /\ \E via \in Routers : Links!Send([to |-> "game", via |-> via])
    /\ packet' = Append(packet, [protocol |-> protocol, client |-> Client(sn)])

\* CHandlerConnect and newSession.  (Its closeSession finds nothing: a core
\* does not give out a number twice.)
CHandlerConnect ==
    /\ accepted < Len(Numbers)
    /\ accepted' = accepted + 1
    /\ LET sn == Numbers[accepted + 1]
       IN /\ open' = open \cup {sn}
          /\ gtSessionMap' = gtSessionMap \cup {sn}
          /\ Net_sendToServer("G2S_ClientConn", sn)
    /\ UNCHANGED <<gate, game, closing, mirror, direct, since, crossed>>

\* closeSession.
CloseSession(sn) ==
    /\ gtSessionMap' = gtSessionMap \ {sn}
    /\ IF sn \in gtSessionMap
       THEN Net_sendToServer("G2S_ClientDisConn", sn)
       ELSE UNCHANGED links

\* CHandlerDisconnect.
CHandlerDisconnect(sn) ==
    /\ sn \in open
    /\ open' = open \ {sn}
    /\ closing' = closing \cup {sn}
    /\ CloseSession(sn)
    /\ UNCHANGED <<gate, game, accepted, mirror, direct, since, crossed>>

\* CHandlerNetMsg and gateHandlernetMsg, which do not look for the session.
\* (One of fewer than four bytes raises an error and goes no further.)
CHandlerNetMsg(sn) ==
    /\ sn \in open \cup closing
    /\ Net_sendToServer("G2S_RevPackage", sn)
    /\ UNCHANGED <<gate, game, gateVars, mirror, direct, since, crossed>>

\* Net::update.
Update ==
    /\ closing # {}
    /\ closing' = {}
    /\ UNCHANGED <<gate, game, accepted, open, gtSessionMap, mirror,
                   links, direct, since, crossed>>

\* The gate ends, its clients with it, and another is started, whose core
\* counts its sessions from the beginning.
GateRestarts ==
    /\ gate < MaxGates
    /\ gate' = gate + 1
    /\ accepted' = 0 /\ open' = {} /\ closing' = {} /\ gtSessionMap' = {}
    /\ UNCHANGED <<game, mirror, links, direct, since, crossed>>

-----------------------------------------------------------------------------
(* The game server.                                                        *)

Put(sn, client) ==
    [d \in DOMAIN mirror \cup {sn} |-> IF d = sn THEN client ELSE mirror[d]]

\* Fault: a session that is already there is kept.
NewSession_KeepsOld(sn, client) ==
    mirror' = IF sn \in DOMAIN mirror THEN mirror ELSE Put(sn, client)

\* Fault: the sessions are kept in a list.
NewSession_Listed(sn, client) ==
    mirror' = Put(Cardinality(DOMAIN mirror) + 1, client)

\* Session.newSession: an older session of that number is forgotten.
NewSession(sn, client) == mirror' = Put(sn, client)

\* Fault: the session of a client stays.
DelSession_Keeps(sn) == UNCHANGED mirror

\* Fault: the map itself is cleared.
DelSession_All(sn) == mirror' = <<>>

\* Session.delSession.
DelSession(sn) == mirror' = [d \in DOMAIN mirror \ {sn} |-> mirror[d]]

\* Net.RecvClientPacket, for the client whose number was read as sn.  The
\* packet of the client names its handler: none, and it is dropped, as it is
\* without a session; one that acts in the session of sn; or, since the
\* table of handlers holds RecvClientPacket itself, this function again, for a
\* packet in the packet and a number that the client has put there.  (However
\* often this is repeated, the packet ends up in a session that exists.)
RecvClientPacket(m, sn) ==
    \/ UNCHANGED crossed
    \/ /\ sn \in DOMAIN mirror
       /\ \E d \in DOMAIN mirror :
             /\ mirror[d] # packet[m].client
             /\ crossed' = crossed \cup
                    {[message |-> m, number |-> d, owner |-> mirror[d]]}

\* CHandlerMsg and doHandlerMsg.
CHandlerMsg(m) ==
    /\ Links!Handle(m)
    /\ LET sn == Received(packet[m].client.sn)
       IN \/ /\ packet[m].protocol = "G2S_ClientConn"
             /\ NewSession(sn, packet[m].client) /\ UNCHANGED crossed
          \/ /\ packet[m].protocol = "G2S_ClientDisConn"
             /\ DelSession(sn) /\ UNCHANGED crossed
          \/ /\ packet[m].protocol = "G2S_RevPackage"
             /\ RecvClientPacket(m, sn) /\ UNCHANGED mirror
    /\ UNCHANGED <<gate, game, gateVars, packet, direct, since>>

\* CHandlerNetMsg of the game server: doHandlerMsg as for a server.  A client
\* of this port announces or ends a client of any number.  (Its packets that
\* say G2S_RevPackage change neither map.)
GameHandlerNetMsg(sn) ==
    /\ direct < MaxDirect
    /\ direct' = direct + 1
    /\ NewSession(Received(sn), Direct(sn)) \/ DelSession(Received(sn))
    /\ UNCHANGED <<gate, game, gateVars, links, since, crossed>>

\* The game server ends and is started again; no gate tells it of the
\* clients that are there.
GameRestarts ==
    /\ game < MaxGames
    /\ game' = game + 1
    /\ mirror' = <<>>
    /\ since' = Len(handled["game"])
    /\ UNCHANGED <<gate, gateVars, links, direct, crossed>>

Next ==
    \/ CHandlerConnect \/ Update \/ GateRestarts \/ GameRestarts
    \/ \E sn \in Sns :
          CHandlerDisconnect(sn) \/ CHandlerNetMsg(sn) \/ GameHandlerNetMsg(sn)
    \/ \E m \in 1..Len(route) : CHandlerMsg(m)

Spec == Init /\ [][Next]_vars

-----------------------------------------------------------------------------
(* Properties.                                                             *)

Messages(protocol, client) ==
    {m \in 1..Len(packet) :
        packet[m].protocol = protocol /\ packet[m].client = client}

\* This process of the game server has handled m; it handled m before n.
Done(m) ==
    \E i \in (since + 1)..Len(handled["game"]) : handled["game"][i] = m
DoneBefore(m, n) ==
    \E i, j \in (since + 1)..Len(handled["game"]) :
        i < j /\ handled["game"][i] = m /\ handled["game"][j] = n

\* Every message was handled, all of one route, by one process, and only gates
\* have spoken to it.
Quiet ==
    /\ game = 1 /\ direct = 0
    /\ Len(handled["game"]) = Len(route)
    /\ \A m, n \in 1..Len(route) : route[m] = route[n]

\* Every session of the game server is that of an open client, or of one that
\* went with its gate, or of one that no gate has announced, or the gate has
\* said that its client is gone and this was lost, is on its way or has
\* overtaken the announcement of the client on another route.
GhostsAccounted ==
    \A d \in DOMAIN mirror :
        LET client == mirror[d]
        IN client.gate = gate /\ client.sn \notin open =>
               \E gone \in Messages("G2S_ClientDisConn", client) :
                  Done(gone) =>
                      \E come \in Messages("G2S_ClientConn", client) :
                          DoneBefore(gone, come) /\ route[come] # route[gone]

\* Once every message has been handled, all of one route, and every number is
\* read as it was written, the game server has exactly the sessions of the
\* gate that runs, and besides them only sessions of gates that have ended.
MirrorAgrees ==
    /\ Quiet
    /\ \A m \in 1..Len(packet) :
          Received(packet[m].client.sn) = packet[m].client.sn
    => \A sn \in Sns :
          sn \in open <=> sn \in DOMAIN mirror /\ mirror[sn] = Client(sn)

\* A packet that a gate has passed on is handled in the session of another
\* client only if it was itself a G2S_RevPackage with another number in it, or
\* the different numbers of the two clients are read as the same, or no gate
\* announced the other, or the announcement of its own client had not arrived,
\* or one of the messages came by another route.
CrossedCauses ==
    \A c \in crossed :
        LET client == packet[c.message].client
            conns == Messages("G2S_ClientConn", client)
        IN \/ c.number # Received(client.sn)
           \/ client.sn # c.owner.sn /\ Received(client.sn) = Received(c.owner.sn)
           \/ c.owner.gate = 0
           \/ ~\E come \in conns : \E i, j \in 1..Len(handled["game"]) :
                 i < j /\ handled["game"][i] = come /\ handled["game"][j] = c.message
           \/ \E m \in conns \cup Messages("G2S_ClientConn", c.owner) :
                 route[m] # route[c.message]

\* Once a client was announced, the game server has a session for its packets,
\* unless it was restarted since or was told the end of this client or of one
\* whose number is read as the same, or a client of its own port ended the
\* session: RecvClientPacket drops no packet for any other cause.
SessionWhileAnnounced ==
    \A come \in 1..Len(packet) :
        /\ packet[come].protocol = "G2S_ClientConn" /\ Done(come) /\ direct = 0
        => LET d == Received(packet[come].client.sn)
           IN \/ d \in DOMAIN mirror
              \/ \E gone \in 1..Len(packet) :
                    /\ packet[gone].protocol = "G2S_ClientDisConn"
                    /\ Received(packet[gone].client.sn) = d
                    /\ DoneBefore(come, gone)

\* ClientSession.lua: each server is told of a connection that was made: then
\* the game server has a session for every client, unless messages are still
\* on their way, were lost or came by different routes.
Announced ==
    Quiet => \A sn \in open : \E d \in DOMAIN mirror : mirror[d] = Client(sn)
=============================================================================
