-------------------------- MODULE GateGame_proofs --------------------------
(***************************************************************************)
(* The theorems about the sessions of gate and game server, for any number *)
(* of clients, routers and restarts and for any base of the packet codec.  *)
(*                                                                         *)
(* The argument has two halves.  What a gate sends: a client is announced  *)
(* once, its end is told after that and only when it has ended, and a      *)
(* later process of the gate sends later messages (Sent).  What the game   *)
(* server keeps: the session of a number is that of the last announcement  *)
(* it handled for this number, while nothing later ended it (Kept), unless *)
(* a client of its own port made it.  The order of a route connects the    *)
(* two.                                                                    *)
(***************************************************************************)
EXTENDS GateGame, SequenceTheorems, FiniteSetTheorems, TLAPS

H == handled["game"]
Packets == [protocol : Protocols, client : Clients]

Conn(m) == packet[m].protocol = "G2S_ClientConn"
DisConn(m) == packet[m].protocol = "G2S_ClientDisConn"
Number(m) == Received(packet[m].client.sn)

-----------------------------------------------------------------------------
(* The invariant.                                                          *)

\* A gate sends for clients it has accepted, and later gates send later.
Numbered ==
    /\ \A m \in 1..Len(packet) :
          /\ packet[m].client.gate <= gate
          /\ packet[m].client.gate = gate =>
                \E i \in 1..accepted : packet[m].client.sn = Numbers[i]
    /\ \A m, n \in 1..Len(packet) :
          m < n => packet[m].client.gate <= packet[n].client.gate

\* The core and the script of the gate know the sessions they may speak of.
Known ==
    /\ \A sn \in open \cup closing : \E i \in 1..accepted : sn = Numbers[i]
    /\ open \subseteq gtSessionMap

\* A client is announced once, and before its end is told.
Announcements ==
    \A m, n \in 1..Len(packet) :
        Conn(m) /\ packet[n].client = packet[m].client =>
            /\ Conn(n) => m = n
            /\ DisConn(n) => m < n

\* The clients of the gate that runs were announced; the end of those that
\* ended was told, and of no other.
Told ==
    /\ \A sn \in open :
          /\ \E m \in 1..Len(packet) : Conn(m) /\ packet[m].client = Client(sn)
          /\ \A m \in 1..Len(packet) : packet[m].client = Client(sn) => ~DisConn(m)
    /\ \A m \in 1..Len(packet) :
          Conn(m) /\ packet[m].client.gate = gate /\ packet[m].client.sn \notin open =>
              \E n \in 1..Len(packet) : DisConn(n) /\ packet[n].client = packet[m].client

Sent == Numbered /\ Known /\ Announcements /\ Told

\* Messages of one route are handled in the order they were sent.
Ordered ==
    \A i, j \in 1..Len(H) : i < j /\ route[H[i]] = route[H[j]] => H[i] < H[j]

\* Nothing handled after the j-th message says anything about its number.
Last(j) ==
    \A i \in (j + 1)..Len(H) : Number(H[i]) = Number(H[j]) => ~Conn(H[i]) /\ ~DisConn(H[i])

\* The sessions are those that the last announcement of a number made, but for
\* what clients of the game server's own port have done.
Mirrored ==
    /\ \A d \in DOMAIN mirror :
          mirror[d].gate # 0 =>
              \E j \in (since + 1)..Len(H) :
                 Conn(H[j]) /\ packet[H[j]].client = mirror[d] /\ Last(j)
    /\ \A j \in (since + 1)..Len(H) :
          direct = 0 /\ Conn(H[j]) /\ Last(j) =>
              Number(H[j]) \in DOMAIN mirror /\ mirror[Number(H[j])] = packet[H[j]].client
    /\ game = 1 => since = 0

\* An announced number has a session until its end is handled.
Served ==
    \A j \in (since + 1)..Len(H) :
        direct = 0 /\ Conn(H[j]) =>
            \/ Number(H[j]) \in DOMAIN mirror
            \/ \E k \in (j + 1)..Len(H) : DisConn(H[k]) /\ Number(H[k]) = Number(H[j])

Kept == Ordered /\ Mirrored /\ Served

\* What is recorded as crossed was a packet that has been handled.
CrossedHandled ==
    \A c \in crossed : \E j \in 1..Len(H) : H[j] = c.message

\* The causes that are not of the order of messages.
Foreign(c) ==
    \/ c.number # Number(c.message)
    \/ /\ packet[c.message].client.sn # c.owner.sn
       /\ Number(c.message) = Received(c.owner.sn)
    \/ c.owner.gate = 0

\* CrossedCauses, said of the messages.
Caused ==
    \A c \in crossed :
        \/ Foreign(c)
        \/ \A i, j \in 1..Len(H) :
              i < j /\ H[j] = c.message /\ Conn(H[i]) =>
                  packet[H[i]].client # packet[c.message].client
        \/ \E m \in 1..Len(packet) :
              /\ Conn(m) /\ packet[m].client \in {packet[c.message].client, c.owner}
              /\ route[m] # route[c.message]

IInv == TypeOK /\ Sent /\ Kept /\ CrossedHandled /\ Caused

-----------------------------------------------------------------------------
(* Types.                                                                  *)

LEMMA Types ==
    ASSUME TypeOK
    PROVE  /\ gate \in Nat /\ accepted \in Nat /\ since \in Nat
           /\ route \in Seq(Routes) /\ packet \in Seq(Packets)
           /\ Len(route) \in Nat /\ Len(packet) = Len(route)
           /\ H \in Seq(1..Len(route)) /\ Len(H) \in Nat
           /\ \A i \in 1..Len(H) : H[i] \in 1..Len(route)
           /\ \A m \in 1..Len(packet) : packet[m] \in Packets
  <1>1. route \in Seq(Routes) /\ packet \in Seq(Packets) /\ H \in Seq(1..Len(route))
    BY DEF TypeOK, H, Packets
  <1>2. /\ Len(route) \in Nat /\ Len(packet) = Len(route) /\ Len(H) \in Nat
    BY <1>1, LenProperties DEF TypeOK
  <1>3. /\ \A i \in 1..Len(H) : H[i] \in 1..Len(route)
        /\ \A m \in 1..Len(packet) : packet[m] \in Packets
    BY <1>1, ElementOfSeq
  <1>4. gate \in Nat /\ accepted \in Nat /\ since \in Nat
    BY DEF TypeOK
  <1> QED  BY <1>1, <1>2, <1>3, <1>4

LEMMA SnsTypes ==
    /\ Len(Numbers) \in Nat /\ Sns \subseteq Nat
    /\ \A i \in 1..Len(Numbers) : Numbers[i] \in Sns /\ Numbers[i] \in Nat
    /\ \A i, j \in 1..Len(Numbers) : Numbers[i] = Numbers[j] => i = j
  <1>1. Numbers \in Seq(Nat \ {0})
    BY NumbersAssumption
  <1>2. Len(Numbers) \in Nat /\ \A i \in 1..Len(Numbers) : Numbers[i] \in Nat
    BY <1>1, LenProperties, ElementOfSeq
  <1>3. \A i, j \in 1..Len(Numbers) : i < j => Numbers[i] < Numbers[j]
    BY NumbersAssumption
  <1>4. ASSUME NEW i \in 1..Len(Numbers), NEW j \in 1..Len(Numbers), Numbers[i] = Numbers[j]
        PROVE  i = j
    <2>1. i \in Int /\ j \in Int /\ Numbers[i] \in Nat
      BY <1>2
    <2>2. ~(i < j) /\ ~(j < i)
      BY <1>3, <1>4, <2>1
    <2> QED  BY <2>1, <2>2
  <1> QED  BY <1>2, <1>4 DEF Sns

LEMMA SameNumber ==
    ASSUME NEW c \in Clients, NEW d \in Clients, c.sn = d.sn, c # d
    PROVE  c.gate # d.gate
  BY DEF Clients

\* A message was sent: the others are as they were.
Appended(protocol, client) ==
    /\ Len(route') = Len(route) + 1 /\ Len(packet') = Len(packet) + 1
    /\ packet'[Len(packet) + 1] = [protocol |-> protocol, client |-> client]
    /\ \A m \in 1..Len(packet) : packet'[m] = packet[m] /\ route'[m] = route[m]
    /\ handled' = handled

LinksOK ==
    /\ route \in Seq(Routes) /\ handled \in [{"game"} -> Seq(1..Len(route))]
    /\ packet \in Seq(Packets) /\ Len(packet) = Len(route)
    /\ since \in 0..Len(handled["game"])
    /\ crossed \subseteq [message : 1..Len(route), number : Readings, owner : Clients]

LEMMA Sending ==
    ASSUME TypeOK, NEW protocol \in Protocols, NEW sn \in Sns,
           Net_sendToServer(protocol, sn), UNCHANGED <<since, crossed>>
    PROVE  Appended(protocol, Client(sn)) /\ LinksOK'
  <1> DEFINE p == [protocol |-> protocol, client |-> Client(sn)]
  <1>1. PICK via \in Routers :
            route' = Append(route, [to |-> "game", via |-> via]) /\ handled' = handled
    BY DEF Net_sendToServer, Links!Send
  <1>2. packet' = Append(packet, p) /\ p \in Packets
    BY Types DEF Net_sendToServer, Packets, Clients, Client
  <1>3. [to |-> "game", via |-> via] \in Routes
    BY DEF Routes
  <1>4. /\ route \in Seq(Routes) /\ packet \in Seq(Packets) /\ Len(packet) = Len(route)
        /\ Len(route) \in Nat
    BY Types
  <1> HIDE DEF p
  <1>5. route' \in Seq(Routes) /\ Len(route') = Len(route) + 1
    BY <1>1, <1>3, <1>4
  <1>6. packet' \in Seq(Packets) /\ Len(packet') = Len(packet) + 1
        /\ packet'[Len(packet) + 1] = p
    BY <1>2, <1>4
  <1>7. \A m \in 1..Len(packet) : packet'[m] = packet[m] /\ route'[m] = route[m]
    BY <1>1, <1>2, <1>3, <1>4
  <1>8. 1..Len(route) \subseteq 1..Len(route')
    BY <1>4, <1>5
  <1>9. handled["game"] \in Seq(1..Len(route'))
    BY <1>8, Types, SeqMonotonic DEF H
  <1>10. handled' \in [{"game"} -> Seq(1..Len(route'))]
    BY <1>1, <1>9 DEF TypeOK
  <1>11. crossed' \subseteq [message : 1..Len(route'), number : Readings, owner : Clients]
    BY <1>8 DEF TypeOK
  <1>12. since' \in 0..Len(handled'["game"])
    BY <1>1 DEF TypeOK
  <1> QED  BY <1>1, <1>4, <1>5, <1>6, <1>7, <1>10, <1>11, <1>12 DEF Appended, LinksOK, p

\* What the game server keeps does not depend on messages not yet handled.
LEMMA KeptWhenSent ==
    ASSUME TypeOK, Kept, CrossedHandled, Caused,
           NEW protocol \in Protocols, NEW client \in Clients, Appended(protocol, client),
           UNCHANGED <<game, mirror, direct, since, crossed>>
    PROVE  Kept' /\ CrossedHandled' /\ Caused'
  <1>1. /\ H' = H /\ Len(H) \in Nat /\ Len(packet) = Len(route) /\ Len(route) \in Nat
        /\ since \in Nat
        /\ \A i \in 1..Len(H) : H[i] \in 1..Len(route)
        /\ Len(packet') = Len(packet) + 1
        /\ \A m \in 1..Len(packet) : packet'[m] = packet[m] /\ route'[m] = route[m]
    BY Types DEF Appended, H
  <1>2. \A i \in 1..Len(H) : packet'[H[i]] = packet[H[i]] /\ route'[H[i]] = route[H[i]]
    BY <1>1
  <1>3. Ordered'
    BY <1>1, <1>2 DEF Kept, Ordered
  <1>4. \A j \in 1..Len(H) : Last(j)' <=> Last(j)
    <2> SUFFICES ASSUME NEW j \in 1..Len(H) PROVE Last(j)' <=> Last(j)
      OBVIOUS
    <2>1. (j + 1)..Len(H) \subseteq 1..Len(H)
      BY <1>1
    <2> QED  BY <1>1, <1>2, <2>1 DEF Last, Number, Conn, DisConn
  <1>5. \A j \in (since + 1)..Len(H) : j \in 1..Len(H)
    BY <1>1
  <1>6. \A i \in 1..Len(H) :
           /\ Conn(H[i])' <=> Conn(H[i])
           /\ DisConn(H[i])' <=> DisConn(H[i])
           /\ Number(H[i])' = Number(H[i])
    BY <1>1, <1>2 DEF Conn, DisConn, Number
  <1>7. Mirrored'
    <2>1. \A d \in DOMAIN mirror :
             mirror[d].gate # 0 =>
                 \E j \in (since + 1)..Len(H) :
                    Conn(H[j])' /\ packet'[H[j]].client = mirror[d] /\ Last(j)'
      <3> SUFFICES ASSUME NEW d \in DOMAIN mirror, mirror[d].gate # 0
                   PROVE  \E j \in (since + 1)..Len(H) :
                             Conn(H[j])' /\ packet'[H[j]].client = mirror[d] /\ Last(j)'
        OBVIOUS
      <3>1. PICK j \in (since + 1)..Len(H) :
                 Conn(H[j]) /\ packet[H[j]].client = mirror[d] /\ Last(j)
        BY DEF Kept, Mirrored
      <3> QED  BY <1>2, <1>4, <1>5, <1>6, <3>1
    <2>2. \A j \in (since + 1)..Len(H) :
             direct = 0 /\ Conn(H[j])' /\ Last(j)' =>
                 /\ Number(H[j])' \in DOMAIN mirror
                 /\ mirror[Number(H[j])'] = packet'[H[j]].client
      BY <1>2, <1>4, <1>5, <1>6 DEF Kept, Mirrored
    <2>3. game = 1 => since = 0
      BY DEF Kept, Mirrored
    <2> QED  BY <1>1, <2>1, <2>2, <2>3 DEF Mirrored
  <1>8. Served'
    <2>1. \A j \in 1..Len(H) : \A k \in (j + 1)..Len(H) : k \in 1..Len(H)
      BY <1>1
    <2> QED  BY <1>1, <1>5, <1>6, <2>1 DEF Kept, Served
  <1>9. CrossedHandled'
    BY <1>1 DEF CrossedHandled
  <1>10. Caused'
    <2> SUFFICES ASSUME NEW c \in crossed
                 PROVE  \/ Foreign(c)'
                        \/ \A i, j \in 1..Len(H) :
                              i < j /\ H[j] = c.message /\ Conn(H[i])' =>
                                  packet'[H[i]].client # packet'[c.message].client
                        \/ \E m \in 1..Len(packet') :
                              /\ Conn(m)'
                              /\ packet'[m].client \in {packet'[c.message].client, c.owner}
                              /\ route'[m] # route'[c.message]
      BY <1>1 DEF Caused
    <2>1. /\ packet'[c.message] = packet[c.message] /\ route'[c.message] = route[c.message]
          /\ 1..Len(packet) \subseteq 1..Len(packet')
      BY <1>1 DEF TypeOK
    <2>2. CASE Foreign(c)
      BY <2>1, <2>2 DEF Foreign, Number
    <2>3. CASE \A i, j \in 1..Len(H) :
                 i < j /\ H[j] = c.message /\ Conn(H[i]) =>
                     packet[H[i]].client # packet[c.message].client
      <3>1. \A i \in 1..Len(H) : Conn(H[i])' <=> Conn(H[i])
        BY <1>1, <1>2 DEF Conn
      <3> QED  BY <1>2, <2>1, <2>3, <3>1
    <2>4. CASE \E m \in 1..Len(packet) :
                 /\ Conn(m) /\ packet[m].client \in {packet[c.message].client, c.owner}
                 /\ route[m] # route[c.message]
      <3>1. PICK m \in 1..Len(packet) :
                 /\ Conn(m) /\ packet[m].client \in {packet[c.message].client, c.owner}
                 /\ route[m] # route[c.message]
        BY <2>4
      <3>2. /\ Conn(m)' /\ packet'[m].client \in {packet'[c.message].client, c.owner}
            /\ route'[m] # route'[c.message] /\ m \in 1..Len(packet')
        BY <1>1, <2>1, <3>1 DEF Conn
      <3> QED  BY <3>2
    <2> QED  BY <2>2, <2>3, <2>4 DEF Caused
  <1> QED  BY <1>3, <1>7, <1>8, <1>9, <1>10 DEF Kept

\* Nor on the gate alone.
LEMMA KeptWhenSame ==
    ASSUME Kept, CrossedHandled, Caused,
           UNCHANGED <<game, mirror, route, handled, packet, direct, since, crossed>>
    PROVE  Kept' /\ CrossedHandled' /\ Caused'
  <1>1. /\ H' = H /\ (\A m : Conn(m)' <=> Conn(m)) /\ (\A m : DisConn(m)' <=> DisConn(m))
        /\ \A m : Number(m)' = Number(m)
    BY DEF H, Conn, DisConn, Number
  <1>2. \A j : Last(j)' <=> Last(j)
    BY <1>1 DEF Last
  <1>3. Ordered' /\ CrossedHandled'
    BY <1>1 DEF Kept, Ordered, CrossedHandled
  <1>4. Mirrored'
    BY <1>1, <1>2 DEF Kept, Mirrored
  <1>5. Served'
    BY <1>1 DEF Kept, Served
  <1>6. Caused'
    BY <1>1 DEF Caused, Foreign
  <1> QED  BY <1>3, <1>4, <1>5, <1>6 DEF Kept

-----------------------------------------------------------------------------
(* The steps of the gate.                                                  *)

LEMMA ConnectSent == IInv /\ CHandlerConnect => IInv'
  <1> SUFFICES ASSUME IInv, CHandlerConnect PROVE IInv'
    OBVIOUS
  <1> DEFINE sn == Numbers[accepted + 1]
             new == Len(packet) + 1
  <1>1. /\ TypeOK /\ Numbered /\ Known /\ Announcements /\ Told
        /\ Kept /\ CrossedHandled /\ Caused
    BY DEF IInv, Sent
  <1>2. /\ accepted + 1 \in 1..Len(Numbers) /\ accepted' = accepted + 1
        /\ open' = open \cup {sn} /\ gtSessionMap' = gtSessionMap \cup {sn}
        /\ Net_sendToServer("G2S_ClientConn", sn)
        /\ UNCHANGED <<gate, game, closing, mirror, direct, since, crossed>>
    BY <1>1, Types, SnsTypes DEF CHandlerConnect
  <1>3. sn \in Sns /\ sn \in Nat /\ Client(sn) \in Clients /\ gate \in Nat
    BY <1>1, <1>2, Types, SnsTypes DEF Client, Clients
  <1>4. \A i \in 1..accepted : Numbers[i] # sn
    BY <1>1, <1>2, Types, SnsTypes
  <1> HIDE DEF sn
  <1>5. Appended("G2S_ClientConn", Client(sn)) /\ LinksOK'
    BY <1>1, <1>2, <1>3, Sending DEF Protocols
  <1>6. Kept' /\ CrossedHandled' /\ Caused'
    BY <1>1, <1>2, <1>3, <1>5, KeptWhenSent DEF Protocols
  <1>7. TypeOK'
    <2>1. /\ gate' \in 1..MaxGates /\ game' \in 1..MaxGames
          /\ accepted' \in 0..Len(Numbers)
          /\ open' \subseteq Sns /\ closing' \subseteq Sns /\ gtSessionMap' \subseteq Sns
          /\ \A d \in DOMAIN mirror' :
                mirror'[d] \in Clients /\ d = Received(mirror'[d].sn)
          /\ direct' \in 0..MaxDirect
      BY <1>1, <1>2, <1>3 DEF TypeOK
    <2> QED  BY <1>5, <2>1 DEF LinksOK, TypeOK, Packets
  <1>8. /\ Len(packet) \in Nat /\ Len(packet') = new /\ accepted \in Nat
        /\ packet'[new].protocol = "G2S_ClientConn" /\ packet'[new].client = Client(sn)
        /\ \A m \in 1..Len(packet) : packet'[m] = packet[m] /\ m < new
        /\ \A m \in 1..Len(packet') : m \in 1..Len(packet) \/ m = new
        /\ 1..Len(packet) \subseteq 1..Len(packet') /\ new \in 1..Len(packet')
        /\ \A m \in 1..Len(packet) : packet[m] \in Packets
    BY <1>1, <1>5, Types DEF Appended
  <1> HIDE DEF new
  <1>9. Client(sn).gate = gate /\ Client(sn).sn = sn
    BY DEF Client
  <1>10. \A m \in 1..Len(packet) : packet[m].client # Client(sn)
    BY <1>1, <1>4, <1>9 DEF Numbered
  <1>11. Numbered'
    <2>1. accepted + 1 \in 1..accepted' /\ 1..accepted \subseteq 1..accepted'
      BY <1>2, <1>8
    <2>2. \A m \in 1..Len(packet') :
             /\ packet'[m].client.gate <= gate
             /\ packet'[m].client.gate = gate =>
                   \E i \in 1..accepted' : packet'[m].client.sn = Numbers[i]
      <3> SUFFICES ASSUME NEW m \in 1..Len(packet')
                   PROVE  /\ packet'[m].client.gate <= gate
                          /\ packet'[m].client.gate = gate =>
                                \E i \in 1..accepted' : packet'[m].client.sn = Numbers[i]
        OBVIOUS
      <3>1. CASE m \in 1..Len(packet)
        BY <1>1, <1>8, <2>1, <3>1 DEF Numbered
      <3>2. CASE m = Len(packet) + 1
        BY <1>3, <1>8, <1>9, <2>1, <3>2 DEF sn, new
      <3> QED  BY <1>8, <3>1, <3>2 DEF new
    <2>3. \A m, n \in 1..Len(packet') :
             m < n => packet'[m].client.gate <= packet'[n].client.gate
      BY <1>1, <1>3, <1>8, <1>9 DEF Numbered
    <2> QED  BY <1>2, <2>2, <2>3 DEF Numbered
  <1>12. Known'
    <2>1. accepted + 1 \in 1..accepted' /\ 1..accepted \subseteq 1..accepted'
      BY <1>2, <1>8
    <2> QED  BY <1>1, <1>2, <2>1 DEF Known, sn
  <1>13. Announcements'
    BY <1>1, <1>8, <1>10 DEF Announcements, Conn, DisConn
  <1>14. Told'
    <2>1. \A s : Client(s)' = Client(s)
      BY <1>2 DEF Client
    <2>2. \A s \in open' :
             /\ \E m \in 1..Len(packet') : Conn(m)' /\ packet'[m].client = Client(s)
             /\ \A m \in 1..Len(packet') : packet'[m].client = Client(s) => ~DisConn(m)'
      <3> SUFFICES ASSUME NEW s \in open'
                   PROVE  /\ \E m \in 1..Len(packet') : Conn(m)' /\ packet'[m].client = Client(s)
                          /\ \A m \in 1..Len(packet') : packet'[m].client = Client(s) => ~DisConn(m)'
        OBVIOUS
      <3>1. CASE s = sn
        BY <1>8, <1>10, <3>1 DEF Conn, DisConn
      <3>2. CASE s # sn
        <4>1. s \in open /\ Client(s) # Client(sn)
          BY <1>2, <3>2 DEF Client
        <4> QED  BY <1>1, <1>8, <4>1 DEF Told, Conn, DisConn
      <3> QED  BY <3>1, <3>2
    <2>3. \A m \in 1..Len(packet') :
             Conn(m)' /\ packet'[m].client.gate = gate /\ packet'[m].client.sn \notin open' =>
                 \E n \in 1..Len(packet') : DisConn(n)' /\ packet'[n].client = packet'[m].client
      BY <1>1, <1>2, <1>8, <1>9 DEF Told, Conn, DisConn
    <2> QED  BY <1>2, <2>1, <2>2, <2>3 DEF Told
  <1> QED  BY <1>6, <1>7, <1>11, <1>12, <1>13, <1>14 DEF IInv, Sent

LEMMA DisconnectSent ==
    ASSUME NEW sn \in Sns
    PROVE  IInv /\ CHandlerDisconnect(sn) => IInv'
  <1> SUFFICES ASSUME IInv, CHandlerDisconnect(sn) PROVE IInv'
    OBVIOUS
  <1> DEFINE new == Len(packet) + 1
  <1>1. /\ TypeOK /\ Numbered /\ Known /\ Announcements /\ Told
        /\ Kept /\ CrossedHandled /\ Caused
    BY DEF IInv, Sent
  <1>2. /\ sn \in open /\ open' = open \ {sn} /\ closing' = closing \cup {sn}
        /\ gtSessionMap' = gtSessionMap \ {sn}
        /\ Net_sendToServer("G2S_ClientDisConn", sn)
        /\ UNCHANGED <<gate, game, accepted, mirror, direct, since, crossed>>
    BY <1>1 DEF CHandlerDisconnect, CloseSession, Known
  <1>3. Client(sn) \in Clients /\ gate \in Nat
    BY <1>1, Types DEF Client, Clients
  <1>4. Appended("G2S_ClientDisConn", Client(sn)) /\ LinksOK'
    BY <1>1, <1>2, Sending DEF Protocols
  <1>5. Kept' /\ CrossedHandled' /\ Caused'
    BY <1>1, <1>2, <1>3, <1>4, KeptWhenSent DEF Protocols
  <1>6. TypeOK'
    <2>1. /\ gate' \in 1..MaxGates /\ game' \in 1..MaxGames
          /\ accepted' \in 0..Len(Numbers)
          /\ open' \subseteq Sns /\ closing' \subseteq Sns /\ gtSessionMap' \subseteq Sns
          /\ \A d \in DOMAIN mirror' :
                mirror'[d] \in Clients /\ d = Received(mirror'[d].sn)
          /\ direct' \in 0..MaxDirect
      BY <1>1, <1>2 DEF TypeOK
    <2> QED  BY <1>4, <2>1 DEF LinksOK, TypeOK, Packets
  <1>7. /\ Len(packet) \in Nat /\ Len(packet') = new
        /\ packet'[new].protocol = "G2S_ClientDisConn" /\ packet'[new].client = Client(sn)
        /\ \A m \in 1..Len(packet) : packet'[m] = packet[m] /\ m < new
        /\ \A m \in 1..Len(packet') : m \in 1..Len(packet) \/ m = new
        /\ 1..Len(packet) \subseteq 1..Len(packet') /\ new \in 1..Len(packet')
        /\ \A m \in 1..Len(packet) : packet[m] \in Packets
    BY <1>1, <1>4, Types DEF Appended
  <1> HIDE DEF new
  <1>8. Client(sn).gate = gate /\ Client(sn).sn = sn
    BY DEF Client
  <1>9. \E i \in 1..accepted : sn = Numbers[i]
    BY <1>1, <1>2 DEF Known
  <1>10. Numbered'
    <2>1. \A m \in 1..Len(packet') :
             /\ packet'[m].client.gate <= gate
             /\ packet'[m].client.gate = gate =>
                   \E i \in 1..accepted : packet'[m].client.sn = Numbers[i]
      BY <1>1, <1>3, <1>7, <1>8, <1>9 DEF Numbered
    <2>2. \A m, n \in 1..Len(packet') :
             m < n => packet'[m].client.gate <= packet'[n].client.gate
      BY <1>1, <1>3, <1>7, <1>8 DEF Numbered
    <2> QED  BY <1>2, <2>1, <2>2 DEF Numbered
  <1>11. Known'
    BY <1>1, <1>2, <1>9 DEF Known
  <1>12. Announcements'
    BY <1>1, <1>7 DEF Announcements, Conn, DisConn
  <1>13. Told'
    <2>1. \A s : Client(s)' = Client(s)
      BY <1>2 DEF Client
    <2>2. \A s \in open' :
             /\ \E m \in 1..Len(packet') : Conn(m)' /\ packet'[m].client = Client(s)
             /\ \A m \in 1..Len(packet') : packet'[m].client = Client(s) => ~DisConn(m)'
      <3> SUFFICES ASSUME NEW s \in open'
                   PROVE  /\ \E m \in 1..Len(packet') : Conn(m)' /\ packet'[m].client = Client(s)
                          /\ \A m \in 1..Len(packet') : packet'[m].client = Client(s) => ~DisConn(m)'
        OBVIOUS
      <3>1. s \in open /\ Client(s) # Client(sn)
        BY <1>2 DEF Client
      <3> QED  BY <1>1, <1>7, <3>1 DEF Told, Conn, DisConn
    <2>3. \A m \in 1..Len(packet') :
             Conn(m)' /\ packet'[m].client.gate = gate /\ packet'[m].client.sn \notin open' =>
                 \E n \in 1..Len(packet') : DisConn(n)' /\ packet'[n].client = packet'[m].client
      <3> SUFFICES ASSUME NEW m \in 1..Len(packet'), Conn(m)', packet'[m].client.gate = gate,
                          packet'[m].client.sn \notin open'
                   PROVE  \E n \in 1..Len(packet') :
                             DisConn(n)' /\ packet'[n].client = packet'[m].client
        OBVIOUS
      <3>1. m \in 1..Len(packet) /\ Conn(m)
        BY <1>7 DEF Conn
      <3>2. CASE packet[m].client.sn = sn
        <4>1. packet[m].client = Client(sn)
          BY <1>2, <1>7, <3>1, <3>2 DEF Packets, Clients, Client
        <4> QED  BY <1>7, <3>1, <4>1 DEF DisConn
      <3>3. CASE packet[m].client.sn # sn
        BY <1>1, <1>2, <1>7, <3>1, <3>3 DEF Told, DisConn
      <3> QED  BY <3>2, <3>3
    <2> QED  BY <1>2, <2>1, <2>2, <2>3 DEF Told
  <1> QED  BY <1>5, <1>6, <1>10, <1>11, <1>12, <1>13 DEF IInv, Sent

LEMMA NetMsgSent ==
    ASSUME NEW sn \in Sns
    PROVE  IInv /\ CHandlerNetMsg(sn) => IInv'
  <1> SUFFICES ASSUME IInv, CHandlerNetMsg(sn) PROVE IInv'
    OBVIOUS
  <1> DEFINE new == Len(packet) + 1
  <1>1. /\ TypeOK /\ Numbered /\ Known /\ Announcements /\ Told
        /\ Kept /\ CrossedHandled /\ Caused
    BY DEF IInv, Sent
  <1>2. /\ sn \in open \cup closing
        /\ Net_sendToServer("G2S_RevPackage", sn)
        /\ UNCHANGED <<gate, game, accepted, open, closing, gtSessionMap, mirror, direct,
                       since, crossed>>
    BY DEF CHandlerNetMsg, gateVars
  <1>3. Client(sn) \in Clients /\ gate \in Nat
    BY <1>1, Types DEF Client, Clients
  <1>4. Appended("G2S_RevPackage", Client(sn)) /\ LinksOK'
    BY <1>1, <1>2, Sending DEF Protocols
  <1>5. Kept' /\ CrossedHandled' /\ Caused'
    BY <1>1, <1>2, <1>3, <1>4, KeptWhenSent DEF Protocols
  <1>6. TypeOK'
    BY <1>1, <1>2, <1>4 DEF LinksOK, TypeOK, Packets
  <1>7. /\ Len(packet) \in Nat /\ Len(packet') = new
        /\ packet'[new].protocol = "G2S_RevPackage" /\ packet'[new].client = Client(sn)
        /\ \A m \in 1..Len(packet) : packet'[m] = packet[m] /\ m < new
        /\ \A m \in 1..Len(packet') : m \in 1..Len(packet) \/ m = new
        /\ 1..Len(packet) \subseteq 1..Len(packet') /\ new \in 1..Len(packet')
        /\ \A m \in 1..Len(packet) : packet[m] \in Packets
    BY <1>1, <1>4, Types DEF Appended
  <1> HIDE DEF new
  <1>8. Client(sn).gate = gate /\ Client(sn).sn = sn
    BY DEF Client
  <1>9. \E i \in 1..accepted : sn = Numbers[i]
    BY <1>1, <1>2 DEF Known
  <1>10. Numbered'
    <2>1. \A m \in 1..Len(packet') :
             /\ packet'[m].client.gate <= gate
             /\ packet'[m].client.gate = gate =>
                   \E i \in 1..accepted : packet'[m].client.sn = Numbers[i]
      BY <1>1, <1>3, <1>7, <1>8, <1>9 DEF Numbered
    <2>2. \A m, n \in 1..Len(packet') :
             m < n => packet'[m].client.gate <= packet'[n].client.gate
      BY <1>1, <1>3, <1>7, <1>8 DEF Numbered
    <2> QED  BY <1>2, <2>1, <2>2 DEF Numbered
  <1>11. Known'
    BY <1>1, <1>2 DEF Known
  <1>12. Announcements'
    BY <1>1, <1>7 DEF Announcements, Conn, DisConn
  <1>13. Told'
    <2>1. \A s : Client(s)' = Client(s)
      BY <1>2 DEF Client
    <2>2. \A s \in open :
             /\ \E m \in 1..Len(packet') : Conn(m)' /\ packet'[m].client = Client(s)
             /\ \A m \in 1..Len(packet') : packet'[m].client = Client(s) => ~DisConn(m)'
      BY <1>1, <1>7 DEF Told, Conn, DisConn
    <2>3. \A m \in 1..Len(packet') :
             Conn(m)' /\ packet'[m].client.gate = gate /\ packet'[m].client.sn \notin open =>
                 \E n \in 1..Len(packet') : DisConn(n)' /\ packet'[n].client = packet'[m].client
      BY <1>1, <1>7 DEF Told, Conn, DisConn
    <2> QED  BY <1>2, <2>1, <2>2, <2>3 DEF Told
  <1> QED  BY <1>5, <1>6, <1>10, <1>11, <1>12, <1>13 DEF IInv, Sent

\* Net::update and the end of a gate send nothing.
LEMMA UpdateKeeps == IInv /\ Update => IInv'
  <1> SUFFICES ASSUME IInv, Update PROVE IInv'
    OBVIOUS
  <1>1. /\ closing' = {}
        /\ UNCHANGED <<gate, game, accepted, open, gtSessionMap, mirror, route, handled,
                       packet, direct, since, crossed>>
    BY DEF Update, links
  <1>2. TypeOK' /\ Known'
    BY <1>1 DEF IInv, Sent, TypeOK, Known
  <1>3. Numbered' /\ Announcements' /\ Told'
    BY <1>1 DEF IInv, Sent, Numbered, Announcements, Told, Conn, DisConn, Client
  <1>4. Kept' /\ CrossedHandled' /\ Caused'
    BY <1>1, KeptWhenSame DEF IInv
  <1> QED  BY <1>2, <1>3, <1>4 DEF IInv, Sent

LEMMA GateRestartsKeeps == IInv /\ GateRestarts => IInv'
  <1> SUFFICES ASSUME IInv, GateRestarts PROVE IInv'
    OBVIOUS
  <1>1. /\ gate < MaxGates /\ gate' = gate + 1
        /\ accepted' = 0 /\ open' = {} /\ closing' = {} /\ gtSessionMap' = {}
        /\ UNCHANGED <<game, mirror, route, handled, packet, direct, since, crossed>>
    BY DEF GateRestarts, links
  <1>2. TypeOK /\ TypeOK'
    <2>1. 0 \in 0..Len(Numbers)
      BY SnsTypes
    <2> QED  BY <1>1, <2>1, GatesAssumption DEF IInv, TypeOK
  <1>3. \A m \in 1..Len(packet) :
           packet[m].client.gate \in Nat /\ packet[m].client.gate <= gate /\ gate \in Nat
    BY <1>2, Types DEF IInv, Sent, Numbered, Packets, Clients
  <1>4. Numbered' /\ Known' /\ Told'
    BY <1>1, <1>3 DEF IInv, Sent, Numbered, Known, Told
  <1>5. Announcements' /\ Kept' /\ CrossedHandled' /\ Caused'
    BY <1>1, KeptWhenSame DEF IInv, Sent, Announcements, Conn, DisConn
  <1> QED  BY <1>2, <1>4, <1>5 DEF IInv, Sent

-----------------------------------------------------------------------------
(* The steps of the game server.                                           *)

\* The positions in a sequence that has become longer by one.
LEMMA Grow ==
    ASSUME NEW n \in Nat, NEW s \in Nat, s <= n
    PROVE  /\ \A i \in 1..(n + 1) : i \in 1..n \/ i = n + 1
           /\ n + 1 \in 1..(n + 1) /\ n + 1 \in (s + 1)..(n + 1)
           /\ \A i \in 1..n : i < n + 1 /\ i \in 1..(n + 1) /\ i + 1 <= n + 1
           /\ \A i \in (s + 1)..n : i \in (s + 1)..(n + 1) /\ i \in 1..n
           /\ \A i \in (s + 1)..(n + 1) : i \in (s + 1)..n \/ i = n + 1
           /\ \A i \in 1..n : \A j \in (i + 1)..(n + 1) : j \in (i + 1)..n \/ j = n + 1
           /\ \A i \in 1..n : \A j \in (i + 1)..n : j \in (i + 1)..(n + 1) /\ j \in 1..n
           /\ \A i \in 1..n : n + 1 \in (i + 1)..(n + 1)
           /\ \A i \in (n + 1 + 1)..(n + 1) : FALSE
  OBVIOUS

\* The message that is handled is the last one; those of its route that were
\* handled before have smaller numbers.
LEMMA Handling ==
    ASSUME TypeOK, Kept, NEW m \in 1..Len(route), Links!Handle(m)
    PROVE  /\ H' \in Seq(1..Len(route)) /\ Len(H') = Len(H) + 1 /\ H'[Len(H) + 1] = m
           /\ \A i \in 1..Len(H) : H'[i] = H[i]
           /\ handled' \in [{"game"} -> Seq(1..Len(route))]
           /\ route' = route /\ Ordered'
           /\ \A i \in 1..Len(H) : H[i] # m
  <1>1. /\ route \in Seq(Routes) /\ H \in Seq(1..Len(route)) /\ Len(H) \in Nat
        /\ \A i \in 1..Len(H) : H[i] \in 1..Len(route)
    BY Types
  <1>2. route[m].to = "game"
    <2>1. route[m] \in Routes
      BY <1>1, ElementOfSeq
    <2> QED  BY <2>1 DEF Routes
  <1>3. /\ route' = route
        /\ handled' = [handled EXCEPT !["game"] = Append(H, m)]
        /\ \A i \in 1..Len(H) : route[H[i]] = route[m] => H[i] < m
    BY <1>2 DEF Links!Handle, Links!InOrder, H
  <1>4. H' = Append(H, m)
    BY <1>3 DEF TypeOK, H
  <1>5. /\ H' \in Seq(1..Len(route)) /\ Len(H') = Len(H) + 1 /\ H'[Len(H) + 1] = m
        /\ \A i \in 1..Len(H) : H'[i] = H[i]
    BY <1>1, <1>4
  <1>6. handled' \in [{"game"} -> Seq(1..Len(route))]
    <2>1. Append(H, m) \in Seq(1..Len(route))
      BY <1>4, <1>5
    <2> QED  BY <1>3, <2>1 DEF TypeOK
  <1>7. Ordered'
    <2> SUFFICES ASSUME NEW i \in 1..Len(H'), NEW j \in 1..Len(H'), i < j,
                        route[H'[i]] = route[H'[j]]
                 PROVE  H'[i] < H'[j]
      BY <1>3 DEF Ordered
    <2>1. i \in 1..Len(H) /\ H'[i] = H[i]
      <3>1. Len(H) \in Nat /\ Len(H') = Len(H) + 1
        BY <1>1, <1>5
      <3>2. i \in 1..Len(H)
        BY <3>1
      <3> QED  BY <1>5, <3>2
    <2>2. CASE j \in 1..Len(H)
      BY <1>5, <2>1, <2>2 DEF Kept, Ordered
    <2>3. CASE j = Len(H) + 1
      BY <1>3, <1>5, <2>1, <2>3
    <2>4. j \in 1..Len(H) \/ j = Len(H) + 1
      <3>1. Len(H') = Len(H) + 1 /\ Len(H) \in Nat /\ j \in 1..Len(H')
        BY <1>1, <1>5
      <3> QED  BY <3>1
    <2> QED  BY <2>2, <2>3, <2>4
  <1>8. \A i \in 1..Len(H) : H[i] # m
    BY <1>1, <1>3
  <1> QED  BY <1>3, <1>5, <1>6, <1>7, <1>8

LEMMA CHandlerMsgKeeps ==
    ASSUME NEW m \in 1..Len(route)
    PROVE  IInv /\ CHandlerMsg(m) => IInv'
  <1> SUFFICES ASSUME IInv, CHandlerMsg(m) PROVE IInv'
    OBVIOUS
  <1> DEFINE sn == Received(packet[m].client.sn)
  <1>0. PICK new : new = Len(H) + 1
    OBVIOUS
  <1>1. /\ TypeOK /\ Sent /\ Kept /\ Ordered /\ Mirrored /\ Served /\ CrossedHandled /\ Caused
    BY DEF IInv, Kept
  <1>2. /\ Links!Handle(m)
        /\ \/ /\ packet[m].protocol = "G2S_ClientConn"
              /\ NewSession(sn, packet[m].client) /\ UNCHANGED crossed
           \/ /\ packet[m].protocol = "G2S_ClientDisConn"
              /\ DelSession(sn) /\ UNCHANGED crossed
           \/ /\ packet[m].protocol = "G2S_RevPackage"
              /\ RecvClientPacket(m, sn) /\ UNCHANGED mirror
        /\ UNCHANGED <<gate, game, accepted, open, closing, gtSessionMap, packet, direct,
                       since>>
    BY DEF CHandlerMsg, gateVars
  <1>3. /\ H' \in Seq(1..Len(route)) /\ Len(H') = new /\ H'[new] = m
        /\ \A i \in 1..Len(H) : H'[i] = H[i]
        /\ handled' \in [{"game"} -> Seq(1..Len(route))]
        /\ route' = route /\ Ordered'
        /\ \A i \in 1..Len(H) : H[i] # m
    BY <1>0, <1>1, <1>2, Handling
  <1>4. /\ Len(H) \in Nat /\ Len(packet) = Len(route) /\ since \in Nat /\ since <= Len(H)
        /\ \A i \in 1..Len(H) : H[i] \in 1..Len(route)
        /\ packet[m] \in Packets /\ Len(route) \in Nat
    BY <1>1, Types DEF TypeOK, H
  <1>5. Sent'
    <2>1. Numbered' /\ Known' /\ Announcements'
      BY <1>1, <1>2 DEF Sent, Numbered, Known, Announcements, Conn, DisConn
    <2>2. Told'
      BY <1>1, <1>2 DEF Sent, Told, Conn, DisConn, Client
    <2> QED  BY <2>1, <2>2 DEF Sent
  <1>6. /\ packet[m].client \in Clients /\ packet[m].protocol \in Protocols
        /\ \A d \in DOMAIN mirror : mirror[d] \in Clients /\ d = Received(mirror[d].sn)
    BY <1>1, <1>4 DEF Packets, TypeOK
  <1>7. /\ mirror' = IF Conn(m) THEN Put(sn, packet[m].client)
                     ELSE IF DisConn(m) THEN [d \in DOMAIN mirror \ {sn} |-> mirror[d]]
                     ELSE mirror
        /\ \/ crossed' = crossed
           \/ \E d \in DOMAIN mirror :
                 /\ ~Conn(m) /\ mirror[d] # packet[m].client
                 /\ crossed' = crossed \cup
                        {[message |-> m, number |-> d, owner |-> mirror[d]]}
    BY <1>2 DEF Conn, DisConn, NewSession, DelSession, RecvClientPacket
  <1> HIDE DEF sn
  <1>8. /\ \A d \in DOMAIN mirror' :
              /\ mirror'[d] \in Clients /\ d = Received(mirror'[d].sn)
              /\ d # sn => d \in DOMAIN mirror /\ mirror'[d] = mirror[d]
              /\ d = sn /\ Conn(m) => mirror'[d] = packet[m].client
              /\ d = sn /\ ~Conn(m) =>
                    ~DisConn(m) /\ d \in DOMAIN mirror /\ mirror'[d] = mirror[d]
        /\ \A d \in DOMAIN mirror : d # sn => d \in DOMAIN mirror'
        /\ Conn(m) => sn \in DOMAIN mirror'
        /\ ~Conn(m) /\ ~DisConn(m) => mirror' = mirror
    <2>1. CASE Conn(m)
      BY <1>6, <1>7, <2>1 DEF Put, Conn, DisConn, sn
    <2>2. CASE DisConn(m)
      BY <1>6, <1>7, <2>2 DEF Conn, DisConn
    <2>3. CASE ~Conn(m) /\ ~DisConn(m)
      <3>1. mirror' = mirror
        BY <1>7, <2>3
      <3> QED  BY <1>6, <2>3, <3>1
    <2> QED  BY <2>1, <2>2, <2>3 DEF Conn, DisConn
  <1>9. TypeOK'
    <2>1. crossed' \subseteq [message : 1..Len(route), number : Readings, owner : Clients]
      <3>1. crossed \subseteq [message : 1..Len(route), number : Readings, owner : Clients]
        BY <1>1 DEF TypeOK
      <3>2. \A d \in DOMAIN mirror : d \in Readings
        BY <1>6 DEF Readings, Clients
      <3> QED  BY <1>6, <1>7, <3>1, <3>2
    <2>2. since' \in 0..Len(handled'["game"])
      BY <1>0, <1>2, <1>3, <1>4 DEF H
    <2> QED  BY <1>1, <1>2, <1>3, <1>8, <2>1, <2>2 DEF TypeOK
  <1>10. /\ \A i \in 1..Len(H') : i \in 1..Len(H) \/ i = new
         /\ new \in 1..Len(H') /\ new \in (since + 1)..Len(H')
         /\ \A i \in 1..Len(H) : i < new /\ i \in 1..Len(H') /\ i + 1 <= new
         /\ \A i \in (since + 1)..Len(H) : i \in (since + 1)..Len(H') /\ i \in 1..Len(H)
         /\ \A i \in (since + 1)..Len(H') : i \in (since + 1)..Len(H) \/ i = new
         /\ \A i \in 1..Len(H) : \A j \in (i + 1)..Len(H') : j \in (i + 1)..Len(H) \/ j = new
         /\ \A i \in 1..Len(H) : \A j \in (i + 1)..Len(H) :
               j \in (i + 1)..Len(H') /\ j \in 1..Len(H)
         /\ \A i \in 1..Len(H) : new \in (i + 1)..Len(H')
         /\ \A i \in (new + 1)..Len(H') : FALSE
    <2>1. Len(H) \in Nat /\ since \in Nat /\ since <= Len(H)
      BY <1>4
    <2>2. Len(H') = Len(H) + 1
      BY <1>0, <1>3
    <2> QED  BY <1>0, <2>1, <2>2, Grow
  <1>11. /\ \A n : Conn(n)' <=> Conn(n)
         /\ \A n : DisConn(n)' <=> DisConn(n)
         /\ \A n : Number(n)' = Number(n)
         /\ sn = Number(m)
    BY <1>2 DEF Conn, DisConn, Number, sn
  <1>12. /\ Last(new)'
         /\ \A j \in 1..Len(H) :
               Last(j)' <=> Last(j) /\ (Number(H[j]) = sn => ~Conn(m) /\ ~DisConn(m))
    <2>1. \A j : Last(j)' <=> \A i \in (j + 1)..Len(H') :
                               Number(H'[i]) = Number(H'[j]) => ~Conn(H'[i]) /\ ~DisConn(H'[i])
      BY <1>2 DEF Last, Number, Conn, DisConn
    <2>2. ASSUME NEW j \in 1..Len(H)
          PROVE  Last(j)' <=> Last(j) /\ (Number(H[j]) = sn => ~Conn(m) /\ ~DisConn(m))
      <3>1. ASSUME Last(j)' PROVE Last(j) /\ (Number(H[j]) = sn => ~Conn(m) /\ ~DisConn(m))
        BY <1>3, <1>10, <1>11, <2>1, <3>1 DEF Last
      <3>2. ASSUME Last(j), Number(H[j]) = sn => ~Conn(m) /\ ~DisConn(m) PROVE Last(j)'
        BY <1>3, <1>10, <1>11, <2>1, <3>2 DEF Last
      <3> QED  BY <3>1, <3>2
    <2>3. Last(new)'
      BY <1>10, <2>1
    <2> QED  BY <2>2, <2>3
  <1>13. Mirrored'
    <2>1. ASSUME NEW d \in DOMAIN mirror'
          PROVE  mirror'[d].gate # 0 =>
                    \E j \in (since + 1)..Len(H') :
                       Conn(H'[j]) /\ packet[H'[j]].client = mirror'[d] /\ Last(j)'
      <3>1. CASE d = sn /\ Conn(m)
        <4>1. mirror'[d] = packet[m].client /\ H'[new] = m /\ new \in (since + 1)..Len(H')
          BY <1>3, <1>8, <1>10, <3>1
        <4> QED  BY <1>12, <3>1, <4>1
      <3>2. CASE ~(d = sn /\ Conn(m))
        <4>1. d \in DOMAIN mirror /\ mirror'[d] = mirror[d] /\ d = Received(mirror[d].sn)
          BY <1>6, <1>8, <3>2
        <4> SUFFICES ASSUME mirror[d].gate # 0
                     PROVE  \E j \in (since + 1)..Len(H') :
                               Conn(H'[j]) /\ packet[H'[j]].client = mirror'[d] /\ Last(j)'
          BY <4>1
        <4>2. PICK j \in (since + 1)..Len(H) :
                   Conn(H[j]) /\ packet[H[j]].client = mirror[d] /\ Last(j)
          BY <1>1, <4>1 DEF Mirrored
        <4>3. Number(H[j]) = d
          BY <4>1, <4>2 DEF Number
        <4>4. d = sn => ~Conn(m) /\ ~DisConn(m)
          BY <1>8, <3>2
        <4>5. Last(j)' /\ H'[j] = H[j] /\ j \in (since + 1)..Len(H')
          BY <1>3, <1>10, <1>12, <4>2, <4>3, <4>4
        <4> QED  BY <4>1, <4>2, <4>5
      <3> QED  BY <3>1, <3>2
    <2>2. ASSUME NEW j \in (since + 1)..Len(H'), direct = 0, Conn(H'[j]), Last(j)'
          PROVE  /\ Number(H'[j]) \in DOMAIN mirror'
                 /\ mirror'[Number(H'[j])] = packet[H'[j]].client
      <3>1. CASE j = new
        BY <1>3, <1>8, <1>11, <2>2, <3>1
      <3>2. CASE j \in (since + 1)..Len(H)
        <4>1. j \in 1..Len(H) /\ H'[j] = H[j]
          BY <1>3, <1>10, <3>2
        <4>2. Last(j) /\ (Number(H[j]) = sn => ~Conn(m) /\ ~DisConn(m))
          BY <1>12, <2>2, <4>1
        <4>3. Number(H[j]) \in DOMAIN mirror /\ mirror[Number(H[j])] = packet[H[j]].client
          BY <1>1, <2>2, <3>2, <4>1, <4>2 DEF Mirrored
        <4> QED  BY <1>8, <4>1, <4>2, <4>3
      <3> QED  BY <1>10, <3>1, <3>2
    <2> QED  BY <1>1, <1>2, <1>11, <2>1, <2>2 DEF Mirrored
  <1>14. Served'
    <2> SUFFICES ASSUME NEW j \in (since + 1)..Len(H'), direct = 0, Conn(H'[j])
                 PROVE  \/ Number(H'[j]) \in DOMAIN mirror'
                        \/ \E k \in (j + 1)..Len(H') :
                              DisConn(H'[k]) /\ Number(H'[k]) = Number(H'[j])
      BY <1>2, <1>11 DEF Served
    <2>1. CASE j = new
      BY <1>3, <1>8, <1>11, <2>1
    <2>2. CASE j \in (since + 1)..Len(H)
      <3>1. j \in 1..Len(H) /\ H'[j] = H[j]
        BY <1>3, <1>10, <2>2
      <3>2. CASE Number(H[j]) \in DOMAIN mirror
        <4>1. CASE DisConn(m) /\ Number(H[j]) = sn
          BY <1>3, <1>10, <1>11, <3>1, <4>1
        <4>2. CASE ~(DisConn(m) /\ Number(H[j]) = sn)
          BY <1>8, <3>1, <3>2, <4>2
        <4> QED  BY <4>1, <4>2
      <3>3. CASE \E k \in (j + 1)..Len(H) : DisConn(H[k]) /\ Number(H[k]) = Number(H[j])
        BY <1>3, <1>10, <3>1, <3>3
      <3> QED  BY <1>1, <2>2, <3>1, <3>2, <3>3 DEF Served
    <2> QED  BY <1>10, <2>1, <2>2
  <1>15. CrossedHandled'
    BY <1>1, <1>3, <1>7, <1>10 DEF CrossedHandled
  <1>16. Caused'
    <2> SUFFICES ASSUME NEW c \in crossed', ~Foreign(c),
                        NEW i \in 1..Len(H'), NEW j \in 1..Len(H'),
                        i < j, H'[j] = c.message, Conn(H'[i]),
                        packet[H'[i]].client = packet[c.message].client
                 PROVE  \E n \in 1..Len(packet) :
                           /\ Conn(n) /\ packet[n].client \in {packet[c.message].client, c.owner}
                           /\ route[n] # route[c.message]
      BY <1>2, <1>3 DEF Caused, Conn, Foreign, Number
    <2>1. i \in 1..Len(H) /\ H'[i] = H[i]
      <3>1. Len(H) \in Nat /\ Len(H') = Len(H) + 1
        BY <1>0, <1>3, <1>4
      <3>2. i \in 1..Len(H)
        BY <3>1
      <3> QED  BY <1>3, <3>2
    <2>2. CASE c \in crossed
      <3>1. j \in 1..Len(H) /\ H'[j] = H[j]
        BY <1>1, <1>3, <1>10, <2>2 DEF CrossedHandled
      <3> QED  BY <1>1, <2>1, <2>2, <3>1 DEF Caused
    <2>3. CASE c \notin crossed
      <3>0. PICK d \in DOMAIN mirror :
                 /\ c = [message |-> m, number |-> d, owner |-> mirror[d]]
                 /\ mirror[d] # packet[m].client
        BY <1>7, <2>3
      <3>1. /\ c = [message |-> m, number |-> d, owner |-> mirror[d]]
            /\ mirror[d] # packet[m].client /\ mirror[d].gate # 0
            /\ packet[m].client.sn = mirror[d].sn
        BY <1>6, <3>0 DEF Foreign, Number
      <3> DEFINE owner == mirror[d]
                 a == H[i]
      <3>2. PICK k \in (since + 1)..Len(H) :
                 Conn(H[k]) /\ packet[H[k]].client = owner /\ Last(k)
        BY <1>1, <3>1 DEF Mirrored
      <3>3. k \in 1..Len(H)
        BY <1>10
      <3> DEFINE b == H[k]
      <3>4. /\ a \in 1..Len(packet) /\ b \in 1..Len(packet) /\ m \in 1..Len(packet)
            /\ a \in Int /\ b \in Int /\ m \in Int
            /\ packet[a].client \in Clients /\ packet[b].client \in Clients
            /\ Conn(a) /\ Conn(b)
        <4>1. TypeOK /\ i \in 1..Len(H) /\ k \in 1..Len(H)
          BY <1>1, <2>1, <3>3
        <4>2. /\ Len(packet) = Len(route) /\ Len(route) \in Nat
              /\ \A n \in 1..Len(H) : H[n] \in 1..Len(route)
              /\ \A n \in 1..Len(packet) : packet[n].client \in Clients
          BY <4>1, Types DEF Packets
        <4>3. a \in 1..Len(packet) /\ b \in 1..Len(packet) /\ m \in 1..Len(packet)
          BY <4>1, <4>2
        <4>4. Conn(a) /\ Conn(b)
          BY <1>4, <2>1, <3>2
        <4> HIDE DEF a, b
        <4> QED  BY <4>2, <4>3, <4>4
      <3> SUFFICES ASSUME route[a] = route[m], route[b] = route[m] PROVE FALSE
        BY <2>1, <3>1, <3>2, <3>4
      <3>5. /\ packet[m].client = packet[a].client /\ packet[b].client = owner
            /\ packet[a].client.sn = owner.sn /\ packet[a].client.gate # owner.gate
            /\ packet[a].client.gate \in Nat /\ owner.gate \in Nat
        <4>1. /\ packet[a].client \in [gate : Nat, sn : Sns]
              /\ owner \in [gate : Nat, sn : Sns]
          BY <3>2, <3>4 DEF Clients
        <4>2. packet[m].client = packet[a].client /\ packet[b].client = owner
          BY <2>1, <3>1, <3>2
        <4>3. packet[a].client.sn = owner.sn /\ packet[a].client # owner
          BY <3>1, <4>2
        <4> HIDE DEF owner, a, b
        <4>4. packet[a].client.gate # owner.gate
          BY <4>1, <4>3, SameNumber DEF Clients
        <4> QED  BY <4>1, <4>2, <4>3, <4>4
      <3> HIDE DEF owner, a, b
      <3>6. CASE packet[a].client.gate < owner.gate
        <4>1. ~(b < m)
          <5>1. b < m => packet[b].client.gate <= packet[m].client.gate
            BY <1>1, <3>4 DEF Sent, Numbered
          <5> QED  BY <3>5, <3>6, <5>1
        <4>2. H'[k] = b /\ H'[new] = m /\ k < new /\ k \in 1..Len(H')
          BY <1>3, <1>10, <3>3 DEF b
        <4>3. b < m
          BY <1>3, <1>10, <4>2 DEF Ordered
        <4> QED  BY <4>1, <4>3
      <3>7. CASE owner.gate < packet[a].client.gate
        <4>1. ~(a < b) /\ a # b
          <5>1. a < b => packet[a].client.gate <= packet[b].client.gate
            BY <1>1, <3>4 DEF Sent, Numbered
          <5>2. packet[a].client # packet[b].client
            BY <3>5, <3>7
          <5> QED  BY <3>5, <3>7, <5>1, <5>2
        <4>2. ~(i < k) /\ i # k
          BY <1>1, <2>1, <3>3, <4>1 DEF Ordered, a, b
        <4>3. i \in (k + 1)..Len(H)
          BY <1>4, <2>1, <3>3, <4>2
        <4>4. Number(a) = Number(b)
          BY <3>5 DEF Number
        <4> QED  BY <3>2, <3>4, <4>3, <4>4 DEF Last, a, b
      <3> QED  BY <3>5, <3>6, <3>7
    <2> QED  BY <2>2, <2>3
  <1> QED  BY <1>3, <1>5, <1>9, <1>13, <1>14, <1>15, <1>16 DEF IInv, Kept

LEMMA GameRestartsKeeps == IInv /\ GameRestarts => IInv'
  <1> SUFFICES ASSUME IInv, GameRestarts PROVE IInv'
    OBVIOUS
  <1>1. /\ game < MaxGames /\ game' = game + 1 /\ mirror' = <<>> /\ since' = Len(H)
        /\ UNCHANGED <<gate, accepted, open, closing, gtSessionMap, route, handled, packet,
                       direct, crossed>>
    BY DEF GameRestarts, links, gateVars, H
  <1>2. TypeOK /\ Len(H) \in Nat /\ DOMAIN mirror' = {} /\ H' = H
    BY <1>1, Types DEF IInv, H
  <1>3. TypeOK'
    <2>1. game' \in 1..MaxGames /\ since' \in 0..Len(handled'["game"])
      BY <1>1, <1>2, GatesAssumption DEF TypeOK, H
    <2> QED  BY <1>1, <1>2, <2>1 DEF TypeOK
  <1>4. Sent'
    BY <1>1 DEF IInv, Sent, Numbered, Known, Announcements, Told, Conn, DisConn, Client
  <1>5. Ordered' /\ CrossedHandled' /\ Caused'
    BY <1>1, <1>2 DEF IInv, Kept, Ordered, CrossedHandled, Caused, Foreign, Number, Conn
  <1>6. Mirrored' /\ Served'
    <2>1. \A j \in (since' + 1)..Len(H') : FALSE
      BY <1>1, <1>2
    <2>2. game' # 1
      BY <1>1, <1>2, GatesAssumption DEF TypeOK
    <2> QED  BY <1>2, <2>1, <2>2 DEF Mirrored, Served
  <1> QED  BY <1>3, <1>4, <1>5, <1>6 DEF IInv, Kept

\* A client of the game server's own port changes sessions, and is counted.
LEMMA GameHandlerNetMsgKeeps ==
    ASSUME NEW sn \in Sns
    PROVE  IInv /\ GameHandlerNetMsg(sn) => IInv'
  <1> SUFFICES ASSUME IInv, GameHandlerNetMsg(sn) PROVE IInv'
    OBVIOUS
  <1>1. /\ direct < MaxDirect /\ direct' = direct + 1
        /\ \/ mirror' = Put(Received(sn), Direct(sn))
           \/ mirror' = [d \in DOMAIN mirror \ {Received(sn)} |-> mirror[d]]
        /\ UNCHANGED <<gate, game, accepted, open, closing, gtSessionMap, route, handled,
                       packet, since, crossed>>
    BY DEF GameHandlerNetMsg, NewSession, DelSession, gateVars, links
  <1>2. TypeOK /\ direct \in Nat /\ MaxDirect \in Nat
    BY GatesAssumption DEF IInv, TypeOK
  <1>3. direct' \in 0..MaxDirect /\ direct' # 0
    BY <1>1, <1>2
  <1>4. Direct(sn) \in Clients /\ Direct(sn).gate = 0 /\ Direct(sn).sn = sn
    BY DEF Direct, Clients
  <1>5. \A d \in DOMAIN mirror' :
           \/ d = Received(sn) /\ mirror'[d] = Direct(sn)
           \/ d \in DOMAIN mirror /\ mirror'[d] = mirror[d]
    BY <1>1 DEF Put
  <1>6. TypeOK'
    <2>1. \A d \in DOMAIN mirror' : mirror'[d] \in Clients /\ d = Received(mirror'[d].sn)
      BY <1>2, <1>4, <1>5 DEF TypeOK
    <2> QED  BY <1>1, <1>2, <1>3, <2>1 DEF TypeOK
  <1>7. Sent'
    BY <1>1 DEF IInv, Sent, Numbered, Known, Announcements, Told, Conn, DisConn, Client
  <1>8. Ordered' /\ CrossedHandled' /\ Caused'
    BY <1>1 DEF IInv, Kept, Ordered, CrossedHandled, Caused, Foreign, Number, Conn, H
  <1>9. Mirrored' /\ Served'
    <2>1. H' = H /\ (\A j : Last(j)' <=> Last(j)) /\ (\A j : Conn(j)' <=> Conn(j))
      BY <1>1 DEF Last, Number, Conn, DisConn, H
    <2> QED  BY <1>1, <1>3, <1>4, <1>5, <2>1 DEF IInv, Kept, Mirrored, Served
  <1> QED  BY <1>6, <1>7, <1>8, <1>9 DEF IInv, Kept

-----------------------------------------------------------------------------
(* The invariant holds.                                                    *)

LEMMA InitIInv == Init => IInv
  <1> SUFFICES ASSUME Init PROVE IInv
    OBVIOUS
  <1>1. /\ gate = 1 /\ game = 1 /\ accepted = 0 /\ direct = 0 /\ since = 0 /\ crossed = {}
        /\ open = {} /\ closing = {} /\ gtSessionMap = {}
        /\ mirror = <<>> /\ DOMAIN mirror = {} /\ route = <<>> /\ packet = <<>>
    BY DEF Init, Links!Init
  <1>2. handled = [s \in {"game"} |-> <<>>]
    <2>1. {r.to : r \in Routes} = {"game"}
      <3>1. PICK via \in Routers : TRUE
        BY GatesAssumption
      <3>2. [to |-> "game", via |-> via] \in Routes
        BY DEF Routes
      <3>3. \A r \in Routes : r.to = "game"
        BY DEF Routes
      <3> QED  BY <3>2, <3>3
    <2> QED  BY <2>1 DEF Init, Links!Init, Links!Ends
  <1>3. H = <<>> /\ Len(H) = 0 /\ Len(packet) = 0 /\ Len(route) = 0
    BY <1>1, <1>2, EmptySeq DEF H
  <1>4. TypeOK
    <2>1. 0 \in 0..Len(Numbers) /\ 0 \in 0..MaxDirect /\ 1 \in 1..MaxGates /\ 1 \in 1..MaxGames
      BY SnsTypes, GatesAssumption
    <2>2. /\ route \in Seq(Routes)
          /\ packet \in Seq([protocol : Protocols, client : Clients])
          /\ handled \in [{"game"} -> Seq(1..Len(route))]
      BY <1>1, <1>2, EmptySeq
    <2> QED  BY <1>1, <1>3, <2>1, <2>2 DEF TypeOK, H
  <1>5. Sent
    BY <1>1, <1>3 DEF Sent, Numbered, Known, Announcements, Told
  <1>6. Kept /\ CrossedHandled /\ Caused
    BY <1>1, <1>3 DEF Kept, Ordered, Mirrored, Served, CrossedHandled, Caused
  <1> QED  BY <1>4, <1>5, <1>6 DEF IInv

LEMMA Inductive == IInv /\ [Next]_vars => IInv'
  <1> SUFFICES ASSUME IInv, [Next]_vars PROVE IInv'
    OBVIOUS
  <1>1. CASE CHandlerConnect
    BY <1>1, ConnectSent
  <1>2. ASSUME NEW sn \in Sns, CHandlerDisconnect(sn) PROVE IInv'
    BY <1>2, DisconnectSent
  <1>3. ASSUME NEW sn \in Sns, CHandlerNetMsg(sn) PROVE IInv'
    BY <1>3, NetMsgSent
  <1>4. CASE Update
    BY <1>4, UpdateKeeps
  <1>5. CASE GateRestarts
    BY <1>5, GateRestartsKeeps
  <1>6. ASSUME NEW m \in 1..Len(route), CHandlerMsg(m) PROVE IInv'
    BY <1>6, CHandlerMsgKeeps
  <1>7. CASE GameRestarts
    BY <1>7, GameRestartsKeeps
  <1>8. ASSUME NEW sn \in Sns, GameHandlerNetMsg(sn) PROVE IInv'
    BY <1>8, GameHandlerNetMsgKeeps
  <1>9. CASE UNCHANGED vars
    <2>1. UNCHANGED <<gate, game, accepted, open, closing, gtSessionMap, mirror,
                      route, handled, packet, direct, since, crossed>>
      BY <1>9 DEF vars
    <2>2. TypeOK' /\ Known'
      BY <2>1 DEF IInv, Sent, TypeOK, Known
    <2>3. Numbered' /\ Announcements' /\ Told'
      BY <2>1 DEF IInv, Sent, Numbered, Announcements, Told, Conn, DisConn, Client
    <2>4. Kept' /\ CrossedHandled' /\ Caused'
      BY <2>1, KeptWhenSame DEF IInv
    <2> QED  BY <2>2, <2>3, <2>4 DEF IInv, Sent
  <1> QED  BY <1>1, <1>2, <1>3, <1>4, <1>5, <1>6, <1>7, <1>8, <1>9 DEF Next

LEMMA Invariant == Spec => []IInv
  BY InitIInv, Inductive, PTL DEF Spec

-----------------------------------------------------------------------------
(* What follows from it.                                                   *)

LEMMA Ghosts == IInv => GhostsAccounted
  <1> SUFFICES ASSUME IInv, NEW d \in DOMAIN mirror,
                      mirror[d].gate = gate, mirror[d].sn \notin open
               PROVE  \E gone \in Messages("G2S_ClientDisConn", mirror[d]) :
                         Done(gone) =>
                            \E come \in Messages("G2S_ClientConn", mirror[d]) :
                               DoneBefore(gone, come) /\ route[come] # route[gone]
    BY DEF GhostsAccounted
  <1>1. /\ Len(packet) = Len(route) /\ since \in Nat /\ Len(H) \in Nat
        /\ \A i \in 1..Len(H) : H[i] \in 1..Len(route)
    BY Types DEF IInv
  <1>2. PICK j \in (since + 1)..Len(H) :
             Conn(H[j]) /\ packet[H[j]].client = mirror[d] /\ Last(j)
    <2>1. mirror[d].gate # 0
      BY GatesAssumption DEF IInv, TypeOK
    <2> QED  BY <2>1 DEF IInv, Kept, Mirrored
  <1>3. j \in 1..Len(H) /\ H[j] \in 1..Len(packet) /\ H[j] \in Int
    BY <1>1
  <1>4. PICK gone \in 1..Len(packet) : DisConn(gone) /\ packet[gone].client = mirror[d]
    BY <1>2, <1>3 DEF IInv, Sent, Told
  <1>5. H[j] < gone
    BY <1>2, <1>3, <1>4 DEF IInv, Sent, Announcements
  <1>6. /\ gone \in Messages("G2S_ClientDisConn", mirror[d])
        /\ H[j] \in Messages("G2S_ClientConn", mirror[d])
    BY <1>2, <1>3, <1>4 DEF Messages, Conn, DisConn
  <1>7. ASSUME Done(gone)
        PROVE  DoneBefore(gone, H[j]) /\ route[H[j]] # route[gone]
    <2>1. PICK i \in (since + 1)..Len(H) : H[i] = gone
      BY <1>7 DEF Done, H
    <2>2. i \in 1..Len(H) /\ i \in Int /\ j \in Int
      BY <1>1
    <2>3. i \notin (j + 1)..Len(H)
      BY <1>2, <1>4, <2>1 DEF Last, Number
    <2>4. i < j
      BY <1>1, <1>5, <2>1, <2>2, <2>3
    <2>5. ~(H[i] < H[j])
      BY <1>3, <1>5, <2>1
    <2>6. route[H[j]] # route[gone]
      BY <1>3, <2>1, <2>2, <2>4, <2>5 DEF IInv, Kept, Ordered
    <2> QED  BY <2>1, <2>4, <2>6 DEF DoneBefore, H
  <1> QED  BY <1>6, <1>7

\* A sequence of different numbers up to its length has all of them.
LEMMA AllHandled ==
    ASSUME IInv, Quiet, NEW m \in 1..Len(route)
    PROVE  since = 0 /\ \E i \in 1..Len(H) : H[i] = m
  <1> DEFINE S == 1..Len(route)
  <1>1. /\ Len(route) \in Nat /\ Len(H) = Len(route) /\ H \in Seq(S) /\ since = 0
        /\ \A i \in S : H[i] \in S
    <2>1. TypeOK /\ game = 1 /\ Len(H) = Len(route) /\ (game = 1 => since = 0)
      BY DEF IInv, Kept, Mirrored, Quiet, H
    <2>2. /\ Len(route) \in Nat /\ H \in Seq(1..Len(route))
          /\ \A i \in 1..Len(H) : H[i] \in 1..Len(route)
      BY <2>1, Types
    <2> QED  BY <2>1, <2>2
  <1>2. H \in [S -> S]
    <2>1. H \in Seq(S) /\ 1..Len(H) = S
      BY <1>1
    <2> HIDE DEF S
    <2>2. H \in [1..Len(H) -> S]
      BY <2>1, LenProperties
    <2> QED  BY <2>1, <2>2
  <1>3. \A i, j \in S : i < j => H[i] < H[j]
    <2>1. /\ \A i, j \in 1..Len(H) : i < j /\ route[H[i]] = route[H[j]] => H[i] < H[j]
          /\ \A i, j \in 1..Len(route) : route[i] = route[j]
      BY DEF IInv, Kept, Ordered, Quiet
    <2> QED  BY <1>1, <2>1
  <1>4. ASSUME NEW i \in S, NEW j \in S, H[i] = H[j] PROVE i = j
    <2>1. i \in Int /\ j \in Int /\ H[i] \in Int
      <3>1. H[i] \in S
        BY <1>1
      <3> QED  BY <3>1
    <2>2. ~(i < j) /\ ~(j < i)
      BY <1>3, <1>4, <2>1
    <2> QED  BY <2>1, <2>2
  <1>5. IsFiniteSet(S)
    BY <1>1, FS_Interval
  <1> HIDE DEF S
  <1>6. H \in Injection(S, S)
    <2>1. IsInjective(H)
      BY <1>2, <1>4 DEF IsInjective
    <2> QED  BY <1>2, <2>1 DEF Injection
  <1>7. H \in Surjection(S, S)
    BY <1>5, <1>6, FS_Injection
  <1> QED  BY <1>1, <1>7 DEF Surjection, S

LEMMA Mirror == IInv => MirrorAgrees
  <1> SUFFICES ASSUME IInv, Quiet,
                      \A m \in 1..Len(packet) :
                         Received(packet[m].client.sn) = packet[m].client.sn,
                      NEW sn \in Sns
               PROVE  sn \in open <=> sn \in DOMAIN mirror /\ mirror[sn] = Client(sn)
    BY DEF MirrorAgrees
  <1>1. /\ Len(packet) = Len(route) /\ Len(H) \in Nat /\ gate \in Nat
        /\ \A i \in 1..Len(H) : H[i] \in 1..Len(packet) /\ H[i] \in Int
        /\ \A m \in 1..Len(packet) : packet[m].client \in [gate : Nat, sn : Sns]
    BY Types DEF IInv, Packets, Clients
  <1>2. \A m \in 1..Len(packet) : since = 0 /\ \E i \in 1..Len(H) : H[i] = m
    BY <1>1, AllHandled
  <1>3. \A i, j \in 1..Len(H) : i < j => H[i] < H[j]
    BY <1>1 DEF IInv, Kept, Ordered, Quiet
  <1>4. \A m \in 1..Len(packet) : Number(m) = packet[m].client.sn
    BY DEF Number
  <1>5. Client(sn) = [gate |-> gate, sn |-> sn]
    BY DEF Client
  <1>6. ASSUME sn \in open
        PROVE  sn \in DOMAIN mirror /\ mirror[sn] = Client(sn)
    <2>1. PICK come \in 1..Len(packet) : Conn(come) /\ packet[come].client = Client(sn)
      BY <1>6 DEF IInv, Sent, Told
    <2>2. PICK i \in 1..Len(H) : H[i] = come
      BY <1>2
    <2>3. ASSUME NEW k \in (i + 1)..Len(H), Number(H[k]) = Number(H[i])
          PROVE  ~Conn(H[k]) /\ ~DisConn(H[k])
      <3>1. k \in 1..Len(H) /\ i < k
        BY <1>1
      <3>2. H[k] \in 1..Len(packet) /\ come < H[k]
        BY <1>1, <1>3, <2>2, <3>1
      <3>3. packet[H[k]].client.sn = sn
        BY <1>4, <1>5, <2>1, <2>2, <2>3, <3>2
      <3>4. packet[H[k]].client.gate = gate
        <4>1. /\ packet[come].client.gate <= packet[H[k]].client.gate
              /\ packet[H[k]].client.gate <= gate
          BY <3>2 DEF IInv, Sent, Numbered
        <4> QED  BY <1>1, <1>5, <2>1, <3>2, <4>1
      <3>5. packet[H[k]].client = Client(sn)
        BY <1>1, <1>5, <3>2, <3>3, <3>4
      <3>6. ~Conn(H[k])
        BY <1>1, <2>1, <3>2, <3>5 DEF IInv, Sent, Announcements
      <3>7. ~DisConn(H[k])
        BY <1>6, <3>2, <3>5 DEF IInv, Sent, Told
      <3> QED  BY <3>6, <3>7
    <2>4. Last(i)
      BY <2>3 DEF Last
    <2>5. i \in (since + 1)..Len(H)
      BY <1>1, <1>2, <2>1
    <2>6. Number(H[i]) \in DOMAIN mirror /\ mirror[Number(H[i])] = Client(sn)
      BY <2>1, <2>2, <2>4, <2>5 DEF IInv, Kept, Mirrored, Quiet
    <2> QED  BY <1>4, <1>5, <2>1, <2>2, <2>6
  <1>7. ASSUME sn \in DOMAIN mirror, mirror[sn] = Client(sn), sn \notin open
        PROVE  FALSE
    <2>1. PICK j \in (since + 1)..Len(H) :
               Conn(H[j]) /\ packet[H[j]].client = Client(sn) /\ Last(j)
      <3>1. Client(sn).gate # 0
        BY <1>5, GatesAssumption DEF IInv, TypeOK
      <3> QED  BY <1>7, <3>1 DEF IInv, Kept, Mirrored
    <2>2. j \in 1..Len(H)
      <3>1. since \in Nat
        BY Types DEF IInv
      <3> QED  BY <1>1, <3>1
    <2>3. PICK gone \in 1..Len(packet) : DisConn(gone) /\ packet[gone].client = Client(sn)
      <3>1. /\ H[j] \in 1..Len(packet) /\ Conn(H[j])
            /\ packet[H[j]].client.gate = gate /\ packet[H[j]].client.sn \notin open
        BY <1>1, <1>5, <1>7, <2>1, <2>2
      <3> QED  BY <2>1, <3>1 DEF IInv, Sent, Told
    <2>4. H[j] < gone
      BY <1>1, <2>1, <2>2, <2>3 DEF IInv, Sent, Announcements
    <2>5. PICK k \in 1..Len(H) : H[k] = gone
      BY <1>2
    <2>6. ~(k < j) /\ k # j
      BY <1>1, <1>3, <2>2, <2>4, <2>5
    <2>7. k \in (j + 1)..Len(H)
      BY <1>1, <2>2, <2>6
    <2> QED  BY <2>1, <2>3, <2>5, <2>7 DEF Last, Number
  <1> QED  BY <1>6, <1>7

LEMMA Crossed == IInv => CrossedCauses
  <1> SUFFICES ASSUME IInv, NEW c \in crossed, ~Foreign(c),
                      NEW come \in Messages("G2S_ClientConn", packet[c.message].client),
                      NEW i \in 1..Len(H), NEW j \in 1..Len(H),
                      i < j, H[i] = come, H[j] = c.message
               PROVE  \E m \in Messages("G2S_ClientConn", packet[c.message].client)
                               \cup Messages("G2S_ClientConn", c.owner) :
                         route[m] # route[c.message]
    BY DEF CrossedCauses, Foreign, Number, H
  <1>1. Conn(H[i]) /\ packet[H[i]].client = packet[c.message].client
    BY DEF Messages, Conn
  <1>2. PICK m \in 1..Len(packet) :
             /\ Conn(m) /\ packet[m].client \in {packet[c.message].client, c.owner}
             /\ route[m] # route[c.message]
    BY <1>1 DEF IInv, Caused
  <1> QED  BY <1>2 DEF Messages, Conn

LEMMA Sessions == IInv => SessionWhileAnnounced
  <1> SUFFICES ASSUME IInv, NEW come \in 1..Len(packet), Conn(come), Done(come), direct = 0,
                      Number(come) \notin DOMAIN mirror
               PROVE  \E gone \in 1..Len(packet) :
                         DisConn(gone) /\ Number(gone) = Number(come) /\ DoneBefore(come, gone)
    BY DEF SessionWhileAnnounced, Conn, DisConn, Number
  <1>1. PICK j \in (since + 1)..Len(H) : H[j] = come
    BY DEF Done, H
  <1>2. PICK k \in (j + 1)..Len(H) : DisConn(H[k]) /\ Number(H[k]) = Number(come)
    BY <1>1 DEF IInv, Kept, Served
  <1>3. /\ Len(packet) = Len(route) /\ since \in Nat /\ Len(H) \in Nat
        /\ \A i \in 1..Len(H) : H[i] \in 1..Len(route)
    BY Types DEF IInv
  <1>4. k \in (since + 1)..Len(H) /\ k \in 1..Len(H) /\ j < k
    BY <1>3
  <1>5. H[k] \in 1..Len(packet) /\ DoneBefore(come, H[k])
    BY <1>1, <1>3, <1>4 DEF DoneBefore, H
  <1> QED  BY <1>2, <1>5

-----------------------------------------------------------------------------
(* The theorems.                                                           *)

\* Every variable keeps its type; the game server keeps a session under the
\* number that it read for its client.
THEOREM TypeCorrect == Spec => []TypeOK
  BY Invariant, PTL DEF IInv

\* A session of the game server whose client has ended has an explanation:
\* a message that is lost or on its way, or two that came by different routes
\* (gateService.lua, ClientSession.lua).
THEOREM GhostsHaveCauses == Spec => []GhostsAccounted
  BY Invariant, Ghosts, PTL

\* When every message was handled, all by one route, and every number is read
\* as it was written, the sessions of the game server are those of the gate.
THEOREM MirrorIsRight == Spec => []MirrorAgrees
  BY Invariant, Mirror, PTL

\* A packet reaches the session of another client only when its client has put
\* another number into it, two numbers are read as the same, no gate announced
\* the other, its own client is not known yet, or the routes differ.
THEOREM CrossingsHaveCauses == Spec => []CrossedCauses
  BY Invariant, Crossed, PTL

\* Without clients on its own port, the game server drops the packets of a
\* client it was told of (Net.RecvClientPacket) only after a restart or after
\* the end of a client whose number it reads as the same.
THEOREM AnnouncedHaveSessions == Spec => []SessionWhileAnnounced
  BY Invariant, Sessions, PTL
=============================================================================
