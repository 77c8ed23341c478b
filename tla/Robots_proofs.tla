--------------------------- MODULE Robots_proofs ---------------------------
(***************************************************************************)
(* The theorems about outgoing connections and robots, for any number of   *)
(* robots and connections: a robot that believes it is connected waits for *)
(* a live connection, has no other, and logs in on it once.                *)
(*                                                                         *)
(* The three hold together: a callback finds the robot of a connection in  *)
(* gtConnMap, which is right only while the connection is the one the      *)
(* robot has, and this again because callbacks come to that robot alone.   *)
(***************************************************************************)
EXTENDS Robots, FiniteSetTheorems, TLAPS

\* Connections that were not made yet have left no trace.
Unmade ==
    \A c \in Conns : c > made =>
        /\ bev_[c] = "none" /\ gtConnMap[c] = 0 /\ logins[c] = 0
        /\ c \notin ref_ /\ c \notin connected_

\* A connection whose connect() returned an error is not in gtConnMap.
Waiting == \A c \in Conns : bev_[c] = "unconnected" => gtConnMap[c] = 0

IInv == TypeOK /\ Unmade /\ Waiting /\ WaitsForLive /\ OneLive /\ LoginOnce

-----------------------------------------------------------------------------
(* The connections that one call of robotMngUpdate makes.                  *)

\* The robots of one call are the first ones without a connection, and each
\* gets a connection of its own that was not made before.
LEMMA ConnForFresh ==
    ASSUME TypeOK, NEW robots \in SUBSET Lacking,
           \A r \in robots, q \in Lacking : q < r => q \in robots
    PROVE  /\ Cardinality(robots) \in Nat
           /\ \A r \in robots : ConnFor(r) \in (made + 1)..(made + Cardinality(robots))
           /\ \A r, s \in robots : ConnFor(r) = ConnFor(s) => r = s
  <1> USE RobotsAssumption
  <1> DEFINE Upto(r) == {q \in Lacking : q <= r}
  <1>1. IsFiniteSet(AllRobots)
    BY FS_Interval DEF AllRobots
  <1>2. /\ IsFiniteSet(robots)
        /\ robots \subseteq Int
        /\ Lacking \subseteq Int
        /\ made \in Nat
    <2>1. robots \in SUBSET AllRobots
      BY DEF Lacking
    <2>2. IsFiniteSet(robots)
      BY <1>1, <2>1, FS_Subset
    <2>3. AllRobots \subseteq Int
      BY DEF AllRobots
    <2> QED  BY <2>1, <2>2, <2>3 DEF Lacking, TypeOK
  <1>3. ASSUME NEW r \in robots
        PROVE  IsFiniteSet(Upto(r)) /\ Upto(r) # {} /\ Upto(r) \subseteq robots
    <2>1. Upto(r) \subseteq robots
      <3> SUFFICES ASSUME NEW q \in Lacking, q <= r PROVE q \in robots
        OBVIOUS
      <3>1. q < r \/ q = r
        BY <1>2
      <3> QED  BY <3>1
    <2>2. r \in Upto(r)
      BY <1>2
    <2> QED  BY <2>1, <2>2, <1>2, FS_Subset
  <1>4. ASSUME NEW r \in robots
        PROVE  Cardinality(Upto(r)) \in 1..Cardinality(robots)
    <2>1. Cardinality(Upto(r)) <= Cardinality(robots)
      BY <1>2, <1>3, FS_Subset
    <2>2. Cardinality(Upto(r)) \in Nat /\ Cardinality(Upto(r)) # 0
      BY <1>3, FS_CardinalityType, FS_EmptySet
    <2>3. Cardinality(robots) \in Nat
      BY <1>2, FS_CardinalityType
    <2> HIDE DEF Upto
    <2> QED  BY <2>1, <2>2, <2>3
  <1>5. Cardinality(robots) \in Nat
    BY <1>2, FS_CardinalityType
  <1>6. ASSUME NEW r \in robots, NEW s \in robots, r < s
        PROVE  Cardinality(Upto(r)) # Cardinality(Upto(s))
    <2>1. r \in Int /\ s \in Int /\ s \in Lacking
      BY <1>2
    <2>2. Upto(r) \subseteq Upto(s)
      <3> SUFFICES ASSUME NEW q \in Lacking, q <= r PROVE q <= s
        OBVIOUS
      <3>1. q \in Int
        BY <1>2
      <3> QED  BY <1>6, <2>1, <3>1
    <2>3. s \in Upto(s) /\ s \notin Upto(r)
      BY <1>6, <2>1
    <2> QED  BY <2>2, <2>3, <1>3, FS_Subset
  <1>7. \A r \in robots : ConnFor(r) = made + Cardinality(Upto(r))
    BY DEF ConnFor
  <1> HIDE DEF Upto
  <1>8. ASSUME NEW r \in robots, NEW s \in robots, ConnFor(r) = ConnFor(s)
        PROVE  r = s
    <2>1. Cardinality(Upto(r)) = Cardinality(Upto(s))
      BY <1>2, <1>4, <1>7, <1>8
    <2>2. ~(r < s) /\ ~(s < r)
      BY <2>1, <1>6
    <2> QED  BY <2>2, <1>2
  <1> QED  BY <1>2, <1>4, <1>5, <1>7, <1>8

-----------------------------------------------------------------------------
(* The invariant.                                                          *)

LEMMA InitIInv == Init => IInv
  BY RobotsAssumption DEF Init, IInv, TypeOK, Unmade, Waiting, WaitsForLive, OneLive,
     LoginOnce, Conns, AllRobots

LEMMA RobotMngUpdateIInv == IInv /\ RobotMngUpdate => IInv'
  <1> SUFFICES ASSUME IInv, RobotMngUpdate PROVE IInv'
    OBVIOUS
  <1> USE RobotsAssumption DEF IInv
  <1>1. PICK done \in SUBSET Lacking :
          LET failed == {r \in Lacking \ done : \A q \in Lacking : q < r => q \in done}
              robots == done \cup failed
              Of(c) == CHOOSE r \in robots : ConnFor(r) = c
              new == {ConnFor(r) : r \in robots}
          IN /\ ticking /\ Lacking # {}
             /\ \A r \in done, q \in Lacking : q < r => q \in done
             /\ made + Cardinality(robots) <= MaxConns
             /\ made' = made + Cardinality(robots)
             /\ ticking' = Repeats(failed)
             /\ ref_' = ref_ \cup new
             /\ \E left \in {"none", "unconnected"} :
                   bev_' = [c \in Conns |->
                              IF c \notin new THEN bev_[c]
                              ELSE IF Of(c) \in done THEN "connecting" ELSE left]
             /\ uConn' = [r \in AllRobots |->
                              IF r \in robots THEN ConnFor(r) ELSE uConn[r]]
             /\ gtConnMap' = [c \in Conns |->
                              IF c \in new /\ Of(c) \in done THEN Of(c)
                              ELSE gtConnMap[c]]
             /\ bIsConn' = bIsConn \cup done
             /\ refused' = refused \cup {ConnFor(r) : r \in failed}
             /\ UNCHANGED <<connected_, logins>>
    BY DEF RobotMngUpdate
  <1> DEFINE failed == {r \in Lacking \ done : \A q \in Lacking : q < r => q \in done}
             robots == done \cup failed
             Of(c) == CHOOSE r \in robots : ConnFor(r) = c
             new == {ConnFor(r) : r \in robots}
  <1>2. PICK left \in {"none", "unconnected"} :
             bev_' = [c \in Conns |->
                        IF c \notin new THEN bev_[c]
                        ELSE IF Of(c) \in done THEN "connecting" ELSE left]
    BY <1>1
  <1>3. robots \in SUBSET Lacking /\ failed \subseteq robots /\ done \subseteq robots
    OBVIOUS
  <1>4. /\ Cardinality(robots) \in Nat
        /\ \A r \in robots : ConnFor(r) \in (made + 1)..(made + Cardinality(robots))
        /\ \A r, s \in robots : ConnFor(r) = ConnFor(s) => r = s
    <2>1. ASSUME NEW r \in robots, NEW q \in Lacking, q < r
          PROVE  q \in robots
      BY <1>1, <2>1
    <2> HIDE DEF robots
    <2> QED  BY <1>3, <2>1, ConnForFresh
  <1>5. /\ made' = made + Cardinality(robots) /\ made' <= MaxConns
        /\ ticking' \in BOOLEAN
        /\ ref_' = ref_ \cup new
        /\ uConn' = [r \in AllRobots |-> IF r \in robots THEN ConnFor(r) ELSE uConn[r]]
        /\ gtConnMap' = [c \in Conns |-> IF c \in new /\ Of(c) \in done THEN Of(c)
                                         ELSE gtConnMap[c]]
        /\ bIsConn' = bIsConn \cup done
        /\ refused' = refused \cup {ConnFor(r) : r \in failed}
        /\ connected_' = connected_ /\ logins' = logins
    BY <1>1 DEF Repeats
  <1>6. robots \subseteq AllRobots /\ robots \cap bIsConn = {}
    BY <1>3 DEF Lacking
  <1> HIDE DEF failed, robots, Of
  <1>7. /\ made \in Nat /\ made' \in 0..MaxConns /\ made <= made'
        /\ new \subseteq Conns
        /\ \A c \in new : c > made /\ c <= made'
    BY <1>4, <1>5 DEF TypeOK, Conns
  <1>8. \A r \in robots : Of(ConnFor(r)) = r
    BY <1>4 DEF Of
  <1>9. \A c \in new : Of(c) \in robots /\ ConnFor(Of(c)) = c
    BY <1>8
  <1>10. \A r \in robots : ConnFor(r) \in new
    OBVIOUS
  <1> HIDE DEF new
  <1>11. TypeOK'
    <2>1. uConn' \in [AllRobots -> Conns \cup {0}]
      BY <1>5, <1>7, <1>10 DEF TypeOK
    <2>2. gtConnMap' \in [Conns -> AllRobots \cup {0}]
      BY <1>5, <1>6, <1>9 DEF TypeOK
    <2>3. bev_' \in [Conns -> {"none", "connecting", "open", "unconnected"}]
      BY <1>2 DEF TypeOK
    <2>4. bIsConn' \subseteq AllRobots /\ refused' \subseteq Conns /\ ref_' \subseteq Conns
      BY <1>3, <1>5, <1>6, <1>7, <1>10 DEF TypeOK
    <2> QED  BY <1>5, <1>7, <2>1, <2>2, <2>3, <2>4 DEF TypeOK
  <1>12. Unmade'
    BY <1>2, <1>5, <1>7 DEF Unmade, TypeOK, Conns
  <1>13. Waiting'
    BY <1>2, <1>5, <1>7 DEF Waiting, Unmade, TypeOK, Conns
  <1>14. WaitsForLive'
    <2> SUFFICES ASSUME NEW r \in bIsConn'
                 PROVE  /\ uConn'[r] # 0 /\ uConn'[r] \in ref_' /\ gtConnMap'[uConn'[r]] = r
                        /\ bev_'[uConn'[r]] \in {"connecting", "open"}
      BY DEF WaitsForLive
    <2>1. CASE r \in done
      <3>1. r \in robots /\ r \in AllRobots
        BY <1>3, <1>6, <2>1
      <3>2. uConn'[r] = ConnFor(r) /\ ConnFor(r) \in new /\ Of(ConnFor(r)) \in done
        BY <1>5, <1>8, <1>10, <2>1, <3>1
      <3>3. ConnFor(r) \in Conns /\ ConnFor(r) # 0
        <4>1. ConnFor(r) \in Conns
          BY <1>7, <3>2
        <4> QED  BY <4>1 DEF Conns
      <3>4. gtConnMap'[ConnFor(r)] = r /\ bev_'[ConnFor(r)] = "connecting"
        BY <1>2, <1>5, <1>8, <3>1, <3>2, <3>3
      <3> QED  BY <1>5, <3>2, <3>3, <3>4
    <2>2. CASE r \notin done
      <3>1. r \in bIsConn /\ r \notin robots /\ r \in AllRobots
        BY <1>5, <1>6, <2>2 DEF TypeOK
      <3>2. uConn'[r] = uConn[r] /\ uConn[r] \in Conns /\ uConn[r] \in ref_
        BY <1>5, <3>1 DEF TypeOK, WaitsForLive
      <3>3. uConn[r] \notin new
        BY <1>7, <3>2 DEF Unmade
      <3> QED  BY <1>2, <1>5, <3>1, <3>2, <3>3 DEF WaitsForLive
    <2> QED  BY <2>1, <2>2
  <1>15. OneLive'
    <2> SUFFICES ASSUME NEW c \in Conns, bev_'[c] \in {"connecting", "open"}
                 PROVE  gtConnMap'[c] \in bIsConn' /\ uConn'[gtConnMap'[c]] = c
      BY DEF OneLive
    <2>1. CASE c \in new
      <3>1. Of(c) \in done
        BY <1>2, <2>1
      <3>2. gtConnMap'[c] = Of(c)
        BY <1>5, <2>1, <3>1
      <3>3. Of(c) \in robots /\ Of(c) \in AllRobots /\ ConnFor(Of(c)) = c
        BY <1>6, <1>9, <2>1
      <3> QED  BY <1>5, <3>1, <3>2, <3>3
    <2>2. CASE c \notin new
      <3>1. bev_[c] \in {"connecting", "open"} /\ gtConnMap'[c] = gtConnMap[c]
        BY <1>2, <1>5, <2>2
      <3>2. gtConnMap[c] \in bIsConn /\ uConn[gtConnMap[c]] = c
        BY <3>1 DEF OneLive
      <3>3. gtConnMap[c] \notin robots /\ gtConnMap[c] \in AllRobots
        BY <1>6, <3>2 DEF TypeOK
      <3> QED  BY <1>5, <3>1, <3>2, <3>3
    <2> QED  BY <2>1, <2>2
  <1>16. LoginOnce'
    <2> SUFFICES ASSUME NEW c \in Conns
                 PROVE  /\ logins[c] <= 1
                        /\ c \in connected_ <=> bev_'[c] = "open"
                        /\ c \in connected_ => logins[c] = 1
                        /\ bev_'[c] \in {"connecting", "unconnected"} => logins[c] = 0
      BY <1>5 DEF LoginOnce
    <2>1. CASE c \in new
      BY <1>2, <1>7, <2>1 DEF Unmade, LoginOnce
    <2>2. CASE c \notin new
      BY <1>2, <2>2 DEF LoginOnce
    <2> QED  BY <2>1, <2>2
  <1> QED  BY <1>11, <1>12, <1>13, <1>14, <1>15, <1>16

LEMMA OnConnectedIInv == ASSUME NEW c \in Conns PROVE IInv /\ OnConnected(c) => IInv'
  <1> SUFFICES ASSUME IInv, OnConnected(c) PROVE IInv'
    OBVIOUS
  <1> USE RobotsAssumption DEF IInv, OnConnected, script
  <1>1. gtConnMap[c] \in bIsConn /\ uConn[gtConnMap[c]] = c /\ gtConnMap[c] \in AllRobots
    BY DEF OneLive, TypeOK
  <1>2. c \in ref_ /\ gtConnMap[c] # 0 /\ c <= made
    BY <1>1 DEF WaitsForLive, Unmade, TypeOK, AllRobots, Conns
  <1>3. logins' = [logins EXCEPT ![c] = @ + 1]
    BY <1>1, <1>2
  <1>4. TypeOK'
    BY <1>3 DEF TypeOK
  <1>5. Unmade' /\ Waiting'
    BY <1>2, <1>3 DEF Unmade, Waiting, TypeOK, Conns
  <1>6. WaitsForLive'
    BY DEF WaitsForLive, TypeOK
  <1>7. OneLive'
    BY DEF OneLive, TypeOK
  <1>8. LoginOnce'
    BY <1>3 DEF LoginOnce, Waiting, TypeOK
  <1> QED  BY <1>4, <1>5, <1>6, <1>7, <1>8

LEMMA CloseIInv == ASSUME NEW c \in Conns PROVE IInv /\ Close(c) => IInv'
  <1> SUFFICES ASSUME IInv, Close(c) PROVE IInv'
    OBVIOUS
  <1> USE RobotsAssumption DEF IInv, Close
  <1> DEFINE r == gtConnMap[c]
  <1>1. /\ bev_' = [bev_ EXCEPT ![c] = "none"] /\ connected_' = connected_ \ {c}
        /\ ref_' = ref_ \ {c}
        /\ UNCHANGED <<ticking, made, gtConnMap, logins, refused>>
    OBVIOUS
  \* What was established or tried is the connection of its robot; what was
  \* not, has no robot.
  <1>2. \/ /\ r \in bIsConn /\ uConn[r] = c
           /\ bIsConn' = bIsConn \ {r} /\ uConn' = [uConn EXCEPT ![r] = 0]
        \/ /\ bev_[c] = "unconnected" /\ r = 0
           /\ UNCHANGED <<uConn, bIsConn>>
    <2>1. CASE bev_[c] \in {"connecting", "open"}
      <3>1. r \in bIsConn /\ uConn[r] = c
        BY <2>1 DEF OneLive
      <3>2. c \in ref_ /\ r # 0
        BY <3>1 DEF WaitsForLive, TypeOK, AllRobots
      <3> QED  BY <3>1, <3>2 DEF Told, OnClose
    <2>2. CASE bev_[c] = "unconnected"
      BY <2>2 DEF Waiting, Told
    <2> QED  BY <2>1, <2>2 DEF CanEnd, TypeOK
  <1>3. TypeOK'
    BY <1>1, <1>2 DEF TypeOK
  <1>4. Unmade' /\ Waiting' /\ LoginOnce'
    BY <1>1 DEF Unmade, Waiting, LoginOnce, TypeOK
  <1>5. WaitsForLive'
    <2> SUFFICES ASSUME NEW q \in bIsConn'
                 PROVE  /\ uConn'[q] # 0 /\ uConn'[q] \in ref_' /\ gtConnMap[uConn'[q]] = q
                        /\ bev_'[uConn'[q]] \in {"connecting", "open"}
      BY <1>1 DEF WaitsForLive
    <2>1. q \in bIsConn /\ q \in AllRobots /\ uConn[q] \in Conns /\ uConn'[q] = uConn[q]
      BY <1>2 DEF TypeOK, WaitsForLive
    <2>2. gtConnMap[uConn[q]] = q /\ uConn[q] \in ref_ /\ bev_[uConn[q]] \in {"connecting", "open"}
      BY <2>1 DEF WaitsForLive
    <2>3. uConn[q] # c
      BY <1>2, <2>2
    <2> QED  BY <1>1, <2>1, <2>2, <2>3 DEF WaitsForLive
  <1>6. OneLive'
    BY <1>1, <1>2 DEF OneLive, TypeOK
  <1> QED  BY <1>3, <1>4, <1>5, <1>6

LEMMA Inductive == IInv /\ [Next]_vars => IInv'
  <1> SUFFICES ASSUME IInv, [Next]_vars PROVE IInv'
    OBVIOUS
  <1>1. CASE RobotMngUpdate
    BY <1>1, RobotMngUpdateIInv
  <1>2. ASSUME NEW c \in Conns, OnConnected(c) PROVE IInv'
    BY <1>2, OnConnectedIInv
  <1>3. ASSUME NEW c \in Conns, Close(c) PROVE IInv'
    BY <1>3, CloseIInv
  <1>4. CASE UNCHANGED vars
    BY <1>4 DEF IInv, TypeOK, Unmade, Waiting, WaitsForLive, OneLive, LoginOnce, vars
  <1> QED  BY <1>1, <1>2, <1>3, <1>4 DEF Next

LEMMA Invariant == Spec => []IInv
  BY InitIInv, Inductive, PTL DEF Spec

-----------------------------------------------------------------------------
(* The theorems.                                                           *)

\* Every variable keeps its type, whatever connections come and go.
THEOREM TypeCorrect == Spec => []TypeOK
  BY Invariant, PTL DEF IInv

\* A robot that believes it is connected has a connection that lives and that
\* will tell it of its end (robot.lua, onLuaClose of connection.cpp).
THEOREM RobotsWaitForLive == Spec => []WaitsForLive
  BY Invariant, PTL DEF IInv

\* A robot has one connection at a time: the entries that gtConnMap keeps of
\* closed connections never disturb a later one.
THEOREM OneConnection == Spec => []OneLive
  BY Invariant, PTL DEF IInv

\* A robot logs in once on every connection that is established, and not on one
\* that is not established yet.
THEOREM OneLogin == Spec => []LoginOnce
  BY Invariant, PTL DEF IInv
=============================================================================
