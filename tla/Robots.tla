------------------------------- MODULE Robots -------------------------------
(***************************************************************************)
(* Outgoing connections (connection.cpp) and the robots that use them      *)
(* (robot.lua, robotMng.lua).  A repeating timer calls robotMngUpdate,     *)
(* which makes a connection for every robot that believes it has none.     *)
(* libevent tells the connection that it is established, or that it has    *)
(* failed or ended; the connection tells the script through the table of   *)
(* callbacks it was given, and the script finds the robot in gtConnMap.    *)
(*                                                                         *)
(* An error in robotMngUpdate ends its timer (CallbackFails of Timer).     *)
(* What arrives on a connection is left out: the robots only log it.       *)
(***************************************************************************)
EXTENDS Naturals, FiniteSets

CONSTANTS
    NRobots,        \* giRobotCnt
    MaxConns        \* bound: Connection objects made

ASSUME RobotsAssumption == NRobots \in Nat /\ MaxConns \in Nat

AllRobots == 1..NRobots
Conns == 1..MaxConns

VARIABLES
    ticking,        \* the timer of robotMngUpdate is set
    made,           \* the Connection objects made so far
    bev_,           \* the bufferevent of each: "none", "connecting", "open",
                    \* or "unconnected" when connect() returned an error
    connected_,     \* the flag of each connection
    ref_,           \* the connections that hold the script's callbacks
    gtConnMap,      \* the robot the script keeps for a connection, 0 for none
    uConn,          \* the connection of each robot, 0 for nil
    bIsConn,        \* the robots that believe they are connected
    logins,         \* history: the logins sent on each connection
    refused         \* history: connections whose connect() returned an error

core   == <<made, bev_, connected_, ref_>>
script == <<gtConnMap, uConn, bIsConn>>
vars == <<ticking, made, bev_, connected_, ref_, gtConnMap, uConn, bIsConn,
          logins, refused>>

TypeOK ==
    /\ ticking \in BOOLEAN /\ made \in 0..MaxConns
    /\ bev_ \in [Conns -> {"none", "connecting", "open", "unconnected"}]
    /\ connected_ \subseteq Conns /\ ref_ \subseteq Conns
    /\ gtConnMap \in [Conns -> AllRobots \cup {0}]
    /\ uConn \in [AllRobots -> Conns \cup {0}] /\ bIsConn \subseteq AllRobots
    /\ logins \in [Conns -> Nat] /\ refused \subseteq Conns

\* robotInit has run.
Init ==
    /\ ticking = TRUE /\ made = 0
    /\ bev_ = [c \in Conns |-> "none"] /\ connected_ = {} /\ ref_ = {}
    /\ gtConnMap = [c \in Conns |-> 0]
    /\ uConn = [r \in AllRobots |-> 0] /\ bIsConn = {}
    /\ logins = [c \in Conns |-> 0] /\ refused = {}

-----------------------------------------------------------------------------
(* robotMngUpdate.                                                         *)

\* Fault: the robots whose connection is not established count as well.
Lacking_NotEstablished == {r \in AllRobots : uConn[r] \notin connected_}

\* The robots that robot:update connects.
Lacking == AllRobots \ bIsConn

\* Fault: connections are numbered from zero.
ConnFor_FromZero(r) == made + Cardinality({q \in Lacking : q < r})

\* The connection a robot gets: they are made in the order of the robots.
ConnFor(r) == made + Cardinality({q \in Lacking : q <= r})

\* Fault: the timer is set without its last argument and fires once.
Repeats_Once(failed) == FALSE

\* An error in a callback ends its timer, which repeats otherwise.
Repeats(failed) == failed = {}

\* Every robot that lacks a connection gets one, up to the first whose
\* connect() returns an error: c_Connect raises it, which ends the loop and
\* the timer before robot:connect records the connection.  With no address or
\* no socket there is no bufferevent; otherwise it stays, with its callbacks.
RobotMngUpdate ==
    \E done \in SUBSET Lacking :
        LET failed == {r \in Lacking \ done : \A q \in Lacking : q < r => q \in done}
            robots == done \cup failed
            Of(c) == CHOOSE r \in robots : ConnFor(r) = c
            new == {ConnFor(r) : r \in robots}
        IN /\ ticking /\ Lacking # {}
           /\ \A r \in done, q \in Lacking : q < r => q \in done
           /\ made + Cardinality(robots) <= MaxConns
           /\ made' = made + Cardinality(robots)
           /\ ticking' = Repeats(failed)
           /\ ref_' = ref_ \cup new
           /\ \E left \in {"none", "unconnected"} :
                 bev_' = [c \in Conns |->
                            IF c \notin new THEN bev_[c]
                            ELSE IF Of(c) \in done THEN "connecting" ELSE left]
           /\ uConn' = [r \in AllRobots |->
                            IF r \in robots THEN ConnFor(r) ELSE uConn[r]]
           /\ gtConnMap' = [c \in Conns |->
                            IF c \in new /\ Of(c) \in done THEN Of(c)
                            ELSE gtConnMap[c]]
           /\ bIsConn' = bIsConn \cup done
           /\ refused' = refused \cup {ConnFor(r) : r \in failed}
           /\ UNCHANGED <<connected_, logins>>

-----------------------------------------------------------------------------
(* The callbacks of libevent.                                              *)

\* onConnected and onLuaConnect: the script finds the robot, which logs in on
\* the connection it has; sendTo drops what a connection that is not
\* established is to send.
OnConnected(c) ==
    /\ bev_[c] = "connecting"
    /\ bev_' = [bev_ EXCEPT ![c] = "open"]
    /\ connected_' = connected_ \cup {c}
    /\ LET r == gtConnMap[c]
       IN logins' = IF c \in ref_ /\ r # 0 /\ uConn[r] \in connected_'
                    THEN [logins EXCEPT ![uConn[r]] = @ + 1] ELSE logins
    /\ UNCHANGED <<ticking, made, ref_, script, refused>>

\* Fault: the script is told only of a connection that was established.
Told_WhenConnected(c) == c \in ref_ /\ c \in connected_

\* onLuaClose calls the script while it has the callbacks.
Told(c) == c \in ref_

\* robot:onClose.
OnClose(r) == bIsConn' = bIsConn \ {r} /\ uConn' = [uConn EXCEPT ![r] = 0]

\* Fault: event_cb looks at connections that were established.
CanEnd_Established(c) == bev_[c] = "open"

CanEnd(c) == bev_[c] # "none"

\* event_cb with BEV_EVENT_EOF or BEV_EVENT_ERROR, and close(): whatever the
\* connection was, the bufferevent is freed and the script is told.  The entry
\* of gtConnMap stays: onLuaClose clears the one of the robot instead.
Close(c) ==
    /\ CanEnd(c)
    /\ bev_' = [bev_ EXCEPT ![c] = "none"]
    /\ connected_' = connected_ \ {c}
    /\ ref_' = ref_ \ {c}
    /\ IF Told(c) /\ gtConnMap[c] # 0
       THEN OnClose(gtConnMap[c])
       ELSE UNCHANGED <<uConn, bIsConn>>
    /\ UNCHANGED <<ticking, made, gtConnMap, logins, refused>>

Next ==
    \/ RobotMngUpdate
    \/ \E c \in Conns : OnConnected(c) \/ Close(c)

Spec == Init /\ [][Next]_vars

\* The timer of robotMngUpdate fires again and again while it is set, and the
\* kernel tells sooner or later how a connection attempt ended.
FairSpec ==
    /\ Spec /\ WF_vars(RobotMngUpdate)
    /\ \A c \in Conns :
          WF_vars(bev_[c] \in {"connecting", "unconnected"} /\ (OnConnected(c) \/ Close(c)))

-----------------------------------------------------------------------------
(* Properties.                                                             *)

\* A robot that believes it is connected has a connection that is being or has
\* been established and that will tell it of its end: it never waits for one
\* that is gone.
WaitsForLive ==
    \A r \in bIsConn :
        /\ uConn[r] # 0 /\ uConn[r] \in ref_ /\ gtConnMap[uConn[r]] = r
        /\ bev_[uConn[r]] \in {"connecting", "open"}

\* A robot has one connection at a time: the callback of an older one, which
\* gtConnMap still knows, never takes the newer one from it.
OneLive ==
    \A c \in Conns :
        bev_[c] \in {"connecting", "open"} =>
            gtConnMap[c] \in bIsConn /\ uConn[gtConnMap[c]] = c

\* A robot logs in at most once on a connection, has done so on each that is
\* established, and on none that is still tried or could not be, however
\* connections come and go in between.
LoginOnce ==
    \A c \in Conns :
        /\ logins[c] <= 1
        /\ c \in connected_ <=> bev_[c] = "open"
        /\ c \in connected_ => logins[c] = 1
        /\ bev_[c] \in {"connecting", "unconnected"} => logins[c] = 0

\* A robot without a connection gets another, until one connect() that returns
\* an error has ended the timer, for all robots.
Reconnects ==
    \A r \in AllRobots :
        (r \notin bIsConn) ~> (r \in bIsConn \/ refused # {} \/ made + NRobots > MaxConns)

\* Every attempt is decided: none stays on its way, and a connection whose
\* connect() returned an error does not keep its bufferevent.
AttemptsEnd ==
    \A c \in Conns :
        (bev_[c] \in {"connecting", "unconnected"}) ~> (bev_[c] \in {"none", "open"})
=============================================================================
