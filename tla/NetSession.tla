----------------------------- MODULE NetSession -----------------------------
(***************************************************************************)
(* The client side of a server process (net.cpp, bevstream.cpp): the map   *)
(* of open sessions, the decoder that cuts the bytes of a connection into  *)
(* packets, the calls to the script, and the deferred deletion of closed   *)
(* sessions.  The process has one thread.  libevent calls back for a new   *)
(* connection, for readable bytes and for a hang-up; the main loop calls   *)
(* Net::update between two passes of the event loop.  A closed session     *)
(* keeps its bufferevent, callbacks included, until that call.             *)
(*                                                                         *)
(* A packet on the wire is the byte PACKET_HEAD, four bytes of length,     *)
(* most significant first, the body, and the byte PACKET_END; both markers *)
(* are PACKET_SIGN + 1.  A byte has Base values instead of 256, and an     *)
(* unsigned int has four such bytes.                                       *)
(***************************************************************************)
EXTENDS Naturals, Sequences

CONSTANTS
    MaxSessions,    \* bound: connections accepted (sessionID_ never wraps)
    Base,           \* the values of a byte (256)
    Sign,           \* PACKET_HEAD and PACKET_END
    MaxLength,      \* the longest body decode() accepts (10240)
    Plans           \* what a peer may send: sequences of frames

Byte == 0..(Base - 1)
UintRange == Base * Base * Base * Base

\* A frame the way a peer writes it, right or wrong.
Frames == [head: Byte, size: 0..(UintRange - 1), body: Seq(Byte), tail: Byte]

ASSUME SessionsAssumption == MaxSessions \in Nat

ASSUME FormatAssumption ==
    /\ Base \in Nat \ {0, 1} /\ Sign \in Byte \ {0} /\ MaxLength \in Nat
    /\ MaxLength + 6 < UintRange

Sessions == 1..MaxSessions

VARIABLES
    sessionID_,     \* the last session number given out
    status_,        \* the status of each session
    sessionMap_,    \* the sessions the map holds
    toFree,         \* how often freeSessions_ holds each session
    deleted,        \* how often each session was deleted
    wire,           \* the bytes of each peer that have not arrived
    input,          \* the input buffer of each bufferevent
    packLen_,       \* the length read from the last header, 0 for none
    decoding,       \* the session whose decode() runs, 0 for none
    plan,           \* history: the frames each peer set out to send
    told,           \* history: what the script was told of each session
    delivered,      \* history: the bodies given to the script when open
    late,           \* history: the bodies given to it after the disconnect
    closedBy,       \* history: why each session was closed
    asked           \* history: the sessions the script asked to close

tables  == <<sessionID_, status_, sessionMap_, toFree, deleted>>
streams == <<wire, input, packLen_, decoding>>
vars == <<sessionID_, status_, sessionMap_, toFree, deleted, wire, input,
          packLen_, decoding, plan, told, delivered, late, closedBy, asked>>

Statuses == {"none", "NEWED", "OK", "CLOSED"}
Reasons  == {"none", "head", "length", "tail", "hangup", "script"}

\* What a step that closes no session and calls no handler leaves alone.
quiet == <<status_, sessionMap_, toFree, told, closedBy>>

TablesOK ==
    /\ sessionID_ \in 0..MaxSessions
    /\ status_ \in [Sessions -> Statuses]
    /\ sessionMap_ \in SUBSET Sessions
    /\ toFree \in [Sessions -> Nat] /\ deleted \in [Sessions -> Nat]
    /\ decoding \in 0..MaxSessions

StreamsOK ==
    /\ wire \in [Sessions -> Seq(Byte)] /\ input \in [Sessions -> Seq(Byte)]
    /\ packLen_ \in [Sessions -> 0..(UintRange - 1)]

HistoryOK ==
    /\ told \in [Sessions -> {"nothing", "connected", "disconnected"}]
    /\ closedBy \in [Sessions -> Reasons]
    /\ asked \in SUBSET Sessions

BodiesOK ==
    /\ plan \in [Sessions -> Seq(Frames)]
    /\ delivered \in [Sessions -> Seq(Seq(Byte))]
    /\ late \in [Sessions -> Seq(Seq(Byte))]

\* Every variable keeps its type; in particular the length that decode()
\* keeps between two reads is always a value of its unsigned int.
TypeOK == TablesOK /\ StreamsOK /\ HistoryOK /\ BodiesOK

Init ==
    /\ sessionID_ = 0 /\ sessionMap_ = {} /\ decoding = 0 /\ asked = {}
    /\ status_ = [s \in Sessions |-> "none"]
    /\ toFree = [s \in Sessions |-> 0] /\ deleted = [s \in Sessions |-> 0]
    /\ wire = [s \in Sessions |-> <<>>] /\ input = [s \in Sessions |-> <<>>]
    /\ packLen_ = [s \in Sessions |-> 0]
    /\ plan = [s \in Sessions |-> <<>>]
    /\ told = [s \in Sessions |-> "nothing"]
    /\ delivered = [s \in Sessions |-> <<>>]
    /\ late = [s \in Sessions |-> <<>>]
    /\ closedBy = [s \in Sessions |-> "none"]

-----------------------------------------------------------------------------
(* Bytes and frames.                                                       *)

HeaderLen == 5
TailLen   == 1

\* conv_num on a little-endian machine: the value of four bytes, b[1] first.
Number(b) == ((b[1] * Base + b[2]) * Base + b[3]) * Base + b[4]

Digits(n) ==
    LET n1 == n \div Base
        n2 == n1 \div Base
    IN <<(n2 \div Base) % Base, n2 % Base, n1 % Base, n % Base>>

FrameBytes(f) == <<f.head>> \o Digits(f.size) \o f.body \o <<f.tail>>

\* The bytes of the first i frames of a plan, for every i, and of all.
Sent(p) ==
    LET bytes[i \in 0..Len(p)] ==
            IF i = 0 THEN <<>> ELSE bytes[i - 1] \o FrameBytes(p[i])
    IN bytes

PlanBytes(p) == Sent(p)[Len(p)]

ASSUME PlansAssumption == Plans \subseteq Seq(Frames)

-----------------------------------------------------------------------------
(* Calls that callbacks make.                                              *)

\* Fault: closeConnect does not put the session in the queue.
Close_NotQueued(s, reason) ==
    /\ closedBy' = [closedBy EXCEPT ![s] = IF @ = "none" THEN reason ELSE @]
    /\ status_' = [status_ EXCEPT ![s] = "CLOSED"]
    /\ IF status_[s] # "CLOSED" /\ s \in sessionMap_
       THEN /\ told' = [told EXCEPT ![s] = "disconnected"]
            /\ sessionMap_' = sessionMap_ \ {s}
       ELSE UNCHANGED <<told, sessionMap_>>
    /\ UNCHANGED toFree

\* Net::closeConnect: mark the session, tell the script, leave the deletion
\* to update().  A closed session is not closed again.
Close(s, reason) ==
    /\ closedBy' = [closedBy EXCEPT ![s] = IF @ = "none" THEN reason ELSE @]
    /\ status_' = [status_ EXCEPT ![s] = "CLOSED"]
    /\ IF status_[s] # "CLOSED" /\ s \in sessionMap_
       THEN /\ told' = [told EXCEPT ![s] = "disconnected"]
            /\ toFree' = [toFree EXCEPT ![s] = @ + 1]
            /\ sessionMap_' = sessionMap_ \ {s}
       ELSE UNCHANGED <<told, toFree, sessionMap_>>

\* Session::doMsg and ServerApp::doNetMsg: a body shorter than two bytes is
\* refused, any other goes to the script under the number of the session,
\* whatever the status of the session.
Deliver(s, body) ==
    /\ delivered' = IF Len(body) >= 2 /\ told[s] = "connected"
                    THEN [delivered EXCEPT ![s] = Append(@, body)]
                    ELSE delivered
    /\ late' = IF Len(body) >= 2 /\ told[s] # "connected"
               THEN [late EXCEPT ![s] = Append(@, body)]
               ELSE late

\* Net::getSession ends in "return NULL", whatever the map holds.
GetSession(s) == 0

-----------------------------------------------------------------------------
(* Callbacks of the event loop.                                            *)

\* Fault: the destructor of Session does not free the bufferevent.
CanCallBack_BevLeaks(s) == decoding = 0 /\ s \in 1..sessionID_

\* The bufferevent of a session exists and no decode() is running.
CanCallBack(s) ==
    /\ decoding = 0
    /\ s \in 1..sessionID_ /\ deleted[s] = 0

\* accept_conn_cb and onConnect: a new session enters the map and the script
\* is told before the status becomes SS_OK.
Accept ==
    /\ decoding = 0 /\ sessionID_ < MaxSessions
    /\ LET s == sessionID_ + 1
       IN /\ sessionID_' = s
          /\ sessionMap_' = sessionMap_ \cup {s}
          /\ status_' = [status_ EXCEPT ![s] = "OK"]
          /\ told' = [told EXCEPT ![s] = "connected"]
          /\ \E p \in Plans :
                /\ plan' = [plan EXCEPT ![s] = p]
                /\ wire' = [wire EXCEPT ![s] = PlanBytes(p)]
    /\ UNCHANGED <<toFree, deleted, input, packLen_, decoding, delivered,
                   late, closedBy, asked>>

\* Bytes arrive, in portions of any size, and read_cb starts decode(); the
\* callback of a closed session is still set.
Receive(s) ==
    /\ CanCallBack(s)
    /\ \E n \in 1..Len(wire[s]) :
          /\ input' = [input EXCEPT ![s] = @ \o SubSeq(wire[s], 1, n)]
          /\ wire' = [wire EXCEPT ![s] = SubSeq(@, n + 1, Len(@))]
    /\ decoding' = s
    /\ UNCHANGED <<tables, packLen_, plan, told, delivered, late, closedBy,
                   asked>>

\* Fault: a hang-up is seen before the bytes that arrived ahead of it.
HangUp_KeepsReading(s) ==
    /\ CanCallBack(s)
    /\ Close(s, "hangup")
    /\ UNCHANGED <<sessionID_, deleted, streams, plan, delivered, late, asked>>

\* event_cb: the peer closed, or an error; libevent has stopped reading.
HangUp(s) ==
    /\ CanCallBack(s)
    /\ Close(s, "hangup")
    /\ wire' = [wire EXCEPT ![s] = <<>>]
    /\ UNCHANGED <<sessionID_, deleted, input, packLen_, decoding, plan,
                   delivered, late, asked>>

-----------------------------------------------------------------------------
(* BevStream::decode: one action for each way through the loop.            *)

\* kHeaderLen + length + kTailLen in unsigned arithmetic.
Need(length) == (HeaderLen + length + TailLen) % UintRange

EndDecode == decoding' = 0

\* The loop goes on: enough bytes for the length known so far.
Looping(s) == decoding = s /\ Len(input[s]) >= Need(packLen_[s])

\* The length of the packet at hand: kept from before, or in the header.
Length(s) ==
    IF packLen_[s] # 0 THEN packLen_[s] ELSE Number(SubSeq(input[s], 2, 5))

HeaderChecked(s) ==
    packLen_[s] = 0 => input[s][1] = Sign /\ Length(s) \in 2..MaxLength

\* What follows the header; the body (evbuffer_remove takes what there is)
\* and the tail, which reads as 0 when no byte is left.
Rest(s) == SubSeq(input[s], HeaderLen + 1, Len(input[s]))
Body(s) == SubSeq(Rest(s), 1, IF Length(s) < Len(Rest(s)) THEN Length(s)
                              ELSE Len(Rest(s)))
EndByte(s) == IF Length(s) < Len(Rest(s)) THEN Rest(s)[Length(s) + 1] ELSE 0

DecodeWaits(s) ==
    /\ decoding = s /\ ~Looping(s)
    /\ EndDecode
    /\ UNCHANGED <<tables, wire, input, packLen_, plan, told, delivered, late,
                   closedBy, asked>>

\* Fault: a wrong header empties the buffer, as a wrong tail does.
BadHeader_Drains(s) ==
    /\ Looping(s) /\ packLen_[s] = 0 /\ input[s][1] # Sign
    /\ Close(s, "head")
    /\ EndDecode
    /\ input' = [input EXCEPT ![s] = <<>>]
    /\ UNCHANGED <<sessionID_, deleted, wire, packLen_, plan, delivered, late,
                   asked>>

\* A wrong header closes the session; the bytes stay in the buffer.
BadHeader(s) ==
    /\ Looping(s) /\ packLen_[s] = 0 /\ input[s][1] # Sign
    /\ Close(s, "head")
    /\ EndDecode
    /\ UNCHANGED <<sessionID_, deleted, wire, input, packLen_, plan, delivered,
                   late, asked>>

\* So does a wrong length, which packLen_ keeps.
BadLength(s) ==
    /\ Looping(s) /\ packLen_[s] = 0 /\ input[s][1] = Sign
    /\ Length(s) \notin 2..MaxLength
    /\ packLen_' = [packLen_ EXCEPT ![s] = Length(s)]
    /\ Close(s, "length")
    /\ EndDecode
    /\ UNCHANGED <<sessionID_, deleted, wire, input, plan, delivered, late,
                   asked>>

\* A good header whose body has not all arrived: the length is kept for the
\* next call.
BodyIncomplete(s) ==
    /\ Looping(s) /\ HeaderChecked(s)
    /\ Len(input[s]) < Need(Length(s))
    /\ packLen_' = [packLen_ EXCEPT ![s] = Length(s)]
    /\ EndDecode
    /\ UNCHANGED <<tables, wire, input, plan, told, delivered, late, closedBy,
                   asked>>

BodyComplete(s) ==
    Looping(s) /\ HeaderChecked(s) /\ Len(input[s]) >= Need(Length(s))

\* Fault: the length of the packet is not reset after it.
TakePacket_KeepsLength(s) ==
    /\ BodyComplete(s) /\ EndByte(s) = Sign
    /\ input' = [input EXCEPT ![s] = SubSeq(Rest(s), Length(s) + 2, Len(Rest(s)))]
    /\ packLen_' = [packLen_ EXCEPT ![s] = Length(s)]
    /\ Deliver(s, Body(s))
    /\ UNCHANGED <<tables, wire, decoding, plan, told, closedBy, asked>>

\* A whole packet goes to the script, and the loop goes on.
TakePacket(s) ==
    /\ BodyComplete(s) /\ EndByte(s) = Sign
    /\ input' = [input EXCEPT ![s] = SubSeq(Rest(s), Length(s) + 2, Len(Rest(s)))]
    /\ packLen_' = [packLen_ EXCEPT ![s] = 0]
    /\ Deliver(s, Body(s))
    /\ UNCHANGED <<tables, wire, decoding, plan, told, closedBy, asked>>

\* A wrong tail closes the session and empties the buffer; packLen_ keeps
\* the length of the packet.
BadTail(s) ==
    /\ BodyComplete(s) /\ EndByte(s) # Sign
    /\ packLen_' = [packLen_ EXCEPT ![s] = Length(s)]
    /\ input' = [input EXCEPT ![s] = <<>>]
    /\ Close(s, "tail")
    /\ EndDecode
    /\ UNCHANGED <<sessionID_, deleted, wire, plan, delivered, late, asked>>

Decode(s) ==
    \/ DecodeWaits(s) \/ BadHeader(s) \/ BadLength(s) \/ BodyIncomplete(s)
    \/ TakePacket(s) \/ BadTail(s)

-----------------------------------------------------------------------------
(* The rest of the main loop.                                              *)

\* Fault: update() deletes the sessions and leaves them in the queue.
Update_KeepsQueue ==
    /\ decoding = 0
    /\ \E s \in Sessions : toFree[s] # 0 /\ deleted[s] < 2
    /\ deleted' = [s \in Sessions |-> deleted[s] + toFree[s]]
    /\ UNCHANGED <<sessionID_, status_, sessionMap_, toFree, streams, plan,
                   told, delivered, late, closedBy, asked>>

\* Net::update: delete what the queue of closed sessions holds.
Update ==
    /\ decoding = 0
    /\ \E s \in Sessions : toFree[s] # 0
    /\ deleted' = [s \in Sessions |-> deleted[s] + toFree[s]]
    /\ toFree' = [s \in Sessions |-> 0]
    /\ UNCHANGED <<sessionID_, status_, sessionMap_, streams, plan, told,
                   delivered, late, closedBy, asked>>

\* LuaNetwork::CloseSession, from a timer or a message of another server.
ScriptCloses(s) ==
    /\ decoding = 0 /\ told[s] = "connected" /\ s \notin asked
    /\ asked' = asked \cup {s}
    /\ IF GetSession(s) # 0
       THEN Close(GetSession(s), "script")
       ELSE UNCHANGED quiet
    /\ UNCHANGED <<sessionID_, deleted, streams, plan, delivered, late>>

Next ==
    \/ Accept \/ Update
    \/ \E s \in Sessions :
          Receive(s) \/ HangUp(s) \/ Decode(s) \/ ScriptCloses(s)

Spec == Init /\ [][Next]_vars

\* The main loop comes round to update(), and a decode() runs to its end.
FairSpec ==
    Spec /\ WF_vars(Update) /\ \A s \in Sessions : WF_vars(Decode(s))

-----------------------------------------------------------------------------
(* Properties.                                                             *)

\* Each session is in one place: in the map while it is open, then in the
\* queue of closed sessions once, then deleted once.  A second entry in the
\* queue would be a double free, an entry left in the map a use after it.
SessionsAccounted ==
    \A s \in Sessions :
        /\ s \in sessionMap_ <=> status_[s] = "OK"
        /\ told[s] = "connected" <=> s \in sessionMap_
        /\ toFree[s] + deleted[s] = IF status_[s] = "CLOSED" THEN 1 ELSE 0

\* The decoder never runs on a session that was deleted.
DecodesLiveSession == decoding # 0 => deleted[decoding] = 0

Good(f) ==
    /\ f.head = Sign /\ f.tail = Sign
    /\ f.size \in 2..MaxLength /\ Len(f.body) = f.size

\* The frames of a plan are those that the length fields of its bytes tell:
\* one that decode() believes is the length of the body behind it.
WellFramed(p) ==
    \A i \in 1..Len(p) :
        p[i].head = Sign /\ p[i].size \in 2..MaxLength =>
            Len(p[i].body) = p[i].size

\* The script has the bodies of the first packets its peer sent, in order,
\* all of them good; the decoder closes only for the next one, which is bad.
InStep(s) ==
    LET p == plan[s]
        n == Len(delivered[s])
    IN /\ n <= Len(p)
       /\ \A i \in 1..n : Good(p[i]) /\ delivered[s][i] = p[i].body
       /\ closedBy[s] \in {"head", "length", "tail"} =>
             n < Len(p) /\ ~Good(p[n + 1])

\* Every packet that has arrived whole was delivered.
UpToDate(s) ==
    \A m \in 0..Len(plan[s]) :
        Len(Sent(plan[s])[m]) + Len(wire[s]) <= Len(PlanBytes(plan[s])) =>
            m <= Len(delivered[s])

\* However the bytes of a connection are cut into portions, the script gets
\* the packets its peer sent, in order, up to the first bad one, which closes
\* the session; and whenever decode() has returned on an open session it has
\* given out all that arrived whole.
StreamDecoded ==
    \A s \in Sessions :
        WellFramed(plan[s]) =>
            /\ InStep(s)
            /\ told[s] = "connected" /\ decoding # s => UpToDate(s)

\* A packet can reach the script after the script was told of the disconnect
\* (the callbacks stay set until update), but only on a session closed for a
\* wrong length or tail, where packLen_ was left behind: never after a
\* hang-up or a wrong header.
LateMessageCause ==
    \A s \in Sessions : late[s] # <<>> => closedBy[s] \in {"length", "tail"}

\* Every session that is closed is deleted in the end.
ClosedIsDeleted ==
    \A s \in Sessions : (status_[s] = "CLOSED") ~> (deleted[s] = 1)

\* What the log says of a bad packet, "Connection closed due to error": the
\* script hears no more of a session after its disconnect.
SilentAfterDisconnect == \A s \in Sessions : late[s] = <<>>
-----------------------------------------------------------------------------
(* The inductive invariant of the proofs.                                  *)

\* The status of a session tells whether it exists, and closedBy whether it
\* was closed.
StatusInv ==
    \A s \in Sessions :
        /\ s <= sessionID_ => status_[s] \in {"OK", "CLOSED"}
        /\ s > sessionID_ => status_[s] = "none"
        /\ closedBy[s] = "none" <=> status_[s] # "CLOSED"

DecodingInv == decoding # 0 => decoding <= sessionID_ /\ deleted[decoding] = 0

\* Why nothing can be delivered on a session closed for a wrong header or by
\* a hang-up: the header is still in the buffer, or no more bytes come.
ReasonInv ==
    \A s \in Sessions :
        /\ closedBy[s] = "head" =>
              packLen_[s] = 0 /\ input[s] # <<>> /\ input[s][1] # Sign
        /\ closedBy[s] = "hangup" => wire[s] = <<>> /\ decoding # s
        /\ closedBy[s] # "script"

\* A number that was not given out yet has left no trace.
FreshInv ==
    \A s \in Sessions :
        s > sessionID_ =>
            /\ told[s] = "nothing" /\ packLen_[s] = 0
            /\ input[s] = <<>> /\ delivered[s] = <<>>

\* On an open session nothing is lost, doubled or reordered between what was
\* delivered and what is to come; a length that is kept is that of the next
\* packet; and a decoder that has returned lacks the bytes to go on.
OpenInv(s) ==
    LET p == plan[s]
        n == Len(delivered[s])
    IN /\ PlanBytes(p) = Sent(p)[n] \o (input[s] \o wire[s])
       /\ packLen_[s] # 0 =>
             /\ n < Len(p) /\ packLen_[s] \in 2..MaxLength
             /\ p[n + 1].head = Sign /\ p[n + 1].size = packLen_[s]
       /\ decoding # s => Len(input[s]) < Need(packLen_[s])

StreamInv ==
    \A s \in Sessions :
        WellFramed(plan[s]) =>
            InStep(s) /\ (told[s] = "connected" => OpenInv(s))

\* All of it; every conjunct is needed to show that a step keeps another.
IInv ==
    /\ TypeOK /\ SessionsAccounted /\ StatusInv /\ DecodingInv /\ ReasonInv
    /\ LateMessageCause /\ FreshInv /\ StreamInv
=============================================================================
