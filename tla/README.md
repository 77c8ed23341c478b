# A TLA+ model of Azrael

Azrael is a framework for game servers: a C++ core (`src/libCore`) that runs
Lua scripts (`src/server_script`), a program that passes messages between
servers (`src/Router`), a database server (`src/DbServer`) and the game server
(`src/game`). Gate, game, database and robot servers are the same core with
other scripts. This directory holds TLA+ modules that model parts of it, TLC
configurations that check them on small instances, and proofs that the TLA+
proof system checks for every instance.

All line numbers refer to the sources at the modelled commit. Every definition
that models code is listed with its lines in the `map` of `PROJECT.json`.

## The system

A server process has one main thread. It starts in `ServerApp::init`, `run` and
then goes round `ServerApp::update` (app.cpp:318): timers, messages of other
servers, deletion of closed client sessions, the tick of the script, and one
pass of libevent's loop, whose callbacks bring client bytes. All scripts run in
that thread. There are two more threads: the writer of the log and a watchdog of
the scripts. Signal handlers run on top of the main thread and of one another.
Everything else interacts by messages: clients over TCP, servers over ZeroMQ through routers.

| component | state | operations | what makes it hard | status |
|---|---|---|---|---|
| Log server (LogThread.cpp) | two queues with a lock each, the flags `iRun` and `iKilled`, the global `logServer`, the cached file | `addLog`, the writer's `loop`, `setupThread`, `stop`, `ExitLogServer` | two threads, signal handlers that log and interrupt one another, a fork after the thread was made, deletion by a handshake on plain flags | `LogThread`, proved |
| Client connections (net.cpp, bevstream.cpp) | map of sessions, queue of closed sessions, an input buffer and a pending length for each connection | accept, read and decode, hang-up, close, `Net::update`, calls of the script | TCP cuts the stream anywhere; callbacks of a closed session stay set until `update` | `NetSession`, proved |
| Timers and clock (timer.cpp, util/timer.lua, arch.cpp) | a map in C++ and a list in Lua for the same timers | `CallLater`, `RemoveCallLater`, `Timer::update`, `DoTimer` | callbacks change both while `update` iterates | `Timer`, proved |
| Server links and router (mqnet.cpp, Router.cpp) | a ZeroMQ socket for each server, `serverok_`, `MaxPackHandle`; the router's identities and `digi` | connect with START, send, `readFromRouter`, stop; echo and forward | full queues, restarts, messages before the handshake, several routes | `ServerLinks`, proved |
| Main loop (app.cpp, game.cpp) | `appResume_`, the four parts above | `init`, `run`, `update`, `stop`, `fini` | the order of the steps; a signal handler that sends | its steps in the modules of the parts, in any order |
| Gate and game sessions (ClientSession.lua, Session.lua, Net.lua, gateService.lua) | the gate's map of clients, mirrored in the game server | new and closed sessions are announced by messages, packets are wrapped and passed on | the mirror lags behind, its messages may be lost or overtake each other, either server may restart, numbers are misread, clients name their own handlers | `GateGame`, proved |
| Packet codec (Packet.lua, buf.cpp) | the packet being built or read | pack and unpack by format | a conversion to hexadecimal text and back | numbers: `PacketCodec`, proved |
| Outgoing connections, robots (connection.cpp, robot/*.lua) | a connection and its callbacks; the script's map of connections; the flag of each robot | connect, connected, failed, closed; a timer that connects again | callbacks of old and new connections in any order; an error ends the timer | `Robots`, proved |
| Login and accounts (Account/*.lua) | maps of accounts by session and name | login, logout, answers of the database | answers that come after the client left | not modelled: does not run |
| Database path (dbClient.lua, dbServer.lua, DBServer.cpp) | callbacks by number; redis as a cache of MySQL | commands, answers, write-through | two stores that one step may leave apart | not modelled: does not run |
| Script watchdog (luasvr.cpp) | depth and time of the running script | enter, leave, the checking thread | a thread that reads what main writes | not modelled: does not run |
| Script utilities, game objects (util/*.lua, game/*.lua) | timing wheel, heap, linked queue, signal manager, counters | data structure operations | - | not modelled: no caller |
| Lua glue, database drivers, hot update | - | conversions, I/O | - | not modelled |

Vendored code (libevent, LuaJIT, ZeroMQ, hiredis, MySQL, lunar, protobuf, tclap),
generated protocol files, tools, binaries and configuration are left aside.

The hazards list of `PROJECT.json` names what is hard to test in this code, each
at the line where it bites, with the properties that watch it.

## The modules

### LogThread, LogFifo: the log server

`addLog` pushes a record on the back queue under its lock; the writer pops the
front queue and, when that is empty, moves the whole back queue over. A caller
(`pc`) is the main thread or a signal handler: `CallLog`, `LockBack`, `PushBack`.
`sa_mask` is empty (app.cpp:149), so a handler blocks only its own signal; three
signals log, and up to three handlers are stacked on the main thread. `Above`
says who is on top of whom, and a caller runs only when those above it are idle
(`CanRun`). The writer (`lpc`) has one action for each piece of
`loop` between two points where another thread can interfere: `EnterLoop`,
`PopFront`, `PopEmpty`, `LockForMove`, `MoveBack`, `WriteRecord`, `CheckEnd`,
`AnnounceEnd`.

The life of the object is `CreateThread`, `PublishServer`, `InitServer` (with
the fork of `be_daemon`), `BeginStop`, the wait, `DeleteServer` and
`ClearPointer`. The wait of `stop()` (LogThread.cpp:436) reads `iKilled` and then
the front queue, with no lock: `ReadKilled` and `ReadQueue` are two steps, and
the deletion is a third. `iKilled` is TRUE from the constructor on, so `stop()` can
read that value before the writer enters its loop, see an empty front queue before
or after the writer has begun, and return; the writer is then wherever it likes when
the object goes. `early` keeps that this is what was read. Undefined behaviour is a
choice: the wait is on plain members, which an optimised build may read once
(`StopHangs`, `HoistedReads`); use of freed memory is recorded in `uaf` and ends
the thread that did it. (A compiler that may assume that loops end could drop the
wait altogether; that build is not modelled.) Only `popLog` takes the front lock and
only the writer calls it, so that lock is left out. Text, level and file names
are a serial number.

Signals are taken by the main thread, which the kernel prefers. It turns to another
thread only for a signal that main blocks, because the handler of the same
signal runs, or while main has one pending that it has not begun to handle; a handler
on top of the writer or of the watchdog is not modelled, nor is the handler of SIGSEGV.

`LogFifo` is the promise to the callers: a FIFO channel that takes the records
one at a time, none twice and none skipped. `FifoSpec` states that `LogThread`
implements it, with the histories of what was handed over and dealt with as the
mapping.

### NetSession: client connections

`Accept`, `Receive` and `HangUp` are libevent's callbacks; `Receive` moves any
number of the bytes on the wire into the input buffer and starts `decode()`,
whose loop has one action for each way through it: `DecodeWaits`, `BadHeader`,
`BadLength`, `BodyIncomplete`, `TakePacket`, `BadTail`. `Update` deletes closed
sessions and `ScriptCloses` is `LuaNetwork::CloseSession`. What peers send is a
constant, `Plans`, of sequences of frames, right and wrong; bytes are really
sent, cut and counted, in base `Base` instead of 256, and the lengths are
unsigned ints of four such bytes, so that the sums of `decode()` wrap where the
code's do. `libevent` itself is external. `event_base_loop` with
`EVLOOP_NONBLOCK` runs several callbacks in one pass, so that several can come
between two calls of `Update`. `LM_LOOP` is excluded: `Game` makes its `Net` with
`LM_CHECKOVERTIME` (game.cpp:23).

Left out: text mode, the overtime check (switched off by `CheckOverTime`), the
accounting and redirection functions that have no caller, and the write path,
which sends nothing to one session because `getSession` returns NULL. A log call
with a missing argument (net.cpp:74) is wording.

### Timer: timers and the clock

`CallLater` and `RemoveCallLater` are the calls of scripts, between two updates
or from a callback; `BeginUpdate`, `SkipTimer`, `DoTimer`, `DoTimerUnlisted`,
`CallbackEnds`, `CallbackRepeats` and `CallbackFails` are the steps of
`Timer::update` with `DoTimer` of the script. `timerMap_` is the C++ map,
`timerList` the list of the script, `k` the index that `DoTimer` keeps across
the callback. `Tick` moves the clock and `TimerGetTime` computes what
`timer_get_time` returns from it, unsigned arithmetic included, in the variant
with `HAVE_CLOCK_GETTIME`, which libCore/CMakeLists.txt:13 defines. A callback
does not remove its own timer (test/test_timer.lua:18 says so).

### ServerLinks, LossyLinks: servers and routers

`Connect`, `Send`, `Disconnect`, `Finish` are what a server does with its ZeroMQ
socket; `BeginRead`, `PassLimit`, `PassEmpty`, `EchoArrives`, `WrongVersion`,
`TooEarly` and `HandleMsg` are the ways through `readFromRouter`;
`RouterEchoes`, `RouterSeesStop` and `RouterForwards` are the loop of the router.
`out[s][r]` is everything between a server's `send` and the router's `recv`,
`in[s][r]` everything between the router's `send` and the server's `recv`.
ZeroMQ is external, as the code uses it: a pipe holds `Hwm` messages, a DEALER
gives a message to some router with room (round robin, of which the model keeps
that any router may be next), a ROUTER drops what it cannot deliver, connections
come back by themselves, and the end of a process loses a suffix of what it
had not written and all it had not read. A restart of a server waits until the
routers have seen the end of its old connection, since ZeroMQ refuses a second
one with the same identity. `Killed`, `RouterRestarts` and `Link` are the
environment. A message is a number; `route`, `handled` and `lost` are histories
of where it was sent, who handled it and why it was lost.

An echo with another version is handled as the code does: `serverok_` is set
before the version is looked at, so the server goes on as connected, unless the
double delete of the message (mqnet.cpp:321 and the destructor of `Buf`) ends it.
The message kind `PT_SERVER_OFFLINE` is left out, since nothing sends it.

`LossyLinks` is what a server may rely on: on one route, a sender, a receiver and
a router, messages are handled at most once and in the order they were sent, and
any may be lost. `LinksSpec` states the refinement.

### GateGame: clients of a gate and their sessions in the game server

`CHandlerConnect`, `CHandlerDisconnect` and `CHandlerNetMsg` are what the core of
the gate calls; each sends a message to the game server. `Update` is the deletion
of closed sessions, until which packets of a closed session can come (what
`NetSession` shows). `CHandlerMsg` is the handler of the game server, which makes,
deletes or looks up the session (`NewSession`, `DelSession`, `RecvClientPacket`).
`GateRestarts` and `GameRestarts` end a process and start the next; a new gate
counts its sessions from the beginning.

The module composes the two servers with `LossyLinks`: sending and handling are
its actions `Send` and `Handle`, on its variables, so that what is shown here
rests on just what `ServerLinks` implements. The session numbers of a
run are a constant, `Numbers`, those clients that are followed of all a gate has;
the number goes through `Received` of `PacketCodec` on its way. `mirror` keeps
for each number the client for whom the session was made, and `crossed` records
packets handled in the session of another client. What a handler does in a
session is the login, which is not modelled.

The client names the handler of its packet, and the table of handlers holds
`RecvClientPacket` itself (PacketHandler.lua:37): a packet in the packet is handled
in the session whose number the client has put there. `RecvClientPacket` therefore
may end up in any session, once the client has one. (The other two handlers of
gates, called with a session, raise an error before they change anything,
gateService.lua:5 and 11.)

The core of the game server listens too (`Net::init`, net.cpp:380), and
game/init.lua:54 reads what a client of that port sends as if a server had sent it.
`GameHandlerNetMsg` is such a packet that makes or deletes a session; it counts
`direct`, and a session made for no client of a gate belongs to process 0 of the gate
(`Direct`). `GhostsAccounted` says nothing of these sessions, `CrossedCauses` names
them as a cause, and `MirrorAgrees` and `SessionWhileAnnounced` speak of runs
without such packets.

### PacketCodec: numbers in packets

`WriteInt` are the bytes the core writes, `G_UnPacketI` what the script makes of
them: it appends every byte in hexadecimal, without a leading zero, and converts
the text. The base is a constant, `Digit`. Lengths of strings and arrays are
numbers as well, of two bytes, to which the same applies.

### Robots: outgoing connections

`RobotMngUpdate` is the timer: it makes a connection for each robot that has
none, until one `connect()` returns an error, which ends the loop and, as the
error passes through `Timer::update` (`CallbackFails` of `Timer`), the timer.
`OnConnected` and `Close` are the callbacks of libevent and the calls they make of
the script. A connection holds the script's callbacks (`ref_`) until it has told
of its end; the script finds the robot in `gtConnMap`, from which nothing is ever
removed (robot.lua:23 clears the wrong key). Incoming packets are only logged and
are left out, and so is the timeout of a connection, which is never armed.

## What the runs check

| run | instance | what it shows |
|---|---|---|
| `logthread` | 4 records, 3 signals, 1 failing `fopen`, with and without `be_daemon`; 91686 states | FIFO refinement; nothing is lost between push and write (`NothingLostInTransit`); the writer does not leave in mid-run (`NoExitWhileRunning`); a stop abandons only the back queue, unless it read `iKilled` before the writer's loop began (`OnlyBackAbandoned`); the exact causes of a use of freed memory (`UseAfterFreeCauses`); the lock excludes, handlers included; every record is written unless one of the named causes prevents it (`QueuedIsConsumed`); `stop()` returns but in two named cases (`StopTerminates`) |
| `net_decode` | one connection, 8 plans of up to 5 packets; 8957 states | `StreamDecoded`: however the bytes are cut, the script gets the right packets, in order, up to the first bad one, as soon as they have arrived whole, and the decoder closes the session for nothing else; `LateMessageCause`: which sessions can deliver a packet after their disconnect; decoding never runs on a deleted session |
| `net_tables` | two connections; 46557 states | `SessionsAccounted`: each session is in the map, in the queue of closed ones or deleted, once; every closed session is deleted in the end |
| `timer_timers` | 3 timers, delays 1 and 2, 2 ticks a second; 416278 states | one-shot timers fire once, removed timers are gone, the iterator of `update` stays valid, map and list agree as far as they do (`Coupled`), and a repeating timer is lost only after `DoTimer` has removed at a stale index (`RepeatsUntilShifted`) |
| `mq_routes` | 2 servers of two versions, 2 routers, 2 messages, queues of 2, 2 starts, 1 kill; 640471 states | the links implement `LossyLinks`; a handshake is done once or lost (`HandshakeAccounted`); a message to a connected server that its router knew is lost only at a full queue (`KnownNotRefused`) |
| `mq_failures` | the same with 1 router that restarts once; 0.25 million states | every message is in one place or lost for a known cause (`MessagesAccounted`), none stays on its way (`MessagesSettle`), a handshake that is not lost completes (`HandshakeCompletes`) |
| `gate_sessions` | session numbers 16, 17 and 256, 2 routers, 2 processes of each server, 4 messages, 1 packet to the port of the game server; 1.7 million states up to symmetry | why a session of the game server may be that of a client who is gone (`GhostsAccounted`), when the sessions of the two servers are the same (`MirrorAgrees`), the causes of a packet being handled in another client's session (`CrossedCauses`), and those of one being dropped for lack of a session (`SessionWhileAnnounced`) |
| `robots` | 2 robots, 5 connections; 2384 states | a robot never waits for a connection that is gone (`WaitsForLive`), has one at a time (`OneLive`), logs in once on each that is established and on none before that (`LoginOnce`), and connects again until an error has ended the timer (`Reconnects`); no attempt stays undecided (`AttemptsEnd`) |

Four more runs each show that the code does not do what a comment or a log text
of the repository says; they are the findings:

- `net_silent`: `close()` leaves the read callback and `packLen_` in place
  (bevstream.cpp:91), so that a packet can reach `CHandlerNetMsg` after the
  script was told of the disconnect. `LateMessageCause` tells when: only after a
  wrong length or a wrong tail.
- `timer_repeats`: `DoTimer` uses a stale index after the callback
  (timer.lua:54) and a repeating timer of somebody else is lost.
  `RepeatsUntilShifted` tells that this is the only way to lose one.
- `timer_early`: `timer_get_time` counts microseconds as milliseconds within a
  second (arch.cpp:230), so that timers fire early. `ClockDrift` of Timer_proofs
  tells by how much the clock is wrong.
- `gate_announced`: `"%x"` prints a byte below sixteen as one digit
  (Packet.lua:133), so that session 256 is read as 16: with every message handled,
  the game server still has no session for a connected client.

Some faults need no run, since one line shows them: `getSession` drops what it
finds and returns NULL (net.cpp:705), so that no operation on a session by its
number does anything; a return without a semicolon keeps the watchdog from ever
seeing a script (luasvr.cpp:661); the number of the database command, 200000, is
read as 15680 (`ReceivedWrong` of PacketCodec_proofs), which has no handler. They
are listed as hazards.

### Bounds

Bounds stand in the guards of the actions and are named constants. They are the
smallest at which every action fires and every interesting case happens. Four
records fill both queues, the writer's hands and a caller's; three signals stack as
many handlers as can log. Two sessions are one
that misbehaves and one that must not be disturbed; eight plans put each kind of
wrong packet between right ones, with bytes that a decoder out of step would take
for a marker, and one length (252 in base 4) that wraps the sum of `decode()`.
Three timers are one that runs, one before and one after it. Clock units are
scaled: 2 ticks and 4 microseconds a second, starting near the end of one.
Two messages in queues of two fill a queue (an echo is then lost), overrun a pass
(`PackUnit` is 1) and can be reordered; two servers suffice, since a router treats
each pair alike. Three
clients for a gate have the numbers 16 and 17, which are read right, and 256, which
is read as 16, so that a packet can cross to a session of another reading and of the
same; four messages are the announcements of two clients and a packet and the end of
one of them, or those of the same client of two gates, and two routers let any of them
overtake. One packet to the game server's own port makes or ends any session. The
finding needs the announcements of three clients only; five messages are allowed
there. Two robots are one whose error may hit the other; five
connections let one robot connect four times.
Ids and session numbers that wrap after 2^31 or 2^32 uses are not
reached.

Deadlock is not checked where the system ends or comes to rest: the process
exits, every byte was read, the bounded clock or the bounded number of starts is
used up.

### Fairness

- LogThread: weak fairness of the writer and of main's steps through start and
  stop, which the scheduler gives every runnable thread; strong fairness of
  taking the back lock, because the writer lets go of it for 100 ms each time.
  Callers are not obliged to log, nor main to stop.
- NetSession: weak fairness of `Update`, to which the main loop always returns,
  and of `decode()`, which has no reason to stop. Peers need not send.
- ServerLinks: weak fairness of the main loop of a server (reading, and ending
  after a stop) and, for each connection, of connecting and of the router's
  reading. Scripts need not send; restarts and kills are finite by their bounds.
- Robots: weak fairness of the timer while it is set, which `Timer::update` fires
  again and again, and of the kernel's answer to a connection attempt, which TCP
  gives in the end. An established connection need not end.

GateGame has no liveness: every message may be lost, and nothing is sent again.

## What is proved

The proofs are in the modules `*_proofs` and hold for every
value of the constants that satisfies the named assumptions.

**LogThread.** `Invariance` proves `Spec => []IInv`. `IInv` strengthens the
properties with what each control point means: a caller in `addLog` holds a
record and, when pushing, the lock (`CallerInv`); the writer holds a record only
while it writes (`WriterInv`); nothing is queued before the server is published
(`StartInv`); and `iKilled` means that the writer is outside its loop with empty
hands and an empty front queue, which stays true from the moment `stop()` reads it,
through its other read, the deletion and after, unless it was read before the loop
(`HandshakeInv`). The last is what the deletion rests on: without it an object could
be deleted under a writer inside its loop with no named cause. `CallerInv` also says
that nobody is inside `addLog` once `iRun` is cleared, however handlers were stacked,
so that no record is pushed on a queue that is going. From `IInv` follow `TypeCorrect`, `TransitSafe`,
`WriterStays`, `UseAfterFree`, `BackLock` and `Abandoned`; and `Refinement`
proves `Spec => FifoSpec`: under `NothingLostInTransit` a push is `Put`, the end
of a write is `Take`, and every other step stutters.

**NetSession.** `Invariance` proves `Spec => []IInv`. `StatusInv` ties status to
existence and to why a session was closed, `DecodingInv` keeps the decoded
session alive, and `ReasonInv` says why a session closed for a wrong header or by
a hang-up cannot deliver anything: the wrong header still heads its buffer with
no length pending, or no more bytes come. `TypeCorrect`, `Accounted`,
`DecodeLive` and `LateCause` follow.

`Decoded` proves `StreamDecoded` for every plan and every way to cut it. While the
script holds a session to be connected, the bytes a peer sends are those of the
packets delivered, then the input buffer, then the wire (`OpenInv`): nothing is
lost, doubled or moved, a length that is kept is the length field of the next
packet, and a decoder that has returned lacks the bytes to go on. `FreshInv` is
what a number has before it is given out. Once the session is closed only what was
delivered counts (`InStep` of `StreamInv`), since a decoder out of step may take any
bytes for a packet. The condition `WellFramed` leaves out the peers whose body is
not as long as an acceptable length field says: such bytes can be read as packets
in more than one way, and none is right. The lemmas go from the bytes
upward: the digits of a length give that length (`NumberDigits`), the first
frames of a plan are a prefix of all (`SentPrefix`), and what heads the buffer
is the next frame, whole or in part (`HeaderRead`, `BodyRead`). `Sent` is a
recursive function; that its values are byte sequences, that they get longer, and
that each begins the next, are inductions. `NatLemmas` has the form they
take, said of a set of numbers instead of a predicate, proved from the
least-element principle of the library.

**Timer.** `IInv` rests on facts that no line of the code states: an id stands at
most once in the list, because ids are given out once (`Given`); what has fired for
the only time is in the map exactly while its callback runs (`FiredOnce`), without
which `OneShotOnce` says nothing about the next step; what was removed is at no
position of the list (`Gone`); map and list match by position (`Matched`). `DroppingOne` says what
`table.remove` leaves of a list without repetitions, and carries the steps that
remove. `RepeatingLasts` adds `Lasting`: the list says of each timer whether it
repeats, so that a callback which ends a repeating timer has returned 0, and while
no index was stale `update` finds every timer of its map in the list.
`TypeCorrect`, `FiresOnce`, `RemovedStaysGone`, `MapAndList`, `IteratorStaysValid`
and `RepeatingLasts` are proved for `MaxCalls <= MaxHandleId`, that is, until ids
are used again. `ClockDrift` is about `timer_get_time` alone: for any number of
microseconds since its start it gives the ticks in closed form. They are right at
each whole second, run a thousand times too fast in between, and jump back once a
second, by 999000 with the numbers of the code.

**ServerLinks.** Two facts carry the messages. `Placed`: a packet holds the
message it was made for and is between the servers, and at the router, of its route.
`Ordered`: on one route the messages get later from what the target's script has
handled to its queue `in` and to the queue `out` of the sender. No message can then be
in two places or twice in one, which is half of `Accounting`; the other half, that
what is nowhere was counted as lost (`Accounted`), is about the steps that lose
messages, of which the end of a process and the restart of a router lose parts of
many queues at once. `Refinement` follows from `Ordered` alone, since a handled message
is later than all its script has handled on that route. For `NotRefused`
the invariant is `Connected`: between the servers of a known message nothing has
ended. For `HandshakeOnce` it is `Shaken`, that a START or its echo is in one queue
at one place. `TypeCorrect` also bounds the queues. All hold for any
number of servers, routers, starts, restarts and kills, and any `Hwm`.

**GateGame.** The argument has two halves. `Sent` is what a gate sends: a client is
announced once, its end is told after that and only when it has ended, and a later
process of the gate sends later messages. `Kept` is what the game server keeps: the
session of a number is that of the last announcement of this number that this
process handled, with no end of it handled since, unless a client of its own port
made it (`Mirrored`); and an announced number keeps a session until an end of it is
handled (`Served`). The order of a route connects the two; `Caused` is
`CrossedCauses` said of the messages. `TypeCorrect`, `GhostsHaveCauses`,
`MirrorIsRight`, `CrossingsHaveCauses` and `AnnouncedHaveSessions` hold for any
numbers, routers and bounds.

**PacketCodec.** `ReadRight`: in any base, a number is never read as more than it
is, and as itself exactly when no byte below the base follows one that is not zero.
`ReceivedRight` is that for every number of four bytes, from the writing by one
server to the reading by another (`Written`: the division into bytes loses
nothing, in any base). `FirstCollision` names the first number that is read as
another: numbers of one byte are read right, and the next is read as one of them.
`ReceivedWrong` names four numbers that the system uses and that are read wrongly.

**Robots.** The invariant adds to the properties that a connection not yet made
has left no trace anywhere (`Unmade`) and that one whose `connect()` returned an error
is in no map (`Waiting`). `TypeCorrect`, `RobotsWaitForLive`, `OneConnection` and
`OneLogin` follow. `Reconnects` holds only up to the first `connect()` that returns an
error; that this error ends the timer of all robots is a fault of the code which no
property excludes.

Assumptions: `BoundsAssumption` and `BuildAssumption` of LogThread,
`SessionsAssumption`, `FormatAssumption` (the marker is not zero, the longest
packet does not wrap) and `PlansAssumption` (a peer sends a sequence of frames,
right or wrong), `CountsAssumption` and `ClockAssumption` of Timer, `LinksAssumption` of ServerLinks, `NumbersAssumption` (session numbers grow),
`GatesAssumption`, `DigitAssumption` and `RobotsAssumption`.

**Only model-checked.** The liveness properties, since fairness and ENABLED are out
of the provers' reach: `QueuedIsConsumed`, `StopTerminates`, `ClosedIsDeleted`,
`MessagesSettle`, `HandshakeCompletes`, `Reconnects` and `AttemptsEnd`.

## Not modelled

- *Database path, login and accounts.* The two messages between game and database
  server have the numbers 200000 and 200001, which the receiver reads as 15680 and
  15681 and for which it has no handler. No command is carried out and no callback
  called; a login stays in the state Loading. A model would be one of code that
  does not run, with a fault assumed to be mended.
- *Watchdog.* It never sees a script (luasvr.cpp:661).
- *Script utilities and game objects.* Nothing that a server loads calls them:
  the timing wheel has no caller, minheap, linkque and signalMgr are not loaded,
  scheduler, keeper, product and BlockBase are half translated from another
  language and do not run.
- *Main loop.* The modules of the parts let its steps come in any order. A
  composition of all would show the order of the steps in one pass, on which no
  property depends: what one part hands another is taken at once.
- *Strings and arrays of a packet.* Their bodies are moved unchanged; that both
  sides visit the fields in the same order is a property of the hash table of Lua.
- *Database drivers* bind client libraries, the *Lua glue* converts arguments, and
  *hot update* replaces functions of running code: a finite model has nothing to
  say of them.

## What is left to prove

Every invariant and both refinements that the passing runs check are proved. The
proofs about timers stop where ids are used again after 2^31 calls; what then holds
needs a history by use of an id instead of by id.
