# KCPServer: specifications, model checking and proofs

The repository is a server that speaks KCP (a reliable protocol over UDP), a
test client, and the code they stand on. This directory holds TLA+ modules that
are translated from that code, configurations for TLC, and proofs for TLAPS.
Line numbers are those of the files under `src/`; `engine/` stands for
`src/服务端/engine/`, `share/` for `src/服务端/share/` and `client/` for
`src/测试客户端/`.

## 1. The system

### Components

| component | code | state | operations |
|---|---|---|---|
| KCP protocol | `engine/ikcp.c`, `ikcp.h` (the client has the same text) | send and receive queues and buffers, `snd_una`, `snd_nxt`, `rcv_nxt`, `rmt_wnd`, `acklist`, `probe`, `state` | `ikcp_send`, `ikcp_recv`, `ikcp_input`, `ikcp_update` -> `ikcp_flush`, `ikcp_create`, `ikcp_release` |
| timers, round trip | `ikcp_update`, `ikcp_check`, `ikcp_update_ack`, parts of `ikcp_flush` | `current`, `ts_flush`, `rx_srtt`, `rx_rttval`, `rx_rto`, `probe_wait`, `ts_probe`, `rto` and `resendts` of a segment | arithmetic on a clock that wraps around |
| queues | the macros `iqueue_*` of `ikcp.h` | `next` and `prev` in heads and segments | add, delete, splice |
| connection table | `engine/UDPServer*.cpp`, `INetBase.*` | `Linkers` (slots `UDP_BASE`: state, ID, address, `kcp`, heartbeat, buffer), `CheckConnectSet` | `recvData`, `onAccept`, `onDisconnect`, `recvData_kcp`, `createKcp`, `releaseKcp`, `updateKcp`, `KcpSend`, `parseCommand()` |
| test client | `client/KCPClient.*`, `main.cpp` | `ID`, `state`, `kcp` | ask to connect, take the reply, heartbeat, KCP traffic |
| heartbeat | `main()` of the client, `parseCommand()` of the server | `sendHeartTime`, `time_Heart` | send, note, give up |
| command buffer | `onRecv_SaveData`, `parseCommand(c)`, at both ends | `recvBuf`, `recv_Head`, `recv_Tail`, `is_RecvCompleted` | append a message, scan and execute commands |
| dispatch, TestApp | `parseCommand(c, cmd)`, `TestApp.cpp` | table of containers (constant after start) | look a command up, answer 666 |
| XML document | `share/tinyxml2.*` | nodes in lists of children, `_unlinked`, untracked counts of the pools, `_parsingDepth`, `_errorID` | insert, move, delete, copy, parse, print |
| XML strings | `StrPair`, escaping of `XMLPrinter` | `_start`, `_end`, `_flags`, the bytes of the document | print with entities, find the end, decode in place |
| configuration | `share/ShareFunction.cpp` | values of the program | `LoadServerXML` |
| addresses, start, console | `getIPPORTKey`, `DATA_HEAD`, `AppManager`, `initSocket`, `ConsoleColor` | none, or constant after start | arithmetic, run once, log |

### How they interact

The server has two threads. The **worker** (`UDPServer::run`) blocks in
`recvfrom` and handles one datagram at a time: command 65001 admits a client
(`onAccept`), 65000 disconnects one, 65002 is a heartbeat, and anything else is
fed to the KCP session of its sender; the messages this completes are appended
to the command buffer of the slot. The **main thread** loops over the slots
without a pause: it disconnects a client whose heartbeat is late, calls
`ikcp_update`, and executes the commands in the buffer; TestApp answers them by
`KcpSend`, which calls `ikcp_send`. Each thread touches all of the state of a
slot, and only `CheckConnectSet` has a lock. The client has the same shape:
one thread receives, the other updates, sends and parses. The XML document is
read once, at start, before the worker exists.

### What is hard, and what makes each component correct

* **KCP.** The network loses, repeats, delays and reorders datagrams; an end
  never knows what the other has. Correct means: the messages given to
  `ikcp_send` come out of `ikcp_recv` at the other end whole, once and in order;
  no segment is freed before the peer holds it; windows are kept; whatever is
  lost (data, acks, window updates) is made good in the end.
* **Timers.** The clock is an unsigned integer of milliseconds that wraps around
  after 49 days and starts anywhere; `current` is as old as the last update; the
  loop that calls `ikcp_update` may stand still. Correct means: a segment is sent
  again when its time has come, neither later nor earlier; round trips are
  measured right; a closed window goes on being probed.
* **Queues.** Macros that are chains of assignments to cells which may be the same
  one. Correct means: they implement sequences.
* **Connection table and sessions.** Two threads interleave at every access.
  Correct means: an address has one slot; datagrams reach the session that was
  made for their sender; answers go to the client that asked; sessions are
  neither leaked nor used after release, and never mixed when an id is handed out
  again; slots of clients that went away come back.
* **Heartbeat.** Correct means: a running client is kept whatever the network
  loses (up to a limit), a stopped one is given up in time.
* **Command buffer.** A byte buffer with one writer and one reader and no lock.
  Correct means: commands are executed once, in order and only when whole; the
  parser gets to every message; no message is stored behind the end.
* **XML.** An object graph with redundant links, nodes that are in no place yet,
  pools that count them, and a parser that may fail at any depth. Correct means:
  the graph is an ordered tree at all times, nothing is deleted twice or left
  behind, and what is read is what was written. Strings are decoded in place,
  once, in the buffer that is still to be read.

`PROJECT.json` lists the hazards one by one, at their lines, with the properties
that cover each.

## 2. The modules

### `KcpSeq`, `Kcp`, `KcpStream`, `MCKcp`

`KcpSeq` is the arithmetic of sequence numbers: `SeqAdd` is unsigned addition,
`Diff` is `_itimediff`, both modulo the constant `SeqMod` (2^32 in the code).

`Kcp` is one session between two ends. Its variables are the fields of `IKCPCB`
under the names of the code, indexed by end; `snd_buf` and `rcv_buf` are
functions from sequence numbers, because the lists of the code are sorted by
`sn`. `sent`, `log` and `delivered` are history. The actions:

| action | code |
|---|---|
| `Send(e)` | `ikcp_send`: cut into fragments, refuse too many |
| `Update(e)` | `ikcp_update` when a flush is due: acks, probes, numbering of new fragments, the choice of the segments to transmit, their packing into datagrams, `dead_link` |
| `Receive(e, d)` | `recvfrom` returns `d`, `ikcp_input` begins |
| `RxSegment(e)` | one iteration of the loop of `ikcp_input` (ACK, PUSH, WASK, WINS) |
| `RxEnd(e)` | its end: `ikcp_parse_fastack` |
| `Recv(e)` | one successful call of `ikcp_recv` in the loop after `ikcp_input` |
| `Lose(e, d)` | the network drops `d` |

One iteration of `ikcp_input` is a step because the other thread can run between
two of them. The clock is abstract here: at a flush any set of segments that have
been transmitted may have timed out, and the probe timer may have run out. This
contains every behaviour of the rto and of its back-off; which of them the clock
really makes is the subject of `KcpTimer`. A flush sends everything
that is due, and the network keeps any subset of the resulting datagrams. A
datagram of exactly 24 bytes skips the loop around `ikcp_recv` in the code; it
holds no PUSH, so there is nothing new to read and the model makes no
difference. Stream mode and the congestion window are left out because both
programs call `ikcp_nodelay(kcp, 1, 10, 2, 1)` and never set `stream`.

The client and the server have the same file `ikcp.c`, and the actions stand for
both; in the map of `PROJECT.json` the larger ones name the copy of the client, and
the operators they are made of that of the server. `KcpTimer` and `IQueue` mostly
name the client's copy.

`KcpStream` is the abstract specification: two sequences of messages per
direction, `Accept` and `Deliver`, no network. `Kcp` refines it
(`ReliableStream`; the mapping takes `sent` and `delivered` as they are).

### `KcpTimer`

The clock-driven side of one end, with one segment followed from `ikcp_send` to
its ack. `clock` is the real time and `boot` what the millisecond clock showed at
its start; what the code reads is `ClockAt(time)`, modulo `ClockMod`. `kcp` and
`seg` hold the fields that the timers use. `Update` is `ikcp_update` with the
clock arithmetic of `ikcp_flush`; `Ack` and `Hear` are `ikcp_input`, which does not
read the clock but uses `current` as the last update left it; `Check` is
`ikcp_check` (nothing in the repository calls it; it is part of the interface of `ikcp.h`). `ClockTick` lets the time pass, and not by more than `MaxGap` without
an update: that is the loop of the owner. `seen` is history: when updates, flights
and probes really were.

### `Walks`, `SegQueues`, `IQueue`

`IQueue` has the macros of `ikcp.h` as simultaneous assignments to `next` and
`prev`: `Add`, `AddTail`, `Del`, `DelInit`, `SpliceInit`. `SegQueues` is the
abstract specification, sequences of segments, with a segment in at most one
of them: one operation for each macro, with the place it works at (`Add` right behind a
cell, `AddTail` at the end, `Del`, `SpliceInit`). `IsSequence` binds each macro to the
operation of its name, where a sequence is what walking a ring gives; that is more than
the refinement of `SegQueues`, which only asks for some operation. A segment is added
when it is in no queue (`Alone`), and `iqueue_add` is called with a head or with a segment
that a walk has come to (`InQueue`), as in `ikcp_parse_data`. `Walk` is such a walk along a list, ended by its length at the latest; the
lists of `XmlTree` use it as well.

### `UdpServer`, `MCUdpServer`

The table (`slot`, `CheckConnectSet`) and the two threads. `th[t]` holds where
thread `t` is and its locals; a step is what a thread does between two accesses
to shared memory whose order matters, so `onAccept` takes eight actions and
`onDisconnect` six. A KCP session is a number: `live` is the set of allocated
ones, `owner` the address each was created for. A call of `ikcp_...` is two steps,
`Enter` and `Leave`, and the session must be allocated at both. An access to a
session that is not allocated, or through an uninitialised pointer, is undefined
behaviour, and a null pointer fails an assertion: both set `fault`, and the model
stops there, so everything it says is about executions up to the first fault.
That such executions exist is what `srv_asserts` shows. The code also reaches the
use or the second release of a session that is gone and the use of a `kcp` pointer that was
never initialised (fault `undefined`); the repository makes no statement about these that could be
checked, so no property forbids them, and `hazards` notes them. The content of the buffer
of a slot is reduced to the client whose command it holds.

The network repeats and delays datagrams without bound, so any request a client
could have sent before may arrive at any time: `told[a]` is the set of ids that
client `a` was given.

### `Session`, `MCSession`

`UdpServer` composed with the test clients. Where `UdpServer` alone lets a client
send whatever it could have, here a heartbeat or a KCP datagram arrives only with
an id that the client has used (`sent`). The actions of a client are `OnReply`
(`recvfrom` returns a reply; `onAccept` tests the id and stores it), `SetState` and
`Create` (its next two assignments, which the main thread of the client can see
apart) and `SendServer` (heartbeats and KCP datagrams). `Feed` is the end of `ikcp_input` at
the server: `fed` holds the sessions that have heard of their client, and only
those have something to send, which `SessionReady` uses. A client ignores 65000 and
asks no more after its first answer, as in the code.

### `Heartbeat`

The times of the heartbeat of one client. `Beat` is the loop of the client's `main`,
`TestHeart` the server's loop at the slot, `Deliver` the arrival of a beat (late,
repeated, out of order), `SecondPasses` the clock, which does not pass what a loop or
the network has to do by then (`StartDelay`, `Lag`, `MaxDelay`).

### `CmdBuffer`

The buffer between the threads for one connected client, byte by byte: a cell
holds which message it belongs to and at what offset. `Recv`, `Refuse`, `Copy`,
`Publish`, `Complete` are the accesses of `onRecv_SaveData`; `Test`, `Skip`,
`Execute`, `Advance`, `LoopEnd`, `Clear` those of `parseCommand(c)`. The model has
the parser of the code, which adds the length of the payload to `recv_Head` and
leaves the 11 bytes of the header to be skipped one per call. Neither function looks at
the length of the payload, so it may be 0: the command of such a message is executed for
ever, in the model as in the code. `initdata` clears 512 bytes of a buffer that has 100
in the configuration; what lies behind the buffer is not modelled. The client has the
same pair of functions with another size of buffer, and the map names its copy.

### `XmlForest`, `XmlTree`, `XmlParser`, `MCXml`

`XmlTree` is the object graph of `tinyxml2` as one record: parent, siblings, first
and last child, the list of unlinked nodes, the pools' untracked counts, and the
names of an element's attributes. Every function of the library that changes the
graph is an operator from a graph to the next one (`InsertEndChild`, `InsertAfterChild`,
`DeleteNode`, `DeepClone`, `ClearDocument`, ...), and `Edit` is any call of them that a
user can make.

`XmlParser` adds `ParseDeep`. Its activations are a sequence (`open`), the file is a
sequence of tokens chosen as they are asked for, with every kind of error:
repeated attributes, end tags that do not match or that nothing was open for, a
declaration in the wrong place, a depth that is too large, a token or a file cut
short. `Unwind` is one return with null. `LoadServerXML` is what the program does
with the document.

`XmlForest` is the abstract specification: an ordered tree and a set of loose nodes,
with six operations (`Create`, `Grow`, `Move`, `Delete`, `DeleteChildren`, `Clear`) and no
pointers. `IsForest` is the refinement; what the parser has opened but not placed yet is
a loose node.

### `XmlText`

One string through the library: `PrintText` writes it with entities, `ParseText`
finds its end, and `GetStr` decodes it in place, one character, entity or line end at
a time (`Decode`, `Decoding`), then collapses the white space (`Trim`, `Collapse`). The
buffer is that of the document, so the bytes behind the string matter.

### `MCParts`

`KcpTimer`, `Heartbeat`, `IQueue` and `XmlText` in one instance. They share nothing, and
each of them moves only while the others are where they begin, so its state graph is
the sum of theirs and not their product.

### Proof modules

`KcpProofs`, `KcpTimerProofs`, `SessionProofs` (the server, in `UdpServer` and in
`Session`), `CmdBufferProofs`, `HeartbeatProofs`, `IQueueProofs`, `XmlProofs`, and
`WalkProofs`, which the last two share; see section 4.

## 3. The runs

| run | instance | shows |
|---|---|---|
| `kcp_lossy` | one segment each way, windows of 2, up to two datagrams in flight per direction, repeated at will | `TypeOK`, `NothingLost`, `NeverBack` |
| `kcp_fragments` | messages of 1 to 4 fragments, four fragments in all, send window 2, receive window 3, two segments in a datagram | `OrderedDelivery`, `WindowKept`, `QueueNeverStuck`, `ReliableStream` (refinement of `KcpStream`) |
| `kcp_wrap` | seven segments, six sequence numbers, fair threads, fair network | `OrderedDelivery`, `EventuallyDelivered` across the wrap-around |
| `kcp_live` | two segments one way, receive window 2, fair threads, fair network | `EventuallyAcked`, `WindowReopens` |
| `kcp_reassembly` | two fragments, a reader's buffer of one | violation: a fragmented message is never read |
| `srv_safe` | 3 clients, 2 slots, 3 sessions, 65000 sent, heartbeats late after 1 s | `TypeOK`, `OneSlotPerAddress`, `OwnSession`, `NoLeak` |
| `session` | 2 clients, 2 slots, clients and server together, heartbeats late after 1 s, no 65000, fair threads | `AnswersSender`, `OneSession`, `SessionReady`, `LateGivesBack`, `GetsConnected` |
| `srv_asserts` | 2 clients, 1 slot | violation: `ikcp_recv` on a null session |
| `srv_refused` | 2 clients, 1 slot | violation: a disconnected client is refused as connected |
| `cmd_order` | buffer of 80 bytes, payloads of 0, 4 and 13 bytes (frames of 11, 15 and 24), fair main thread | `ExecutedInOrder`, `WholeFrame`, `StoredThenExecuted` |
| `xml_doc` | 3 nodes, edited at will and read from files of up to 5 tokens | `IsForest` (refinement of `XmlForest`), `ListsBothWays`, `UnlinkedExact`, `PoolsTracked`, `ReadsBack`, `NothingLeft`, `ServerElementRead`, `CopiesWhole` |
| `parts` | a clock of 32 values over 12 instants; 41 seconds of heartbeats; 3 queues and 4 segments; strings of up to 3 pieces | `ResentInTime`, `NotResentEarly`, `RttMeasured`, `ProbesKeepComing`, `CheckNotLate`; `AliveKept`, `DeadGivenUp`; `IsSequence` (refinement of `SegQueues`); `TextReadBack` |

The three violations, and the other entries of `findings` in `PROJECT.json`, are
disagreements between the code and what a comment, a log message or an assertion
of the repository says; each entry quotes the lines. Each property of a
passing run has a mutant, a definition of the module called "Mutant ..." with a
plausible bug, under which TLC finds the property violated.

`KcpTimer!TimerTypeOK`, `Heartbeat!BeatTypeOK`, `XmlParser!TypeOK` and `CmdBuffer!TypeOK`
document the types of the variables; no run spends time on them. Those of `KcpTimer` and
`CmdBuffer` are theorems, and `BeatTypeOK` is a part of the invariant proved in
`HeartbeatProofs`.

### Bounds, and why they are enough

* `MaxSegs`, `MaxQueue`, `MaxFrags`: what an end sends. The windows are 2 or 3
  where the code has 32 and 128, so a few segments fill them, close the window of
  the peer, and leave gaps in `rcv_buf`. `kcp_fragments` has messages of
  fewer, as many and more fragments than the window, and it is the run that asks
  about order: it sends up to four messages, or fewer and longer ones.
* `MaxNet`: datagrams in flight towards an end; what does not fit is lost. Two are
  needed for reordering, and `kcp_lossy` has them, with repetition (`Dup`).
* `EndsSwapped`: in `kcp_lossy` both ends have the same windows and send as much, and the
  module treats them alike, so TLC takes states that differ in the exchange of the ends
  for one. It checks no liveness property there.
* `MaxAcks`: a PUSH is received only if there is room in the list of acks.
* `XmitCap`: transmissions of a segment are counted up to it. The code compares
  the count with `FastLimit` and `DeadLink` only, and the cap is above both.
* `SeqMod` is 16 where no wrap-around is wanted. In `kcp_wrap` it is 6, with
  `MaxNet` 1: a datagram that is more than half the number space old would be taken
  for a new one, in the code as in the model (there it takes 2^31 segments).
* `FastResend`, `FastLimit` and `DeadLink` are 1, so that a fast resend, its limit
  and the dead link all occur within two transmissions.
* `SegsPerDatagram` is 1 in `kcp_lossy`, which has its datagrams in both directions at the
  same time; `kcp_fragments` has 2, so that the other thread runs between two segments of one
  datagram. `SegsPerDatagram` and `RecvSegs` are equal. In the code the mtu is 1400 and
  the buffer of `recvfrom` 512 bytes; a batch that is larger is dropped every
  time it is sent, and no liveness property holds then (see the hazards).
* `MaxSessions`: sessions created in all. The third in `srv_safe` is the first that
  reuses a slot while another client holds the other one. A client of `Session`
  creates at most two sessions; `OneSession` says that the second never comes.
* `HeartTimeMax` is 0 in the runs of `UdpServer` and `Session`, where the program has
  20: a slot is late one second after its last heartbeat, and ages are not counted
  beyond that. `Key` is injective.
* `ReceMax` is 80 where the configuration has 100, and `MaxMessages` 8: eight messages of
  any of the three sizes overfill the buffer.
* `KcpTimer`: the clock starts at 26 of 32 (`Boots`), so it wraps six units after the start and
  `Horizon` 11 leaves five units behind the wrap. `MinRto` 1, `DefRto` 2, `MaxRto` 4,
  `Interval` 2, `JumpLimit` 2 (the code's 10000) and `MaxGap` 3 are small enough for
  several timeouts, a late loop that is taken for a jump of the clock, and an rto above
  and below the interval. `NoDelay` is 1, as in both programs; the other two settings are in the
  operators.
* `Heartbeat` has the numbers of the program, `BeatAfter` 2 and `HeartTimeMax` 20, with
  four beats lost in a row and three seconds on the way. With a fifth loss
  `GenerousAssumption` fails. `BeatHorizon` 40 is long enough for a client to be
  given up after several beats.
* `IQueue`: three heads and four segments, so that a queue can be empty, hold one, or
  hold two and more on both sides of a splice.
* `XmlText`: ten pieces (a letter, white space, each line end, what has an entity, the four
  bytes `&lt;` as a text, two character references, one of three bytes) and strings of
  three.
* `XmlTree`, `XmlParser`: three nodes and five tokens hold an element in an element with a
  sibling, closed in any order, and an error at every depth. `MaxDepth` 4 is the code's 100.
  After a failed `LoadFile` the pools keep counts for nodes that are gone (a
  finding), so to keep the counts finite nothing but a `Parse` from memory follows one. The call of
  `InsertAfterChild` that writes through a null pointer (another finding) is
  excluded from `InsertAfter`.

`CHECK_DEADLOCK FALSE` stands in the runs of `UdpServer` and `Session`, which stop at the
first fault, and in `parts`, where the time ends at the horizons. The other models can
always take a step.

### Fairness

* `Kcp`: the receiving thread waits for nothing but `recvfrom` (weak fairness of
  `Receiving`). The other thread calls `ikcp_update` in an endless loop, timers that
  are not reset run out, and the network lets a flush through again and again
  (strong fairness of a flush in which all timers have run out and nothing is lost),
  and delivers again and again (strong fairness of `Receive`). The last two are
  assumptions on the network: if it is cut for ever nothing can be delivered.
* `UdpServer`: neither thread waits for the other, so each is weakly fair, except
  that the worker may wait in `recvfrom` for ever; the clock does not stop.
* `Session`: the threads as in `UdpServer` (nothing is asked of the clock), and one of the replies to a client arrives, after which its
  receiving thread runs on (weak fairness of `OnReply`, `SetState`, `Create`). The
  client's requests, heartbeats and datagrams are not fair: it may stop at any time.
* `CmdBuffer`: the main thread loops without a pause (weak fairness of `Parse`).
  Nothing is assumed of the arrival of messages.
* `KcpTimer` and `Heartbeat` have bounds on the time instead of fairness
  (`MaxGap`, `Lag`, `MaxDelay`), so that "in time" is a safety property.

## 4. What is proved

The proofs hold for all values of the constants that satisfy the `ASSUME`s of the
modules (`SeqModAssumption`, `KcpAssumption`, `TimerAssumption`, `UdpServerAssumption`,
`CmdBufferAssumption`, `HeartbeatAssumption`, `GenerousAssumption`, `CellsAssumption`,
`TreeAssumption`, `LeavesAssumption`): at
least one slot, positive windows, intervals and limits, an even number of sequence numbers
and of clock values, heartbeat limits that are natural numbers, heads that are no segments,
finitely many segments, the kinds
of node that the library has.
A theorem that needs more names it as a hypothesis of its own: `ShortSession`, `ShortTrip`,
`SlowClock`, `ShortInterval`, `~ Disconnects`. Each is explained below.

| property | theorem | needs |
|---|---|---|
| `Kcp!TypeOK` | `KcpProofs!TypeCorrect` | |
| `OrderedDelivery`, `NothingLost`, `WindowKept`, `QueueNeverStuck` | `MessagesInOrder`, `NumbersKept`, `InsideWindow`, `FullQueueHasMessage` | `ShortSession` |
| `NeverBack`, `ReliableStream` | `NumbersAdvance`, `StreamImplemented` | `ShortSession` |
| `TimerTypeOK` | `KcpTimerProofs!TimerTypeCorrect` | |
| `RttMeasured` | `RoundTripMeasured` | `ShortTrip` |
| `CheckNotLate` | `SleeperInTime` | `ShortInterval` |
| `ResentInTime`, `NotResentEarly`, `ProbesKeepComing` | `NoSegmentLeftBehind`, `RtoRespected`, `ClosedWindowProbed` | `SlowClock` |
| `UdpServer!TypeOK`, `OneSlotPerAddress` | `SessionProofs!TypeCorrect`, `NoSecondSlot` | |
| `NoLeak`, `OwnSession` | `SessionProofs!SessionsHeld`, `FedOwnSession` | |
| `AnswersSender` | `AnswersGoHome` | `~ Disconnects` |
| `OneSession`, `SessionReady` | `SharedSession`, `ClientReady` | |
| `CmdBuffer!TypeOK`, `ExecutedInOrder`, `WholeFrame` | `CmdBufferProofs!BufferTypeCorrect`, `CommandsInOrder`, `WholeFrameThere` (any lengths, 0 included) | |
| `AliveKept`, `DeadGivenUp` | `HeartbeatProofs!RunningClientKept`, `StoppedClientGivenUp` | |
| `IsSequence` | `IQueueProofs!QueuesAreSequences` | |
| `UnlinkedExact`, `PoolsTracked`, `NothingLeft` | `XmlProofs!XmlUnlinkedExact`, `XmlPoolsTracked`, `XmlNothingLeft` | |
| `IsForest` | `XmlProofs!XmlForestImplemented` | |
| `ListsBothWays` | `XmlProofs!XmlListsBothWays` | |

### The protocol (`KcpProofs`)

* `TypeOK` is inductive. The work is in the helper operators: what `Numbered`,
  `Transmitted`, `MoveReady`, `ParseUna`, `Datagrams` return, each a lemma, then one lemma
  per action.
* No other property of `Kcp` is inductive: what an ack may free depends on datagrams that
  left long ago. `FlowInv` says, for each direction from a sender `s` to a receiver `r`:
  what was sent is cut into fragments of which each message's are counted down to 0
  (`Cut`, `Joined`); `snd_queue` is the rest of the stream behind `snd_nxt` (`Queued`),
  `snd_buf` holds nothing but the numbers from `snd_una` on, with their fragments
  (`Buffered`); a number whose fragment `r` neither holds nor has passed is still in `snd_buf`
  (`Kept`); every datagram under way, also those half processed, carries the right
  fragments, acks only what `r` has, and no `una` above `rcv_nxt` (`OnTheWay`); the buffer and the
  queue of `r` hold the fragments of their numbers and nothing outside the window
  (`Held`); what was delivered is a prefix of what was sent and the queue continues it (`Read`).
* `InsideWindow` needs one thing more for the sender: `FlowInv` bounds `snd_nxt` by the end of
  the stream only. `SendsInside` is the bound by `snd_una`; a flush keeps it because it
  numbers up to the window (`NumberedInside`), every other step because `snd_una` only grows
  (`NumbersGrow`, which `NumbersAdvance` rests on too). The window the peer advertises can be taken
  back, so no such bound holds for it.
* `StreamImplemented` is the refinement of `KcpStream`: `Send` is `Accept`, `Recv` is `Deliver` and every
  other step stutters. `Recv` needs the invariant, because it joins fragments until one
  with `frg` 0 without looking where a message began.
* `ShortSession` says that twice what an end numbers, and a window, is below `SeqMod`:
  2^31 segments in the code. It is needed, not convenient: `net` may hold a datagram for
  ever, and after a full turn its numbers mean others. Within it the differences of
  numbers are those of integers (`KcpProofs!NoWrap`). The wrap itself is checked by
  `kcp_wrap`, in which datagrams do not grow that old.

### The timers (`KcpTimerProofs`)

* The code compares remainders. `ClockDiff` says when the difference of two remainders is
  that of the real times: whenever these are less than half a turn apart, wherever the
  clock started and however often it wrapped. The lemmas on quotients and remainders behind it are
  proved from the definition.
* `TimerInv` then speaks of real times. `TripInv`: `current` is what the clock showed at
  the last `ikcp_update`. `Scheduled`: there are times `flush`, `resend`, `probe` of which
  `ts_flush`, `resendts` and `ts_probe` are what the clock shows; the next flush is after
  the last update and at most an interval later; and the next flush is less than an
  interval later than the segment or the probe that waits for it. This is what has to be
  kept by a flush that comes late, by one that `ikcp_update` takes for a jump of the clock,
  by a fast resend in between, and by a window that closes and opens.
* `SleeperInTime` is about a function that the program does not use.
* `SlowClock` says that the time, the longest rto and the waits stay below half a turn
  (`Far`). With the numbers of the code these are eight days of a session; the rest of the turn is
  for the back-off, which nothing else bounds: `LongestWait` follows from the fact that a segment
  is sent again only when the rto before has gone by. `ShortTrip` needs no more than 24 days for a
  single flight, `ShortInterval` an interval below a quarter of the turn; the code cuts it to
  5 seconds.

### The server and its clients (`SessionProofs`)

* `TypeCorrect` has again one lemma per action.
* `NoSecondSlot` is not inductive: it depends on what the worker knows between the test of
  `CheckConnectSet` and the store of the address. The invariant `IInv` adds that the
  key of every address in a slot is in `CheckConnectSet`, except for the one the
  worker is about to add (`Registered`), that the key of the address the worker is
  admitting is not in it (`NeverAdmitted`), and it claims distinct addresses
  whatever the state of the slots (`Distinct`), because the state is stored before
  the address. The proof rests on a fact that is an oddity of
  the code: `DeleteCheckIsConnect` never removes a key, so an address is admitted
  once. The mutant `DeleteReally`, which removes the key where the code
  calls it, breaks the property: the key goes before the slot is free, and the
  client gets a second one.
* `SessionsHeld` and `FedOwnSession` add to `IInv` where each session is (`KcpInv`: in one slot;
  between `ikcp_create` and its store in none, and then it belongs to the worker) and whose
  (`OwnInv`: a session in a slot with an address was created for it, also between the
  three stores of `onAccept`). `UdpServer` stops at the first fault, so both are about
  executions up to it.
* `AnswersGoHome`: the session through which the answer to a command goes out was created for the
  client that sent the command. `sendClient` takes the address from the slot again, so it must still be the slot of
  the client whose command it was. `AnswerInv` follows the command from the datagram to the
  answer, over timeouts and new requests. With 65000 the property is false, and TLC finds it so: the
  worker empties a slot and gives it to somebody else between two reads of the main thread. The
  hypothesis `~ Disconnects`, that no client sends 65000, excludes this race and does not
  answer it; it holds of the test client of this repository.
* `SharedSession` and `ClientReady` are about the composition: a client makes at most one session
  and feeds one session of the server; and when `ikcp_update` has something to send to a client
  that still has its slot, the client has its session, with the id of that slot. `TellInv` says which ids were sent
  to whom: an address was told at most one id, the one of the slot with its address, and a
  session has one owner. `ClientInv` is what a client made of that. They also rest on
  the fact that an address is admitted once.
* `ServerInside`: `SessionSpec => Spec`. The server behind clients behaves as in
  `UdpServer`, which admits every datagram that a client could have sent; the
  theorems about the server hold in the composition.

### The command buffer (`CmdBufferProofs`)

The parser advances by the payload length, lands inside the frame it has executed and
looks for the next mark byte by byte. `BufInv` says where the frames are (`Whole`,
`Ordered`, `Once`, `Present`), independently of the parser, and where `recv_Head` is between
them (`Executed`: the frames that begin in front of it are those executed). No mark begins
inside a frame (in the model a payload holds no bytes that look like one), so the parser
comes to the next frame before any other. Nothing is assumed of the lengths: behind an empty
payload `recv_Head` stays where it is (`Stuck`), and only that message is executed again
(`StuckRepeats`). `BufferNeverDrained` explains a
behaviour that the run shows: as `recv_Head` stops short of the end of the last frame, it never
equals `recv_Tail` again, the buffer is never rewound, and once it is full every further
message is refused.

### The document (`XmlProofs`)

None of these properties is inductive, and none can be: whether a node that `Clear` takes
from `_unlinked` is freed once depends on every pointer of the tree. `XmlInv` has five parts.

* `LinkInv` is the object graph. The pointers of siblings are inverse (`Sides`) and agree with
  `_parent`, `_firstChild` and `_lastChild` (`Firsts`, `Lasts`, `Ends`). Two parts say what
  pointers alone cannot, without walking a list: a set that holds the first child and with
  a child the next one holds all children (`Reach`: there is no ring of siblings off
  the list), and a set that holds the roots and with a node its children holds all live nodes
  (`Hang`: there is no ring of ancestors).
* `Held` adds that `_unlinked` enumerates the orphans, `Counted` that the untracked
  allocations of a pool are its orphans.
* `Running` says that the orphans of a parse are exactly the elements it has open (`Nested`).
  This is why a parse that fails in any depth leaves nothing behind: each activation of `ParseDeep`
  that returns null deletes one. `Ended` and `InCount` are what is left of it after the end,
  and until when the pools are right.

The proof goes up from the stores. `Unlinks` and `PlacedBetween` say, pointer by pointer, what
`Unlink` and the three insertions change. `UnlinkKeeps` and `PlaceKeeps` show that the tree is
in order after that, `GoneKeeps` that it is without an orphan and what is below it (`Below`,
the nodes the destructors of `~XMLNode` reach). `Preamble`, `EndInserted`, `FirstInserted`,
`AfterInserted`, `CreateHeld`, `DeleteNodeHeld` are the functions of the library, whichever
place the node had before. The loops `while (_firstChild)` and `while (_unlinked.Size())`
are recursive functions of the number of rounds; `DeleteChildrenHeld` and `ClearDocumentHeld`
show that they end with nothing left, since each round deletes a live node. The provers
cannot use the library's principle of induction on numbers; `InductionSet` gets it for one set from
the well-foundedness of `<`. One lemma per action follows.

`DestroyNode` frees `Below` at once, where the code calls the destructors one by one; nothing
is read in between but what is being deleted. `XmlListsSound` is `LinkInv` as a theorem of
its own. `XmlListsBothWays` follows from it without another invariant: the children of a node
are a sequence in which each is the next of the one before (`ListOf`, which exists because of
`Reach`), and both walks and both searches of `tinyxml2` find exactly that sequence.

`XmlForestImplemented` is the refinement: every step of the parser and every call of the user is
one operation of `XmlForest`, or none. It needs `XmlInv` and nothing else. What each function
does to the pointers becomes what it does to the lists: `Unlink` removes a node from one list
(`UnlinkedLists`), an insertion puts it into one (`PlacedLists`), the destructors leave
empty lists at the node and below it (`GoneLists`), and no other list changes. So the three insertions
are `MovedTo` of the forest, wherever the node was before, and `InsertAfterChild` also when
`InsertChildPreamble` has just taken away the sibling behind. `while (_firstChild)` is a
single operation because each round stays below the node (`Outside`). `ForestBelowKids` and
`ForestBelowNode` say that what is below a node is the same along `_firstChild` and `_next` as
along the lists. A node that is created and discarded in one step of the parser was never
in the forest (`CreatedDropped`).

### Walks and queues (`WalkProofs`, `IQueueProofs`)

* `Walk` counts its steps, so what it computes would take an induction in every proof that
  mentions it. `WalkProofs` does the induction once. `IsWalk` says of a sequence that it is a chain of
  the list without repetition that ends at the end; `WalkEnds` that the walk is then this
  sequence, `WalkBack` that the walk along the inverse pointers is its reverse, and
  `WalkInsert`, `WalkRemove`, `WalkJoin` what it is after a cell was linked in or out, or
  another list spliced in.
* `LinksGoBothWays`: for any number of heads and segments every link of a queue
  goes both ways, and a segment outside the queues has none. The links alone do not
  say that two heads are in different rings, and splicing a ring with itself
  would break it; the invariant adds a function that gives each cell an owner, the same along a
  ring and the head itself at a head.
* `QueuesAreSequences` says that each macro is the operation of its name in `SegQueues`, with its place, and hence the refinement. `QueueRing` is where it rests: a walk from
  a head comes back to that head, since the cells are finite and, with inverse links, the first cell
  met twice can only be the head. Each macro then inserts, removes or joins in the queue of one owner, and
  `Untouched` says that the queues of the others are what they were.

### Heartbeat, numbers

* `HeartbeatProofs!RunningClientKept` and `StoppedClientGivenUp`: `AliveKept` and
  `DeadGivenUp`, for every limit, loss and delay that `GenerousAssumption` admits:
  `HeartTimeMax >= StartDelay + Period * (MaxLosses + 1) + MaxDelay`. The
  invariant follows the heartbeat from the client to the slot (`Reach`): either a beat is under way
  that was sent early enough, or the client's last attempt is no further ahead
  of `time_Heart` than the lost beats explain. `Timely` is what the clock leaves to be done,
  and `Ended` says that nothing of a stopped client is younger than its end.
* `KcpProofs` begins with sums and differences of sequence numbers: as long as
  nothing wraps `Diff` is subtraction and `SeqAdd` addition.

### Only model-checked

Liveness and anything with fairness (`EventuallyDelivered`, `EventuallyAcked`,
`WindowReopens`, `LateGivesBack`, `GetsConnected`, `StoredThenExecuted`), which is out of reach of the
provers. What a walk through a whole tree or along a string computes (`ReadsBack`, `ServerElementRead`, `CopiesWhole`, `TextReadBack`): each of them
compares data that a recursion over a tree or a string builds, and would take an induction over it.
`Kcp` after the numbers have wrapped.

## 5. What is not modelled

Listed with reasons in `components` of `PROJECT.json`. In short:

* KCP: stream mode and the congestion window (never enabled), `ikcp_setmtu` and other
  setters, refused headers, the size in bytes of datagrams, pointer races inside one
  iteration of `ikcp_input` or inside one flush.
* Server: raw datagrams with a valid id (the client sends none), a wrong version,
  failures of the socket calls, the 32-bit product in `getIPPORTKey`, the buffer of a slot
  being reset while it is parsed, the memory behind `recvBuf`, start, logging.
* XML: the values of attributes and the conversions to and from numbers, names and CDATA as
  strings, line numbers, `XMLHandle`, the file itself, indentation, `ParseName`, the byte
  order mark. The two strings and the numbers that `LoadServerXML` takes from the attributes are
  constants of the other models.

Behaviour that the models leave out on purpose is under `hazards` with a note.

## 6. Plan

Done, in this order: `KcpSeq`, `Kcp`, `KcpStream` (the reason the program exists),
`UdpServer` (where its two threads meet), `CmdBuffer`, `Session` (server and clients),
`KcpTimer`, `Heartbeat`, `IQueue`, the XML modules, and the proofs of section 4.

What could be proved next is `Kcp` across the wrap, from a bound on the age of datagrams instead
of `ShortSession`.
