# BubbleStorm / CUSP: a TLA+ verification project

This directory holds TLA+ models of the protocol code of this repository, the
TLC configurations that check them on small instances, and proofs about them
that TLAPS checks for every value of the parameters.  The models are translated
from the source under `src/`; `PROJECT.json` records, definition by definition,
which lines each stands for.

What is there today: the heart of CUSP, one stream from end to end; below it the
acknowledgement layer, shown to be the channel that the stream assumes, and the
negotiation that makes and ends such channels; between them the tables by which a
host tells its streams apart; and at the other end of the program, what a user of
the library stands on: the handles of the C interface, the C++ and Java bindings
with their helpers, and the ICMP code.  The
rest of the system is inventoried below, with the order in which it is to be
modelled.

## 1. The system

BubbleStorm is a peer-to-peer rendezvous overlay written in Standard ML.  It
runs on CUSP, a transport protocol of its own over UDP, on a single-threaded
event loop (`system/event.fun`): a handler runs to completion, then the next
packet, timer or user action is taken.  Concurrency is therefore between hosts,
and, inside a host, between a handler and the user callbacks it calls in the
middle of its work.

| component | state | operations | correct when |
|---|---|---|---|
| **out-stream** (`cusp/stream/out-stream-queue.sml`) | life (`AM_CONNECTED`, `AM_SHUTDOWN` of three stages, `AM_RESET`), heaps of segments to send and in flight, send offset, barrier, pending write, byte counter | `write`, `shutdown`, `reset`, `setPriority`; `pull`; ack callbacks; `recv` of a barrier or a reset | no byte is lost, EOF is true, callbacks are called, the barrier is obeyed, RTS is raised whenever there is something to send |
| **in-stream** (`cusp/stream/in-stream-queue.sml`) | life, ready queue, out-of-order queue, barrier and window, waiting read | `read`, `reset`; `pull`; ack callbacks; `recv` of data, EOF or reset | bytes come in order and once, SHUTDOWN only after all of them, barriers are announced and re-announced |
| **host dispatch** (`cusp/stream/host-dispatch.fun`) | streams by id, sequence numbers and cooldowns of ids, heap by priority, listeners, keep-alive | `connect`, `listen`, `recv`, `pull`, `wipeState` | no segment reaches the wrong stream, ids are not reused too early, records are given back |
| **acknowledgement** (`cusp/channel/delayed-ack.fun`, `fast-retransmit.fun`) | receive mask, ack to send, queue of unanswered packets, timer | `recv`, `pull`, timeout | each packet is accepted at most once and answered exactly once, "acked" only if accepted |
| **congestion control** (`cusp/channel/reno.fun`) | window, bytes in flight | packet sent, acked, lost | the bytes in flight return to zero |
| **negotiation** (`cusp/channel/negotiation.fun`) | CLOSED, SENT, RECEIVED, ESTABLISHED; keys; death counter | HELLO, WELCOME, NOSTATE, FINISH, timers | both ends agree on keys, dead channels are noticed and closed |
| **end point, host table** (`cusp/end-point/`) | channels by address, hosts by key, services | `contact`, `advertise`, packet arrival | every contact is answered once, one live channel per host |
| **buffered out-stream** (`cusp/stream/buffered-out-stream.fun`) | queue, ready flag, delayed shutdown | `write`, `shutdown`, `reset` | order kept, shutdown after the last write |
| **topology** (`bubblestorm/topology/`) | locations with a master and a slave edge, clients, goal | join, upgrade, leave, evaluate | edges are paired, no answer reaches a slot it is not for |
| **gossip** (`bubblestorm/topology/state/gossip.fun`) | rounds, fish | push, receive, round change | rounds agree, mass is not created |
| **bubbles, managed and durable replication, queries** (`bubblestorm/`) | stored items, positions | create, update, replicate | later candidates |
| **handle buckets** (`util/container/id-bucket.sml`, `bindings/c/common/`) | a table of cells, FREE or FULL, with a free list through it | `alloc`, `free`, `replace`, `dup` | a live handle designates one object, nothing is lost from the list |
| **C++ bindings** (`bindings/cpp/`) | objects that own one handle per class they derive from | copy, assign, destroy, functions, callbacks, exceptions, `bsInit`, `bsShutdown` | each live handle has one owner, objects are whole, no assertion fails |
| **C++ helpers** (`bindings/cpp/cusp/util/`) | two streams and the buffers of a connection | request and answer, buffered writes, single messages | an answer is whole and heard once, order is kept, everyone hears |
| **Java bindings** (`bindings/java/`) | signal mask, callback data, pinned arrays; the queue of tasks and the thread of the main loop | about 150 native functions, callbacks, `invoke`, `call` | signals blocked just while ML runs, callback data lives as long as its callback, each task runs once |
| **ICMP** (`csupport/cusp/`, `csupport/icmp.c`) | tables of clients and interfaces, a packet, a cache of addresses | accept, send, receive, select loop | each client is served, an error arrives as sent, the cache stays in its array |
| crypto, statistics, simulator, Kademlia, system layer, utilities | | | not protocol state of this stack; see `PROJECT.json` |

How they interact.  The channel stack asks for a packet (`pull`): negotiation
asks the acknowledgement layer, that asks congestion control and the host
dispatch, and the host dispatch asks the stream with the highest key of its heap
to write its segments into the buffer.  Each segment leaves an ack callback
behind; fast retransmit calls it once, with true or false.  A packet that arrives
goes the other way: delayed ack accepts or refuses it, host dispatch finds the
stream of each segment (or creates it), the stream's `recv` reads it.  Streams
tell host dispatch about themselves by events (RTS, priority, complete), which
move their records in the heap and between tables.  User code is called from
inside handlers: `READY` of a write, data of a read, the answer of a shutdown.

What makes it hard.  Packets are lost and overtaken; false alarms ("lost", but it
was delivered) are normal; a segment is re-sent split differently; the callback
`READY` runs in the middle of `pull` and may write, shut down or reset the same
stream; either side may reset at any time; stream records are forgotten while
packets about them are still on the way; and nothing polls: a stream that forgets
to raise RTS once is silent for ever.  In the bindings it is ownership and
nesting: an object may be copied in part, outlive the library or be destroyed by
the callback it is in, calls and callbacks nest to any depth over state that is
kept once, and in Java several threads meet the one thread that runs the loop.
`PROJECT.json` lists these hazards at the
lines where they bite, with the properties aimed at each.

## 2. What is modelled

### 2.1 A stream

| module | what it is | from |
|---|---|---|
| `SegmentFormat` | bytes, the messages, the flow-control constants and their assumptions | `stream/packet-format.sml`, constants of the queues |
| `OutStreamQueue` | the sending half and its record in the host's heap | `stream/out-stream-queue.sml`, `outStreamCallback` of `host-dispatch.fun` |
| `InStreamQueue` | the receiving half and its record | `stream/in-stream-queue.sml`, `gotConnection`, `inStreamCallback` of `host-dispatch.fun` |
| `CuspStream` | both halves, their users, and the packets of the channel between them; the properties | `pullSegment`, `recvSegment`, `recvPacket` of `host-dispatch.fun`; the promise of `fast-retransmit.fun` and `delayed-ack.fun` |
| `StreamService` | the abstract service: bytes, an end, a verdict, no packets | `cusp/out-stream.sig`, `cusp/in-stream.sig` |
| `CuspStreamRefinement` | the refinement mapping from `CuspStream` to `StreamService` | |
| `MCCuspStream` | symmetry, and the behaviours without resets, for TLC | |
| `CuspStreamProofs` | the inductive invariant, and what is delivered | |
| `StreamFlowProofs` | a second one, for wake-ups, counters, reassembly and the barrier; the refinement of `StreamService` | |

Correspondence.  Variables that begin with `w` belong to the writer's host, those
that begin with `r` to the reader's.  `wState` folds `AM_SHUTDOWN`'s three stages
`RETRANSMIT`, `INFLIGHT`, `ACKD` into one variable.  An action is one handler run
to its end, with the events it fires and what host dispatch does about them:
`wInHeap` and `wRTS` (is the record in the heap, is its key above `negInf`),
`rLife` and `rRTS` on the reader's side.  Only `pull` is cut in two, at the call of
the user's READY callback: `wPull` is the loop's state at that moment, the user may
act, `PullResume` goes on.

Abstractions, all of data:

- A byte is its offset; one model byte stands for a block.  The segments of the
  writer's two heaps never overlap, so each heap is a set of offsets and `pull`
  takes the contiguous run at its head.  The slices of the reader's out-of-order
  queue may overlap; what the code does with them depends on the offsets they
  cover, and `rQueue` is that set.
- A read hands over one slice of the ready queue, or a part: any positive number
  of the ready bytes.  Writes of no bytes are left out.
- Offsets do not wrap at 2^32 (the code compares by difference).
- The literals 21568 (window), 5392 (barrier increment), 2048 (margin of `amRTS`)
  and 2^31 - margin are constants with their order as assumptions.
- Packets are slots (`WSlots`, `RSlots`): as many as may be unanswered or under way
  at once.  One segment per packet; that a packet is refused because of another
  stream's segment is one of the reasons for a false alarm.
- The channel: a packet is lost, or arrives once, at any time and in any order; its
  sender hears "delivered" only of a packet that was accepted, "lost" of any
  packet.  `MaxFaults` bounds losses and false alarms (it is the only bound on
  bad luck; reordering is free).
- A host without a listener resets a new in-stream at once; both choices are open.

### 2.2 The acknowledgement layer

| module | what it is | from |
|---|---|---|
| `AckService` | the abstract channel: packets sent, owed an answer, accepted, answered "delivered" | `ack-generator.sig`, `congestion-control.sig` |
| `AckLayer` | the two ends of an established channel over a bad network; the properties | `delayed-ack.fun`, `fast-retransmit.fun`, the count in `reno.fun` |
| `MCAckLayer` | how many packets each end sends, for TLC | |
| `AckLayerProofs` | the inductive invariant, the theorems, the refinement | |

Correspondence.  `new`, `oop`, `delay`, `arts` are DelayedAck's fields (the newest
ack, an out-of-order one, is the timer scheduled, is the signal raised); `queue` and
`expiry` are FastRetransmit's; `inFlight` is Reno's.  `PullData`, `PullAck` and
`PullUnsent` are `pull` with data, with only an ack, and with a packet that turns out
too long (`ok false`); `Recv` is `recv` of both layers with `recvNewest` and
`recvLate` for the branches that do something; `DelayFires` and `Timeout` are the two
timers; `destroy` is both `destroy`s.  `RecvDestroyed` is `recv` with a user callback
in its loop that destroys the end; only `CallbackSpec` has it.

Abstractions:

- An ack `{ mask, rasn }` is written with the numbers its mask stands for; a packet
  carries the set of numbers in `[asn - acklen, asn]`.  Numbers do not wrap at 2^32.
- A packet counts as one in `inFlight`, not as its bytes.  The congestion window is
  not modelled: an end may be asked for a packet at any time.
- `net` is every packet ever sent: any of them may arrive, again and again, in any
  order, or never.  This is loss, duplication, delay and reordering at once, unbounded.
- The layer above accepts or refuses a packet with data as it likes; an empty packet
  is always accepted.
- An overdue timer, which the code runs inside `recv` or `pull`, is a `Timeout` step
  right after.  The round-trip time is left out: `Timeout` may come at any time.
- The `drts` signal, which keeps a silent host from being asked, is left out: both
  kinds of pull are always possible.

### 2.3 Negotiation

| module | what it is | from |
|---|---|---|
| `Negotiation` | the two ends of one pair of addresses: channel, host state, waiting contacts, over a bad network; the properties | `channel/negotiation.fun`, `end-point/end-point.fun`, `end-point/host-table.fun`, the life of a host in `stream/host-dispatch.fun` |
| `MCNegotiation` | the suites that are offered, and symmetry, for TLC | |
| `NegotiationProofs` | the inductive invariant and the theorems | |

Correspondence.  `chan[e]` is the channel record of end e (`None` if the end point has
none): `st` is the state, and the other fields are what that state holds.  `GoFAIL`,
`GoNOSTATE`, `GoOOBNOSTATE`, `GoSENT`, `GoRECEIVED`, `GoESTABLISHED` are the code's `go`
functions, `RecvX` and `PullX` the arms of `recv` and `pull` in state X, `Die` is
`killRecord`.  `host[e]` is the host dispatch that e has for its peer's key, reduced to
whether it has streams, only listens, or neither, and to `epoch`: the key of the
association since whose start its stream tables have not been wiped.  `waiting[e]` says
whether `contact` still owes callbacks.  The users contact, cancel, connect, listen, let
go, and a program may restart at any time and lose everything (`Restart`).

Abstractions:

- A half negotiation is a number that is never used twice; a key is the pair of halves;
  a MAC is good for whoever has the pair.  The half's suite is the cheapest of the suites
  agreed on, as in the code.
- Left out: symmetric suites and `noEncrypt` (they add conjuncts of the same kind to
  `confirmWELCOME`), packets forwarded for others, the copy of a HELLO over ICMP,
  loopback, CORRUPT packets.
- What is in a DATA packet is open: it may end the last stream, open one or neither.  An
  ESTABLISHED channel may be asked for a packet at any time.
- A host that `existHost` has promised to resume is not collected; otherwise garbage
  collection is not seen: a dead host counts as unknown.
- The network holds `MaxNet` packets; any of them may arrive, again and again, in any
  order; one too many displaces another, which is how a packet is lost.
- `reused` marks that a user went back to a dead host; only `TablesMatch` looks at it.

### 2.4 The streams of a host

| module | what it is | from |
|---|---|---|
| `HostDispatch` | the stream tables of two hosts: ids, 4-bit sequence numbers, cooldowns, CREATE, growth, `wipeState`, over the packets and acks of `AckLayer`; the properties | `stream/host-dispatch.fun`; what `out-stream-queue.sml` and `in-stream-queue.sml` tell it |
| `MCHostDispatch` | two kinds of behaviour side by side, for TLC | |
| `MCCreateLost` | streams of one end only, for TLC | |
| `HostDispatchProofs` | the inductive invariant, and that ids stay partitioned | |

Correspondence.  `host[e]` is the host record of end e: `len` the length of its arrays,
`writeFree` the free list as a sequence, `cooldowns` and `cooldownIndex` the ring,
`writerSeq` and `readerSeq` the two halves of `seqNums`, `outs` and `ins` what becomes of
each stream's record at the writer and at the reader.  `outs[s].id` and `prefix` are the
heap record's; `todo` is the retransmit heap (0 stands for a reset that waits to be sent),
`unacked` what no ack has covered.  `tickCooldown`, `pushCooldown`, `expand`, `allocId`,
`clearPrefix`, `gotConnection`, `recvSegment` and `wipeState` are the code's functions of
the same names, from host to host; `PullOut` and `PullIn` are `pullSegment`, `answer` the
callback that it leaves behind.  `Recv` answers the acks of a packet before it reads its
segment, as `delayed-ack.fun` does.

Abstractions:

- A packet has one segment.  A stream is a number of segments, all written by the user
  at once, the last with EOF; windows, refused segments and slow readers are 2.1's.
- `inStreams` and `outStreams` are read off the ids in the streams' records; a cell of
  `outStreams` that is `FREE` is a member of the free list or of a cooldown list.
- A packet that turns out too long is one that is lost and given up.
- Both ends move to a new channel in one step and agree on whether to resume: this is
  `ResumeAgrees` of 2.3.  What was in flight on the old one is answered "lost".
- `taken`, `created` and `obeyed` record history for the properties.

### 2.5 Handles and bindings

| module | what it is | from |
|---|---|---|
| `HandleTable` | abstract: handles that designate objects until they are given back | |
| `IdBucket` | the table with its free list; refines `HandleTable` | `util/container/id-bucket.sml`, `bindings/c/common/libcommon.sml` |
| `BindingClasses`, `CommonClasses`, `CuspClasses`, `BubbleStormClasses` | per C++ class: the handles of its parts and which its destructor frees, what its functions return and its callbacks wrap | `bscommon.cpp`, `cusp-base.cpp`, `bubblestorm.cpp` |
| `CppBindings` | a program on those classes: construct, copy (also sliced), assign, destroy, call, be called back, throw, `bsInit`, `bsShutdown` | `bscommon.h`, `bscommon.cpp` and the methods of the classes |
| `SuiteSet` | sets of cipher suites and their iterator | `cusp-base.cpp` |
| `JniFunctions` | per native function: does its callback delete its data, does it pin an array | `main-jni.c`, `cusp-jni.c`, `bs-jni.c` |
| `JniBridge` | one thread in calls and callbacks between Java and ML: the stack, signals, callback data | `main-jni.c` |
| `JniAsync` | threads that hand tasks to the main loop | `BSJniBase.java` |
| `BindingProofs` | all that is proved of the bindings: buckets, owners, suites, callbacks, tasks | |
| `NumberLemmas` | induction, least elements, powers of two and division, for the proofs of several modules | |
| `MCBindings` | the five above side by side, for TLC | |

Correspondence.  In `IdBucket` a cell is `FREE(next)` or `FULL(x)`, the code's
datatype; `alloc`, `freeId`, `replace`, `dup`, `clear` are its functions, `Grown` the
doubling.  In `CppBindings` an object is its class and one handle per part; `live` is
what the ML side has given out, `library` whether it is there; what the classes consist of,
return and wrap is a constant, `Table`, for which the runs give `ClassTable` of
`BubbleStormClasses`; `Invoke` allocates what the table says a function returns; `Enter` and `Return` are a callback's beginning and end, where the temporary
objects of `hands` are destroyed.  `Refused` is a function that answers ~1, on which
`checkResult` or `ASSERT_HANDLE` fails: because the ML side does not know the object's own
handle, or one it is passed (`Passed`), or because of what else the program passed, for the
functions that the tables name in `refuses`.  `failed` names the assertion that failed.  In
`JniBridge` the stack holds a frame per call into ML and per callback into Java;
`disableSignals` and `enableSignals` are the two functions over the one saved mask.
`CallbackFails` is a callback that finds no environment or array and returns at once, with
the signals enabled (`early`) and its data not deleted; `CallFails` is `cuspOutstreamWrite`,
which gives up the same way before its call.
In `JniAsync` a step is a `synchronized` block, or the part of one up to a `wait`; a call that
finds the bindings shut down runs its task itself, and "hangs".

Abstractions: what the ML side does behind a call is any result its signature
allows; data that is passed (strings, bytes, times) is left out; a library that was
closed is not opened again (`MaxOpens`); a Java task hands over no task.
`InstantBubbleType` is in the class tables but not in play: its destructor frees in the table
of another class (section 5), and the runs are of programs that do not use it.

### 2.6 Helpers and ICMP

| module | what it is | from |
|---|---|---|
| `SingleCycle` | a client and the server connection it makes; both streams of each, their callbacks, resets at any time | `singlecycleconn.cpp`, `bidiconn.cpp` |
| `BufferedOut` | writes and a shutdown before the stream is ready | `bufferedoutstream.cpp` |
| `SingleMessage` | one message and its receiver | `singlemessageoutstream.cpp`, `singlemessageinstream.cpp` |
| `IcmpService` | the select loop over clients and interfaces, with removal in place | `cusp-icmp-svc.c` |
| `IcmpPacket` | the packet that is made and the one that is read, on three systems, damaged on the way or not | `icmp-packet.c` |
| `AddressCache` | the cached addresses, their array, updates that fail | `my-ip-address.c`, `cusp-icmp-recv.c` |
| `MCHelpers` | the six above side by side, for TLC | |
| `HelpersProofs` | an inductive invariant for each of the six | |

A stream is modelled by what its two ends promise (section 2.1 is where that is
checked): each read, write and shutdown is answered once; an end may be reset at any
time, which answers what is pending there.  A string of bytes is a short sequence that
may arrive split anywhere; the service id is two of them, and when its two parts arrive one by
one the server's program ends (`serverAborts`).  In `IcmpPacket` numbers are real 16-bit words and
checksums are computed; in `IcmpService` sockets are numbers that the system gives out
again after `close`, `raw` says whether the one made for sending is still open, and a client
whose header arrived in pieces (`split`) may be taken to have asked for anything.  After
`serviceFail` (`reported`) the loop goes on until the process ends.

## 3. What the runs show

Constants are in the `.cfg` files.

| run | question | answer |
|---|---|---|
| `stream_safety` | every interleaving of two users, two packets of data and one of control, a fault, resets at any time, a window smaller than the stream: do the invariants below hold, and is the pair of queues the service of the signatures? | yes, 312 000 states up to symmetry |
| `stream_live` | do shutdowns and resets complete, both records disappear, and every reset become known? | yes, for a stream that fits in the first window |
| `stream_flow` | does a stream longer than the window keep moving, with a lost or falsely lost packet? | yes, while announcements cannot overtake each other (one in flight) |
| `ack_layer` | is the mask exact, are the three layers the channel of `AckService`, does every sender hear? | yes, 788 000 states |
| `negotiation` | do two ends that are established agree on key, resumption and tables, and does every contact end? | yes, 2 147 000 states up to symmetry |
| `host_dispatch` | are ids neither lost nor shared, does every packet reach its own stream only, and has a stream that is told true been received? | yes, unless a reader resets a stream (`create_lost`); 1 067 000 states up to symmetry |
| `bindings` | handles, objects, suites, signals, callback data, tasks: 2.5 | right but for what 5 lists, 203 000 states |
| `helpers` | requests, buffers, messages, the ICMP service, packets, addresses: 2.6 | right but for what 5 lists, 313 000 states up to symmetry |
| `shutdown_stall`, `stale_barrier`, `create_lost`, `events_cleared` | what comments and signatures say, against the code | violated; section 5 |

`bindings` and `helpers` check modules that share no state in one run: the variable
`which` says, from the start, to which of them a behaviour belongs; the others keep
their initial state.  `host_dispatch` chooses so between two kinds of behaviour of one module.

The properties of the stream, and the bug each would catch:

- `NoByteLost`: a byte that no heap, packet or reader holds any more.
- `EofTruth`: an end believed that the writer did not make, or reported early.
- `DeliveryTruth`: a shutdown confirmed while a byte or the end is missing.
- `ConnectedWithinBarrier`: old announcements make a live writer overrun the window
  (it is true only because a packet is no larger than the margin of 2048 bytes plus
  one: `PacketMax <= SillyWindow + 1`, as with an MTU of 1472; the theorem about it
  assumes this, the others do not).
- `NobodySleeps`: a handler that forgets RTS, or empties the heap and forgets the
  waiting write.
- `RetransmitBytes`: a counter that drifts (except after a reset, see 5).
- `ReassemblyInv`: a gap that closed and was not noticed, a read that waits beside
  data, a window that closes, the `raise Fail "unreachable"` of the in-stream's `pull`.
- `ResetsResolve`: a reset that its peer never hears of, or that keeps a record alive.

Of the acknowledgement layer:

- `TypeOK`: with it, `timeout` never finds an empty queue (`raise Fail "unreachable
  code: cannot timeout no acks!"`).
- `MaskExact`: a mask that is shifted too little or too far, so that a straggler is
  taken twice or a new packet refused.
- `ImplementsChannel`: a packet handed up twice, answered twice or answered "delivered"
  though it was refused, and a count in flight that drifts.
- `EveryPacketAnswered`: a timer that is not scheduled again.

Of the negotiation:

- `KeysAgree`: what `negotiation.fun` calls "the ultimate bad news", two ends established
  with different keys, by crossed attempts or old packets.
- `ResumeAgrees`: one end wipes its tables and the other keeps them.
- `TablesMatch`: stream ids and sequence numbers from before a restart meet new ones.
- `WaitingEnds`: a contact that nobody answers.  It is a property of steps: together with
  timers that fire it says that who waits hears after at most `DeathCount` retransmissions.

Of the streams of a host:

- `IdsPartition`: a table that grows over ids in use, an id that is free twice or never
  again: the two `raise Fail` of the free list.
- `StreamsArrive`: a segment, a late CREATE or a control message of an earlier stream on
  the same id that is taken for another stream's; a stream created twice; a stream whose
  writer hears true though its reader skipped a part.

Of the bindings and helpers, each with what would break it:

- `NoRoomIsLost`, `FillCounts`, `Promise`: a free that cuts the list or frees twice, a
  table that grows over live handles.
- `ObjectsOwn`, `AssertsHold`: an assignment that overwrites a handle, a copy that takes
  only some of the handles, an object used after `bsShutdown`.  `AssertsHold` is about frees
  and about the handles of objects; assertions on what the program passed itself do fail (5).
- `EachSuiteOnce`: a shift that stops early.
- `SignalsFollowSide`, `HeldIsLive`, `DataAccounted`, `CallbackPins`: a callback that, having
  called Java, returns with signals enabled, data deleted too early or never, Java running
  while the collector is stopped.  Early returns are allowed for: they leave signals enabled
  until the next callback or the end of the call, and the data of that callback is lost.
- `TasksRun`: a task lost or run twice, a wake-up that nobody sends.
- `RequestsEnd`: part of a request taken for all of it, a connection
  deleted twice or never, an end that waits for nothing.
- `WritesKept`: a shutdown that overtakes buffered data, a sender told twice.
- `ClientsServed`: an entry skipped after a removal, a socket read after it was closed, a
  client told of another's port, the socket for sending given to somebody else while it is open.
- `ErrorArrives`: an error that arrives changed: byte orders, odd lengths, checksums.
- `AddressesHold`: an address written behind the array, an answer older than allowed.

**Bounds.**  Streams of 2 to 4 blocks in packets of 1 or 2 suffice for every
split and every merge of segments: a first, a middle and a last packet, one of
them lost, one overtaking, a re-send that covers parts of two.  Two data packets
at once give all orders of acks; one fault is one loss or one false alarm.  The
safety properties were also checked once with two control packets and two faults
(6.4 million states) and with streams of 4 blocks (8.4 million).  `StreamFlow`
uses a stream three windows long.  The proofs need none of these bounds.

`ack_layer` has a mask of 3 bits, a reorder limit of 2, and 3 and 2 packets: packets
inside the mask, at its edge and beyond it, gaps that are declared missing and gaps
that are not yet.  Four packets against one were checked once (230 000 states).  The
proofs hold for every width.

`negotiation` has three half negotiations, enough for both ends to start at once and one
of them to start again, two packets under way, one retransmission and one DATA packet of
an association.  The suites offered have one in common, which is the cheapest of one end
only, or none: the cases in which a HELLO is accepted at once, answered with an own HELLO,
or refused.  Four halves were beyond reach; the proofs need none of these bounds.

`host_dispatch` has a ring of 2 slots and a mask of 2 bits: the code has 16 of both, and it
is the two being equal that decides whether an id can come back while packets of its
former stream may still be accepted.  *Reuse* has a long stream, of two segments, so that
CREATE goes in front of both, and two short ones, in a table that grows to two ids: the last
stream gets the id of the first.  They stay on one channel, with up to four packets of the
writer and two of the reader, so that data, CREATE and controls of the first stream, lost,
late or given up, may still be accepted while its id has another stream; users may reset the
long stream while at most one packet is out, and readers one that nobody listens for.  *Growth* has three short streams in a
table that grows from 1 to 2, and one new channel, resumed or not, and one reset by a user, at
any time.  Four sequence numbers are more than the streams on an id; that they repeat modulo 16
is not reached, for it takes 16 streams within the life of one packet, which the ring makes
impossible.
Streams are all of one end, as the tables for the two directions share only their length.
`create_lost` has a table of two ids, a stream of two segments and two short ones.

`bindings`: callbacks hand over at most two objects, so two slots reach every kind of
copy, assignment and slice; `CppBindings` was also checked once with three (278 000
states).  A bucket of 2 cells doubles once.  Suites are sets of 6 bits (all 64).  Four
frames are a call, its callback, a call in it and its callback, the least depth at
which one saved mask could go wrong; the proof holds for every depth.  Two callers and
two loop threads race for the start.

`helpers`: requests and answers of 0, 1 and 2 bytes, so that each can be empty, whole or
split; three writes; two clients and two interfaces with five sockets, so that a socket
is given out again and the tables fill up; data of even and odd length with the high byte set and one
packet too long for the buffer of 60 bytes, damaged by 1, 256 or 65535; three addresses
over four ticks of time, which outgrow an array of two.

**Symmetry** is used where no liveness is checked, over sets whose members no
definition tells apart.

**Fairness** is used for the liveness runs only.  `FairChannel`: a host that is
ready is asked for packets (congestion control's ready signal and the end point's
loop), a packet that is not lost arrives, and every packet is answered (a packet
sent later or the retransmit timer decides it); each is weak fairness of the
handler, none of a false alarm or a loss.  `FairReader`: the reading application
keeps reading.  No fairness is put on writing, shutting down or resetting.  Losses
are finitely many (`MaxFaults`), as the code too gives up on a peer that never
answers.  `ack_layer` uses weak fairness of `Timeout` alone: the event loop fires
timers.  `EveryPacketAnswered` needs no packet ever to arrive.

**Deadlock** is not checked: a stream that is over, a channel whose packets are spent
or a program that has returned stops, rightly.

Each property has a mutant in `PROJECT.json`: a plausible slip in one definition
(named `Definition_Slip` beside it) that TLC must find by that property.

## 4. What is proved

`CuspStreamProofs` proves, for every `MaxOffset`, `PacketMax`, `MaxWrite`, window
constants, sets of slots and number of faults,

    Spec => []TypeOK            (TypeCorrectness)
    Spec => []NoByteLost        (NoByteIsLost)
    Spec => []EofTruth          (EofIsTrue)
    Spec => []DeliveryTruth     (DeliveryIsTrue)

from the assumptions on the constants that the modules declare (naturals, and
packets of at least one byte) and nothing else.  They follow from one inductive
invariant, `IInv`, which TLC checked first.  Why each part is needed:

- `DeliveryTruth` becomes true in `ackData`, when both heaps are empty after EOF was
  acked.  Then `NoByteLost` says the reader has everything: the reader's queue cannot
  hold the byte it is waiting for (`ReaderInv`), so its offset is the stream's end.
- `NoByteLost` breaks when an ack drops bytes from the inflight heap unless the
  accepted packet's bytes are with the reader, then and now: `GotInv`.
- A reader that gave up its id accepts packets without looking.  This is harmless
  only because it already has every byte: `ReaderInv` (`rOffset = rEof`) and
  `EofTruth` (`rEof` is the writer's end).
- `EofTruth` holds because no packet carries EOF before the stream stopped growing:
  `PacketOK` and `WriterInv`; packets under way are the packets remembered:
  `PacketInv`; and the reader sees only what was sent: `ReceivedInv`.

The proof has one lemma per handler of the code (its effect and that it keeps its
own half's invariant), one lemma per step of `CuspStream`, and the temporal step.

`StreamFlowProofs`, for the same constants:

    Spec => []NobodySleeps            (NobodyOversleeps)
    Spec => []RetransmitBytes         (RetransmitBytesCount)
    Spec => []ReassemblyInv           (ReassemblyHolds)
    PacketsFit |- Spec => []ConnectedWithinBarrier      (BarrierIsKept)

from `IInv` and a second inductive invariant, `FlowInv` (checked by TLC on the
constants of `stream_safety`):

- `RetransmitBytes` breaks when bytes that come back are counted although they are
  in the heap already, or leave it twice: no byte is in two outstanding packets, or in
  one and the heap (`SegmentsApart`), and only DATA holds bytes (`PlainPackets`).
- `NobodySleeps` says that a heap key is set when there is something to send.  A handler
  that leaves the key alone is right only because the key was not set for nothing
  before (`RTSTrue`, `ReaderKeys`); a stream that is not yet born has no key and needs none.
- `ReassemblyInv` relies on nothing being pending for a reader that has heard the end
  (`rEnd` only when it is no longer connected).
- `ConnectedWithinBarrier` needs that every barrier the writer has or is about to hear
  was announced (`BarriersTrue`), and that the packet it is filling will keep within it
  too (`PullWithinBarrier`).  `PacketsFit`, `PacketMax <= SillyWindow + 1`, is the
  hypothesis: `amRTS` compares only a packet's first byte with the barrier, 2048 bytes
  short of it, and a UDP packet of the code holds at most 1472 bytes
  (`native-udp.sig:32`).  Without it the property is false.

The same module proves `Spec => ImplementsService` (StreamImplementsService).  Every
handler's step is shown to be one step of `StreamService` or to leave unchanged what
the service sees.  Of the two invariants it uses, for instance: a read that returns
bytes returns bytes that were written (`IInv`), the end that is reported is the
writer's (`EofTruth`), a true verdict is deserved (`DeliveryTruth`), a reset reader has
no read to answer (`FlowInv`).

`AckLayerProofs`, for every `Width`, `ReorderLimit` and `LastTsn`:

    Spec => []TypeOK, []MaskExact, []Counted      (TypeCorrectness, MaskIsExact, InFlightIsOwed)
    Spec => Service!SSpec                         (LayersAreTheChannel)

Its `IInv` has `MaskExact` for "accepted once": a packet that lies in the mask's width
and is not in it was never accepted.  "Delivered only if accepted" needs what an ack
says to be true at its receiver (`MaskExact`), while it waits as an out-of-order ack
(`OwnAcksTrue`), and in the network (`AcksTrue`).  `Counted` makes the count the number
of packets that are owed, `Reached` keeps new numbers new, `TimerNeeded` is the timer.
So a stream proof that starts from the channel of `CuspStream` starts from something
the code provides.

`NegotiationProofs`, for every set of offers, death count and bound:

    Spec => []TypeOK            (TypeCorrectness)
    Spec => []KeysAgree         (KeysAlwaysAgree)
    Spec => []ResumeAgrees      (ResumeAlwaysAgrees)
    Spec => []TablesMatch       (TablesAlwaysMatch)
    Spec => WaitingEnds         (ContactsEnd)

Every step is first shown to be one of four kinds: the state stays, it is left, the end
starts with a half of its own, or it trusts a packet (`Move`).  The rest of the argument is
about these four.  Two established ends may have got there by different attempts, so
`KeysAgree` needs to know of old keys: whoever holds a key, an end or a packet, tells that
the other end has had it, and an end that has left a key starts again with a half newer
than both halves of that key (`Fresh`).  If the two held different keys, each would be
older than the other.  `ResumeAgrees` needs what each packet says of the one who sent it: a
WELCOME is its sender's decision while it waits, and at least as generous once it knows
(`ResumeOfWelcome`); only an established end sends DATA (`NoDataOfReceived`).

`TablesMatch` speaks of established ends, but what they number by was decided before: one
may have been established, or have promised to resume, while the other was wiping.  So
`Tables` speaks of live hosts: known, bound to a channel, or with an offer to resume
under way.  Two live hosts have the same epoch (`LiveMatch`); and a packet that would let
its receiver wipe comes from an end that was not live, or whose epoch is the packet's key
(`WipesMatch`).  If both ends hold such a packet, the keys are the same, by `Fresh`
(`WipeKey`).  Every step of an end keeps the epoch of its live host or wipes on the word
of such a packet (`TableStep`), except when a user goes back to a dead host: `host.sig`
forbids it, `reused` records it, and the property does not speak of what follows.  Assumed:
there are two ends, an end offers at least one suite, the bounds are naturals
(`NegotiationAssumption`); and, by the shape of the model, that no half is generated twice.

`HostDispatchProofs`, for every set of streams, size of the cooldown ring, number of
sequence numbers, window and bound:

    Spec => []IdsPartition      (IdsStayPartitioned)

A host is shown to stay `Sound` by each of the code's functions, one lemma per function:
every id below the length of the tables has exactly one place, in the free list, in one
slot of the ring or with one out-stream.  Three lemmas carry the four ways an id moves:
`PlacedCooling` (a stream that ends puts its id into the current slot), `PlacedMoving` (a slot
that comes round is put in front of the free list), `PlacedGrowing` (a table that doubles
puts the new ids there) and `PlacedTaking` (a stream takes the head).  The rest of
`DispatchInv` is about the network: a number that an end still waits for is that of a
packet that exists, with a segment of the right shape (`Awaited`), because an ack callback
acts on what its packet carried.  An ack names any number of packets, which `answerAll`
answers one after the other: a recursion over a set of numbers, of which `AnswerAllSound`
shows that it keeps a host sound for every number of steps.  Assumed
(`DispatchAssumption`): there is a slot in the ring, a sequence number and an id, each
stream is of one end and has at least one segment.

`BindingProofs`, for every set of objects, initial size and bound of `IdBucket`:
`NoRoomIsLost` (RoomIsFound), `FillCounts` (FillIsTrue) and the refinement `Promise` of
`HandleTable` (BucketKeepsHandles).  That the head is `Nil` says nothing about the cells
unless the links pass through every free cell, so `FreeList` has a witness, the order in
which the list visits the free cells.  And for every set of handles and places, and every
table of classes with the shape of the code's:

    CSpec => []CTypeOK          (ObjectsTyped)
    CSpec => []ObjectsOwn       (ObjectsAlwaysOwn)
    CSpec => []AssertsHold      (AssertsAlwaysHold)

No assertion fails because until the last `bsShutdown` the parts of objects that hold a
handle and the live handles correspond one to one (`Matched`), and after it no handle is
valid.  Every operation replaces the objects in some slots: it is right if what the new ones
hold is new, and what the old ones held is freed (`ReplaceMatched`).  A callback's temporaries
are freed at once, so their handles must differ, which they do because they are of different
buckets.  A function gets no handle that the ML side does not know for the same reason.
`TableAssumption` says this of the table, that each part of a class is of its own bucket, and
that a derived class has the parts of its base.  TLC evaluates it on `ClassTable` in every run
of `bindings`.  The theorems have one hypothesis, `FreesItsOwn`: a destructor frees each handle
in the table that it is of.  It holds of the classes in play, as TLC evaluates too
(`SoundAssumption`), and not of `InstantBubbleType` (section 5).

For every width of `SuiteSet`, `EachSuiteOnce` (SuitesOnce).  The invariant besides the property
is that the iterator's mask is one; that clearing the lowest bit is subtracting its power,
which leaves the other bits as they are, is arithmetic with quotients (`ClearedBit`,
`NumberLemmas`).  Assumed: the width is a
natural number (`WidthAssumption`).

For every set of data, depth and relation of who calls back within
what: `SignalsFollowSide`, `HeldIsLive`, `DataAccounted`.  One saved mask serves all
depths because the sides alternate on the stack (`Turns`); deleting is safe because the
data of a one-time callback is on the stack once and no longer held (`OnceRunning`);
keeping loses nothing because the ML side still has it or was told to forget it, or its
callback returned early (`OftenKnown`); which function is of which kind is read off the table.  Assumed: the
value for "no data" is none of the data and the bound on frames is a number (`DataAssumption`).  `CallbackPins` holds for
every relation in which the functions that pin an array, but for
`bsBubbleInstantCreate`, call nobody back (`PinsAreQuiet`, the ML side's part; the
relation of `MCBindings` is one).  An ML frame with others above it has called back
(`PinsInv`), and the main loop, which may call anybody back, pins nothing.

And for any number of callers and loop threads `TasksRun`, that is
`EachTaskOnce` and `WakeupPending`.  A task runs once because it is in the queue at most
once and those before `next` are the ones that have run (`QueueInv`).  `WakeupPending`
speaks of a main loop that runs, but a task may be queued while none does: so a queue
with tasks must have a byte or somebody about to look into it at any time (`Pending`).
Assumed: no thread is both a caller and a loop, and "nobody" is none (`ThreadAssumption`).

`TypesOK` (TypesAlwaysHold) puts the types of the four together, under `FreesItsOwn`.  Those of the bucket, the objects
and the tasks are part of their invariants; the bridge's need that room for one more frame is
asked for before each push (`JTyped`).

`HelpersProofs`, for every value of the constants of each module:

    CycleSpec => []RequestsEnd                      (RequestsAlwaysEnd)
    BufferedSpec /\ MessageSpec => []WritesKept     (WritesAlwaysKept)
    ServiceSpec => []ClientsServed                  (ClientsAlwaysServed)
    CacheSpec => []AddressesHold                    (AddressesAlwaysHold)
    Packet!Spec => []ErrorArrives                   (ErrorsAlwaysArrive)

- `RequestsEnd` says that an answer is whole when it is heard.  On the way there it is in
  pieces: what the server has read and what is still in the stream make up the request
  (`RequestRead`), and so for the answer (`ResponseRead`), at every split behind the service id
  (`BehindId`; a split of the id ends the server), unless that stream was reset.  Somebody who waits has exactly one callback to come (`Waiting`, `Accounted`), which
  is why a reset, which answers all that is pending, does not delete a connection twice.
- `WritesKept`: what the stream took and what is buffered are the writes, in order, and a
  shutdown that was asked for early waits for an empty buffer (`BufferedInv`); a message's
  write and shutdown are never pending together (`MessageInv`), so a reset tells its sender
  once.
- `ClientsServed` is about removal in place: the last entry moves into the gap, so the
  loop must look at that index again.  `Serving` says that just the ready entries below `i`
  have been read; `Removing` that the interfaces from `i` on are still to be
  compared; `ClientsApart`, `IfacesApart` and `UsedOpen` that all sockets that are read are open
  and differ, which a number that the system gives out again could spoil; `RawOwn` that the
  socket for sending is open and nobody else's until an interface has vanished.  After that
  nothing is said of it, and nothing of the port of a client whose header came in pieces.
- `AddressesHold`: the array is never too small because `pad` gives a power of two that is
  at least its argument (`PadAbove`).  An answer is fresh because the list is what the
  machine had at the last update, but for what came or went since (`CacheTrue`).
- `ErrorArrives` rests on arithmetic.  The sum of a row of words, folded twice, is the sum
  modulo 65535 (`FoldedTwice`), so a checksum tells two rows apart that differ in one word,
  unless the two words are 0 and 65535 (`ChecksumTells`); a byte that changes does change
  one word of the data so, an odd last byte too (`ByteTells`).  Hence every field of
  the message is told (`CodeTells`, `InsideTells`, `UdpTells`, `DataTells`), and the
  reporter unless Windows cleared the checksum (`SourceTells`).  The inductive invariant (`PacketInv`) names
  the packet `u` as it would be without macOS: it is whole, or spoilt (`Spoilt`); what arrives is `u`
  or `Mac(u)`, and `Repaired` gives `u` back (`RepairedIs`) because no length is its own
  swapped form less a header (`SwapNot`), so macOS has it at most once.

Assumed: bounds are naturals (`ServiceAssumption`); addresses, ports and codes are 16-bit words,
data is bytes, the buffer is no longer than a word says, and what is added to a damaged word is a natural
number (`PacketAssumption`); requests and answers are sequences
(`StringsAssumption`); a machine has finitely many addresses, and the age allowed is a
natural number (`CacheAssumption`).

What is computed by a recursive function for every number is proved there by induction
over a set of naturals (`SetInduction` of `NumberLemmas`: were some number missing from the set, then the
first one would be, which the pigeonhole principle refutes); the library's induction
theorems, which take an operator, are out of the provers' reach.

Only model-checked:

- Liveness: `ShutdownCompletes`, `ResetsResolve`, `WriteCompletes`, `EveryPacketAnswered`.
  Fairness is beyond the prover's reach.
- `StreamsArrive` of `HostDispatch`.  It needs that an id cannot come back while a packet of its
  former stream may still be accepted: a relation between the packets a peer still takes, the
  turns of the ring since the id was given up, and sequence numbers that repeat.  The
  invariant has not been found.  (`create_lost` shows how near it is to being false.)

## 5. Where code and documentation disagree

Shown by a run:

- **shutdown_stall** (`out-stream-queue.sml:115`).  EOF acked, then an earlier segment is
  lost that lies within the margin of the last barrier: `amRTS` refuses to send it,
  and the reader, already `AM_SHUTDOWN`, announces no barrier any more.  The shutdown
  callback is never called.
- **stale_barrier** (`out-stream-queue.sml:376`).  `recv` overwrites the barrier, so an
  announcement that was overtaken moves it back.  If both are acked the reader has
  nothing new to say and a waiting write waits for ever.
- **events_cleared** (`fast-retransmit.fun:125`).  A user callback inside `recv` that
  destroys the channel is followed by the rest of `recv`, which schedules the timers
  again and goes on over the queue that `destroy` has answered but not emptied.
- **create_lost** (`host-dispatch.fun:660`).  A reader's reset frees the id at the writer
  when READER_RESETS arrives, at the reader only when its ack is heard.  Suppose the reader
  has given that packet up, or its ack is late, while the writer makes 16 pulls: a new
  stream takes the id, with the next sequence number.  The reader, still at the old
  number, skips CREATE and what follows, yet the packets are accepted and acked; so the
  prefix is cleared, CREATE is not sent again, and the shutdown of the new stream hears
  true with nothing received.  The numbers of the two ends stay one apart.

Found while modelling, without a run of their own.  In the stream and channel layers:

- `in-stream-queue.sml:378`: a reset in-stream queues data beyond a gap and is then
  forgotten with it: the host's count of out-of-order bytes never comes back, although
  "queuedOutOfOrder drains slowly" (`in-stream.sig:34`).
- `delayed-ack.fun:153`: a packet that takes an out-of-order ack also clears the signal
  and the timer of the ordinary ack, which it does not carry: the packets that ack would
  have named are never acknowledged unless more arrive.

- `out-stream-queue.sml:319`: a user that resets the stream from the READY callback inside
  `pull` leaves the counter of bytes to retransmit negative; `:43` says that
  "retransmitBytes = sum of lengths in retransmit".
- `out-stream-queue.sml:114`: once a stream is shut down `amRTS` no longer looks at the
  barrier, which "the sender is not allowed to exceed" (`in-stream-queue.sml:49`).  The
  packets are dropped and sent again.
- `in-stream-queue.sml:50-51` speaks of "minimum window / 2", the code uses a quarter.
- `negotiation.fun:418` sets a channel ESTABLISHED again that a callback within the
  processing of its data has destroyed.  A packet that could not be sent (`ok false`)
  loses the ack it carried.

In negotiation and hosts:

- `host.sig:20-24` says that a dead host raises `HostIsDestroyed`; no code raises it.  A
  user who goes back to a dead host that its end kept while RECEIVED breaks `TablesMatch`,
  which is why that property looks at `reused`.
- `end-point.fun:291-293` with `host-dispatch.fun:543-557`: `connect` on an unbound host
  asks to reconnect, which does nothing while there is a channel, even one that is only
  waiting to answer NOSTATE and die: the new stream is left without a channel.
- `host-dispatch.fun:823-838` keeps a promised host for 240 s; a RECEIVED channel, which
  needs it, may live 255 s (`negotiation.fun:124`).

In the C interface and the C++ bindings:

- `bubblestorm.cpp:383`: the destructor of `InstantBubbleType` frees both handles in the
  table of basic types, the instant one too: it is never given back, and the free fails or takes
  the handle of another object.  With the class in play TLC finds `AssertsHold` violated.
- `libcusp.sml:771`: a key that cannot be loaded is ~1, the mark of an invalid handle,
  on which `checkResult` asserts (`bscommon.h:368`); `libcusp.sml:547`: so is the end of
  an iteration over streams, a time that cannot be read, and a notification that cannot be
  decoded (`Refused` has them all); `cusp-base.cpp:576`: the end of an iteration over channels
  leaves the host's handle unset.
- `bubblestorm.cpp:1170`: a query with no responder leaks its `QueryRespond`; `:1181`
  asserts a receiver that `bubblestorm.h:521` says "may be set to NULL"; `:944` does not
  look for the exception of a decode; a host cache and an address made on the way are
  not freed when a later call fails.
- `bidiconn.cpp`: `onContact`'s parameter hides the member of the same name, so a
  connection by address asserts on an invalid handle; `reset` keeps `localService`, and
  deletes a contact handler it has just told to abort, which may still be called.
- `singlecycleconn.cpp:113` ("ignore (?)"): a client whose connection is lost after its
  shutdown and before the server connects back is never told; `onFail` may be called
  several times; the server asserts that the first two bytes, the service id, arrive at once
  (`bidiconn.cpp:139`, "FIXME should reset here!"), so a client whose id is split ends it.
- `singlemessageinstream.cpp`: `onReceive` does not read again, so only the end of an
  empty message is heard.

In the Java bindings:

- `BSJniBase.java:59` ("don't start twice"): `startMainThread` gives up its lock when it
  waits, before the new thread has said that it runs.  A second caller starts another
  thread, which runs queued tasks beside the main loop and then waits for ever.
- `BSJniBase.java:345`: a call that comes after shutdown runs its task itself and then waits
  (`:155`) for good, where `:111` says that it "waits for execution and returns the result".
- A call that is queued after the loop has ended waits for the next start; a task that
  hands over a task in the first `asyncCallback` waits for itself.
- `bs-jni.c:777`: `bsBubbleInstantCreate` holds its array (`:760`) while callbacks run.
- An end point's key handle, the buffer of an `outstreamWrite` that returns early, and
  the data of `evtEventNew` are not freed; `getPriority` passes its float through a jboolean
  and `bytesReceived` its long through a jint; callbacks that return early (`main-jni.c:163`,
  `:348` and many in `bs-jni.c`) leave the signals enabled on the ML side and do not free their
  data; a `libInit` that fails leaves them blocked in Java.

In the ICMP code:

- `cusp-icmp-svc.c:214`: an interface that vanished closes the global socket, not its
  own, which is leaked; the service then goes on sending with the closed number (`:91`), or, when
  it was given out again, into the socket of a client or an interface, whose being closed with
  the next interface ends the service at `select`.
- `cusp-icmp-svc.c:109`: a header that arrives in pieces is converted once with each of them,
  though `:108` says "header complete": the client hears of a port with swapped bytes.
- `my-ip-address.c:33` ("Never return an address list older than 10 seconds") is not kept
  when an update fails.
- `icmp.c`: `cusp_icmp_recv` returns an unsigned 16-bit number, so that -1 is 65535.
- A ones' complement sum cannot tell 0 from 0xFFFF, and Windows 7 clears the outer
  checksum, which leaves the reporter's address unprotected.

In managed replication, `allDone` never calls back when there are no storage peers.

## 6. Not modelled yet, and the plan

Everything in `PROJECT.json` that is `partly` or `not_modelled`.  Left out for good:
cryptography and measurements (numbers, not protocol), statistics, simulator, test
programs, and the congestion window (a sum over real numbers).

In this order:

1. **Reassembly**: the slice lists of the reader's queues with 32-bit offsets
   (`out-stream-queue.sml:226`, where they wrap), shown to implement the covered-offsets
   set of `InStreamQueue`.
2. **BufferedOutStream** over `StreamService`.
3. **TopologyLocation** (`location.sml`, `neighbour.sml`, `evaluate.sml`): the slots of a
   location through contact, install, timeout, upgrade and leave, two peers.
4. **Gossip** rounds; then managed replication or conversations, as time allows.
5. Proofs: `StreamsArrive` for tables of any size.
