----------------------------- MODULE HostDispatch -----------------------------
(***************************************************************************)
(* cusp/stream/host-dispatch.fun at the two ends of a channel: the ids of  *)
(* streams, their 4-bit sequence numbers, the ring in which a used id      *)
(* cools down, the CREATE in front of a stream's packets until one of them *)
(* is acked, and the state that is wiped when a channel is not resumed.    *)
(* The packets and their acks are those of AckLayer.                       *)
(*                                                                         *)
(* A host is a record, and its handlers are operators from host to host.   *)
(* The arrays inStreams and outStreams are read off the ids that the       *)
(* streams' records hold.  A packet has room for one segment.  A stream is *)
(* as many segments as Parts says, the last with the end; flow control and *)
(* refused packets are CuspStream's.                                       *)
(***************************************************************************)
EXTENDS Integers, FiniteSets, Sequences, SequencesExt

CONSTANTS Streams,         \* out-streams
          Owner,           \* stream -> the end that writes it
          Parts,           \* stream -> its number of segments
          Period,          \* slots of the cooldown ring, 16 in the code
          SeqNums,         \* sequence numbers of an id, 16 in the code
          MaxIds,          \* bound: no table grows beyond it
          MaxChannels,     \* bound: how often the channel is replaced
          MaxResets,       \* bound: how often users reset a stream
          Width, ReorderLimit, LastTsn   \* see AckLayer

ASSUME DispatchAssumption ==
    /\ Period \in Nat \ {0} /\ SeqNums \in Nat \ {0} /\ MaxIds \in Nat \ {0}
    /\ Owner \in [Streams -> {"a", "b"}] /\ LastTsn \in [{"a", "b"} -> Nat]
    /\ Parts \in [Streams -> Nat \ {0}]

VARIABLES host,            \* end -> its host
          tsn, new, oop, queue, net,     \* see AckLayer
          due,             \* end -> is there an ack to send, now or after a delay
          channels,        \* how often the channel was replaced
          resets           \* how often users reset a stream

hdVars == <<host, tsn, new, oop, queue, net, due, channels, resets>>

Channel == INSTANCE AckLayer WITH
    delay <- 0, arts <- 0, expiry <- 0, inFlight <- 0, open <- 0,
    accepted <- 0, handed <- 0, acked <- 0

Ends == Channel!Ends
Peer == Channel!Peer
Ids == 0 .. MaxIds - 1
nill == -1

\* The states of an out-stream: "complete" is told true, "lost" ended by a
\* reset.  unacked and todo are its segments, 0 stands for WRITER_RESETS;
\* obeyed is for the properties: whose controls it took.
NewOut == [state |-> "unused", id |-> nill, prefix |-> TRUE, todo |-> {},
           unacked |-> {}, obeyed |-> {}]

\* The states of an in-stream: "whole" has everything, "cut" ended after its
\* reader's reset, "gone" otherwise.  resets: is READER_RESETS to be sent;
\* taken and created are for the properties: whose segments it took, how often
\* it was created.
NewIn == [state |-> "none", id |-> nill, got |-> {}, eof |-> FALSE,
          resets |-> FALSE, taken |-> {}, created |-> 0]

NoTables ==
    [len |-> 1, writeFree |-> <<0>>, cooldownIndex |-> 0,
     cooldowns |-> [i \in 0 .. Period - 1 |-> <<>>],
     writerSeq |-> [id \in Ids |-> 0], readerSeq |-> [id \in Ids |-> 0],
     outs |-> [s \in Streams |-> NewOut], ins |-> [s \in Streams |-> NewIn]]

Fresh == [tsn |-> [e \in Ends |-> 0],
          new |-> [e \in Ends |-> [rasn |-> 0, seen |-> {0}]],
          oop |-> [e \in Ends |-> Channel!NoAck],
          queue |-> [e \in Ends |-> {}], due |-> [e \in Ends |-> FALSE]]

Init ==
    /\ host = [e \in Ends |-> NoTables]
    /\ tsn = Fresh.tsn /\ new = Fresh.new /\ oop = Fresh.oop
    /\ queue = Fresh.queue /\ due = Fresh.due /\ net = {} /\ channels = 0 /\ resets = 0
-----------------------------------------------------------------------------
(* Ids. *)

tick(seqs, id) == [seqs EXCEPT ![id] = (@ + 1) % SeqNums]

\* A slip: the id is free at once.
pushCooldown_Free(h, id) == [h EXCEPT !.writeFree = <<id>> \o @]

pushCooldown(h, id) ==
    [h EXCEPT !.cooldowns[h.cooldownIndex] = <<id>> \o @]

\* What has been in the ring for a whole turn is free.
tickCooldown(h) ==
    LET index == IF h.cooldownIndex = Period - 1 THEN 0 ELSE h.cooldownIndex + 1
    IN  [h EXCEPT !.cooldownIndex = index,
                  !.writeFree = Reverse(h.cooldowns[index]) \o @,
                  !.cooldowns[index] = <<>>]

\* A slip: the new ids begin one too low.
expand_Overlap(h, newLen) ==
    [h EXCEPT !.len = newLen,
              !.writeFree = [i \in 1 .. newLen - h.len + 1 |-> h.len + i - 2] \o @]

expand(h, newLen) ==
    [h EXCEPT !.len = newLen,
              !.writeFree = [i \in 1 .. newLen - h.len |-> h.len + i - 1] \o @]

PowersOf2(id) ==
    LET power[k \in 0 .. id] == IF k = 0 THEN 1 ELSE 2 * power[k - 1]
    IN  {power[k] : k \in 0 .. id}

\* expandSubReader: the table grows to the least power of two that holds id.
Holding(h, id) ==
    IF id < h.len THEN h
    ELSE expand(h, CHOOSE n \in PowersOf2(id) : id < n /\ n <= 2 * id + 1)

CanAlloc(h) == h.writeFree # <<>> \/ 2 * h.len <= MaxIds
allocId(h, s) ==
    LET room == IF h.writeFree = <<>> THEN expand(h, 2 * h.len) ELSE h
    IN  [room EXCEPT !.writeFree = Tail(@), !.outs[s].id = Head(room.writeFree)]

OutAt(h, id) == {s \in Streams : h.outs[s].id = id}
InAt(h, id) == {s \in Streams : h.ins[s].id = id}
-----------------------------------------------------------------------------
(* The events of the streams. *)

\* A slip: the sequence number stays.
outComplete_SameSeq(h, s, state) ==
    LET id == h.outs[s].id
        ended == [h EXCEPT !.outs[s] = [NewOut EXCEPT !.state = state, !.prefix = FALSE,
                                                !.obeyed = h.outs[s].obeyed]]
    IN  IF id = nill THEN ended ELSE pushCooldown(ended, id)

\* BECAME_COMPLETE of an out-stream, that ends in the given state.
outComplete(h, s, state) ==
    LET id == h.outs[s].id
        ended == [h EXCEPT !.outs[s] = [NewOut EXCEPT !.state = state, !.prefix = FALSE,
                                                !.obeyed = h.outs[s].obeyed]]
    IN  IF id = nill THEN ended
        ELSE pushCooldown([ended EXCEPT !.writerSeq = tick(@, id)], id)

\* The record of an in-stream that has ended: only what the properties ask of.
Ended(in, state) ==
    [NewIn EXCEPT !.state = state, !.taken = in.taken, !.created = in.created]

\* BECAME_UNASSIGNED or BECAME_COMPLETE of an in-stream.
inEnded(h, s, state) ==
    LET id == h.ins[s].id
        ended == [h EXCEPT !.ins[s] = Ended(@, state)]
    IN  IF id = nill THEN ended ELSE [ended EXCEPT !.readerSeq = tick(@, id)]

\* OutStreamQueue.reset by the user.
outReset(h, s) ==
    [h EXCEPT !.outs[s] = [@ EXCEPT !.state = "reset", !.todo = {0}]]

\* InStreamQueue.reset by the user: who has heard the end has nothing to say.
inReset(h, s) ==
    IF h.ins[s].eof THEN inEnded(h, s, "cut")
    ELSE [h EXCEPT !.ins[s] = [@ EXCEPT !.state = "reset", !.resets = TRUE]]
-----------------------------------------------------------------------------
(* The answer to a packet: the callback of pullSegment, with x. *)

clearPrefix(h, s) == [h EXCEPT !.outs[s].prefix = FALSE]

ackData(h, s, part, x) ==
    LET left == h.outs[s].unacked \ {part}
        acked == [h EXCEPT !.outs[s].unacked = left]
    IN  CASE h.outs[s].state # "active" -> h
          [] h.outs[s].state = "active" /\ ~x -> [h EXCEPT !.outs[s].todo = @ \cup {part}]
          [] h.outs[s].state = "active" /\ x ->
                IF left = {} THEN outComplete(acked, s, "complete") ELSE acked

ackWriterResets(h, s, x) ==
    CASE x -> outComplete(h, s, "lost")
      [] ~x /\ h.outs[s].state = "reset" -> [h EXCEPT !.outs[s].todo = {0}]
      [] OTHER -> h

ackReaderResets(h, s, x) ==
    CASE h.ins[s].state # "reset" -> h
      [] h.ins[s].state = "reset" /\ x -> inEnded(h, s, "cut")
      [] h.ins[s].state = "reset" /\ ~x -> [h EXCEPT !.ins[s].resets = TRUE]

answer(h, m, x) ==
    LET created == IF x /\ m.type \in {"data", "writerResets"}
                   THEN clearPrefix(h, m.stream) ELSE h
    IN  CASE m.type = "data" -> ackData(created, m.stream, m.part, x)
          [] m.type = "writerResets" -> ackWriterResets(created, m.stream, x)
          [] m.type = "readerResets" -> ackReaderResets(created, m.stream, x)
          [] m.type = "barrier" -> h

\* The packets in ts are answered in the order they were sent in.
Segment(e, t) == (CHOOSE p \in net : p.from = e /\ p.tsn = t).segment
answerAll(e, h, ts, yes) ==
    LET after[t \in 0 .. LastTsn[e]] ==
            IF t = 0 THEN h
            ELSE IF t \in ts THEN answer(after[t - 1], Segment(e, t), t \in yes)
            ELSE after[t - 1]
    IN  after[LastTsn[e]]
-----------------------------------------------------------------------------
(* pullSegment. *)

Smallest(S) == CHOOSE i \in S : \A j \in S : i <= j

\* An out-stream's segment; CREATE goes before it until something is acked.
outSegment(h, s) ==
    LET part == Smallest(h.outs[s].todo)
        id == h.outs[s].id
    IN  [type |-> IF part = 0 THEN "writerResets" ELSE "data", id |-> id,
         create |-> h.outs[s].prefix, seq |-> h.writerSeq[id],
         part |-> part, stream |-> s]

inSegment(h, s, type) ==
    LET id == h.ins[s].id
    IN  [type |-> type, id |-> id, create |-> FALSE, seq |-> h.readerSeq[id],
         part |-> 0, stream |-> s]

\* What a host may pull: the host after it, and the segment.
PullOut(h) ==
    LET Ready == {s \in Streams : h.outs[s].todo # {}
                                  /\ (h.outs[s].id # nill \/ CanAlloc(h))}
        With(s) == IF h.outs[s].id = nill THEN allocId(h, s) ELSE h
    IN  {[host |-> [With(s) EXCEPT !.outs[s].todo = @ \ {Smallest(@)}],
          segment |-> outSegment(With(s), s)] : s \in Ready}

\* A barrier goes when the window has moved, READER_RESETS after a reset.
PullIn(h) ==
    {[host |-> h, segment |-> inSegment(h, s, "barrier")] :
        s \in {r \in Streams : h.ins[r].state = "active" /\ ~h.ins[r].eof}}
    \cup
    {[host |-> [h EXCEPT !.ins[s].resets = FALSE],
      segment |-> inSegment(h, s, "readerResets")] :
        s \in {r \in Streams : h.ins[r].resets}}

NoSegment == [type |-> "none"]
Packet(e, segment) ==
    LET n == Channel!Numbered(e, segment # NoSegment)
    IN  [from |-> n.from, tsn |-> n.tsn, asn |-> n.asn, acks |-> n.acks,
         data |-> n.data, segment |-> segment]

\* Every pull turns the ring and takes a number.  A packet that is too long to be
\* sent is one that is lost and given up.
Pull(e) ==
    /\ tsn[e] < LastTsn[e]
    /\ tsn' = [tsn EXCEPT ![e] = @ + 1]
    /\ oop' = [oop EXCEPT ![e] = Channel!NoAck]
    /\ due' = [due EXCEPT ![e] = FALSE]
    /\ UNCHANGED <<new, channels, resets>>

PullData(e) ==
    /\ Pull(e)
    /\ LET h == tickCooldown(host[e])
       IN  \E pulled \in PullOut(h) \cup PullIn(h) :
             /\ host' = [host EXCEPT ![e] = pulled.host]
             /\ net' = net \cup {Packet(e, pulled.segment)}
    /\ queue' = [queue EXCEPT ![e] = @ \cup {tsn[e] + 1}]

\* Only an ack: the host is not asked.
PullAck(e) ==
    /\ due[e] /\ Pull(e)
    /\ net' = net \cup {Packet(e, NoSegment)}
    /\ UNCHANGED <<host, queue>>
-----------------------------------------------------------------------------
(* recvSegment. *)

Current(seqs, m) == m.seq = seqs[m.id]

\* An in-stream is given data: the end of it ends a reset one, and all of it a
\* live one.
recvData(h, r, m) ==
    LET last == m.part = Parts[m.stream]
        g == [h EXCEPT !.ins[r].eof = @ \/ last]
        took == [g EXCEPT !.ins[r].got = @ \cup {m.part},
                          !.ins[r].taken = @ \cup {m.stream}]
        whole == took.ins[r].eof /\ took.ins[r].got = 1 .. Parts[r]
    IN  CASE h.ins[r].state = "reset" -> IF last THEN inEnded(g, r, "cut") ELSE g
          [] h.ins[r].state = "active" ->
                IF whole THEN inEnded(took, r, "whole") ELSE took

recvReader(h, m) ==
    IF InAt(h, m.id) = {} THEN h
    ELSE LET r == CHOOSE s \in InAt(h, m.id) : TRUE
         IN  IF m.type = "data" THEN recvData(h, r, m)
             ELSE inEnded(h, r, IF h.ins[r].state = "reset" THEN "cut" ELSE "gone")

\* Nobody may listen: then the new stream is reset before its data is looked at.
gotConnection(h, m, listening) ==
    LET made == [h EXCEPT !.ins[m.stream] =
                    [NewIn EXCEPT !.state = "active", !.id = m.id,
                                  !.created = h.ins[m.stream].created + 1]]
    IN  IF listening THEN made ELSE inReset(made, m.stream)

recvCreate(h, m, listening) ==
    IF ~Current(h.readerSeq, m) THEN h
    ELSE LET room == Holding(h, m.id)
         IN  recvReader(IF InAt(room, m.id) = {}
                        THEN gotConnection(room, m, listening) ELSE room, m)

recvWriter(h, m) ==
    IF ~Current(h.writerSeq, m) \/ OutAt(h, m.id) = {} THEN h
    ELSE LET w == CHOOSE s \in OutAt(h, m.id) : TRUE
             obeyed == [h EXCEPT !.outs[w].obeyed = @ \cup {m.stream}]
         IN  IF m.type = "barrier" THEN obeyed ELSE outComplete(obeyed, w, "lost")

recvSegment(h, m, listening) ==
    CASE m.type \in {"barrier", "readerResets"} -> recvWriter(h, m)
      [] m.type \in {"data", "writerResets"} /\ m.create -> recvCreate(h, m, listening)
      [] m.type \in {"data", "writerResets"} /\ ~m.create -> recvReader(h, m)
      [] m.type = "none" -> h

\* The packets that may still be accepted or answered; others are forgotten.
Alive(packets) ==
    {p \in packets :
        \/ p.tsn \in queue'[p.from]
        \/ LET ack == new'[Peer[p.from]]
           IN  ack.rasn - p.tsn < Width /\ p.tsn \notin ack.seen}

\* The acks of a packet come before its segment.
Recv(e, p) ==
    /\ p.from = Peer[e]
    /\ Channel!IsNewest(e, p) \/ Channel!IsLate(e, p)
    /\ \E listening \in BOOLEAN :
          host' = [host EXCEPT ![e] =
              recvSegment(answerAll(e, @, Channel!Answered(e, p), Channel!Acked(e, p)),
                          p.segment, listening)]
    /\ queue' = [queue EXCEPT ![e] = @ \ Channel!Answered(e, p)]
    /\ \/ /\ Channel!IsNewest(e, p)
          /\ new' = [new EXCEPT ![e] = Channel!Newest(e, p)]
          /\ UNCHANGED oop
       \/ /\ Channel!IsLate(e, p)
          /\ new' = [new EXCEPT ![e].seen = Channel!SeenToo(e, p)]
          /\ oop' = IF Channel!Covered(e, p) \/ ~p.data THEN oop
                    ELSE [oop EXCEPT ![e] = Channel!OwnAck(e, p)]
    /\ due' = [due EXCEPT ![e] = @ \/ p.data]
    /\ net' = Alive(net)
    /\ UNCHANGED <<tsn, channels, resets>>

\* The oldest packet is given up.
Timeout(e) ==
    /\ queue[e] # {}
    /\ LET t == Smallest(queue[e])
       IN  /\ queue' = [queue EXCEPT ![e] = @ \ {t}]
           /\ host' = [host EXCEPT ![e] = answer(@, Segment(e, t), FALSE)]
    /\ UNCHANGED <<tsn, new, oop, due, channels, resets>>
    /\ net' = Alive(net)
-----------------------------------------------------------------------------
(* Users, and a new channel. *)

\* connect, and all is written to the stream at once.
connect(s) ==
    /\ host[Owner[s]].outs[s].state = "unused"
    /\ host' = [host EXCEPT ![Owner[s]].outs[s] =
                   [@ EXCEPT !.state = "active", !.todo = 1 .. Parts[s],
                             !.unacked = 1 .. Parts[s]]]
    /\ UNCHANGED <<tsn, new, oop, queue, net, due, channels, resets>>

UserResets == resets < MaxResets /\ resets' = resets + 1

ResetOut(s) ==
    /\ UserResets
    /\ host[Owner[s]].outs[s].state \in {"active", "reset"}
    /\ host' = [host EXCEPT ![Owner[s]] = outReset(@, s)]
    /\ UNCHANGED <<tsn, new, oop, queue, net, due, channels>>

ResetIn(s) ==
    LET e == Peer[Owner[s]]
    IN  /\ UserResets
        /\ host[e].ins[s].state \in {"active", "reset"}
        /\ host' = [host EXCEPT ![e] = inReset(@, s)]
        /\ UNCHANGED <<tsn, new, oop, queue, net, due, channels>>

\* wipeState: out-streams nothing of which was acked are sent again from the
\* start, unless reset; all other streams are lost.
wipeState(h) ==
    [NoTables EXCEPT
       !.outs = [s \in Streams |->
          LET w == h.outs[s]
          IN  CASE w.state \in {"active", "reset"} ->
                      [w EXCEPT !.id = nill,
                                !.state = IF w.prefix /\ w.state = "active"
                                          THEN "active" ELSE "lost",
                                !.todo = IF w.prefix /\ w.state = "active"
                                         THEN @ ELSE {}]
                [] OTHER -> w],
       !.ins = [s \in Streams |->
          LET r == h.ins[s]
          IN  [Ended(r, CASE r.state = "active" -> "gone"
                          [] r.state = "reset" -> "cut"
                          [] OTHER -> r.state) EXCEPT !.created = 0]]]

\* Both ends move to a new channel, which both resume or neither (Negotiation):
\* what is in flight on the old one is given up.
NewChannel(resume) ==
    /\ channels < MaxChannels
    /\ channels' = channels + 1
    /\ host' = [e \in Ends |->
                   answerAll(e, IF resume THEN host[e] ELSE wipeState(host[e]),
                             queue[e], {})]
    /\ tsn' = Fresh.tsn /\ new' = Fresh.new /\ oop' = Fresh.oop
    /\ queue' = Fresh.queue /\ due' = Fresh.due /\ net' = {}
    /\ UNCHANGED resets
-----------------------------------------------------------------------------
Next ==
    \/ \E e \in Ends : PullData(e) \/ PullAck(e) \/ Timeout(e)
    \/ \E e \in Ends, p \in net : Recv(e, p)
    \/ \E s \in Streams : connect(s) \/ ResetOut(s) \/ ResetIn(s)
    \/ \E resume \in BOOLEAN : NewChannel(resume)

Spec == Init /\ [][Next]_hdVars
-----------------------------------------------------------------------------
(***************************************************************************)
(* Through growth, reuse and wiping, an id is free, cools down or belongs  *)
(* to one out-stream, and no id is forgotten: what tickCooldown ("Corrupt  *)
(* stream free list") and allocId ("Free id is allocated") raise over.     *)
(***************************************************************************)
Lists(h) == [i \in 0 .. Period |-> IF i = Period THEN h.writeFree ELSE h.cooldowns[i]]
Users(h) == {s \in Streams : h.outs[s].id # nill}
Partition(h) ==
    LET lists == Lists(h)
    IN  /\ (UNION {ToSet(lists[i]) : i \in 0 .. Period}) \cup {h.outs[s].id : s \in Users(h)}
               = 0 .. h.len - 1
        /\ \A i \in 0 .. Period : IsInjective(lists[i])
        /\ \A i, j \in 0 .. Period : i # j => ToSet(lists[i]) \cap ToSet(lists[j]) = {}
        /\ \A s \in Users(h), i \in 0 .. Period : h.outs[s].id \notin ToSet(lists[i])
        /\ \A s, t \in Users(h) : h.outs[s].id = h.outs[t].id => s = t
IdsPartition == \A e \in Ends : Partition(host[e])

(***************************************************************************)
(* Whatever packets are late, lost or repeated: a live in-stream takes     *)
(* only what was written to its own out-stream, which is received as one   *)
(* stream and not again as a second, and an out-stream obeys only its own  *)
(* reader.                                                                 *)
(***************************************************************************)
StreamsKeptApart ==
    \A e \in Ends, s \in Streams :
        /\ host[e].ins[s].taken \subseteq {s}
        /\ host[e].ins[s].created <= 1
        /\ host[e].outs[s].obeyed \subseteq {s}

(***************************************************************************)
(* Unless a reader has reset a stream, an out-stream that is told true has *)
(* been received, all of it.                                               *)
(***************************************************************************)
Received(s) == host[Peer[Owner[s]]].ins[s].state = "whole"
ReaderCut == \E e \in Ends, s \in Streams : host[e].ins[s].state \in {"reset", "cut"}
ToldIsReceived ==
    \A s \in Streams :
        host[Owner[s]].outs[s].state = "complete" /\ ~ReaderCut => Received(s)

(***************************************************************************)
(* Both: whatever packets are late, lost or repeated, a stream's segments  *)
(* go to its own reader, and who is told true was received.                *)
(***************************************************************************)
StreamsArrive == StreamsKeptApart /\ ToldIsReceived

(***************************************************************************)
(* out-stream.sig:48, shutdown: "Once all queued data is finally           *)
(* delivered, the callback is invoked with true": the peer has received    *)
(* the stream, or has reset that stream.                                   *)
(***************************************************************************)
ToldIsDelivered ==
    \A s \in Streams :
        host[Owner[s]].outs[s].state = "complete" =>
            host[Peer[Owner[s]]].ins[s].state \in {"whole", "reset", "cut", "gone"}
=============================================================================
