-------------------------- MODULE StreamFlowProofs --------------------------
(***************************************************************************)
(* Proofs about the flow control of CuspStream, for every value of its     *)
(* constants: NobodySleeps, RetransmitBytes, ReassemblyInv and, for the    *)
(* packet sizes the code uses, ConnectedWithinBarrier.                     *)
(*                                                                         *)
(* They rest on IInv of CuspStreamProofs and on a second inductive         *)
(* invariant, FlowInv, with a part for either end and one for what is      *)
(* between them.  The counter of the retransmit heap is right because no   *)
(* byte is ever in two outstanding packets, or in a packet and the heap    *)
(* (SegmentsApart); the heap key is set when it has to be because it is    *)
(* also never set for nothing (RTSTrue, ReaderKeys); and a packet stays    *)
(* within the barrier because every barrier the writer ever obeys is one   *)
(* the reader has announced (BarriersTrue).                                *)
(*                                                                         *)
(* The stream layer implements StreamService: every step of CuspStream is  *)
(* a step of the service or leaves it alone, for every value of the        *)
(* constants.  IInv and FlowInv say what each step needs: that the end is  *)
(* the writer's (EofTruth), that a true verdict is deserved                *)
(* (DeliveryTruth), that a reader which has heard the end takes no more,   *)
(* and that a reset reader has no read to answer.                          *)
(***************************************************************************)
EXTENDS CuspStreamRefinement, CuspStreamProofs, FiniteSetTheorems

\* Two packets of the writer, a packet and the retransmit heap, never hold
\* the same byte; only a DATA packet holds any.
SegmentsApart ==
    /\ Pulled \cap wRetransmit = {}
    /\ \A s \in WSlots :
          /\ Payload(wOut[s]) \cap wRetransmit = {}
          /\ Payload(wOut[s]) \cap Pulled = {}
          /\ \A t \in WSlots \ {s} : Payload(wOut[s]) \cap Payload(wOut[t]) = {}

\* What is not DATA carries nothing, and WRITER_RESETS comes of a reset.
PlainPackets ==
    \A s \in WSlots :
        /\ wOut[s].type # "DATA" => wOut[s].off = 0 /\ wOut[s].end = 0
        /\ wOut[s].type = "WRITER_RESETS" => wState = "RESET"

\* The writer's heap key is never set for nothing.
RTSTrue == wState = "CONNECTED" /\ wRTS => amRTS

WriterFlow ==
    /\ NoStuckWrite
    /\ WriterWakeup
    /\ RTSTrue
    /\ PlainPackets
    /\ SegmentsApart
    /\ RetransmitBytes

\* The reader's heap key: only of a stream in the heap, never when pull would
\* fail; a stream that is not yet born has none, and a read comes later.
ReaderKeys ==
    /\ rRTS => rInHeap /\ rState # "SHUTDOWN"
    /\ rLife = "unborn" => /\ ~ rReading
                           /\ rBarrier - rLastBarrier < BarrierIncrement

ReaderFlow ==
    /\ ReaderWakeup
    /\ ReaderKeys
    /\ ReassemblyInv
    /\ rEnd => rState # "CONNECTED"

\* A packet whose first byte amRTS lets through, 2048 bytes clear of the
\* barrier, ends within it.  The packets of system/udp hold at most 1472
\* bytes (native-udp.sig:32).
PacketsFit == PacketMax <= SillyWindow + 1

\* Every barrier the writer obeys, or will, the reader has announced.
BarriersTrue ==
    /\ wBarrier <= rBarrier
    /\ \A s \in RSlots :
          rNet[s].type = "READER_BARRIER" => rNet[s].barrier <= rBarrier

\* A packet being filled will not exceed the barrier either.
PullWithinBarrier ==
    wState = "CONNECTED" /\ wPull.on => wPull.next + wPull.room <= rBarrier

BarrierFlow ==
    BarriersTrue
    /\ (PacketsFit => PullWithinBarrier /\ ConnectedWithinBarrier)

FlowInv == WriterFlow /\ ReaderFlow /\ BarrierFlow
----------------------------------------------------------------------------
\* The number of bytes in a run, and what the retransmit heap counts when a
\* run is put into it or taken out of it.
LEMMA RunSize ==
  ASSUME NEW a \in Int, NEW b \in Int, a <= b
  PROVE  IsFiniteSet(Run(a, b)) /\ Cardinality(Run(a, b)) = b - a
<1>1. /\ IsFiniteSet(a .. (b - 1))
      /\ Cardinality(a .. (b - 1)) = IF a > b - 1 THEN 0 ELSE (b - 1) - a + 1
  BY FS_Interval
<1> QED BY <1>1 DEF Run

LEMMA PutRun ==
  ASSUME NEW S, IsFiniteSet(S), NEW a \in Int, NEW b \in Int, a <= b,
         Run(a, b) \cap S = {}
  PROVE  Cardinality(S \cup Run(a, b)) = Cardinality(S) + (b - a)
<1>1. IsFiniteSet(Run(a, b)) /\ Cardinality(Run(a, b)) = b - a
  BY RunSize
<1>2. Cardinality(S \cup Run(a, b)) =
          Cardinality(S) + Cardinality(Run(a, b)) - Cardinality(S \cap Run(a, b))
  BY <1>1, FS_Union
<1>3. Cardinality(S \cap Run(a, b)) = 0
  <2>1. S \cap Run(a, b) = {}
    OBVIOUS
  <2> QED BY <2>1, FS_EmptySet
<1>4. Cardinality(S) \in Nat
  BY FS_CardinalityType
<1> QED BY <1>1, <1>2, <1>3, <1>4

LEMMA TakeRun ==
  ASSUME NEW S, IsFiniteSet(S), NEW a \in Int, NEW b \in Int, a <= b,
         Run(a, b) \subseteq S
  PROVE  Cardinality(S \ Run(a, b)) = Cardinality(S) - (b - a)
<1>1. Cardinality(S \ Run(a, b)) = Cardinality(S) - Cardinality(S \cap Run(a, b))
  BY FS_Difference
<1>2. S \cap Run(a, b) = Run(a, b)
  OBVIOUS
<1> QED BY <1>1, <1>2, RunSize

\* Runs one after the other have no byte in common.
LEMMA RunsApart ==
  \A a, b, c, d \in Int : b <= c => Run(a, b) \cap Run(c, d) = {}
  BY DEF Run

\* The retransmit heap is finite, and counts as many bytes as it holds.
LEMMA HeapFinite ==
  ASSUME WTypeOK
  PROVE  IsFiniteSet(wRetransmit) /\ Cardinality(wRetransmit) \in Nat
<1>1. IsFiniteSet(0 .. (MaxOffset - 1))
  BY FS_Interval, Parameters
<1>2. wRetransmit \in SUBSET (0 .. (MaxOffset - 1))
  BY DEF WTypeOK, Bytes
<1>3. IsFiniteSet(wRetransmit)
  BY <1>1, <1>2, FS_Subset
<1> QED BY <1>3, FS_CardinalityType

\* The packet of a suspended pull, likewise.
LEMMA PulledSize ==
  ASSUME WTypeOK, WriterInv
  PROVE  /\ Cardinality(Pulled) = IF wPull.on THEN wPull.next - wPull.off ELSE 0
         /\ Cardinality(Pulled) \in Nat
<1>1. CASE wPull.on
  <2>1. /\ wPull.off \in Nat /\ wPull.next \in Nat
        /\ wPull.off <= wPull.next
    BY <1>1 DEF WTypeOK, WriterInv, Offsets
  <2>2. Cardinality(Run(wPull.off, wPull.next)) = wPull.next - wPull.off
    BY <2>1, RunSize
  <2> QED BY <1>1, <2>1, <2>2 DEF Pulled
<1>2. CASE ~ wPull.on
  BY <1>2, FS_EmptySet DEF Pulled
<1> QED BY <1>1, <1>2

\* What IInv says of the packets of the writer that are not answered for.
Sent == \A s \in WSlots : PacketOK(wOut[s])

\* Packets, and the packet of a suspended pull, hold bytes that were written.
LEMMA PayloadsSent ==
  ASSUME WTypeOK, WriterInv, Sent, PlainPackets
  PROVE  /\ Pulled \subseteq Run(0, wSendOffset)
         /\ \A s \in WSlots : Payload(wOut[s]) \subseteq Run(0, wSendOffset)
<1>1. wSendOffset \in Nat
  BY DEF WTypeOK, Offsets
<1>2. Pulled \subseteq Run(0, wSendOffset)
  <2>1. CASE wPull.on
    <3>1. /\ wPull.off \in Nat /\ wPull.next \in Nat
          /\ wPull.off <= wPull.next /\ wPull.next <= wSendOffset
      BY <2>1 DEF WTypeOK, WriterInv, Offsets
    <3> QED BY <1>1, <2>1, <3>1, RunContains DEF Pulled
  <2> QED BY <2>1 DEF Pulled
<1>3. ASSUME NEW s \in WSlots
      PROVE  Payload(wOut[s]) \subseteq Run(0, wSendOffset)
  <2>1. wOut[s].off \in Nat /\ wOut[s].end \in Nat
    BY DEF WTypeOK, ReaderMsgs, Offsets
  <2>2. wOut[s].end <= wSendOffset
    BY <1>1, <2>1 DEF Sent, PacketOK, PlainPackets
  <2> QED BY <1>1, <2>1, <2>2, RunContains DEF Payload
<1> QED BY <1>2, <1>3

----------------------------------------------------------------------------
\* The event UPDATE RTS settles the heap key, whatever happened before.
LEMMA UpdateRTSWakes ==
  ASSUME UpdateRTS
  PROVE  WriterWakeup' /\ RTSTrue'
  BY DEF UpdateRTS, WriterWakeup, RTSTrue

\* makeProgress finds the buffer empty when the retransmit heap is: a write
\* waits only behind data of its stream.
LEMMA NothingToTake ==
  ASSUME WTypeOK, NoStuckWrite, makeProgress(wRetransmit)
  PROVE  /\ UNCHANGED <<wRetransmit, wSendOffset, wBuffer>>
         /\ Progress(wRetransmit) = 0
         /\ \/ UpdateRTS
            \/ wRetransmit = {} /\ wRTS' = (wInHeap' /\ wRTS)
<1>1. wRetransmit = {} => wBuffer = 0
  BY DEF NoStuckWrite, WTypeOK, Offsets
<1>2. Progress(wRetransmit) = 0
  BY <1>1 DEF Progress
<1> QED BY <1>1, <1>2 DEF makeProgress, TakeBuffer

\* A step that moves no byte and no packet.
LEMMA WriterFlowKept ==
  ASSUME WriterFlow, WriterWakeup', RTSTrue', NoStuckWrite',
         UNCHANGED <<wRetransmit, wRetransmitBytes, wPull, wOut>>,
         wState = "RESET" <=> wState' = "RESET"
  PROVE  WriterFlow'
<1>1. Pulled' = Pulled
  BY DEF Pulled
<1>2. PlainPackets'
  BY DEF WriterFlow, PlainPackets
<1>3. SegmentsApart'
  BY <1>1 DEF WriterFlow, SegmentsApart
<1>4. RetransmitBytes'
  BY <1>1 DEF WriterFlow, RetransmitBytes
<1> QED BY <1>2, <1>3, <1>4 DEF WriterFlow

\* A packet of slot s is filled or answered for: what is left to show of it.
LEMMA PacketPut ==
  ASSUME WTypeOK, PlainPackets, SegmentsApart,
         NEW s \in WSlots, NEW m \in ReaderMsgs,
         wOut' = [wOut EXCEPT ![s] = m],
         wState = "RESET" => wState' = "RESET",
         m.type # "DATA" => m.off = 0 /\ m.end = 0,
         m.type = "WRITER_RESETS" => wState' = "RESET",
         Pulled' \cap wRetransmit' = {},
         Payload(m) \cap wRetransmit' = {},
         Payload(m) \cap Pulled' = {},
         \A t \in WSlots \ {s} :
             /\ Payload(m) \cap Payload(wOut[t]) = {}
             /\ Payload(wOut[t]) \cap wRetransmit' = {}
             /\ Payload(wOut[t]) \cap Pulled' = {}
  PROVE  PlainPackets' /\ SegmentsApart'
<1>1. wOut'[s] = m /\ \A t \in WSlots \ {s} : wOut'[t] = wOut[t]
  BY DEF WTypeOK
<1>2. PlainPackets'
  BY <1>1 DEF PlainPackets
<1>3. ASSUME NEW t \in WSlots
      PROVE  /\ Payload(wOut'[t]) \cap wRetransmit' = {}
             /\ Payload(wOut'[t]) \cap Pulled' = {}
  <2>1. CASE t = s
    BY <1>1, <2>1
  <2>2. CASE t # s
    BY <1>1, <2>2
  <2> QED BY <2>1, <2>2
<1>4. ASSUME NEW t \in WSlots, NEW u \in WSlots \ {t}
      PROVE  Payload(wOut'[t]) \cap Payload(wOut'[u]) = {}
  <2>1. CASE t = s
    BY <1>1, <2>1
  <2>2. CASE u = s
    BY <1>1, <2>2
  <2>3. CASE t # s /\ u # s
    BY <1>1, <2>3 DEF SegmentsApart
  <2> QED BY <2>1, <2>2, <2>3
<1>5. \A t \in WSlots : Payload(wOut[t])' = Payload(wOut'[t])
  BY DEF Payload, Run
<1>6. SegmentsApart'
  BY <1>3, <1>4, <1>5 DEF SegmentsApart
<1> QED BY <1>2, <1>6

\* A packet that carries nothing leaves every byte where it was.
LEMMA PlainPacketPut ==
  ASSUME WTypeOK, PlainPackets, SegmentsApart,
         NEW s \in WSlots, NEW m \in {NoData, WriterResets},
         wOut' = [wOut EXCEPT ![s] = m],
         UNCHANGED <<wPull, wRetransmit>>,
         wState = "RESET" => wState' = "RESET",
         m = WriterResets => wState' = "RESET"
  PROVE  PlainPackets' /\ SegmentsApart'
<1>1. /\ m \in ReaderMsgs /\ m.type # "DATA" /\ m.off = 0 /\ m.end = 0
      /\ m.type = "WRITER_RESETS" => wState' = "RESET"
  <2>1. CASE m = NoData
    BY <2>1, Parameters DEF NoData, ReaderMsgs, Offsets
  <2>2. CASE m = WriterResets
    BY <2>2, Parameters DEF WriterResets, ReaderMsgs, Offsets
  <2> QED BY <2>1, <2>2
<1>2. Payload(m) = {}
  BY <1>1 DEF Payload, Run
<1>3. Pulled' = Pulled
  BY DEF Pulled
<1>4. /\ Pulled' \cap wRetransmit' = {}
      /\ \A t \in WSlots \ {s} :
            /\ Payload(wOut[t]) \cap wRetransmit' = {}
            /\ Payload(wOut[t]) \cap Pulled' = {}
  BY <1>3 DEF SegmentsApart
<1>5. /\ Payload(m) \cap wRetransmit' = {}
      /\ Payload(m) \cap Pulled' = {}
      /\ \A t \in WSlots \ {s} : Payload(m) \cap Payload(wOut[t]) = {}
  BY <1>2
<1> QED BY <1>1, <1>4, <1>5, PacketPut

----------------------------------------------------------------------------
\* OutStreamQueue.write: new bytes lie beyond all that was ever sent.
LEMMA writeFlow ==
  ASSUME WTypeOK, WriterInv, Sent, WriterFlow, NEW n \in 1 .. MaxWrite, write(n)
  PROVE  WriterFlow'
<1>1. /\ UpdateRTS
      /\ wBuffer = 0
      /\ UNCHANGED <<wState, wPull, wOut>>
      /\ wSendOffset \in Nat /\ n \in Nat
  BY Parameters DEF write, WTypeOK, Offsets
<1>2. WriterWakeup' /\ RTSTrue'
  BY <1>1, UpdateRTSWakes
<1>3. CASE /\ wRetransmit # {}
           /\ wBuffer' = n
           /\ UNCHANGED <<wRetransmit, wRetransmitBytes, wSendOffset>>
  <2>1. NoStuckWrite'
    BY <1>3 DEF NoStuckWrite
  <2> QED BY <1>1, <1>2, <1>3, <2>1, WriterFlowKept
<1>4. CASE /\ wRetransmit = {}
           /\ wRetransmit' = Run(wSendOffset, wSendOffset + n)
           /\ wRetransmitBytes' = wRetransmitBytes + n
           /\ UNCHANGED wBuffer
  <2>1. NoStuckWrite'
    BY <1>1, <1>4 DEF NoStuckWrite
  <2>2. PlainPackets'
    BY <1>1 DEF WriterFlow, PlainPackets
  <2>3. Pulled' = Pulled
    BY <1>1 DEF Pulled
  <2>4. Run(0, wSendOffset) \cap wRetransmit' = {}
    BY <1>1, <1>4, RunsApart
  <2>5. SegmentsApart'
    BY <1>1, <2>3, <2>4, PayloadsSent DEF WriterFlow, SegmentsApart
  <2>6. RetransmitBytes'
    <3>1. Cardinality(wRetransmit) = 0
      BY <1>4, FS_EmptySet
    <3>2. Cardinality(wRetransmit') = n
      BY <1>1, <1>4, RunSize
    <3>3. Cardinality(Pulled') = Cardinality(Pulled)
      BY <2>3
    <3>4. Cardinality(Pulled) \in Nat
      BY PulledSize
    <3> QED
      BY <1>1, <1>4, <3>1, <3>2, <3>3, <3>4 DEF WriterFlow, RetransmitBytes
  <2> QED BY <1>2, <2>1, <2>2, <2>5, <2>6 DEF WriterFlow
<1> QED BY <1>3, <1>4 DEF write

\* OutStreamQueue.shutdown and setPriority raise the event; a shutdown after a
\* reset only answers its caller.
LEMMA shutdownFlow ==
  ASSUME WTypeOK, WriterFlow, shutdown \/ shutdownRefused \/ setPriority
  PROVE  WriterFlow'
<1>1. /\ UNCHANGED <<wRetransmit, wRetransmitBytes, wBuffer, wPull, wOut>>
      /\ wState = "RESET" <=> wState' = "RESET"
  BY DEF shutdown, shutdownRefused, setPriority
<1>2. NoStuckWrite'
  BY <1>1 DEF WriterFlow, NoStuckWrite
<1>3. CASE shutdown \/ setPriority
  <2>1. WriterWakeup' /\ RTSTrue'
    BY <1>3, UpdateRTSWakes DEF shutdown, setPriority
  <2> QED BY <1>1, <1>2, <2>1, WriterFlowKept
<1>4. CASE shutdownRefused
  <2>1. UNCHANGED <<wState, wRetransmit, wBarrier, wInHeap, wRTS, wPull, wOut>>
    BY <1>4 DEF shutdownRefused
  <2>2. WriterWakeup' /\ RTSTrue'
    BY <2>1 DEF WriterFlow, WriterWakeup, RTSTrue, amRTS
  <2> QED BY <1>1, <1>2, <2>2, WriterFlowKept
<1> QED BY <1>3, <1>4

\* OutStreamQueue.doReset: nothing is counted any more, and a reset that the
\* remote end does not know yet is told.
LEMMA resetFlow ==
  ASSUME WTypeOK, WriterFlow, resetWriter \/ recvReaderResets
  PROVE  WriterFlow'
<1>1. /\ wState' = "RESET" /\ wRetransmit' = {} /\ wBuffer' = 0
      /\ UNCHANGED <<wPull, wOut>>
  BY DEF resetWriter, recvReaderResets, doReset
<1>2. WriterWakeup' /\ RTSTrue'
  <2>1. CASE resetWriter
    BY <2>1, UpdateRTSWakes DEF resetWriter
  <2>2. CASE recvReaderResets
    <3>1. wInHeap' = FALSE
      BY <2>2 DEF recvReaderResets
    <3> QED BY <1>1, <3>1 DEF WriterWakeup, RTSTrue
  <2> QED BY <2>1, <2>2
<1>3. NoStuckWrite' /\ RetransmitBytes'
  BY <1>1 DEF NoStuckWrite, RetransmitBytes
<1>4. PlainPackets'
  BY <1>1 DEF WriterFlow, PlainPackets
<1>5. SegmentsApart'
  <2>1. Pulled' = Pulled
    BY <1>1 DEF Pulled
  <2> QED BY <1>1, <2>1 DEF WriterFlow, SegmentsApart
<1> QED BY <1>2, <1>3, <1>4, <1>5 DEF WriterFlow

\* OutStreamQueue.recv of a READER_BARRIER: the heap key is settled, or there
\* is nothing to send and nothing to settle.
LEMMA recvBarrierFlow ==
  ASSUME WTypeOK, WriterFlow, NEW b, recvBarrier(b)
  PROVE  WriterFlow'
<1>1. /\ makeProgress(wRetransmit)
      /\ wRetransmitBytes' = wRetransmitBytes + Progress(wRetransmit)
      /\ UNCHANGED <<wState, wInHeap, wPull, wOut>>
  BY DEF recvBarrier
<1>2. /\ UNCHANGED <<wRetransmit, wBuffer>>
      /\ Progress(wRetransmit) = 0
      /\ \/ UpdateRTS
         \/ wRetransmit = {} /\ wRTS' = (wInHeap' /\ wRTS)
  BY <1>1, NothingToTake DEF WriterFlow
<1>3. wRetransmitBytes' = wRetransmitBytes
  BY <1>1, <1>2 DEF WTypeOK
<1>4. NoStuckWrite'
  BY <1>2 DEF WriterFlow, NoStuckWrite
<1>5. WriterWakeup' /\ RTSTrue'
  <2>1. CASE UpdateRTS
    BY <2>1, UpdateRTSWakes
  <2>2. CASE wRetransmit = {} /\ wRTS' = (wInHeap' /\ wRTS)
    BY <1>1, <1>2, <2>2 DEF WriterFlow, WriterWakeup, RTSTrue, amRTS
  <2> QED BY <1>2, <2>1, <2>2
<1> QED BY <1>1, <1>2, <1>3, <1>4, <1>5, WriterFlowKept

\* The ack callback of a DATA packet: bytes put back were in no other packet
\* and not in the heap.
LEMMA ackDataFlow ==
  ASSUME WTypeOK, WriterInv, Sent, WriterFlow,
         NEW s \in WSlots, NEW ok \in BOOLEAN, ackData(s, ok)
  PROVE  WriterFlow'
<1> DEFINE m == wOut[s]
           st == AckedState(m, ok)
<1>1. /\ m \in ReaderMsgs /\ m.type = "DATA"
      /\ wOut' = [wOut EXCEPT ![s] = NoData]
      /\ wState' = st
      /\ wBarrier' = wBarrier /\ wPull' = wPull
  BY DEF ackData, WTypeOK
<1>2. /\ st = wState \/ (wState \in {"RETRANSMIT", "INFLIGHT"} /\ m.eof
                         /\ st = IF ok THEN "ACKD" ELSE "RETRANSMIT")
      /\ wState = "RESET" <=> st = "RESET"
  BY DEF AckedState
<1>3. /\ m.off \in Nat /\ m.end \in Nat /\ m.off <= m.end
  BY <1>1 DEF Sent, PacketOK, ReaderMsgs, Offsets
<1>4. Pulled' = Pulled
  BY <1>1 DEF Pulled
<1>5. \A t \in WSlots : wOut[t] = WriterResets => wOut'[t] = wOut[t]
  <2>1. WriterResets.type # "DATA"
    BY DEF WriterResets
  <2>2. \A t \in WSlots \ {s} : wOut'[t] = wOut[t]
    BY <1>1 DEF WTypeOK
  <2>3. wOut[s] # WriterResets
    BY <1>1, <2>1
  <2> QED BY <2>2, <2>3
<1> HIDE DEF m, st
<1>6. CASE /\ ~ ok /\ st # "RESET"
           /\ wRetransmit' = wRetransmit \cup Payload(m)
           /\ wRetransmitBytes' = wRetransmitBytes + (m.end - m.off)
           /\ UNCHANGED <<wSendOffset, wBuffer, wShutdown, wInHeap>>
           /\ UpdateRTS
  <2>1. WriterWakeup' /\ RTSTrue'
    BY <1>6, UpdateRTSWakes
  <2>2. NoStuckWrite'
    BY <1>6 DEF WriterFlow, NoStuckWrite
  <2>3. PlainPackets' /\ SegmentsApart'
    <3>1. NoData \in ReaderMsgs /\ NoData.type = "NONE"
          /\ NoData.off = 0 /\ NoData.end = 0
      BY Parameters DEF NoData, ReaderMsgs, Offsets
    <3>2. Payload(NoData) = {}
      BY <3>1 DEF Payload, Run
    <3>3. Payload(m) \cap Pulled = {} /\ Pulled \cap wRetransmit = {}
      BY DEF m, WriterFlow, SegmentsApart
    <3>4. \A t \in WSlots \ {s} :
             /\ Payload(wOut[t]) \cap Payload(m) = {}
             /\ Payload(wOut[t]) \cap wRetransmit = {}
             /\ Payload(wOut[t]) \cap Pulled = {}
      BY DEF m, WriterFlow, SegmentsApart
    <3>5. Pulled' \cap wRetransmit' = {}
      BY <1>4, <1>6, <3>3
    <3>6. \A t \in WSlots \ {s} : /\ Payload(wOut[t]) \cap wRetransmit' = {}
                                  /\ Payload(wOut[t]) \cap Pulled' = {}
      BY <1>4, <1>6, <3>4
    <3> QED
      BY <1>1, <1>2, <3>1, <3>2, <3>5, <3>6, PacketPut DEF WriterFlow
  <2>4. RetransmitBytes'
    <3>1. Payload(m) \cap wRetransmit = {}
      BY DEF m, WriterFlow, SegmentsApart
    <3>2. Cardinality(wRetransmit') = Cardinality(wRetransmit) + (m.end - m.off)
      BY <1>3, <1>6, <3>1, HeapFinite, PutRun DEF Payload
    <3>3. Cardinality(wRetransmit) \in Nat /\ Cardinality(Pulled) \in Nat
      BY HeapFinite, PulledSize
    <3>4. wRetransmitBytes = Cardinality(wRetransmit) + Cardinality(Pulled)
      BY <1>2, <1>6 DEF WriterFlow, RetransmitBytes
    <3>5. Cardinality(Pulled') = Cardinality(Pulled)
      BY <1>4
    <3> QED BY <1>3, <1>6, <3>2, <3>3, <3>4, <3>5 DEF RetransmitBytes
  <2> QED BY <2>1, <2>2, <2>3, <2>4 DEF WriterFlow
<1>7. CASE /\ ok \/ st = "RESET"
           /\ wRetransmitBytes' = wRetransmitBytes + Progress(wRetransmit)
           /\ wInHeap' => wInHeap
           /\ makeProgress(wRetransmit)
  <2>1. /\ UNCHANGED <<wRetransmit, wBuffer>>
        /\ Progress(wRetransmit) = 0
        /\ \/ UpdateRTS
           \/ wRetransmit = {} /\ wRTS' = (wInHeap' /\ wRTS)
    BY <1>7, NothingToTake DEF WriterFlow
  <2>2. wRetransmitBytes' = wRetransmitBytes
    BY <1>7, <2>1 DEF WTypeOK
  <2>3. NoStuckWrite'
    BY <2>1 DEF WriterFlow, NoStuckWrite
  <2>4. WriterWakeup' /\ RTSTrue'
    <3>1. CASE UpdateRTS
      BY <3>1, UpdateRTSWakes
    <3>2. CASE wRetransmit = {} /\ wRTS' = (wInHeap' /\ wRTS)
      <4>1. /\ amRTS' => amRTS
            /\ wState' = "CONNECTED" => wState = "CONNECTED"
            /\ wState' = "CONNECTED" => ~ amRTS
        BY <1>1, <1>2, <1>7, <2>1, <3>2 DEF amRTS
      <4>2. WriterWakeup'
        BY <1>1, <1>2, <1>5, <1>7, <3>2, <4>1 DEF WriterFlow, WriterWakeup
      <4>3. RTSTrue'
        BY <3>2, <4>1 DEF WriterFlow, RTSTrue
      <4> QED BY <4>2, <4>3
    <3> QED BY <2>1, <3>1, <3>2
  <2>5. PlainPackets' /\ SegmentsApart'
    <3>1. NoData # WriterResets
      BY DEF NoData, WriterResets
    <3> QED BY <1>1, <1>2, <2>1, <3>1, PlainPacketPut DEF WriterFlow
  <2>6. RetransmitBytes'
    BY <1>1, <1>2, <1>4, <2>1, <2>2 DEF WriterFlow, RetransmitBytes
  <2> QED BY <2>3, <2>4, <2>5, <2>6 DEF WriterFlow
<1> QED BY <1>6, <1>7 DEF ackData, Requeue, m, st

\* The ack callback of a WRITER_RESETS: a lost one is due again, a delivered
\* one takes the stream out of the heap.
LEMMA ackWriterResetsFlow ==
  ASSUME WTypeOK, WriterFlow, NEW s \in WSlots, NEW ok \in BOOLEAN,
         ackWriterResets(s, ok)
  PROVE  WriterFlow'
<1>1. /\ wOut[s].type = "WRITER_RESETS"
      /\ wOut' = [wOut EXCEPT ![s] = NoData]
      /\ wInHeap' = (wInHeap /\ ~ ok)
      /\ wRTS' = (wInHeap' /\ (wRTS \/ ~ ok))
      /\ UNCHANGED <<wState, wRetransmit, wRetransmitBytes, wBuffer, wPull>>
  BY DEF ackWriterResets
<1>2. wState = "RESET"
  BY <1>1 DEF WriterFlow, PlainPackets
<1>3. WriterWakeup' /\ RTSTrue'
  BY <1>1, <1>2 DEF WriterWakeup, RTSTrue
<1>4. NoStuckWrite' /\ RetransmitBytes'
  BY <1>1, <1>2 DEF WriterFlow, NoStuckWrite, RetransmitBytes
<1>5. PlainPackets' /\ SegmentsApart'
  BY <1>1, <1>2, PlainPacketPut DEF WriterFlow
<1> QED BY <1>3, <1>4, <1>5 DEF WriterFlow

\* OutStreamQueue.pull of a reset stream.
LEMMA pullResetFlow ==
  ASSUME WTypeOK, WriterFlow, NEW s \in WSlots, pullReset(s)
  PROVE  WriterFlow'
<1>1. /\ wOut' = [wOut EXCEPT ![s] = WriterResets]
      /\ wState = "RESET" /\ wRTS' = FALSE
      /\ UNCHANGED <<wState, wRetransmit, wRetransmitBytes, wBuffer, wPull>>
  BY DEF pullReset
<1>2. wOut'[s] = WriterResets
  BY <1>1 DEF WTypeOK
<1>3. WriterWakeup' /\ RTSTrue'
  BY <1>1, <1>2 DEF WriterWakeup, RTSTrue
<1>4. NoStuckWrite' /\ RetransmitBytes'
  BY <1>1 DEF WriterFlow, NoStuckWrite, RetransmitBytes
<1>5. PlainPackets' /\ SegmentsApart'
  BY <1>1, PlainPacketPut DEF WriterFlow
<1> QED BY <1>3, <1>4, <1>5 DEF WriterFlow

\* pullContiguousSegments: what goes into the packet comes out of the heap,
\* and what the buffer adds was never sent before.
LEMMA PullFromFlow ==
  ASSUME WTypeOK, WriterInv, Sent, WriterFlow,
         NEW s \in WSlots, wOut[s] = NoData,
         NEW off \in Offsets, NEW next \in Offsets, NEW room \in 0 .. PacketMax,
         off <= next, next <= wSendOffset, Run(off, next) = Pulled,
         PullFrom(s, off, next, room)
  PROVE  WriterFlow'
<1>1. PICK end \in next .. (next + room) :
         /\ Run(next, end) \subseteq wRetransmit
         /\ LET ret == wRetransmit \ Run(next, end) IN
            \/ /\ next < end /\ ret = {} /\ wBuffer > 0
               /\ TakeBuffer
               /\ wRetransmitBytes' = wRetransmitBytes + Progress(ret)
               /\ wPull' = Pulling(off, end, room - (end - next))
               /\ UNCHANGED <<wState, wInflight, wBarrier, wShutdown, wInHeap,
                              wOut>>
               /\ UpdateRTS
            \/ /\ ~ (next < end /\ ret = {} /\ wBuffer > 0)
               /\ FinishPull(s, off, end, ret)
  BY DEF PullFrom
<1> DEFINE ret == wRetransmit \ Run(next, end)
<1>2. /\ off \in Nat /\ next \in Nat /\ end \in Nat /\ off <= end /\ next <= end
      /\ wSendOffset \in Nat /\ wBuffer \in Nat /\ room \in Nat
  BY Parameters DEF Offsets, WTypeOK
<1>3. Run(off, end) = Pulled \cup Run(next, end)
  BY <1>2, RunSplit
<1>4. \A t \in WSlots : /\ Payload(wOut[t]) \cap Run(off, end) = {}
                        /\ Payload(wOut[t]) \cap ret = {}
  BY <1>1, <1>3 DEF WriterFlow, SegmentsApart
<1>5. Run(off, end) \cap ret = {}
  BY <1>1, <1>3 DEF WriterFlow, SegmentsApart
<1>6. /\ Cardinality(Pulled) = next - off
      /\ Cardinality(ret) = Cardinality(wRetransmit) - (end - next)
      /\ Cardinality(wRetransmit) \in Nat
  <2>1. Cardinality(Pulled) = next - off
    BY <1>2, RunSize
  <2>2. IsFiniteSet(wRetransmit) /\ Cardinality(wRetransmit) \in Nat
    BY HeapFinite
  <2>3. Cardinality(ret) = Cardinality(wRetransmit) - (end - next)
    BY <1>1, <1>2, <2>2, TakeRun
  <2> QED BY <2>1, <2>2, <2>3
<1>7. Run(off, end) \subseteq Run(0, wSendOffset)
  BY <1>1, <1>3, PayloadsSent DEF WriterFlow, WriterInv
<1>8. CASE /\ next < end /\ ret = {} /\ wBuffer > 0
           /\ TakeBuffer
           /\ wRetransmitBytes' = wRetransmitBytes + Progress(ret)
           /\ wPull' = Pulling(off, end, room - (end - next))
           /\ UNCHANGED <<wState, wOut>>
           /\ UpdateRTS
  <2>1. /\ wRetransmit' = Run(wSendOffset, wSendOffset + wBuffer)
        /\ wBuffer' = 0
    BY <1>8 DEF TakeBuffer
  <2>2. Pulled' = Run(off, end)
    BY <1>8 DEF Pulled, Pulling
  <2>3. WriterWakeup' /\ RTSTrue'
    BY <1>8, UpdateRTSWakes
  <2>4. NoStuckWrite'
    BY <2>1 DEF NoStuckWrite
  <2>5. PlainPackets'
    BY <1>8 DEF WriterFlow, PlainPackets
  <2>6. Run(0, wSendOffset) \cap wRetransmit' = {}
    BY <1>2, <2>1, RunsApart
  <2>7. SegmentsApart'
    <3>1. \A t \in WSlots : Payload(wOut[t]) \subseteq Run(0, wSendOffset)
      BY PayloadsSent DEF WriterFlow
    <3>2. wOut' = wOut
      BY <1>8
    <3> QED BY <1>4, <1>7, <2>2, <2>6, <3>1, <3>2 DEF WriterFlow, SegmentsApart
  <2>8. RetransmitBytes'
    <3>1. Cardinality(wRetransmit') = wBuffer
      BY <1>2, <2>1, RunSize
    <3>2. Cardinality(Pulled') = end - off
      BY <1>2, <2>2, RunSize
    <3>3. Cardinality(ret) = 0 /\ Progress(ret) = wBuffer
      BY <1>8, FS_EmptySet DEF Progress
    <3> QED
      BY <1>2, <1>6, <1>8, <3>1, <3>2, <3>3 DEF WriterFlow, RetransmitBytes
  <2> QED BY <2>3, <2>4, <2>5, <2>7, <2>8 DEF WriterFlow
<1>9. CASE /\ ~ (next < end /\ ret = {} /\ wBuffer > 0)
           /\ FinishPull(s, off, end, ret)
  <2>1. /\ wRetransmit' = ret
        /\ wRetransmitBytes' = wRetransmitBytes - (end - off)
        /\ wPull' = NoPull
        /\ wBuffer' = wBuffer
        /\ UpdateRTS
        /\ wState = "RESET" <=> wState' = "RESET"
    BY <1>9 DEF FinishPull
  <2>2. PICK e \in BOOLEAN : wOut' = [wOut EXCEPT ![s] = DataMsg(off, end, e)]
    BY <1>9 DEF FinishPull
  <2> DEFINE m == DataMsg(off, end, e)
  <2>3. /\ m = [type |-> "DATA", off |-> off, end |-> end, eof |-> e]
        /\ m \in ReaderMsgs
    <3>1. end \in Offsets
      <4>1. next < end => end - 1 \in Run(off, end)
        BY <1>2, RunElement
      <4>2. next < end => end - 1 < wSendOffset
        BY <1>2, <1>7, <4>1, RunElement
      <4>3. wSendOffset <= MaxOffset /\ next <= MaxOffset
        BY Parameters DEF Offsets, WTypeOK
      <4> QED BY <1>2, <4>2, <4>3, Parameters DEF Offsets
    <3> QED BY <3>1 DEF DataMsg, ReaderMsgs
  <2>4. Payload(m) = Run(off, end) /\ m.type = "DATA"
    BY <2>3 DEF Payload
  <2>5. Pulled' = {}
    BY <2>1 DEF Pulled, NoPull
  <2>6. WriterWakeup' /\ RTSTrue'
    BY <2>1, UpdateRTSWakes
  <2>7. NoStuckWrite'
    <3>1. next = end => Run(next, end) = {}
      BY <1>2 DEF Run
    <3> QED BY <1>2, <1>9, <2>1, <3>1 DEF WriterFlow, NoStuckWrite
  <2>8. PlainPackets' /\ SegmentsApart'
    <3> HIDE DEF m
    <3>1. wOut' = [wOut EXCEPT ![s] = m]
      BY <2>2 DEF m
    <3>2. /\ Pulled' \cap wRetransmit' = {}
          /\ Payload(m) \cap wRetransmit' = {}
          /\ Payload(m) \cap Pulled' = {}
      BY <1>5, <2>1, <2>4, <2>5
    <3>3. \A t \in WSlots \ {s} : /\ Payload(m) \cap Payload(wOut[t]) = {}
                                  /\ Payload(wOut[t]) \cap wRetransmit' = {}
                                  /\ Payload(wOut[t]) \cap Pulled' = {}
      BY <1>4, <2>1, <2>4, <2>5
    <3> QED
      BY <2>1, <2>3, <2>4, <3>1, <3>2, <3>3, PacketPut DEF WriterFlow
  <2>9. RetransmitBytes'
    <3>1. Cardinality(Pulled') = 0
      BY <2>5, FS_EmptySet
    <3>2. Cardinality(wRetransmit') = Cardinality(wRetransmit) - (end - next)
      BY <1>6, <2>1
    <3> QED
      BY <1>2, <1>6, <2>1, <3>1, <3>2 DEF WriterFlow, RetransmitBytes
  <2> QED BY <2>6, <2>7, <2>8, <2>9 DEF WriterFlow
<1> QED BY <1>1, <1>8, <1>9

\* OutStreamQueue.pull, begun or continued after a READY callback.
LEMMA pullFlow ==
  ASSUME WTypeOK, WriterInv, Sent, WriterFlow, NEW s \in WSlots,
         wOut[s] = NoData,
         \/ PullResume(s)
         \/ pullReset(s)
         \/ \E room \in 1 .. PacketMax : pullData(s, room)
  PROVE  WriterFlow'
<1> USE Parameters
<1>1. CASE PullResume(s)
  <2>1. PICK off \in Offsets, next \in Offsets, room \in 0 .. PacketMax :
           /\ off = wPull.off /\ next = wPull.next /\ room = wPull.room
           /\ wPull.on /\ PullFrom(s, off, next, room)
    BY <1>1 DEF PullResume, WTypeOK
  <2>2. off <= next /\ next <= wSendOffset /\ Run(off, next) = Pulled
    BY <2>1 DEF WriterInv, Pulled
  <2> QED BY <2>1, <2>2, PullFromFlow
<1>2. CASE pullReset(s)
  BY <1>2, pullResetFlow
<1>3. CASE \E room \in 1 .. PacketMax : pullData(s, room)
  <2>1. PICK room \in 1 .. PacketMax, off \in Offsets :
           /\ off \in wRetransmit \/ off = wSendOffset
           /\ PullFrom(s, off, off, room)
           /\ ~ wPull.on
    BY <1>3 DEF pullData
  <2>2. off <= wSendOffset
    BY <2>1, RunElement DEF WriterInv, WTypeOK, Offsets
  <2>3. Run(off, off) = Pulled
    BY <2>1 DEF Run, Pulled, Offsets
  <2>4. off <= off /\ room \in 0 .. PacketMax
    BY DEF Offsets
  <2> QED BY <2>1, <2>2, <2>3, <2>4, PullFromFlow
<1> QED BY <1>1, <1>2, <1>3

\* What a step of the reading end leaves of the writer's invariant.
LEMMA WriterFlowStutters ==
  ASSUME WriterFlow, UNCHANGED wVars
  PROVE  WriterFlow'
  BY DEF wVars, WriterFlow, NoStuckWrite, WriterWakeup, RTSTrue, amRTS,
         PlainPackets, SegmentsApart, RetransmitBytes, Pulled

\* HostDispatch.recvSegment of a WRITER message.
LEMMA recvWriterMsgFlow ==
  ASSUME WTypeOK, WriterFlow, NEW m, recvWriterMsg(m)
  PROVE  WriterFlow'
BY recvBarrierFlow, resetFlow, WriterFlowStutters DEF recvWriterMsg

----------------------------------------------------------------------------
\* What the events of a handler do to a record that is in the heap
\* afterwards: it was in it before, or it is new.
LEMMA EventsFlow ==
  ASSUME RTypeOK, NEW over, NEW fired, NEW rts, Events(over, fired, rts)
  PROVE  /\ rLife' # "unborn"
         /\ rRTS' => rInHeap'
         /\ rInHeap' => /\ rInHeap \/ rLife = "unborn"
                        /\ ~ (fired /\ rState' = "RESET_DOWN")
         /\ fired /\ rState' = "CONNECTED" =>
               (rRTS' <=> rInHeap' /\ rBarrier' - rLastBarrier' >= BarrierIncrement)
         /\ ~ (fired /\ rState' = "CONNECTED") => (rRTS' <=> rInHeap' /\ rts)
<1>1. /\ fired /\ rState' = "CONNECTED" =>
            (rRTS' <=> rInHeap' /\ rBarrier' - rLastBarrier' >= BarrierIncrement)
      /\ ~ (fired /\ rState' = "CONNECTED") => (rRTS' <=> rInHeap' /\ rts)
      /\ rRTS' => rInHeap'
  BY DEF Events
<1>2. \/ rLife' = "complete"
      \/ /\ ~ (over \/ (fired /\ rState' = "RESET_DOWN"))
         /\ \/ rLife' = "unassigned" /\ rLife # "complete"
            \/ rLife' = "assigned" /\ rLife = "unborn"
            \/ rLife' = rLife /\ rLife # "unborn"
  BY DEF Events
<1> QED BY <1>1, <1>2 DEF rInHeap, RTypeOK

\* OpenWindow leaves a window open, and never lowers the barrier.
LEMMA OpenWindowOpens ==
  ASSUME RTypeOK, OpenWindow, rOffset' \in Int, rReady' \in Int
  PROVE  rBarrier <= rBarrier' /\ ReaderOffset' + rWindow <= rBarrier'
<1> DEFINE x == ReaderOffset' + rWindow
<1>1. x \in Int /\ rBarrier \in Int
  BY DEF RTypeOK, ReaderOffset
<1>2. rBarrier' = Max2(rBarrier, x)
  BY DEF OpenWindow
<1> HIDE DEF x
<1>3. rBarrier <= rBarrier' /\ x <= rBarrier'
  BY <1>1, <1>2 DEF Max2
<1> QED BY <1>3 DEF x

\* InStreamQueue.read: the heap key follows the barrier it has just moved.
LEMMA readNothingFlow ==
  ASSUME RTypeOK, RTypeOK', ReaderInv', ReaderFlow, readNothing
  PROVE  ReaderFlow' /\ rBarrier <= rBarrier'
<1>1. /\ UNCHANGED <<rState, rOffset, rReady, rWindow, rOut>>
      /\ OpenWindow
      /\ rReady = 0 /\ ~ IsReset(rState)
      /\ rReading' = ~ atEOF /\ rEnd' = (rEnd \/ atEOF)
      /\ Events(atEOF, TRUE, rRTS)
  BY DEF readNothing
<1>2. rBarrier <= rBarrier' /\ ReaderOffset' + rWindow <= rBarrier'
  BY <1>1, OpenWindowOpens DEF RTypeOK, Offsets
<1>3. /\ rLife' # "unborn"
      /\ rRTS' => rInHeap'
      /\ rState' = "CONNECTED" =>
            (rRTS' <=> rInHeap' /\ rBarrier' - rLastBarrier' >= BarrierIncrement)
      /\ rState' # "CONNECTED" => (rRTS' <=> rInHeap' /\ rRTS)
  <2>1. rLife' # "unborn" /\ (rRTS' => rInHeap')
    BY <1>1, EventsFlow
  <2>2. rState' = "CONNECTED" =>
            (rRTS' <=> rInHeap' /\ rBarrier' - rLastBarrier' >= BarrierIncrement)
    BY <1>1, EventsFlow
  <2>3. rState' # "CONNECTED" => (rRTS' <=> rInHeap' /\ rRTS)
    BY <1>1 DEF Events
  <2> QED BY <2>1, <2>2, <2>3
<1>4. ReaderWakeup'
  BY <1>1, <1>3 DEF ReaderWakeup, rInHeap, IsReset
<1>5. ReaderKeys'
  BY <1>1, <1>3 DEF ReaderFlow, ReaderKeys
<1>6. ReassemblyInv'
  <2>1. rBarrier' >= ReaderOffset' + rWindow'
    BY <1>1, <1>2 DEF RTypeOK, ReaderOffset
  <2> QED BY <1>1, <1>5, <2>1 DEF ReassemblyInv, ReaderInv, ReaderKeys
<1>7. rEnd' => rState' # "CONNECTED"
  BY <1>1 DEF ReaderFlow, atEOF
<1> QED BY <1>2, <1>4, <1>5, <1>6, <1>7 DEF ReaderFlow

LEMMA readSomeFlow ==
  ASSUME RTypeOK, RTypeOK', ReaderInv', ReaderFlow, NEW n, readSome(n)
  PROVE  ReaderFlow' /\ rBarrier <= rBarrier'
<1>1. /\ UNCHANGED <<rState, rOffset, rWindow, rReading, rEnd, rOut>>
      /\ OpenWindow
      /\ ~ IsReset(rState) /\ ~ rReading
      /\ Events(FALSE, TRUE, rRTS)
  BY DEF readSome
<1>2. rBarrier <= rBarrier' /\ ReaderOffset' + rWindow <= rBarrier'
  BY <1>1, OpenWindowOpens DEF RTypeOK, Offsets
<1>3. /\ rLife' # "unborn"
      /\ rRTS' => rInHeap'
      /\ rState' = "CONNECTED" =>
            (rRTS' <=> rInHeap' /\ rBarrier' - rLastBarrier' >= BarrierIncrement)
      /\ rState' # "CONNECTED" => (rRTS' <=> rInHeap' /\ rRTS)
  <2>1. rLife' # "unborn" /\ (rRTS' => rInHeap')
    BY <1>1, EventsFlow
  <2>2. rState' = "CONNECTED" =>
            (rRTS' <=> rInHeap' /\ rBarrier' - rLastBarrier' >= BarrierIncrement)
    BY <1>1, EventsFlow
  <2>3. rState' # "CONNECTED" => (rRTS' <=> rInHeap' /\ rRTS)
    BY <1>1 DEF Events
  <2> QED BY <2>1, <2>2, <2>3
<1>4. ReaderWakeup'
  BY <1>1, <1>3 DEF ReaderWakeup, rInHeap, IsReset
<1>5. ReaderKeys'
  BY <1>1, <1>3 DEF ReaderFlow, ReaderKeys
<1>6. ReassemblyInv'
  <2>1. rBarrier' >= ReaderOffset' + rWindow'
    BY <1>1, <1>2 DEF RTypeOK, ReaderOffset
  <2> QED BY <1>1, <1>5, <2>1 DEF ReassemblyInv, ReaderInv, ReaderKeys
<1> QED BY <1>1, <1>2, <1>4, <1>5, <1>6 DEF ReaderFlow

\* InStreamQueue.reset by the user, and the arrival of a WRITER_RESETS: the
\* remote writer is to be told, or both ends know.
LEMMA resetReaderFlow ==
  ASSUME RTypeOK, RTypeOK', ReaderInv', ReaderFlow,
         resetReader \/ recvWriterResets
  PROVE  ReaderFlow' /\ rBarrier <= rBarrier'
<1>1. /\ rState' \in {"RESET", "RESET_DOWN"} /\ rReading' = FALSE
      /\ UNCHANGED <<rBarrier, rLastBarrier, rWindow, rEnd, rOut>>
      /\ Events(FALSE, TRUE, TRUE)
  BY DEF resetReader, recvWriterResets, RTypeOK
<1>2. rLife' # "unborn" /\ (rRTS' <=> rInHeap')
  BY <1>1, EventsFlow
<1>3. ReaderWakeup' /\ ReaderKeys'
  BY <1>1, <1>2 DEF ReaderWakeup, ReaderKeys, rInHeap
<1>4. ReassemblyInv'
  BY <1>1, <1>3 DEF ReassemblyInv, ReaderInv, ReaderKeys, IsReset
<1>5. rEnd' => rState' # "CONNECTED"
  BY <1>1
<1>6. rBarrier <= rBarrier'
  BY <1>1 DEF RTypeOK
<1> QED BY <1>3, <1>4, <1>5, <1>6 DEF ReaderFlow

\* A barrier just announced is not due again.
LEMMA NothingNew ==
  \A b, l \in Int : l = b => ~ (b - l >= BarrierIncrement)
  BY ParametersAssumption DEF ParametersAssumption

\* InStreamQueue.pull: the announcement leaves nothing to announce.
LEMMA pullReaderFlow ==
  ASSUME RTypeOK, RTypeOK', ReaderInv', ReaderFlow, NEW s \in RSlots,
         pullBarrier(s) \/ pullReaderResets(s)
  PROVE  ReaderFlow' /\ rBarrier <= rBarrier'
<1>1. /\ UNCHANGED <<rLife, rState, rOffset, rReady, rQueue, rBarrier, rWindow,
                     rReading, rEnd>>
      /\ rInHeap /\ rRTS' = FALSE
      /\ rBarrier <= rBarrier'
  BY DEF pullBarrier, pullReaderResets, RTypeOK
<1>2. ReaderWakeup'
  <2>1. CASE pullBarrier(s)
    <3>1. rState' = "CONNECTED" /\ rLastBarrier' = rBarrier'
      BY <2>1 DEF pullBarrier
    <3>2. ~ (rBarrier' - rLastBarrier' >= BarrierIncrement)
      BY <3>1, NothingNew DEF RTypeOK
    <3> QED BY <1>1, <3>1, <3>2 DEF ReaderWakeup
  <2>2. CASE pullReaderResets(s)
    <3> DEFINE a == [NoAck EXCEPT !.type = "READER_RESETS"]
    <3>1. rOut' = [rOut EXCEPT ![s] = a] /\ IsReset(rState)
      BY <2>2 DEF pullReaderResets
    <3>2. a.type = "READER_RESETS"
      BY DEF NoAck
    <3> HIDE DEF a
    <3>3. rOut'[s] = a
      BY <3>1 DEF RTypeOK
    <3>4. rState' # "CONNECTED"
      BY <1>1, <3>1 DEF IsReset
    <3> QED BY <3>2, <3>3, <3>4 DEF ReaderWakeup
  <2> QED BY <2>1, <2>2
<1>3. ReaderKeys'
  BY <1>1 DEF ReaderKeys, rInHeap
<1>4. ReassemblyInv'
  BY <1>1 DEF ReaderFlow, ReassemblyInv, ReaderOffset
<1> QED BY <1>1, <1>2, <1>3, <1>4 DEF ReaderFlow

\* The ack callbacks of the reader's packets: an answer to an announcement
\* fires the event again when the barrier may be due, a lost reset is due.
LEMMA ackReaderFlow ==
  ASSUME RTypeOK, RTypeOK', ReaderInv, ReaderInv', ReaderFlow,
         NEW s \in RSlots, NEW ok \in BOOLEAN, ackReader(s, ok)
  PROVE  ReaderFlow' /\ rBarrier <= rBarrier'
<1>1. /\ UNCHANGED <<rState, rOffset, rReady, rReading, rEnd>>
      /\ rOut' = [rOut EXCEPT ![s] = NoAck]
  BY DEF ackReader, ackBarrier, nackBarrier, ackReaderResets
<1>2. \A t \in RSlots : rOut[t].type # rOut[s].type => rOut'[t] = rOut[t]
  BY <1>1 DEF RTypeOK
<1>3. rOut[s].type = "READER_BARRIER" =>
         ((\E t \in RSlots : rOut[t].type = "READER_RESETS") =>
             (\E t \in RSlots : rOut'[t].type = "READER_RESETS"))
  BY <1>2
<1>4. /\ rBarrier <= rBarrier'
      /\ ~ IsReset(rState) => rBarrier' >= ReaderOffset + rWindow'
  <2>1. CASE ackBarrier(s)
    <3>1. /\ rBarrier' = Max2(rBarrier, ReaderOffset + rWindow')
          /\ ReaderOffset + rWindow' \in Int /\ rBarrier \in Int
      BY <2>1 DEF ackBarrier, RTypeOK, ReaderOffset, Offsets
    <3> QED BY <3>1 DEF Max2
  <2>2. CASE nackBarrier(s) \/ ackReaderResets(s, ok)
    <3>1. UNCHANGED <<rBarrier, rWindow>>
      BY <2>2 DEF nackBarrier, ackReaderResets
    <3> QED BY <3>1 DEF ReaderFlow, ReassemblyInv, RTypeOK
  <2> QED BY <2>1, <2>2 DEF ackReader
<1>5. rLife = "unborn" => rState = "CONNECTED" /\ ~ rRTS
  BY DEF ReaderInv, ReaderFlow, ReaderKeys, rInHeap
<1>6. rLife' # "unborn" /\ (rRTS' => rInHeap') /\ (rInHeap' => rInHeap \/ rLife = "unborn")
  <2>1. PICK over, fired, rts : Events(over, fired, rts)
    BY DEF ackReader, ackBarrier, nackBarrier, ackReaderResets
  <2> QED BY <2>1, EventsFlow
<1>7. /\ ReaderWakeup'
      /\ rRTS' => rState # "SHUTDOWN"
  <2>1. CASE rOut[s].type = "READER_BARRIER" /\ Events(FALSE, TRUE, rRTS)
    <3>1. rState' = "CONNECTED" =>
              (rRTS' <=> rInHeap' /\ rBarrier' - rLastBarrier' >= BarrierIncrement)
      BY <2>1, EventsFlow
    <3>2. rState' # "CONNECTED" => (rRTS' <=> rInHeap' /\ rRTS)
      BY <2>1 DEF Events
    <3>3. ReaderWakeup'
      BY <1>1, <1>3, <1>5, <1>6, <2>1, <3>1, <3>2 DEF ReaderFlow, ReaderWakeup
    <3> QED BY <1>1, <3>2, <3>3 DEF ReaderFlow, ReaderKeys
  <2>2. CASE /\ rOut[s].type = "READER_BARRIER" /\ Events(FALSE, FALSE, rRTS)
             /\ UNCHANGED <<rBarrier, rLastBarrier>>
    <3>1. rRTS' <=> rInHeap' /\ rRTS
      BY <2>2 DEF Events
    <3>2. rLife = "unborn" => ~ (rBarrier - rLastBarrier >= BarrierIncrement)
      BY ParametersAssumption
         DEF ParametersAssumption, ReaderFlow, ReaderKeys, RTypeOK
    <3>3. ReaderWakeup'
      BY <1>1, <1>3, <1>5, <1>6, <2>2, <3>1, <3>2 DEF ReaderFlow, ReaderWakeup
    <3> QED BY <3>1, <3>3 DEF ReaderFlow, ReaderKeys
  <2>3. CASE ackReaderResets(s, ok)
    <3>1. /\ IsReset(rState)
          /\ Events(ok, FALSE, rRTS \/ ~ ok)
      BY <2>3 DEF ackReaderResets, ReaderInv
    <3>2. rInHeap' => rRTS'
      BY <3>1 DEF Events, rInHeap
    <3> QED BY <1>1, <3>1, <3>2 DEF ReaderWakeup, IsReset
  <2>4. CASE ackBarrier(s)
    BY <2>1, <2>4 DEF ackBarrier
  <2>5. CASE nackBarrier(s)
    <3>1. CASE rLastBarrier = rOut[s].barrier
      BY <2>1, <2>5, <3>1 DEF nackBarrier
    <3>2. CASE rLastBarrier # rOut[s].barrier
      BY <2>2, <2>5, <3>2 DEF nackBarrier
    <3> QED BY <3>1, <3>2
  <2> QED BY <2>3, <2>4, <2>5 DEF ackReader
<1>8. ReaderKeys'
  BY <1>1, <1>6, <1>7 DEF ReaderKeys
<1>9. ReassemblyInv'
  <2>1. ReaderOffset' = ReaderOffset
    BY <1>1 DEF ReaderOffset
  <2> QED BY <1>1, <1>4, <1>7, <2>1 DEF ReaderFlow, ReassemblyInv, ReaderInv
<1> QED BY <1>1, <1>4, <1>7, <1>8, <1>9 DEF ReaderFlow

\* InStreamQueue.recv of a DATA message.
LEMMA recvDATAFlow ==
  ASSUME RTypeOK, RTypeOK', ReaderInv, ReaderInv', ReaderFlow, NEW m \in ReaderMsgs,
         NEW st, \/ rLife = "unborn" /\ st \in {"CONNECTED", "RESET"}
                 \/ rLife = "assigned" /\ st = rState,
         recvDATA(m, st)
  PROVE  ReaderFlow' /\ rBarrier <= rBarrier'
<1> DEFINE ends == m.eof /\ rReading /\ ~ Feeds(m)
                   /\ m.end = rOffset /\ rReady = 0
           now == CASE m.eof /\ st = "CONNECTED" -> "SHUTDOWN"
                    [] m.eof /\ st = "RESET" -> "RESET_DOWN"
                    [] OTHER -> st
<1>1. /\ recvData(m, st)
      /\ rState' = now
      /\ rReading' = (rReading /\ ~ Feeds(m) /\ ~ ends)
      /\ rEnd' = (rEnd \/ ends)
      /\ UNCHANGED <<rLastBarrier, rWindow, rOut>>
      /\ Events(ends, m.eof \/ Feeds(m), KeyAfter(now, st))
  BY DEF recvDATA
<1>2. /\ m.eof /\ st = "CONNECTED" => now = "SHUTDOWN"
      /\ m.eof /\ st = "RESET" => now = "RESET_DOWN"
      /\ ~ (m.eof /\ st \in {"CONNECTED", "RESET"}) => now = st
  OBVIOUS
<1>3. ends => m.eof
  OBVIOUS
<1>4. KeyAfter(now, st) <=> now # "SHUTDOWN" /\ (rRTS \/ st # rState)
  BY DEF KeyAfter
<1> HIDE DEF ends, now
<1>5. /\ rBarrier <= rBarrier'
      /\ Feeds(m) => ReaderOffset' + rWindow <= rBarrier'
      /\ ~ Feeds(m) => UNCHANGED <<rOffset, rReady, rBarrier>>
  <2>1. CASE Feeds(m)
    <3>1. OpenWindow
      BY <1>1, <2>1 DEF recvData, Gaps, Feeds, ReaderMsgs, Offsets, RTypeOK
    <3>2. rOffset' \in Int /\ rReady' \in Int
      BY DEF RTypeOK, Offsets
    <3> QED BY <2>1, <3>1, <3>2, OpenWindowOpens
  <2>2. CASE ~ Feeds(m)
    <3>1. UNCHANGED <<rOffset, rReady, rBarrier>>
      BY <1>1, <2>2 DEF recvData
    <3> QED BY <2>2, <3>1 DEF RTypeOK
  <2> QED BY <2>1, <2>2
<1>6. rLife = "unborn" =>
         /\ rState = "CONNECTED" /\ ~ rRTS /\ ~ rReading /\ ~ rEnd
         /\ ~ (rBarrier - rLastBarrier >= BarrierIncrement)
  <2>1. rLife = "unborn" => ~ (rBarrier - rLastBarrier >= BarrierIncrement)
    BY ParametersAssumption
       DEF ParametersAssumption, ReaderFlow, ReaderKeys, RTypeOK
  <2> QED BY <2>1 DEF ReaderInv, ReaderFlow, ReaderKeys, rInHeap
<1>7. /\ rLife' # "unborn"
      /\ rRTS' => rInHeap'
      /\ (m.eof \/ Feeds(m)) /\ rState' = "CONNECTED" =>
            (rRTS' <=> rInHeap' /\ rBarrier' - rLastBarrier' >= BarrierIncrement)
  BY <1>1, EventsFlow
<1>8. ~ ((m.eof \/ Feeds(m)) /\ rState' = "CONNECTED") =>
         (rRTS' <=> rInHeap' /\ now # "SHUTDOWN" /\ (rRTS \/ st # rState))
  BY <1>1, <1>4 DEF Events
<1>9. ReaderWakeup'
  <2>1. ASSUME rInHeap', rState' = "CONNECTED"
        PROVE  rRTS' <=> rBarrier' - rLastBarrier' >= BarrierIncrement
    <3>1. ~ m.eof /\ st = "CONNECTED" /\ st = rState
      BY <1>1, <1>2, <1>6, <2>1
    <3>2. CASE Feeds(m)
      BY <1>7, <2>1, <3>2
    <3>3. CASE ~ Feeds(m)
      <4>1. rRTS' <=> rRTS
        BY <1>1, <1>8, <2>1, <3>1, <3>3
      <4>2. rBarrier' = rBarrier /\ rLastBarrier' = rLastBarrier
        BY <1>1, <1>5, <3>3
      <4>3. rRTS <=> rBarrier - rLastBarrier >= BarrierIncrement
        BY <1>6, <3>1 DEF ReaderFlow, ReaderWakeup, rInHeap
      <4> QED BY <4>1, <4>2, <4>3
    <3> QED BY <3>2, <3>3
  <2>2. ASSUME rInHeap', rState' = "RESET"
        PROVE  rRTS' \/ \E t \in RSlots : rOut'[t].type = "READER_RESETS"
    <3>1. st = "RESET" /\ now = "RESET"
      BY <1>1, <1>2, <2>2
    <3>2. CASE rLife = "unborn"
      BY <1>1, <1>6, <1>8, <2>2, <3>1, <3>2
    <3>3. CASE rLife = "assigned"
      <4>1. rRTS \/ \E t \in RSlots : rOut[t].type = "READER_RESETS"
        BY <3>1, <3>3 DEF ReaderFlow, ReaderWakeup, rInHeap
      <4> QED BY <1>1, <1>8, <2>2, <3>1, <4>1
    <3> QED BY <3>2, <3>3
  <2> QED BY <2>1, <2>2 DEF ReaderWakeup
<1>10. ReaderKeys'
  BY <1>1, <1>7, <1>8 DEF ReaderKeys
<1>11. ReassemblyInv'
  <2>1. rReading' => rReading /\ ~ Feeds(m)
    BY <1>1
  <2>2. IsReset(rState) => IsReset(rState')
    BY <1>1, <1>2, <1>6 DEF IsReset
  <2>3. rReading' => rReady' = 0 /\ ~ IsReset(rState')
    <3>1. rReading => rLife = "assigned" /\ st = rState /\ rReady = 0
                      /\ ~ IsReset(rState)
      BY <1>6 DEF ReaderFlow, ReassemblyInv
    <3> QED BY <1>1, <1>2, <1>5, <2>1, <3>1 DEF IsReset
  <2>4. ~ IsReset(rState') => rBarrier' >= ReaderOffset' + rWindow'
    <3>1. CASE Feeds(m)
      <4>1. ReaderOffset' + rWindow' <= rBarrier'
        BY <1>1, <1>5, <3>1
      <4> QED BY <4>1 DEF RTypeOK, ReaderOffset
    <3>2. CASE ~ Feeds(m)
      BY <1>1, <1>5, <2>2, <3>2 DEF ReaderFlow, ReassemblyInv, ReaderOffset
    <3> QED BY <3>1, <3>2
  <2> QED BY <1>10, <2>3, <2>4 DEF ReassemblyInv, ReaderInv, ReaderKeys
<1>12. rEnd' => rState' # "CONNECTED"
  BY <1>1, <1>2, <1>3, <1>6 DEF ReaderFlow
<1> QED BY <1>5, <1>9, <1>10, <1>11, <1>12 DEF ReaderFlow

\* What a step of the writing end leaves of the reader's invariant.
LEMMA ReaderFlowStutters ==
  ASSUME RTypeOK, ReaderFlow, UNCHANGED rVars
  PROVE  ReaderFlow' /\ rBarrier <= rBarrier'
  BY DEF rVars, ReaderFlow, ReaderWakeup, ReaderKeys, ReassemblyInv, RTypeOK,
         rInHeap, IsReset, ReaderOffset
----------------------------------------------------------------------------
\* The steps in which the writing end moves, and those in which the reading
\* end does; in every other step it rests.
LEMMA WriterMoves ==
  ASSUME [Next]_vars
  PROVE  \/ UNCHANGED wVars
         \/ WriterUser
         \/ \E s \in WSlots : WriterPulls(s)
         \/ \E s \in WSlots, ok \in BOOLEAN : WriterHears(s, ok)
         \/ \E s \in RSlots : WriterReceives(s)
<1>1. CASE UNCHANGED vars
  BY <1>1 DEF vars
<1>2. CASE User
  BY <1>2 DEF User, ReaderReads, ReaderReset
<1>3. ASSUME NEW s \in WSlots, WriterChannel(s)
      PROVE  UNCHANGED wVars \/ WriterPulls(s)
             \/ \E ok \in BOOLEAN : WriterHears(s, ok)
  BY <1>3 DEF WriterChannel, ReaderReceives, WriterAcked, WriterNacked,
              WriterMisled, LoseData
<1>4. ASSUME NEW s \in RSlots, ReaderChannel(s)
      PROVE  UNCHANGED wVars \/ WriterReceives(s)
  BY <1>4 DEF ReaderChannel, ReaderPulls, ReaderAcked, ReaderNacked,
              ReaderMisled, ReaderHears, LoseCtl
<1> QED BY <1>1, <1>2, <1>3, <1>4 DEF Next

LEMMA ReaderMoves ==
  ASSUME [Next]_vars
  PROVE  \/ UNCHANGED rVars
         \/ ReaderReads
         \/ ReaderReset
         \/ \E s \in RSlots : ReaderPulls(s)
         \/ \E s \in RSlots, ok \in BOOLEAN : ReaderHears(s, ok)
         \/ \E s \in WSlots : ReaderReceives(s)
<1>1. CASE UNCHANGED vars
  BY <1>1 DEF vars
<1>2. CASE User
  BY <1>2 DEF User, WriterUser
<1>3. ASSUME NEW s \in WSlots, WriterChannel(s)
      PROVE  UNCHANGED rVars \/ ReaderReceives(s)
  BY <1>3 DEF WriterChannel, WriterPulls, WriterAcked, WriterNacked,
              WriterMisled, WriterHears, LoseData
<1>4. ASSUME NEW s \in RSlots, ReaderChannel(s)
      PROVE  UNCHANGED rVars \/ ReaderPulls(s)
             \/ \E ok \in BOOLEAN : ReaderHears(s, ok)
  BY <1>4 DEF ReaderChannel, WriterReceives, ReaderAcked, ReaderNacked,
              ReaderMisled, LoseCtl
<1> QED BY <1>1, <1>2, <1>3, <1>4 DEF Next

\* A packet appears when one is filled; otherwise packets only go.
LEMMA CtlPackets ==
  ASSUME TypeOK, [Next]_vars
  PROVE  \/ \A s \in RSlots : rNet'[s] \in {rNet[s], NoCtl}
         \/ \E s \in RSlots : ReaderPulls(s)
<1>1. CASE UNCHANGED rNet
  BY <1>1
<1>2. CASE \E t \in RSlots : rNet' = [rNet EXCEPT ![t] = NoCtl]
  BY <1>2 DEF TypeOK
<1>3. CASE UNCHANGED vars \/ User
  BY <1>1, <1>3 DEF vars, netVars, User, WriterUser, ReaderReads, ReaderReset
<1>4. ASSUME NEW s \in WSlots, WriterChannel(s)
      PROVE  UNCHANGED rNet
  BY <1>4 DEF WriterChannel, WriterPulls, ReaderReceives, WriterAcked,
              WriterNacked, WriterMisled, WriterHears, LoseData
<1>5. ASSUME NEW s \in RSlots, ReaderChannel(s)
      PROVE  \/ UNCHANGED rNet
             \/ rNet' = [rNet EXCEPT ![s] = NoCtl]
             \/ ReaderPulls(s)
  BY <1>5 DEF ReaderChannel, WriterReceives, ReaderAcked, ReaderNacked,
              ReaderMisled, ReaderHears, LoseCtl
<1> QED BY <1>1, <1>2, <1>3, <1>4, <1>5 DEF Next

LEMMA DataPackets ==
  ASSUME TypeOK, [Next]_vars
  PROVE  \/ \A s \in WSlots : /\ wOut'[s] \in {wOut[s], NoData}
                             /\ wNet'[s] \in {wNet[s], NoData}
         \/ \E s \in WSlots : WriterPulls(s)
<1>1. CASE /\ UNCHANGED wOut \/ \E t \in WSlots : wOut' = [wOut EXCEPT ![t] = NoData]
           /\ UNCHANGED wNet \/ \E t \in WSlots : wNet' = [wNet EXCEPT ![t] = NoData]
  BY <1>1 DEF TypeOK, WTypeOK
<1>2. CASE UNCHANGED vars
  BY <1>1, <1>2 DEF vars, wVars, netVars
<1>3. CASE WriterUser
  <2>1. UNCHANGED <<wOut, wNet>>
    BY <1>3 DEF WriterUser, netVars, write, shutdown, shutdownRefused,
                resetWriter, doReset, setPriority
  <2> QED BY <1>1, <2>1
<1>4. CASE ReaderReads \/ ReaderReset
  BY <1>1, <1>4 DEF wVars, netVars, ReaderReads, ReaderReset
<1>5. ASSUME NEW s \in WSlots, WriterChannel(s), ~ WriterPulls(s)
      PROVE  /\ UNCHANGED wOut \/ wOut' = [wOut EXCEPT ![s] = NoData]
             /\ UNCHANGED wNet \/ wNet' = [wNet EXCEPT ![s] = NoData]
  BY <1>5 DEF WriterChannel, ReaderReceives, WriterAcked, WriterNacked,
              WriterMisled, WriterHears, ackWriter, ackData, ackWriterResets,
              LoseData, wVars
<1>6. ASSUME NEW s \in RSlots, ReaderChannel(s)
      PROVE  UNCHANGED <<wOut, wNet>>
  <2>1. CASE WriterReceives(s)
    BY <2>1 DEF WriterReceives, recvWriterMsg, recvBarrier, recvReaderResets,
                doReset, wVars
  <2>2. CASE ~ WriterReceives(s)
    BY <1>6, <2>2 DEF ReaderChannel, ReaderPulls, ReaderAcked, ReaderNacked,
                      ReaderMisled, ReaderHears, LoseCtl, wVars
  <2> QED BY <2>1, <2>2
<1> QED BY <1>1, <1>2, <1>3, <1>4, <1>5, <1>6 DEF Next, User

\* Every step keeps the writer's part of the invariant.
LEMMA WriterFlowNext ==
  ASSUME IInv, WriterFlow, [Next]_vars
  PROVE  WriterFlow'
<1>1. WTypeOK /\ WriterInv /\ Sent
  BY DEF IInv, TypeOK, PacketInv, Sent
<1>2. CASE WriterUser
  BY <1>1, <1>2, writeFlow, shutdownFlow, resetFlow DEF WriterUser
<1>3. ASSUME NEW s \in WSlots, WriterPulls(s)
      PROVE  WriterFlow'
  BY <1>1, <1>3, pullFlow DEF WriterPulls, WFree
<1>4. ASSUME NEW s \in WSlots, NEW ok \in BOOLEAN, WriterHears(s, ok)
      PROVE  WriterFlow'
  BY <1>1, <1>4, ackDataFlow, ackWriterResetsFlow DEF WriterHears, ackWriter
<1>5. ASSUME NEW s \in RSlots, WriterReceives(s)
      PROVE  WriterFlow'
  BY <1>1, <1>5, recvWriterMsgFlow DEF WriterReceives
<1>6. CASE UNCHANGED wVars
  BY <1>6, WriterFlowStutters
<1> QED BY <1>2, <1>3, <1>4, <1>5, <1>6, WriterMoves

\* Every step keeps the reader's, and no step lowers its barrier.
LEMMA ReaderFlowNext ==
  ASSUME IInv, IInv', ReaderFlow, [Next]_vars
  PROVE  ReaderFlow' /\ rBarrier <= rBarrier'
<1>1. RTypeOK /\ ReaderInv /\ RTypeOK' /\ ReaderInv'
  BY DEF IInv, TypeOK
<1>2. CASE ReaderReads
  BY <1>1, <1>2, readNothingFlow, readSomeFlow DEF ReaderReads
<1>3. CASE ReaderReset
  BY <1>1, <1>3, resetReaderFlow DEF ReaderReset
<1>4. ASSUME NEW s \in RSlots, ReaderPulls(s)
      PROVE  ReaderFlow' /\ rBarrier <= rBarrier'
  BY <1>1, <1>4, pullReaderFlow DEF ReaderPulls
<1>5. ASSUME NEW s \in RSlots, NEW ok \in BOOLEAN, ReaderHears(s, ok)
      PROVE  ReaderFlow' /\ rBarrier <= rBarrier'
  BY <1>1, <1>5, ackReaderFlow DEF ReaderHears
<1>6. ASSUME NEW s \in WSlots, ReaderReceives(s)
      PROVE  ReaderFlow' /\ rBarrier <= rBarrier'
  <2>1. PICK m \in ReaderMsgs : m = wNet[s] /\ recvReaderMsg(m)
    BY <1>6 DEF IInv, TypeOK, ReaderReceives
  <2>2. CASE \E st : /\ \/ rLife = "unborn" /\ st \in {"CONNECTED", "RESET"}
                        \/ rLife = "assigned" /\ st = rState
                     /\ recvDATA(m, st)
    BY <1>1, <2>2, recvDATAFlow
  <2>3. CASE recvWriterResets
    BY <1>1, <2>3, resetReaderFlow
  <2>4. CASE UNCHANGED rVars
    BY <1>1, <2>4, ReaderFlowStutters
  <2>5. \/ \E st : /\ \/ rLife = "unborn" /\ st \in {"CONNECTED", "RESET"}
                      \/ rLife = "assigned" /\ st = rState
                   /\ recvDATA(m, st)
        \/ recvWriterResets
        \/ UNCHANGED rVars
    BY <2>1 DEF recvReaderMsg
  <2> QED BY <2>2, <2>3, <2>4, <2>5
<1>7. CASE UNCHANGED rVars
  BY <1>1, <1>7, ReaderFlowStutters
<1> QED BY <1>2, <1>3, <1>4, <1>5, <1>6, <1>7, ReaderMoves

----------------------------------------------------------------------------
\* Every step keeps the barriers true: the writer takes one over from a packet
\* of the reader, and the packet took it from the reader itself.
LEMMA BarriersNext ==
  ASSUME IInv, IInv', BarriersTrue, rBarrier <= rBarrier', [Next]_vars
  PROVE  BarriersTrue'
<1>1. rBarrier \in Nat /\ rBarrier' \in Nat /\ wBarrier \in Nat
  BY DEF IInv, TypeOK, RTypeOK, WTypeOK
<1>2. wBarrier' = wBarrier
      \/ \E s \in RSlots : rNet[s].type = "READER_BARRIER"
                           /\ wBarrier' = rNet[s].barrier
  <2>1. CASE WriterUser
    BY <2>1 DEF WriterUser, write, shutdown, shutdownRefused, resetWriter,
                setPriority
  <2>2. ASSUME NEW s \in WSlots, WriterPulls(s)
        PROVE  wBarrier' = wBarrier
    BY <2>2 DEF WriterPulls, PullResume, pullReset, pullData, PullFrom,
                FinishPull
  <2>3. ASSUME NEW s \in WSlots, NEW ok \in BOOLEAN, WriterHears(s, ok)
        PROVE  wBarrier' = wBarrier
    BY <2>3 DEF WriterHears, ackWriter, ackData, ackWriterResets
  <2>4. ASSUME NEW s \in RSlots, WriterReceives(s)
        PROVE  wBarrier' = wBarrier \/ (rNet[s].type = "READER_BARRIER"
                                        /\ wBarrier' = rNet[s].barrier)
    BY <2>4 DEF WriterReceives, recvWriterMsg, recvBarrier, recvReaderResets,
                wVars
  <2>5. CASE UNCHANGED wVars
    BY <2>5 DEF wVars
  <2> QED BY <2>1, <2>2, <2>3, <2>4, <2>5, WriterMoves
<1>3. wBarrier' <= rBarrier
  BY <1>1, <1>2 DEF BarriersTrue
<1>4. ASSUME NEW s \in RSlots, rNet'[s].type = "READER_BARRIER"
      PROVE  rNet'[s].barrier <= rBarrier
  <2>1. CASE rNet'[s] \in {rNet[s], NoCtl}
    <3>1. NoCtl.type # "READER_BARRIER"
      BY DEF NoCtl
    <3> QED BY <1>4, <2>1, <3>1 DEF BarriersTrue
  <2>2. ASSUME NEW t \in RSlots, ReaderPulls(t)
        PROVE  rNet'[s].barrier <= rBarrier
    <3>1. CASE s # t
      <4>1. rNet'[s] = rNet[s]
        BY <2>2, <3>1 DEF ReaderPulls, IInv, TypeOK
      <4> QED BY <1>4, <4>1 DEF BarriersTrue
    <3>2. CASE s = t /\ pullBarrier(t)
      <4>1. rOut'[t].type = "READER_BARRIER" /\ rOut'[t].barrier = rBarrier
        BY <3>2 DEF pullBarrier, IInv, TypeOK, RTypeOK
      <4>2. rNet'[s] = BarrierMsg(rBarrier)
        BY <2>2, <3>2, <4>1 DEF ReaderPulls, IInv, TypeOK
      <4> QED BY <1>1, <4>2 DEF BarrierMsg
    <3>3. CASE s = t /\ pullReaderResets(t)
      <4> DEFINE a == [NoAck EXCEPT !.type = "READER_RESETS"]
      <4>1. rOut'[t] = a
        BY <3>3 DEF pullReaderResets, IInv, TypeOK, RTypeOK
      <4>2. a.type # "READER_BARRIER"
        BY DEF NoAck
      <4> HIDE DEF a
      <4>3. rNet'[s] = ReaderResets
        BY <2>2, <3>3, <4>1, <4>2 DEF ReaderPulls, IInv, TypeOK
      <4> QED BY <1>4, <4>3 DEF ReaderResets
    <3> QED BY <2>2, <3>1, <3>2, <3>3 DEF ReaderPulls
  <2> QED BY <2>1, <2>2, CtlPackets DEF IInv
<1>5. \A x, y, z \in Int : x <= y /\ y <= z => x <= z
  OBVIOUS
<1>6. ASSUME NEW s \in RSlots, rNet'[s].type = "READER_BARRIER"
      PROVE  rNet'[s].barrier <= rBarrier'
  <2>1. rNet'[s].barrier \in Nat
    BY DEF IInv, TypeOK, WriterMsgs
  <2> QED BY <1>1, <1>4, <1>5, <1>6, <2>1
<1>7. wBarrier' <= rBarrier'
  <2>1. wBarrier' \in Nat
    BY DEF IInv, TypeOK, WTypeOK
  <2> QED BY <1>1, <1>3, <1>5, <2>1
<1> QED BY <1>6, <1>7 DEF BarriersTrue

\* A writer that left AM_CONNECTED never comes back to it, and only pull
\* touches the packet of a suspended pull.
LEMMA WriterLeaves ==
  ASSUME [Next]_vars
  PROVE  /\ wState' = "CONNECTED" => wState = "CONNECTED"
         /\ wPull' = wPull \/ \E s \in WSlots : WriterPulls(s)
<1>1. CASE WriterUser
  BY <1>1 DEF WriterUser, write, shutdown, shutdownRefused, resetWriter,
              doReset, setPriority
<1>2. ASSUME NEW s \in WSlots, WriterPulls(s)
      PROVE  wState' = "CONNECTED" => wState = "CONNECTED"
  BY <1>2 DEF WriterPulls, PullResume, pullReset, pullData, PullFrom,
              FinishPull
<1>3. ASSUME NEW s \in WSlots, NEW ok \in BOOLEAN, WriterHears(s, ok)
      PROVE  wPull' = wPull /\ (wState' = "CONNECTED" => wState = "CONNECTED")
  BY <1>3 DEF WriterHears, ackWriter, ackData, AckedState, ackWriterResets
<1>4. ASSUME NEW s \in RSlots, WriterReceives(s)
      PROVE  wPull' = wPull /\ (wState' = "CONNECTED" => wState = "CONNECTED")
  BY <1>4 DEF WriterReceives, recvWriterMsg, recvBarrier, recvReaderResets,
              doReset, wVars
<1>5. CASE UNCHANGED wVars
  BY <1>5 DEF wVars
<1> QED BY <1>1, <1>2, <1>3, <1>4, <1>5, WriterMoves

\* OutStreamQueue.pull of a live stream: the packet begins 2048 bytes clear of
\* the barrier and is not longer than that.
LEMMA pullWithin ==
  ASSUME IInv, WriterFlow, BarriersTrue, PacketsFit, PullWithinBarrier,
         wState = "CONNECTED", NEW s \in WSlots,
         \/ PullResume(s)
         \/ pullReset(s)
         \/ \E room \in 1 .. PacketMax : pullData(s, room)
  PROVE  /\ wOut' = wOut \/ \E m : wOut' = [wOut EXCEPT ![s] = m]
                                   /\ m.end <= rBarrier
         /\ wPull'.on => wPull'.next + wPull'.room <= rBarrier
<1>1. /\ wBarrier \in Nat /\ rBarrier \in Nat /\ wBarrier <= rBarrier
      /\ wRetransmit \subseteq Int
  BY RunElement DEF IInv, TypeOK, WTypeOK, RTypeOK, BarriersTrue, Bytes
<1>2. PICK off \in Nat, next \in Nat, room \in Nat :
         PullFrom(s, off, next, room) /\ next + room <= rBarrier
  <2>1. CASE PullResume(s)
    BY <2>1 DEF PullResume, PullWithinBarrier, IInv, TypeOK, WTypeOK, Offsets
  <2>2. CASE \E room \in 1 .. PacketMax : pullData(s, room)
    <3>1. PICK room \in 1 .. PacketMax, off \in Offsets :
             /\ \/ off \in wRetransmit /\ \A x \in wRetransmit : off <= x
                \/ wRetransmit = {} /\ off = wSendOffset
             /\ PullFrom(s, off, off, room)
             /\ wRTS
      BY <2>2 DEF pullData
    <3>2. PICK x \in wRetransmit : x < wBarrier - SillyWindow
      BY <3>1 DEF WriterFlow, RTSTrue, amRTS
    <3>3. off <= x /\ off \in Nat /\ room \in Nat
      BY <3>1, <3>2 DEF Offsets
    <3>4. room <= SillyWindow + 1 /\ SillyWindow \in Nat
      BY Parameters, ParametersAssumption DEF PacketsFit, ParametersAssumption
    <3>5. off + room <= rBarrier
      BY <1>1, <3>2, <3>3, <3>4
    <3> QED BY <3>1, <3>3, <3>5
  <2>3. ~ pullReset(s)
    BY DEF pullReset
  <2> QED BY <2>1, <2>2, <2>3
<1>3. PICK end \in next .. (next + room) :
         \/ /\ wPull' = Pulling(off, end, room - (end - next))
            /\ wOut' = wOut
         \/ FinishPull(s, off, end, wRetransmit \ Run(next, end))
  BY <1>2 DEF PullFrom
<1>4. CASE /\ wPull' = Pulling(off, end, room - (end - next))
           /\ wOut' = wOut
  <2>1. wPull'.next = end /\ wPull'.room = room - (end - next)
    BY <1>4 DEF Pulling
  <2>2. end + (room - (end - next)) <= rBarrier
    BY <1>1, <1>2
  <2> QED BY <1>4, <2>1, <2>2
<1>5. CASE FinishPull(s, off, end, wRetransmit \ Run(next, end))
  <2>1. ~ wPull'.on
    BY <1>5 DEF FinishPull, NoPull
  <2>2. PICK e : wOut' = [wOut EXCEPT ![s] = DataMsg(off, end, e)]
    BY <1>5 DEF FinishPull
  <2>3. DataMsg(off, end, e).end <= rBarrier
    BY <1>1, <1>2 DEF DataMsg
  <2> QED BY <2>1, <2>2, <2>3
<1> QED BY <1>3, <1>4, <1>5

\* Every step leaves the packets of a live writer within the barrier.
LEMMA WithinNext ==
  ASSUME IInv, IInv', WriterFlow, BarriersTrue, PacketsFit, PullWithinBarrier,
         ConnectedWithinBarrier, rBarrier <= rBarrier', [Next]_vars
  PROVE  PullWithinBarrier' /\ ConnectedWithinBarrier'
<1> SUFFICES ASSUME wState' = "CONNECTED"
             PROVE  /\ wPull'.on => wPull'.next + wPull'.room <= rBarrier'
                    /\ \A s \in WSlots : /\ wOut'[s].end <= rBarrier'
                                         /\ wNet'[s].end <= rBarrier'
  BY DEF PullWithinBarrier, ConnectedWithinBarrier
<1>1. wState = "CONNECTED"
  BY WriterLeaves
<1>2. rBarrier \in Nat /\ rBarrier' \in Nat
  BY DEF IInv, TypeOK, RTypeOK
<1>3. NoData.end <= rBarrier
  BY <1>2 DEF NoData
<1>4. /\ wPull'.on => wPull'.next + wPull'.room <= rBarrier
      /\ \A s \in WSlots : wOut'[s].end <= rBarrier /\ wNet'[s].end <= rBarrier
  <2>1. ASSUME NEW s \in WSlots, WriterPulls(s)
        PROVE  /\ wPull'.on => wPull'.next + wPull'.room <= rBarrier
               /\ \A t \in WSlots : /\ wOut'[t].end <= rBarrier
                                    /\ wNet'[t].end <= rBarrier
    <3>1. /\ wOut' = wOut \/ \E m : wOut' = [wOut EXCEPT ![s] = m]
                                    /\ m.end <= rBarrier
          /\ wPull'.on => wPull'.next + wPull'.room <= rBarrier
      BY <1>1, <2>1, pullWithin DEF WriterPulls
    <3>2. \A t \in WSlots : wOut'[t].end <= rBarrier
      BY <1>1, <3>1 DEF ConnectedWithinBarrier, IInv, TypeOK, WTypeOK
    <3>3. \A t \in WSlots : wNet'[t] \in {wNet[t], wOut'[t]}
      BY <2>1 DEF WriterPulls, IInv, TypeOK
    <3> QED BY <1>1, <3>1, <3>2, <3>3 DEF ConnectedWithinBarrier
  <2>2. CASE /\ \A s \in WSlots : /\ wOut'[s] \in {wOut[s], NoData}
                                  /\ wNet'[s] \in {wNet[s], NoData}
             /\ wPull' = wPull
    BY <1>1, <1>3, <2>2 DEF ConnectedWithinBarrier, PullWithinBarrier
  <2> QED BY <2>1, <2>2, DataPackets, WriterLeaves DEF IInv
<1>5. \A x, y, z \in Int : x <= y /\ y <= z => x <= z
  OBVIOUS
<1>6. wPull'.on => wPull'.next + wPull'.room <= rBarrier'
  <2>1. wPull'.next + wPull'.room \in Int
    BY DEF IInv, TypeOK, WTypeOK, Offsets
  <2> QED BY <1>2, <1>4, <1>5, <2>1
<1>7. ASSUME NEW s \in WSlots
      PROVE  wOut'[s].end <= rBarrier' /\ wNet'[s].end <= rBarrier'
  <2>1. wOut'[s].end \in Nat /\ wNet'[s].end \in Nat
    BY DEF IInv, TypeOK, WTypeOK, ReaderMsgs, Offsets
  <2> QED BY <1>2, <1>4, <1>5, <2>1
<1> QED BY <1>6, <1>7

----------------------------------------------------------------------------
LEMMA FlowInit == Init => FlowInv
<1> SUFFICES ASSUME Init PROVE FlowInv
  OBVIOUS
<1>1. IInv
  BY InitOK
<1>2. WriterFlow
  <2>1. Pulled = {} /\ Cardinality(Pulled) = 0 /\ Cardinality(wRetransmit) = 0
    BY FS_EmptySet DEF Init, WInit, NoPull, Pulled
  <2>2. \A s \in WSlots : /\ wOut[s] = NoData /\ Payload(wOut[s]) = {}
                          /\ NoData.type = "NONE" /\ NoData.off = 0
                          /\ NoData.end = 0
    BY DEF Init, WInit, NoData, Payload, Run
  <2>3. PlainPackets /\ SegmentsApart
    BY <2>1, <2>2 DEF PlainPackets, SegmentsApart
  <2> QED
    BY <2>1, <2>3 DEF Init, WInit, WriterFlow, NoStuckWrite, WriterWakeup,
                      RTSTrue, amRTS, RetransmitBytes
<1>3. ReaderFlow
  <2>1. ~ rInHeap /\ rState = "CONNECTED" /\ ~ rRTS /\ ~ rReading /\ ~ rEnd
    BY DEF Init, RInit, rInHeap
  <2>2. /\ rBarrier - rLastBarrier < BarrierIncrement
        /\ rBarrier >= ReaderOffset + rWindow
    BY ParametersAssumption
       DEF ParametersAssumption, Init, RInit, ReaderOffset
  <2>3. \A x \in rQueue : rOffset < x
    BY DEF Init, RInit
  <2> QED
    BY <2>1, <2>2, <2>3 DEF ReaderFlow, ReaderWakeup, ReaderKeys, ReassemblyInv
<1>4. BarrierFlow
  <2>1. /\ wBarrier = MinimumWindow /\ rBarrier = MinimumWindow
        /\ MinimumWindow \in Nat
    BY Parameters DEF Init, WInit, RInit
  <2>2. \A s \in RSlots : rNet[s].type # "READER_BARRIER"
    BY DEF Init, NoCtl
  <2>3. ~ wPull.on
    BY DEF Init, WInit, NoPull
  <2>4. \A s \in WSlots : wOut[s].end = 0 /\ wNet[s].end = 0
    BY DEF Init, WInit, NoData
  <2> QED
    BY <2>1, <2>2, <2>3, <2>4 DEF BarrierFlow, BarriersTrue, PullWithinBarrier,
                                  ConnectedWithinBarrier
<1> QED BY <1>2, <1>3, <1>4 DEF FlowInv

LEMMA FlowNext == IInv /\ IInv' /\ FlowInv /\ [Next]_vars => FlowInv'
<1> SUFFICES ASSUME IInv, IInv', FlowInv, [Next]_vars PROVE FlowInv'
  OBVIOUS
<1>1. WriterFlow'
  BY WriterFlowNext DEF FlowInv
<1>2. ReaderFlow' /\ rBarrier <= rBarrier'
  BY ReaderFlowNext DEF FlowInv
<1>3. BarriersTrue'
  BY <1>2, BarriersNext DEF FlowInv, BarrierFlow
<1>4. PacketsFit => PullWithinBarrier' /\ ConnectedWithinBarrier'
  BY <1>2, WithinNext DEF FlowInv, BarrierFlow
<1>5. BarrierFlow'
  BY <1>3, <1>4 DEF BarrierFlow, PacketsFit
<1> QED BY <1>1, <1>2, <1>5 DEF FlowInv

\* FlowInv holds in every state a stream and its packets can reach.
THEOREM FlowInvariance == Spec => []FlowInv
<1>1. Init => FlowInv
  BY FlowInit
<1>2. IInv /\ IInv' /\ FlowInv /\ [Next]_vars => FlowInv'
  BY FlowNext
<1> QED BY <1>1, <1>2, Invariance, PTL DEF Spec

\* updateRTS is never forgotten by any handler of the two queues, and a write
\* that waits is behind data whose ack will release it.
THEOREM NobodyOversleeps == Spec => []NobodySleeps
<1>1. FlowInv => NobodySleeps
  BY DEF FlowInv, WriterFlow, ReaderFlow, NobodySleeps
<1> QED BY <1>1, FlowInvariance, PTL

\* OutStreamQueue's "retransmitBytes = sum of lengths in retransmit", however
\* packets are split, acked, given up and filled again.
THEOREM RetransmitBytesCount == Spec => []RetransmitBytes
<1>1. FlowInv => RetransmitBytes
  BY DEF FlowInv, WriterFlow
<1> QED BY <1>1, FlowInvariance, PTL

\* InStreamQueue's reassembly: the queue lies beyond the ready data, a read
\* waits only for what is not there, the window stays open, and pull is never
\* asked for the state in which it raises Fail "unreachable".
THEOREM ReassemblyHolds == Spec => []ReassemblyInv
<1>1. FlowInv => ReassemblyInv
  BY DEF FlowInv, ReaderFlow
<1> QED BY <1>1, FlowInvariance, PTL

\* "The sender is not allowed to exceed this barrier": with packets no longer
\* than amRTS's margin of 2048 bytes, no live writer does.
THEOREM BarrierIsKept ==
  ASSUME PacketsFit
  PROVE  Spec => []ConnectedWithinBarrier
<1>1. FlowInv => ConnectedWithinBarrier
  BY DEF FlowInv, BarrierFlow
<1> QED BY <1>1, FlowInvariance, PTL
-----------------------------------------------------------------------------
(* The refinement of StreamService. *)

\* The variables of the service, as CuspStreamRefinement maps them.
Handed == wSendOffset + wBuffer
Arrived == IF Saw = "reset" THEN 0 ELSE rOffset
Got == IF Saw = "reset" THEN 0 ELSE ReaderOffset
Verdict == IF wShutdown = "refused" THEN "none" ELSE wShutdown
Gone == wState = "RESET"

\* A step the service does not see.
Unseen == UNCHANGED <<Handed, Arrived, Got, Verdict, Gone, Saw>>

ServiceStep == Service!Next \/ Unseen

----------------------------------------------------------------------------
\* What it takes to be a step of the service.
LEMMA AsUnseen == Unseen => UNCHANGED Service!vars
  BY DEF Unseen, Service!vars, Handed, Arrived, Got, Verdict, Gone

LEMMA AsWrite ==
  ASSUME ~ Gone, Verdict = "none", Handed' \in (Handed + 1) .. MaxOffset,
         UNCHANGED <<Arrived, Got, Verdict, Gone, Saw>>
  PROVE  Service!Next
  BY DEF Service!Next, Service!Write, Handed, Arrived, Got, Verdict, Gone

LEMMA AsShutdown ==
  ASSUME ~ Gone, Verdict = "none", Verdict' = "pending",
         UNCHANGED <<Handed, Arrived, Got, Gone, Saw>>
  PROVE  Service!Next
  BY DEF Service!Next, Service!Shutdown, Handed, Arrived, Got, Verdict, Gone

LEMMA AsResetWriter ==
  ASSUME Gone', Handed' \in Arrived .. Handed,
         Verdict' = IF Verdict = "pending" THEN "false" ELSE Verdict,
         UNCHANGED <<Arrived, Got, Saw>>
  PROVE  Service!Next
  BY DEF Service!Next, Service!ResetWriter, Handed, Arrived, Got, Verdict,
         Gone

LEMMA AsConfirm ==
  ASSUME Verdict = "pending", Saw = "reset" \/ Arrived = Handed,
         Verdict' = "true",
         UNCHANGED <<Handed, Arrived, Got, Gone, Saw>>
  PROVE  Service!Next
  BY DEF Service!Next, Service!Confirm, Handed, Arrived, Got, Verdict, Gone

LEMMA AsDeliver ==
  ASSUME Saw = "open", Arrived' \in Arrived .. Handed, Got' \in Got .. Arrived',
         UNCHANGED <<Handed, Verdict, Gone, Saw>>
  PROVE  Service!Next
  BY DEF Service!Next, Service!Deliver, Handed, Arrived, Got, Verdict, Gone

LEMMA AsEnd ==
  ASSUME Saw = "open", Verdict # "none", Got = Handed, Saw' = "end",
         UNCHANGED <<Handed, Arrived, Got, Verdict, Gone>>
  PROVE  Service!Next
  BY DEF Service!Next, Service!End, Handed, Arrived, Got, Verdict, Gone

LEMMA AsResetReader ==
  ASSUME Saw = "open", Saw' = "reset", Arrived' = 0, Got' = 0,
         UNCHANGED <<Handed, Verdict, Gone>>
  PROVE  Service!Next
  BY DEF Service!Next, Service!ResetReader, Handed, Arrived, Got, Verdict,
         Gone

----------------------------------------------------------------------------
\* What the reader's user knows does not change while the reader rests.
LEMMA ReaderRests ==
  ASSUME UNCHANGED rVars
  PROVE  UNCHANGED <<Arrived, Got, Saw>>
  BY DEF rVars, Arrived, Got, Saw, ReaderOffset, IsReset

\* What has arrived was sent.
LEMMA ArrivedSent ==
  ASSUME IInv
  PROVE  /\ Arrived \in Nat /\ Handed \in Nat /\ wSendOffset \in Nat
         /\ Arrived <= wSendOffset /\ wSendOffset <= Handed
         /\ wState # "CONNECTED" => Handed = wSendOffset
  BY DEF IInv, TypeOK, WTypeOK, RTypeOK, Offsets, WriterInv, ReceivedInv,
         Arrived, Handed

\* OutStreamQueue.write and shutdown.
LEMMA writeServes ==
  ASSUME IInv, NEW n \in 1 .. MaxWrite, write(n), UNCHANGED rVars
  PROVE  Service!Next
<1>1. /\ wState = "CONNECTED" /\ wBuffer = 0 /\ n \in Nat /\ 1 <= n
      /\ wSendOffset \in Nat /\ wSendOffset + n <= MaxOffset
      /\ UNCHANGED <<wState, wShutdown>>
  BY Parameters DEF write, IInv, TypeOK, WTypeOK, Offsets
<1>2. \/ wBuffer' = n /\ wSendOffset' = wSendOffset
      \/ wSendOffset' = wSendOffset + n /\ wBuffer' = wBuffer
  BY DEF write
<1>3. Handed' = Handed + n
  BY <1>1, <1>2 DEF Handed
<1>4. Handed' \in (Handed + 1) .. MaxOffset
  BY <1>1, <1>3, Parameters DEF Handed
<1>5. ~ Gone /\ Verdict = "none" /\ Gone' = Gone /\ Verdict' = Verdict
  BY <1>1 DEF Gone, Verdict, IInv, WriterInv
<1> QED BY <1>4, <1>5, ReaderRests, AsWrite

LEMMA shutdownServes ==
  ASSUME IInv, shutdown \/ shutdownRefused \/ setPriority, UNCHANGED rVars
  PROVE  ServiceStep
<1>1. Handed' = Handed
  BY DEF shutdown, shutdownRefused, setPriority, Handed
<1>2. CASE shutdown
  <2>1. ~ Gone /\ Verdict = "none" /\ Verdict' = "pending" /\ Gone' = Gone
    BY <1>2 DEF shutdown, Gone, Verdict, IInv, WriterInv
  <2> QED BY <1>1, <2>1, ReaderRests, AsShutdown DEF ServiceStep
<1>3. CASE shutdownRefused \/ setPriority
  <2>1. Gone' = Gone /\ Verdict' = Verdict
    BY <1>3 DEF shutdownRefused, setPriority, Gone, Verdict
  <2> QED BY <1>1, <2>1, ReaderRests DEF ServiceStep, Unseen
<1> QED BY <1>2, <1>3

\* OutStreamQueue.doReset.
LEMMA resetServes ==
  ASSUME IInv, resetWriter \/ recvReaderResets, UNCHANGED rVars
  PROVE  Service!Next
<1>1. /\ wState' = "RESET" /\ wBuffer' = 0 /\ wSendOffset' = wSendOffset
      /\ wShutdown' = IF wShutdown = "pending" THEN "false" ELSE wShutdown
  BY DEF resetWriter, recvReaderResets, doReset
<1>2. Handed' = wSendOffset
  BY <1>1, ArrivedSent DEF Handed
<1>3. Handed' \in Arrived .. Handed
  BY <1>2, ArrivedSent
<1>4. Gone' /\ Verdict' = IF Verdict = "pending" THEN "false" ELSE Verdict
  BY <1>1 DEF Gone, Verdict
<1> QED BY <1>3, <1>4, ReaderRests, AsResetWriter

\* OutStreamQueue.pull: what leaves the buffer has only been moved.
LEMMA pullServes ==
  ASSUME IInv, NEW s \in WSlots, UNCHANGED rVars,
         \/ PullResume(s)
         \/ pullReset(s)
         \/ \E room \in 1 .. PacketMax : pullData(s, room)
  PROVE  Unseen
<1>1. wSendOffset \in Nat /\ wBuffer \in Nat
  BY DEF IInv, TypeOK, WTypeOK, Offsets
<1>2. /\ UNCHANGED wShutdown
      /\ wState' = "RESET" <=> wState = "RESET"
      /\ UNCHANGED <<wSendOffset, wBuffer>> \/ TakeBuffer
  BY DEF PullResume, pullReset, pullData, PullFrom, FinishPull
<1>3. Handed' = Handed
  BY <1>1, <1>2 DEF Handed, TakeBuffer
<1>4. Gone' = Gone /\ Verdict' = Verdict
  BY <1>2 DEF Gone, Verdict
<1> QED BY <1>3, <1>4, ReaderRests DEF Unseen

\* The ack callbacks of the writer's packets: a shutdown hears true when the
\* reader has everything, or was reset.
LEMMA ackWriterServes ==
  ASSUME IInv, IInv', FlowInv, NEW s \in WSlots, NEW ok \in BOOLEAN,
         ackData(s, ok) \/ ackWriterResets(s, ok), UNCHANGED rVars
  PROVE  ServiceStep
<1> DEFINE m == wOut[s]
           st == AckedState(m, ok)
<1>1. CASE ackWriterResets(s, ok)
  <2>1. UNCHANGED <<wState, wSendOffset, wBuffer, wShutdown>>
    BY <1>1 DEF ackWriterResets
  <2>2. UNCHANGED <<Handed, Gone, Verdict>>
    BY <2>1 DEF Handed, Gone, Verdict
  <2> QED BY <2>2, ReaderRests DEF ServiceStep, Unseen
<1>2. CASE ackData(s, ok)
  <2>1. /\ wState' = st
        /\ st = "RESET" <=> wState = "RESET"
        /\ st = "ACKD" => wState # "CONNECTED"
    BY <1>2 DEF ackData, AckedState
  <2>2. Gone' = Gone
    BY <2>1 DEF Gone
  <2>3. CASE UNCHANGED <<wSendOffset, wBuffer, wShutdown>>
    <3>1. UNCHANGED <<Handed, Verdict>>
      BY <2>3 DEF Handed, Verdict
    <3> QED BY <2>2, <3>1, ReaderRests DEF ServiceStep, Unseen
  <2>4. CASE /\ makeProgress(wRetransmit)
             /\ st = "ACKD" /\ wShutdown = "pending" /\ wShutdown' = "true"
    <3>1. UNCHANGED <<wSendOffset, wBuffer>>
      BY <2>4, NothingToTake DEF FlowInv, WriterFlow, IInv, TypeOK
    <3>2. Handed' = Handed /\ Handed = wSendOffset
      BY <2>1, <2>4, <3>1, ArrivedSent DEF Handed
    <3>3. Verdict = "pending" /\ Verdict' = "true"
      BY <2>4 DEF Verdict
    <3>4. IsReset(rState) \/ rOffset = wSendOffset
      BY <2>4, <3>1 DEF IInv, DeliveryTruth, rVars, IsReset
    <3>5. Saw = "reset" \/ Arrived = Handed
      BY <3>2, <3>4 DEF Saw, Arrived, IInv, EofTruth
    <3> QED BY <2>2, <3>2, <3>3, <3>5, ReaderRests, AsConfirm DEF ServiceStep
  <2>5. \/ UNCHANGED <<wSendOffset, wBuffer, wShutdown>>
        \/ /\ makeProgress(wRetransmit)
           /\ \/ wShutdown' = wShutdown
              \/ st = "ACKD" /\ wShutdown = "pending" /\ wShutdown' = "true"
    BY <1>2 DEF ackData, amDone
  <2>6. makeProgress(wRetransmit) => UNCHANGED <<wSendOffset, wBuffer>>
    BY NothingToTake DEF FlowInv, WriterFlow, IInv, TypeOK
  <2> QED BY <2>3, <2>4, <2>5, <2>6
<1> QED BY <1>1, <1>2

\* OutStreamQueue.recv.
LEMMA recvWriterMsgServes ==
  ASSUME IInv, FlowInv, NEW m, recvWriterMsg(m), UNCHANGED rVars
  PROVE  ServiceStep
<1>1. CASE recvReaderResets
  BY <1>1, resetServes DEF ServiceStep
<1>2. CASE UNCHANGED wVars \/ recvBarrier(m.barrier)
  <2>1. UNCHANGED <<wSendOffset, wBuffer>>
    BY <1>2, NothingToTake
       DEF wVars, recvBarrier, FlowInv, WriterFlow, IInv, TypeOK
  <2>2. UNCHANGED <<wState, wShutdown>>
    BY <1>2 DEF wVars, recvBarrier
  <2>3. UNCHANGED <<Handed, Gone, Verdict>>
    BY <2>1, <2>2 DEF Handed, Gone, Verdict
  <2> QED BY <2>3, ReaderRests DEF ServiceStep, Unseen
<1> QED BY <1>1, <1>2 DEF recvWriterMsg

----------------------------------------------------------------------------
\* What the writer's user knows does not change while the writer rests.
LEMMA WriterRests ==
  ASSUME UNCHANGED wVars
  PROVE  UNCHANGED <<Handed, Verdict, Gone>>
  BY DEF wVars, Handed, Verdict, Gone

\* A step that changes neither what arrived, nor what is ready, nor how the
\* stream ended.
LEMMA ReaderUnseen ==
  ASSUME UNCHANGED wVars, UNCHANGED <<rOffset, rReady, Saw>>
  PROVE  Unseen
  BY WriterRests DEF Unseen, Arrived, Got, ReaderOffset

\* The end, when it is seen: the writer was shut down, and the user has been
\* given all of it.
LEMMA EndServes ==
  ASSUME IInv, UNCHANGED wVars, UNCHANGED <<rOffset, rReady>>,
         Saw = "open", rEnd', rReady = 0, WasShutdown, rOffset = wSendOffset
  PROVE  Service!Next
<1>1. Verdict # "none"
  BY DEF WasShutdown, Verdict
<1>2. Handed = wSendOffset
  <2>1. wState # "CONNECTED"
    BY DEF IInv, WriterInv, WasShutdown
  <2> QED BY <2>1, ArrivedSent
<1>3. Got = Handed
  <2>1. Got = rOffset
    <3>1. rOffset \in Nat
      BY DEF IInv, TypeOK, RTypeOK, Offsets
    <3> QED BY <3>1 DEF Got, ReaderOffset
  <2> QED BY <1>2, <2>1
<1>4. Saw' = "end"
  BY DEF Saw
<1>5. UNCHANGED <<Arrived, Got>>
  BY <1>4 DEF Arrived, Got, ReaderOffset
<1> QED BY <1>1, <1>3, <1>4, <1>5, WriterRests, AsEnd

\* InStreamQueue.read.
LEMMA readNothingServes ==
  ASSUME IInv, readNothing, UNCHANGED wVars
  PROVE  ServiceStep
<1>1. /\ ~ IsReset(rState) /\ rReady = 0
      /\ UNCHANGED <<rState, rOffset, rReady>>
      /\ rEnd' = (rEnd \/ atEOF)
  BY DEF readNothing
<1>2. CASE atEOF /\ ~ rEnd
  <2>1. WasShutdown /\ rOffset = wSendOffset
    BY <1>2 DEF atEOF, IInv, EofTruth
  <2>2. Saw = "open" /\ rEnd'
    BY <1>1, <1>2 DEF Saw
  <2> QED BY <1>1, <2>1, <2>2, EndServes DEF ServiceStep
<1>3. CASE ~ (atEOF /\ ~ rEnd)
  <2>1. rEnd \in BOOLEAN
    BY DEF IInv, TypeOK, RTypeOK
  <2>2. rEnd' = rEnd
    BY <1>1, <1>3, <2>1
  <2>3. Saw' = Saw
    BY <1>1, <2>2 DEF Saw
  <2> QED BY <1>1, <2>3, ReaderUnseen DEF ServiceStep
<1> QED BY <1>2, <1>3

LEMMA readSomeServes ==
  ASSUME IInv, NEW n \in Offsets, readSome(n), UNCHANGED wVars
  PROVE  Service!Next
<1>1. /\ rReady \in Nat /\ rOffset \in Nat /\ rReady <= rOffset
      /\ n \in Nat /\ 1 <= n /\ n <= rReady
  BY DEF readSome, IInv, TypeOK, RTypeOK, ReaderInv, Offsets
<1>2. /\ ~ IsReset(rState) /\ rReady' = rReady - n
      /\ UNCHANGED <<rState, rOffset, rEnd>>
  BY DEF readSome
<1>3. Saw = "open" /\ Saw' = "open"
  <2>1. ~ rEnd
    BY <1>1 DEF IInv, EofTruth
  <2> QED BY <1>2, <2>1 DEF Saw
<1>4. Arrived = rOffset /\ Arrived' = rOffset
  BY <1>2, <1>3 DEF Arrived
<1>5. Got = rOffset - rReady /\ Got' = rOffset - (rReady - n)
  BY <1>2, <1>3 DEF Got, ReaderOffset
<1>6. Arrived' \in Arrived .. Handed
  BY <1>1, <1>4, ArrivedSent
<1>7. Got' \in Got .. Arrived'
  BY <1>1, <1>4, <1>5
<1> QED BY <1>3, <1>6, <1>7, WriterRests, AsDeliver

\* InStreamQueue.reset, and recv of WRITER_RESETS.
LEMMA resetReaderServes ==
  ASSUME IInv, resetReader \/ recvWriterResets, UNCHANGED wVars
  PROVE  ServiceStep
<1>1. /\ UNCHANGED <<rOffset, rEnd>> /\ rReady' = 0
      /\ IsReset(rState')
  BY DEF resetReader, recvWriterResets, IsReset, IInv, TypeOK, RTypeOK
<1>2. CASE rEnd
  <2>1. rReady = 0
    BY <1>2 DEF IInv, EofTruth
  <2>2. Saw' = Saw
    BY <1>1, <1>2 DEF Saw
  <2> QED BY <1>1, <2>1, <2>2, ReaderUnseen DEF ServiceStep
<1>3. CASE ~ rEnd /\ IsReset(rState)
  <2>1. Saw = "reset" /\ Saw' = "reset"
    BY <1>1, <1>3 DEF Saw
  <2> QED BY <2>1, WriterRests DEF ServiceStep, Unseen, Arrived, Got
<1>4. CASE ~ rEnd /\ ~ IsReset(rState)
  <2>1. Saw = "open" /\ Saw' = "reset"
    BY <1>1, <1>4 DEF Saw
  <2>2. Arrived' = 0 /\ Got' = 0
    BY <2>1 DEF Arrived, Got
  <2> QED BY <2>1, <2>2, WriterRests, AsResetReader DEF ServiceStep
<1> QED BY <1>2, <1>3, <1>4

\* The bytes that a packet brings: those before it have arrived, and a
\* waiting read takes only new ones.
LEMMA FeedServes ==
  ASSUME IInv, NEW m \in ReaderMsgs, m.end <= wSendOffset, m.off <= m.end,
         NEW st, recvData(m, st), Feeds(m), UNCHANGED wVars,
         Saw = "open", Saw' = "open", ~ IsReset(st)
  PROVE  Service!Next
<1>1. /\ rReady \in Nat /\ rOffset \in Nat /\ m.end \in Nat
      /\ rOffset < m.end /\ wSendOffset \in Nat
  BY DEF IInv, TypeOK, RTypeOK, WTypeOK, Offsets, ReaderMsgs, Feeds
<1>2. PICK o \in FirstGap(m.end),
           n \in IF rReading THEN 0 .. (m.end - rOffset) ELSE {0} :
         /\ rOffset' = o
         /\ rReady' = rReady + (o - (rOffset + n))
  <2>1. ~ Gaps(m)
    BY <1>1 DEF Gaps, Feeds, ReaderMsgs, Offsets
  <2>2. \E o \in FirstGap(m.end) :
        \E n \in IF rReading THEN 0 .. (m.end - rOffset) ELSE {0} :
           /\ rOffset' = o
           /\ rQueue' = {x \in rQueue : o < x}
           /\ rReady' = IF IsReset(st) THEN 0
                        ELSE rReady + (o - (rOffset + n))
    BY <2>1, Zenon DEF recvData
  <2> QED BY <2>2, Zenon
<1>3. o \in Nat /\ m.end <= o
  BY <1>1, Parameters DEF FirstGap
<1>4. n \in Nat /\ n <= m.end - rOffset
  BY <1>1, <1>2
<1>5. o <= wSendOffset
  <2>1. rOffset' <= wSendOffset
    BY recvDataOK DEF IInv, TypeOK, WTypeOK
  <2> QED BY <1>2, <2>1
<1>6. Arrived = rOffset /\ Arrived' = o
  BY <1>2 DEF Arrived
<1>7. Got = rOffset - rReady /\ Got' = o - (rReady + (o - (rOffset + n)))
  BY <1>2 DEF Got, ReaderOffset
<1>8. Arrived' \in Arrived .. Handed
  <2>1. wSendOffset <= Handed /\ Handed \in Nat
    BY ArrivedSent
  <2> QED BY <1>1, <1>3, <1>5, <1>6, <2>1
<1>9. Got' \in Got .. Arrived'
  BY <1>1, <1>3, <1>4, <1>6, <1>7
<1> QED BY <1>8, <1>9, WriterRests, AsDeliver

\* InStreamQueue.recv of DATA.
LEMMA recvDATAServes ==
  ASSUME IInv, FlowInv, NEW m \in ReaderMsgs, m.type = "DATA", PacketOK(m),
         NEW st, \/ rLife = "unborn" /\ st \in {"CONNECTED", "RESET"}
                 \/ rLife = "assigned" /\ st = rState,
         recvDATA(m, st), UNCHANGED wVars
  PROVE  ServiceStep
<1> DEFINE ends == m.eof /\ rReading /\ ~ Feeds(m)
                   /\ m.end = rOffset /\ rReady = 0
           now == CASE m.eof /\ st = "CONNECTED" -> "SHUTDOWN"
                    [] m.eof /\ st = "RESET" -> "RESET_DOWN"
                    [] OTHER -> st
<1>1. recvData(m, st) /\ rState' = now /\ rEnd' = (rEnd \/ ends)
  BY DEF recvDATA
<1>2. /\ m.off <= m.end /\ m.end <= wSendOffset
      /\ m.eof => WasShutdown /\ m.end = wSendOffset
      /\ m.end \in Nat /\ rOffset \in Nat /\ wSendOffset \in Nat
      /\ rEnd \in BOOLEAN
  BY DEF PacketOK, ReaderMsgs, Offsets, IInv, TypeOK, RTypeOK, WTypeOK
<1>3. IsReset(rState') <=> IsReset(st)
  BY <1>1 DEF IsReset
<1>4. ~ Feeds(m) => UNCHANGED <<rOffset, rReady>>
  BY <1>1, <1>2, recvDataOK DEF IInv, TypeOK, WTypeOK
<1>5. rLife = "unborn" => ~ rReading /\ ~ rEnd /\ rState = "CONNECTED"
  BY DEF FlowInv, ReaderFlow, ReaderKeys, IInv, ReaderInv
<1>6. IsReset(rState) => ~ rReading
  BY DEF FlowInv, ReaderFlow, ReassemblyInv
<1> HIDE DEF ends, now
<1>7. CASE rEnd
  <2>1. rOffset = wSendOffset
    BY <1>7 DEF IInv, EofTruth
  <2>2. ~ Feeds(m)
    BY <1>2, <2>1 DEF Feeds
  <2>3. Saw' = Saw
    BY <1>1, <1>7 DEF Saw
  <2> QED BY <1>4, <2>2, <2>3, ReaderUnseen DEF ServiceStep
<1>8. CASE ~ rEnd /\ IsReset(rState)
  <2>1. IsReset(rState') /\ ~ rEnd'
    BY <1>1, <1>3, <1>5, <1>6, <1>8 DEF IsReset, ends
  <2>2. Saw = "reset" /\ Saw' = "reset"
    BY <1>8, <2>1 DEF Saw
  <2> QED BY <2>2, WriterRests DEF ServiceStep, Unseen, Arrived, Got
<1>9. CASE ~ rEnd /\ ~ IsReset(rState) /\ IsReset(st)
  <2>1. IsReset(rState') /\ ~ rEnd'
    BY <1>1, <1>3, <1>5, <1>9 DEF IsReset, ends
  <2>2. Saw = "open" /\ Saw' = "reset"
    BY <1>9, <2>1 DEF Saw
  <2>3. Arrived' = 0 /\ Got' = 0
    BY <2>2 DEF Arrived, Got
  <2> QED BY <2>2, <2>3, WriterRests, AsResetReader DEF ServiceStep
<1>10. CASE ~ rEnd /\ ~ IsReset(rState) /\ ~ IsReset(st)
  <2>1. Saw = "open"
    BY <1>10 DEF Saw
  <2>2. CASE ends
    <3>1. /\ rEnd' /\ rReady = 0 /\ ~ Feeds(m)
          /\ WasShutdown /\ rOffset = wSendOffset
      BY <1>1, <1>2, <2>2 DEF ends
    <3> QED BY <1>4, <2>1, <3>1, EndServes DEF ServiceStep
  <2>3. CASE ~ ends
    <3>1. Saw' = "open"
      BY <1>1, <1>3, <1>10, <2>3 DEF Saw
    <3>2. CASE Feeds(m)
      BY <1>1, <1>2, <1>10, <2>1, <3>1, <3>2, FeedServes DEF ServiceStep
    <3>3. CASE ~ Feeds(m)
      BY <1>4, <2>1, <3>1, <3>3, ReaderUnseen DEF ServiceStep
    <3> QED BY <3>2, <3>3
  <2> QED BY <2>2, <2>3
<1> QED BY <1>7, <1>8, <1>9, <1>10

----------------------------------------------------------------------------
\* Every step of the writing end is one of the service or unseen.
LEMMA WriterServes ==
  ASSUME IInv, IInv', FlowInv,
         \/ WriterUser
         \/ \E s \in WSlots : WriterPulls(s)
         \/ \E s \in WSlots, ok \in BOOLEAN : WriterHears(s, ok)
         \/ \E s \in RSlots : WriterReceives(s)
  PROVE  ServiceStep
<1>1. CASE WriterUser
  <2>1. UNCHANGED rVars
    BY <1>1 DEF WriterUser
  <2>2. CASE \E n \in 1 .. MaxWrite : write(n)
    BY <2>1, <2>2, writeServes DEF ServiceStep
  <2>3. CASE shutdown \/ shutdownRefused \/ setPriority
    BY <2>1, <2>3, shutdownServes
  <2>4. CASE resetWriter
    BY <2>1, <2>4, resetServes DEF ServiceStep
  <2> QED BY <1>1, <2>2, <2>3, <2>4 DEF WriterUser
<1>2. ASSUME NEW s \in WSlots, WriterPulls(s)
      PROVE  ServiceStep
  BY <1>2, pullServes DEF WriterPulls, ServiceStep
<1>3. ASSUME NEW s \in WSlots, NEW ok \in BOOLEAN, WriterHears(s, ok)
      PROVE  ServiceStep
  BY <1>3, ackWriterServes DEF WriterHears, ackWriter
<1>4. ASSUME NEW s \in RSlots, WriterReceives(s)
      PROVE  ServiceStep
  BY <1>4, recvWriterMsgServes DEF WriterReceives
<1> QED BY <1>1, <1>2, <1>3, <1>4

\* And so is every step of the reading end.
LEMMA ReaderServes ==
  ASSUME IInv, FlowInv, UNCHANGED wVars,
         \/ UNCHANGED rVars
         \/ ReaderReads
         \/ ReaderReset
         \/ \E s \in RSlots : ReaderPulls(s)
         \/ \E s \in RSlots, ok \in BOOLEAN : ReaderHears(s, ok)
         \/ \E s \in WSlots : ReaderReceives(s)
  PROVE  ServiceStep
<1>1. RTypeOK /\ ReaderInv
  BY DEF IInv, TypeOK
<1>2. Quiet => ServiceStep
  BY ReaderUnseen DEF Quiet, Saw, ServiceStep
<1>3. CASE UNCHANGED rVars
  BY <1>2, <1>3 DEF rVars, Quiet
<1>4. CASE ReaderReads
  BY <1>4, readNothingServes, readSomeServes DEF ReaderReads, ServiceStep
<1>5. CASE ReaderReset
  BY <1>5, resetReaderServes DEF ReaderReset
<1>6. ASSUME NEW s \in RSlots, ReaderPulls(s)
      PROVE  ServiceStep
  BY <1>1, <1>2, <1>6, pullReaderOK DEF ReaderPulls
<1>7. ASSUME NEW s \in RSlots, NEW ok \in BOOLEAN, ReaderHears(s, ok)
      PROVE  ServiceStep
  BY <1>1, <1>2, <1>7, ackReaderOK DEF ReaderHears
<1>8. ASSUME NEW s \in WSlots, ReaderReceives(s)
      PROVE  ServiceStep
  <2> DEFINE m == wNet[s]
  <2>1. m \in ReaderMsgs /\ PacketOK(m)
    BY DEF IInv, TypeOK, PacketInv
  <2>2. recvReaderMsg(m)
    BY <1>8 DEF ReaderReceives
  <2> HIDE DEF m
  <2>3. ASSUME rLife \in {"unborn", "assigned"}, m.type = "DATA",
               NEW st \in IF rLife = "unborn" THEN {"CONNECTED", "RESET"}
                          ELSE {rState},
               recvDATA(m, st)
        PROVE  ServiceStep
    BY <2>1, <2>3, recvDATAServes
  <2>4. CASE recvWriterResets
    BY <2>4, resetReaderServes
  <2>5. CASE UNCHANGED rVars
    BY <1>3, <2>5
  <2> QED BY <2>2, <2>3, <2>4, <2>5 DEF recvReaderMsg
<1> QED BY <1>3, <1>4, <1>5, <1>6, <1>7, <1>8

LEMMA ServiceInit == Init => Service!Init
<1> SUFFICES ASSUME Init PROVE Service!Init
  OBVIOUS
<1>1. /\ wSendOffset = 0 /\ wBuffer = 0 /\ wState = "CONNECTED"
      /\ wShutdown = "none"
      /\ rOffset = 0 /\ rReady = 0 /\ ~ rEnd /\ rState = "CONNECTED"
  BY DEF Init, WInit, RInit
<1>2. Saw = "open" /\ ReaderOffset = 0 /\ wSendOffset + wBuffer = 0
  BY <1>1 DEF Saw, IsReset, ReaderOffset
<1> QED BY <1>1, <1>2 DEF Service!Init

LEMMA ServiceNext ==
  IInv /\ IInv' /\ FlowInv /\ [Next]_vars => [Service!Next]_(Service!vars)
<1> SUFFICES ASSUME IInv, IInv', FlowInv, [Next]_vars
             PROVE  [Service!Next]_(Service!vars)
  OBVIOUS
<1>1. ServiceStep
  BY WriterMoves, ReaderMoves, WriterServes, ReaderServes
<1> QED BY <1>1, AsUnseen DEF ServiceStep

----------------------------------------------------------------------------
\* out-stream.sig and in-stream.sig are kept, whatever the channel loses,
\* delays or gives up too early: bytes arrive in order and once, the end is
\* seen only after every byte of a stream that was shut down before it was
\* reset, and the callback of shutdown hears true only of data that has
\* arrived or of a reader that was reset.
THEOREM StreamImplementsService == Spec => ImplementsService
<1>1. Init => Service!Init
  BY ServiceInit
<1>2. IInv /\ IInv' /\ FlowInv /\ [Next]_vars
          => [Service!Next]_(Service!vars)
  BY ServiceNext
<1> QED
  BY <1>1, <1>2, Invariance, FlowInvariance, PTL
     DEF Spec, ImplementsService, Service!Spec
=============================================================================
