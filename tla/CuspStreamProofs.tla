-------------------------- MODULE CuspStreamProofs --------------------------
(***************************************************************************)
(* Proofs about CuspStream, for every length of stream, packet size,       *)
(* window, number of outstanding packets and number of faults: the type    *)
(* invariant, NoByteLost, EofTruth and DeliveryTruth.                      *)
(*                                                                         *)
(* None of the three is inductive alone.  A byte leaves the inflight heap  *)
(* because the reader accepted its packet, so the invariant has to say     *)
(* what acceptance meant and that it lasts (GotInv); the end is the end    *)
(* because no packet with EOF was ever filled while the stream could still *)
(* grow (PacketOK, WriterInv); and a reader that no longer looks at        *)
(* packets, and accepts them all, already had every byte (ReaderInv).      *)
(***************************************************************************)
EXTENDS CuspStream, TLAPS

\* What every DATA packet of the writer is, sent once or again.
PacketOK(m) ==
    m.type = "DATA" =>
        /\ m.off <= m.end
        /\ m.end <= wSendOffset
        /\ m.eof => WasShutdown /\ m.end = wSendOffset

\* The writing end: the heaps hold only bytes that were written, and a
\* stream that is shut down or reset takes no more.
WriterInv ==
    /\ wSendOffset + wBuffer <= MaxOffset
    /\ wRetransmit \subseteq Run(0, wSendOffset)
    /\ wPull.on => wPull.off <= wPull.next /\ wPull.next <= wSendOffset
    /\ wState # "CONNECTED" => wBuffer = 0
    /\ wState = "CONNECTED" => wShutdown = "none"
    /\ wState \in {"RETRANSMIT", "INFLIGHT"} => wShutdown = "pending"
    /\ wState = "ACKD" => wShutdown \in {"pending", "true"}

\* The reading end: the queue lies beyond the ready data, a stream that gave
\* up its id was complete or reset, and only a reset stream says so.
ReaderInv ==
    /\ rReady <= rOffset
    /\ \A x \in rQueue : rOffset < x
    /\ rLife = "unborn" => rState = "CONNECTED"
    /\ rLife \in {"unassigned", "complete"} =>
          IsReset(rState) \/ (rState = "SHUTDOWN" /\ rOffset = rEof)
    /\ \A s \in RSlots : rOut[s].type = "READER_RESETS" => IsReset(rState)

\* Packets: those outstanding and those under way are the same.
PacketInv ==
    /\ \A s \in WSlots : PacketOK(wOut[s]) /\ PacketOK(wNet[s])
    /\ \A s \in WSlots :
          wNet[s] # NoData /\ wOut[s] # NoData => wNet[s] = wOut[s]
    /\ \A s \in wGot : wOut[s] # NoData

\* What the reader has seen, its writer has sent.
ReceivedInv == rOffset <= wSendOffset /\ rQueue \subseteq Run(0, wSendOffset)

\* A packet that was accepted left its bytes, and its EOF, with the reader,
\* and they are still there when the writer hears of it.
GotInv ==
    ~ IsReset(rState) =>
        /\ \A s \in wGot :
              wOut[s].type = "DATA" =>
                  /\ Payload(wOut[s]) \subseteq Received
                  /\ wOut[s].eof => rState = "SHUTDOWN"
        /\ wState = "ACKD" => rState = "SHUTDOWN"

IInv ==
    /\ TypeOK
    /\ WriterInv
    /\ ReaderInv
    /\ PacketInv
    /\ ReceivedInv
    /\ GotInv
    /\ NoByteLost
    /\ EofTruth
    /\ DeliveryTruth
----------------------------------------------------------------------------
\* What every step of the writing end does to the stream it has sent: it
\* only grows, and not once it was shut down.
Grows ==
    /\ wSendOffset <= wSendOffset'
    /\ WasShutdown => WasShutdown' /\ wSendOffset' = wSendOffset

\* The assumptions on the constants, as the proofs below use them.
LEMMA Parameters ==
  /\ MaxOffset \in Nat /\ PacketMax \in Nat /\ MaxWrite \in Nat
  /\ MinimumWindow \in Nat /\ MaxWindow \in Nat /\ MaxFaults \in Nat
  BY ParametersAssumption, WriterAssumption, FaultsAssumption
     DEF ParametersAssumption, WriterAssumption, FaultsAssumption

\* Runs of bytes: what lies in them, when one contains another, and how a
\* packet that is cut in two is put together.
LEMMA RunElement ==
  \A a, b \in Int : \A x : x \in Run(a, b) <=> x \in Int /\ a <= x /\ x < b
  BY DEF Run

LEMMA RunContains ==
  \A a, b, c, d \in Int : a <= c /\ d <= b => Run(c, d) \subseteq Run(a, b)
  BY DEF Run

LEMMA RunSplit ==
  \A a, b, c \in Int :
      a <= b /\ b <= c => Run(a, c) = Run(a, b) \cup Run(b, c)
  BY DEF Run

LEMMA BytesAreARun == Bytes = Run(0, MaxOffset)
  BY DEF Bytes, Run

\* The heap key is a Boolean: the event UPDATE RTS of OutStreamQueue.
LEMMA UpdateRTSType == UpdateRTS => wRTS' \in BOOLEAN
  BY DEF UpdateRTS

\* OutStreamQueue.makeProgress fills the retransmit heap from the buffer or
\* leaves it alone.
LEMMA makeProgressEffect ==
  ASSUME NEW ret, makeProgress(ret)
  PROVE  /\ wRTS' \in BOOLEAN
         /\ \/ /\ wRetransmit' = ret
               /\ wSendOffset' = wSendOffset
               /\ wBuffer' = wBuffer
            \/ /\ ret = {}
               /\ wBuffer > 0
               /\ wRetransmit' = Run(wSendOffset, wSendOffset + wBuffer)
               /\ wSendOffset' = wSendOffset + wBuffer
               /\ wBuffer' = 0
  BY DEF makeProgress, TakeBuffer, UpdateRTS

\* OutStreamQueue.write.
LEMMA writeOK ==
  ASSUME WTypeOK, WriterInv, NEW n \in 1 .. MaxWrite, write(n)
  PROVE  /\ WTypeOK' /\ WriterInv' /\ Grows
         /\ UNCHANGED <<wState, wInflight, wShutdown, wPull, wOut>>
         /\ wRetransmit \cup Run(wSendOffset, wSendOffset')
                \subseteq wRetransmit'
<1> USE Parameters
<1>1. wRTS' \in BOOLEAN
  BY UpdateRTSType DEF write
<1>2. /\ wSendOffset \in Nat /\ wBuffer \in Nat /\ n \in Nat
      /\ wSendOffset + n <= MaxOffset /\ wBuffer = 0
  BY DEF write, WTypeOK, Offsets
<1>3. wState = "CONNECTED"
      /\ UNCHANGED <<wState, wShutdown, wBarrier, wInHeap, wPull, wOut, wInflight>>
  BY DEF write
<1>4. CASE /\ wBuffer' = n
           /\ UNCHANGED <<wRetransmit, wRetransmitBytes, wSendOffset>>
  <2>1. WTypeOK'
    BY <1>1, <1>2, <1>3, <1>4 DEF WTypeOK, Offsets
  <2>2. WriterInv' /\ Grows
    BY <1>2, <1>3, <1>4 DEF WriterInv, Grows, WasShutdown
  <2>3. Run(wSendOffset, wSendOffset') = {}
    BY <1>2, <1>4 DEF Run
  <2> QED BY <2>1, <2>2, <2>3, <1>3, <1>4
<1>5. CASE /\ wRetransmit = {}
           /\ wRetransmit' = Run(wSendOffset, wSendOffset + n)
           /\ wRetransmitBytes' = wRetransmitBytes + n
           /\ wSendOffset' = wSendOffset + n
           /\ UNCHANGED wBuffer
  <2>1. wRetransmit' \subseteq Bytes /\ wRetransmit' \subseteq Run(0, wSendOffset')
    BY <1>2, <1>5, RunContains, BytesAreARun
  <2>2. WTypeOK'
    BY <1>1, <1>2, <1>3, <1>5, <2>1 DEF WTypeOK, Offsets
  <2>3. WriterInv' /\ Grows
    BY <1>2, <1>3, <1>5, <2>1 DEF WriterInv, WTypeOK, Grows, WasShutdown, Offsets
  <2> QED BY <2>2, <2>3, <1>3, <1>5
<1> QED BY <1>4, <1>5 DEF write

\* OutStreamQueue.shutdown, a shutdown that comes after a reset, and
\* setPriority.
LEMMA shutdownOK ==
  ASSUME WTypeOK, WriterInv, shutdown \/ shutdownRefused \/ setPriority
  PROVE  /\ WTypeOK' /\ WriterInv' /\ Grows
         /\ UNCHANGED <<wInflight, wPull, wOut, wRetransmit, wSendOffset>>
         /\ wShutdown' = "true" => wShutdown = "true"
         /\ wState' = "ACKD" => wState = "ACKD"
         /\ wState = "RESET" => wState' = "RESET"
<1>1. CASE shutdown
  <2>1. wRTS' \in BOOLEAN
    BY <1>1, UpdateRTSType DEF shutdown
  <2>2. WTypeOK'
    BY <1>1, <2>1 DEF shutdown, WTypeOK
  <2>3. WriterInv' /\ Grows
    BY <1>1 DEF shutdown, WTypeOK, WriterInv, Grows, WasShutdown, Offsets
  <2> QED BY <2>2, <2>3, <1>1 DEF shutdown
<1>2. CASE shutdownRefused
  <2>1. WTypeOK'
    BY <1>2 DEF shutdownRefused, WTypeOK
  <2>2. WriterInv' /\ Grows
    BY <1>2 DEF shutdownRefused, WTypeOK, WriterInv, Grows, WasShutdown,
                Offsets
  <2> QED BY <2>1, <2>2, <1>2 DEF shutdownRefused
<1>3. CASE setPriority
  <2>1. wRTS' \in BOOLEAN
    BY <1>3, UpdateRTSType DEF setPriority
  <2>2. WTypeOK'
    BY <1>3, <2>1 DEF setPriority, WTypeOK
  <2>3. WriterInv' /\ Grows
    BY <1>3 DEF setPriority, WTypeOK, WriterInv, Grows, WasShutdown, Offsets
  <2> QED BY <2>2, <2>3, <1>3 DEF setPriority
<1> QED BY <1>1, <1>2, <1>3

\* OutStreamQueue.doReset, called by the user's reset and by the arrival of
\* a READER_RESETS.
LEMMA resetOK ==
  ASSUME WTypeOK, WriterInv, resetWriter \/ recvReaderResets
  PROVE  /\ WTypeOK' /\ WriterInv' /\ Grows
         /\ wState' = "RESET"
         /\ UNCHANGED <<wOut, wSendOffset>>
         /\ wShutdown' = "true" => wShutdown = "true"
<1> USE Parameters
<1>1. wRTS' \in BOOLEAN /\ wInHeap' \in BOOLEAN
  BY UpdateRTSType DEF resetWriter, recvReaderResets, WTypeOK
<1>2. doReset /\ wBarrier' = wBarrier
  BY DEF resetWriter, recvReaderResets
<1>3. WTypeOK'
  BY <1>1, <1>2 DEF doReset, WTypeOK, Offsets
<1>4. WriterInv' /\ Grows
  <2>1. wSendOffset \in Nat /\ wSendOffset <= MaxOffset
    BY DEF WTypeOK, Offsets
  <2> QED BY <1>2, <2>1 DEF doReset, WriterInv, Grows, WasShutdown
<1> QED BY <1>2, <1>3, <1>4 DEF doReset

\* makeProgress of an unchanged retransmit heap: nothing leaves the heap,
\* and what the stream grows by enters it.
LEMMA progressOK ==
  ASSUME WTypeOK, WriterInv, makeProgress(wRetransmit)
  PROVE  /\ wRTS' \in BOOLEAN
         /\ wRetransmit' \subseteq Bytes
         /\ wRetransmit' \subseteq Run(0, wSendOffset')
         /\ wSendOffset' \in Offsets /\ wBuffer' \in Offsets
         /\ wSendOffset' + wBuffer' <= MaxOffset
         /\ wSendOffset <= wSendOffset'
         /\ wState # "CONNECTED" =>
               wSendOffset' = wSendOffset /\ wBuffer' = 0
               /\ wRetransmit' = wRetransmit
         /\ wRetransmit \cup Run(wSendOffset, wSendOffset')
                \subseteq wRetransmit'
         /\ Progress(wRetransmit) \in Int
<1> USE Parameters
<1>1. /\ wSendOffset \in Nat /\ wBuffer \in Nat
      /\ wSendOffset + wBuffer <= MaxOffset
  BY DEF WTypeOK, WriterInv, Offsets
<1>2. wRTS' \in BOOLEAN
  BY makeProgressEffect
<1>3. Progress(wRetransmit) \in Int
  BY <1>1 DEF Progress
<1>4. CASE UNCHANGED <<wRetransmit, wSendOffset, wBuffer>>
  <2>1. Run(wSendOffset, wSendOffset') = {}
    BY <1>1, <1>4 DEF Run
  <2> QED BY <1>1, <1>2, <1>3, <1>4, <2>1 DEF WTypeOK, WriterInv
<1>5. CASE /\ wRetransmit = {}
           /\ wBuffer > 0
           /\ wRetransmit' = Run(wSendOffset, wSendOffset + wBuffer)
           /\ wSendOffset' = wSendOffset + wBuffer
           /\ wBuffer' = 0
  <2>1. /\ wRetransmit' \subseteq Bytes
        /\ wRetransmit' \subseteq Run(0, wSendOffset')
    BY <1>1, <1>5, RunContains, BytesAreARun
  <2> QED BY <1>1, <1>2, <1>3, <1>5, <2>1 DEF WriterInv, Offsets
<1> QED BY <1>4, <1>5, makeProgressEffect

\* OutStreamQueue.recv of a READER_BARRIER.
LEMMA recvBarrierOK ==
  ASSUME WTypeOK, WriterInv, NEW b \in Nat, recvBarrier(b)
  PROVE  /\ WTypeOK' /\ WriterInv' /\ Grows
         /\ UNCHANGED <<wState, wInflight, wShutdown, wPull, wOut>>
         /\ wRetransmit \cup Run(wSendOffset, wSendOffset')
                \subseteq wRetransmit'
<1>1. makeProgress(wRetransmit)
      /\ wBarrier' = b
      /\ wRetransmitBytes' = wRetransmitBytes + Progress(wRetransmit)
      /\ UNCHANGED <<wState, wInflight, wShutdown, wInHeap, wPull, wOut>>
  BY DEF recvBarrier
<1>2. WTypeOK'
  BY <1>1, progressOK DEF WTypeOK
<1>3. wSendOffset \in Int /\ wSendOffset' \in Int
  BY <1>2 DEF WTypeOK, Offsets
<1>4. wPull.on => wPull.off <= wPull.next /\ wPull.next <= wSendOffset'
  BY <1>1, <1>3, progressOK DEF WriterInv, WTypeOK, Offsets
<1>5. WriterInv'
  BY <1>1, <1>4, progressOK DEF WriterInv
<1>6. Grows
  BY <1>1, progressOK DEF WriterInv, Grows, WasShutdown
<1> QED BY <1>1, <1>2, <1>5, <1>6, progressOK

\* The ack callback of a DATA packet: a nack puts the bytes back, an ack
\* only drops them from the inflight heap; the stream is done only when
\* both heaps are empty after its EOF was acked.
LEMMA ackDataOK ==
  ASSUME WTypeOK, WriterInv, NEW s \in WSlots, NEW ok \in BOOLEAN,
         PacketOK(wOut[s]), ackData(s, ok)
  PROVE  /\ WTypeOK' /\ WriterInv' /\ Grows
         /\ wOut' = [wOut EXCEPT ![s] = NoData]
         /\ wPull' = wPull
         /\ wState = "RESET" => wState' = "RESET"
         /\ wState' # "RESET" =>
               /\ wRetransmit \cup Run(wSendOffset, wSendOffset')
                      \subseteq wRetransmit'
               /\ ~ ok => Payload(wOut[s]) \subseteq wRetransmit'
         /\ wInflight' = wInflight \ Payload(wOut[s])
         /\ wState' = "ACKD" => wState = "ACKD" \/ (ok /\ wOut[s].eof)
         /\ wShutdown' = "true" =>
               \/ wShutdown = "true"
               \/ /\ wState' = "ACKD" /\ wInflight' = {} /\ wRetransmit' = {}
                  /\ wSendOffset' = wSendOffset
<1> USE Parameters
<1> DEFINE m == wOut[s]
           st == AckedState(m, ok)
           left == wInflight \ Payload(m)
           done == amDone(st, left)
<1>1. /\ m \in ReaderMsgs /\ m.type = "DATA"
      /\ wOut' = [wOut EXCEPT ![s] = NoData]
      /\ wInflight' = left /\ wState' = st
      /\ wBarrier' = wBarrier /\ wPull' = wPull
  BY DEF ackData, WTypeOK
<1>2. /\ m.off \in Nat /\ m.end \in Nat /\ m.off <= m.end
      /\ m.end <= wSendOffset /\ wSendOffset \in Nat
      /\ wSendOffset <= MaxOffset
  BY <1>1 DEF PacketOK, ReaderMsgs, Offsets, WTypeOK
<1>3. /\ Payload(m) \subseteq Run(0, wSendOffset)
      /\ Payload(m) \subseteq Bytes
  BY <1>2, RunContains, BytesAreARun DEF Payload
<1>4. wOut' \in [WSlots -> ReaderMsgs]
  BY <1>1 DEF WTypeOK, NoData, ReaderMsgs, Offsets
<1>5. /\ st = wState \/ (wState \in {"RETRANSMIT", "INFLIGHT"} /\ m.eof
                         /\ st = IF ok THEN "ACKD" ELSE "RETRANSMIT")
      /\ wState = "RESET" => st = "RESET"
      /\ st \in {"CONNECTED", "RETRANSMIT", "INFLIGHT", "ACKD", "RESET"}
  BY DEF AckedState, WTypeOK
<1>6. CASE /\ ~ ok /\ st # "RESET"
           /\ wRetransmit' = wRetransmit \cup Requeue(m)
           /\ wRetransmitBytes' = wRetransmitBytes + (m.end - m.off)
           /\ UNCHANGED <<wSendOffset, wBuffer, wShutdown, wInHeap>>
           /\ UpdateRTS
  <2>1. WTypeOK'
    BY <1>1, <1>2, <1>3, <1>4, <1>5, <1>6, UpdateRTSType DEF WTypeOK, Requeue
  <2>2. WriterInv' /\ Grows
    BY <1>1, <1>2, <1>3, <1>5, <1>6 DEF WriterInv, Requeue, Grows, WasShutdown
  <2>3. Run(wSendOffset, wSendOffset') = {}
    BY <1>2, <1>6 DEF Run
  <2> QED BY <1>1, <1>5, <1>6, <2>1, <2>2, <2>3 DEF Requeue
<1>7. CASE /\ ok \/ st = "RESET"
           /\ wRetransmitBytes' = wRetransmitBytes + Progress(wRetransmit)
           /\ wInHeap' = (wInHeap /\ ~ done)
           /\ wShutdown' = IF done /\ wShutdown = "pending" THEN "true"
                           ELSE wShutdown
           /\ makeProgress(wRetransmit)
  <2>1. wInHeap' \in BOOLEAN
    BY <1>7
  <2>2. WTypeOK'
    BY <1>1, <1>4, <1>5, <1>7, <2>1, progressOK DEF WTypeOK
  <2>3. wSendOffset \in Int /\ wSendOffset' \in Int
    BY <2>2, <1>2 DEF WTypeOK, Offsets
  <2>4. wPull.on => wPull.off <= wPull.next /\ wPull.next <= wSendOffset'
    BY <1>7, <2>3, progressOK DEF WriterInv, WTypeOK, Offsets
  <2>5. WriterInv'
    BY <1>1, <1>5, <1>7, <2>4, progressOK DEF WriterInv, amDone
  <2>6. Grows
    BY <1>1, <1>5, <1>7, progressOK DEF WriterInv, Grows, WasShutdown
  <2>7. done /\ wState # "CONNECTED" =>
           /\ wState' = "ACKD" /\ wInflight' = {} /\ wRetransmit' = {}
           /\ wSendOffset' = wSendOffset
    BY <1>1, <1>7, progressOK DEF amDone
  <2>8. done => wState # "CONNECTED"
    BY <1>5 DEF amDone
  <2> QED
    BY <1>1, <1>5, <1>7, <2>2, <2>5, <2>6, <2>7, <2>8, progressOK
<1> QED BY <1>6, <1>7 DEF ackData

\* The ack callback of a WRITER_RESETS touches nothing but the heap's record.
LEMMA ackWriterResetsOK ==
  ASSUME WTypeOK, WriterInv, NEW s \in WSlots, NEW ok \in BOOLEAN,
         ackWriterResets(s, ok)
  PROVE  /\ WTypeOK' /\ WriterInv' /\ Grows
         /\ wOut' = [wOut EXCEPT ![s] = NoData]
         /\ wOut[s].type = "WRITER_RESETS"
         /\ UNCHANGED <<wState, wRetransmit, wInflight, wSendOffset, wPull,
                        wShutdown>>
<1> USE Parameters
<1>1. wInHeap' \in BOOLEAN /\ wRTS' \in BOOLEAN
  BY DEF ackWriterResets
<1>2. /\ wOut' = [wOut EXCEPT ![s] = NoData]
      /\ wOut[s].type = "WRITER_RESETS"
      /\ UNCHANGED <<wState, wRetransmit, wRetransmitBytes, wInflight,
                     wSendOffset, wBarrier, wBuffer, wShutdown, wPull>>
  BY DEF ackWriterResets
<1>3. wOut' \in [WSlots -> ReaderMsgs]
  BY <1>2 DEF WTypeOK, NoData, ReaderMsgs, Offsets
<1>4. WTypeOK'
  BY <1>1, <1>2, <1>3 DEF WTypeOK
<1>5. WriterInv' /\ Grows
  BY <1>2 DEF WriterInv, Grows, WasShutdown, WTypeOK, Offsets
<1> QED BY <1>2, <1>4, <1>5

\* pullContiguousSegments: the bytes it takes from the retransmit heap are in
\* flight or in the suspended packet, and a packet carries EOF only if it
\* ends a stream that can no longer grow.
LEMMA PullFromOK ==
  ASSUME WTypeOK, WriterInv, NEW s \in WSlots,
         NEW off \in Offsets, NEW next \in Offsets, NEW room \in 0 .. PacketMax,
         off <= next, next <= wSendOffset,
         PullFrom(s, off, next, room)
  PROVE  /\ WTypeOK' /\ WriterInv' /\ Grows
         /\ wShutdown' = wShutdown
         /\ wState' = "ACKD" => wState = "ACKD"
         /\ wState = "RESET" => wState' = "RESET"
         /\ \/ wOut' = wOut
            \/ \E m \in ReaderMsgs :
                  wOut' = [wOut EXCEPT ![s] = m] /\ PacketOK(m)'
         /\ wRetransmit \cup wInflight \cup Run(off, next)
                \cup Run(wSendOffset, wSendOffset')
                \subseteq wRetransmit' \cup wInflight' \cup Pulled'
<1> USE Parameters
<1>1. PICK end \in next .. (next + room) :
         /\ Run(next, end) \subseteq wRetransmit
         /\ LET ret == wRetransmit \ Run(next, end) IN
            \/ /\ next < end /\ ret = {} /\ wBuffer > 0
               /\ TakeBuffer
               /\ wRetransmitBytes' = wRetransmitBytes + Progress(ret)
               /\ wPull' = Pulling(off, end, room - (end - next))
               /\ UNCHANGED <<wState, wInflight, wBarrier, wShutdown, wInHeap,
                              wOut>>
               /\ UpdateRTS
            \/ FinishPull(s, off, end, ret)
  BY DEF PullFrom
<1> DEFINE ret == wRetransmit \ Run(next, end)
<1>2. /\ off \in Nat /\ next \in Nat /\ end \in Nat /\ room \in Nat
      /\ next <= end /\ end <= next + room /\ room <= PacketMax
      /\ wSendOffset \in Nat /\ wBuffer \in Nat
      /\ wSendOffset + wBuffer <= MaxOffset
  BY DEF Offsets, WTypeOK, WriterInv
<1>3. end <= wSendOffset
  <2>1. CASE next = end
    BY <2>1
  <2>2. CASE next < end
    <3>1. end - 1 \in Run(next, end)
      BY <1>2, <2>2, RunElement
    <3>2. end - 1 \in Run(0, wSendOffset)
      BY <1>1, <3>1 DEF WriterInv
    <3> QED BY <1>2, <3>2, RunElement
  <2> QED BY <1>2, <2>1, <2>2
<1>4. Run(off, end) = Run(off, next) \cup Run(next, end)
  BY <1>2, RunSplit
<1>5. Run(off, end) \subseteq Run(0, wSendOffset) /\ Run(off, end) \subseteq Bytes
  BY <1>2, <1>3, RunContains, BytesAreARun
<1>6. CASE /\ next < end /\ ret = {} /\ wBuffer > 0
           /\ TakeBuffer
           /\ wRetransmitBytes' = wRetransmitBytes + Progress(ret)
           /\ wPull' = Pulling(off, end, room - (end - next))
           /\ UNCHANGED <<wState, wInflight, wBarrier, wShutdown, wInHeap, wOut>>
           /\ UpdateRTS
  <2>1. /\ wRetransmit' = Run(wSendOffset, wSendOffset + wBuffer)
        /\ wSendOffset' = wSendOffset + wBuffer
        /\ wBuffer' = 0
    BY <1>6 DEF TakeBuffer
  <2>2. wRetransmit' \subseteq Bytes /\ wRetransmit' \subseteq Run(0, wSendOffset')
    BY <1>2, <2>1, RunContains, BytesAreARun
  <2>3. wPull' = [on |-> TRUE, off |-> off, next |-> end,
                  room |-> room - (end - next)]
    BY <1>6 DEF Pulling
  <2>4. wPull' \in [on : BOOLEAN, off : Offsets, next : Offsets, room : 0 .. PacketMax]
    BY <1>2, <1>3, <2>3 DEF Offsets
  <2>5. WTypeOK'
    <3>1. Progress(ret) \in Int
      BY <1>2 DEF Progress
    <3> QED
      BY <1>2, <1>6, <2>1, <2>2, <2>4, <3>1, UpdateRTSType DEF WTypeOK, Offsets
  <2>6. WriterInv' /\ Grows
    BY <1>2, <1>3, <1>6, <2>1, <2>2, <2>3 DEF WriterInv, Grows, WasShutdown
  <2>7. Pulled' = Run(off, end)
    BY <2>3 DEF Pulled
  <2> QED BY <1>4, <1>6, <2>1, <2>5, <2>6, <2>7
<1>7. CASE FinishPull(s, off, end, ret)
  <2>1. /\ wInflight' = wInflight \cup Run(off, end)
        /\ wRetransmit' = ret
        /\ wRetransmitBytes' = wRetransmitBytes - (end - off)
        /\ wPull' = NoPull
        /\ UNCHANGED <<wSendOffset, wBarrier, wBuffer, wShutdown, wInHeap>>
        /\ UpdateRTS
    BY <1>7 DEF FinishPull
  <2>2. PICK e \in BOOLEAN :
           /\ e => wState \in {"RETRANSMIT", "INFLIGHT"} /\ end = wSendOffset
           /\ wOut' = [wOut EXCEPT ![s] = DataMsg(off, end, e)]
           /\ wState' = IF e THEN "INFLIGHT" ELSE wState
    <3>1. CASE wState \in {"RETRANSMIT", "INFLIGHT"} /\ end = wSendOffset
      <4>1. /\ wOut' = [wOut EXCEPT ![s] = DataMsg(off, end, TRUE)]
            /\ wState' = "INFLIGHT"
        BY <1>7, <3>1 DEF FinishPull
      <4> QED BY <3>1, <4>1
    <3>2. CASE ~ (wState \in {"RETRANSMIT", "INFLIGHT"} /\ end = wSendOffset)
      <4>1. /\ wOut' = [wOut EXCEPT ![s] = DataMsg(off, end, FALSE)]
            /\ wState' = wState
        BY <1>7, <3>2 DEF FinishPull
      <4> QED BY <4>1
    <3> QED BY <3>1, <3>2
  <2> DEFINE m == DataMsg(off, end, e)
  <2>3. /\ m = [type |-> "DATA", off |-> off, end |-> end, eof |-> e]
        /\ end \in Offsets
    BY <1>2, <1>3 DEF DataMsg, Offsets
  <2>4. m \in ReaderMsgs
    BY <2>3 DEF ReaderMsgs
  <2>5. wPull' \in [on : BOOLEAN, off : Offsets, next : Offsets, room : 0 .. PacketMax]
    BY <2>1 DEF NoPull, Offsets
  <2>6. wState' \in {"CONNECTED", "RETRANSMIT", "INFLIGHT", "ACKD", "RESET"}
    BY <2>2 DEF WTypeOK
  <2>7. WTypeOK'
    BY <1>2, <1>5, <2>1, <2>2, <2>4, <2>5, <2>6, UpdateRTSType
       DEF WTypeOK, Offsets
  <2>8. ~ wPull'.on
    BY <2>1 DEF NoPull
  <2>9. WriterInv' /\ Grows
    BY <1>2, <2>1, <2>2, <2>8 DEF WriterInv, Grows, WasShutdown
  <2>10. PacketOK(m)'
    <3>1. m.type = "DATA" /\ m.off = off /\ m.end = end /\ m.eof = e
      BY <2>3
    <3>2. e => WasShutdown' /\ end = wSendOffset'
      BY <2>1, <2>2 DEF WriterInv, WasShutdown
    <3> HIDE DEF m
    <3>3. off <= m.end /\ m.end <= wSendOffset'
      BY <1>2, <1>3, <2>1, <3>1
    <3> QED BY <3>1, <3>2, <3>3 DEF PacketOK
  <2>11. Run(wSendOffset, wSendOffset') = {}
    BY <1>2, <2>1 DEF Run
  <2>12. wOut' = [wOut EXCEPT ![s] = m]
    BY <2>2
  <2> HIDE DEF m
  <2> QED BY <1>1, <1>4, <2>1, <2>2, <2>4, <2>7, <2>9, <2>10, <2>11, <2>12
<1> QED BY <1>1, <1>6, <1>7
----------------------------------------------------------------------------
\* HostDispatch.inStreamCallback: a stream gives up its id only when it is
\* over, reset by both ends, or complete.
LEMMA EventsEffect ==
  ASSUME RTypeOK, NEW over, NEW fired, NEW rts, Events(over, fired, rts)
  PROVE  /\ rLife' \in {"assigned", "unassigned", "complete"}
         /\ rRTS' \in BOOLEAN
         /\ rLife' \in {"unassigned", "complete"} =>
               \/ over
               \/ rState' = "RESET_DOWN"
               \/ rState' = "SHUTDOWN" /\ rEof' = rOffset'
               \/ rLife' = rLife
<1>1. rRTS' \in BOOLEAN
  BY DEF Events
<1>2. CASE over \/ (fired /\ rState' = "RESET_DOWN")
  <2>1. rLife' = "complete"
    BY <1>2 DEF Events
  <2> QED BY <1>1, <1>2, <2>1
<1>3. CASE ~ (over \/ (fired /\ rState' = "RESET_DOWN"))
  <2>1. \/ rLife' = "unassigned" /\ rState' = "SHUTDOWN" /\ rEof' = rOffset'
        \/ rLife' = "assigned"
        \/ rLife' = rLife /\ rLife # "unborn"
    BY <1>3 DEF Events
  <2> QED BY <1>1, <2>1 DEF RTypeOK
<1> QED BY <1>2, <1>3

\* The barrier of read and recvData is a number whatever the window.
LEMMA OpenWindowType ==
  ASSUME RTypeOK, OpenWindow, rOffset' \in Int, rReady' \in Int
  PROVE  rBarrier' \in Nat
<1> DEFINE x == ReaderOffset' + rWindow
<1>1. x \in Int /\ rBarrier \in Nat
  BY DEF RTypeOK, ReaderOffset
<1>2. rBarrier' = Max2(rBarrier, x)
  BY DEF OpenWindow
<1> HIDE DEF x
<1> QED BY <1>1, <1>2 DEF Max2

\* InStreamQueue.read with nothing ready.
LEMMA readNothingOK ==
  ASSUME RTypeOK, ReaderInv, EofTruth, readNothing
  PROVE  /\ RTypeOK' /\ ReaderInv'
         /\ UNCHANGED <<rState, rEof, rOffset, rQueue>>
         /\ rReady' = rReady
         /\ rEnd' => rEnd \/ (rState = "SHUTDOWN" /\ rEof = rOffset /\ rReady = 0)
<1> USE Parameters
<1>1. /\ UNCHANGED <<rState, rEof, rOffset, rReady, rQueue, rLastBarrier,
                     rWindow, rOut>>
      /\ OpenWindow
      /\ rReady = 0 /\ ~ IsReset(rState) /\ rLife # "unborn"
  BY DEF readNothing
<1>2. rReading' \in BOOLEAN /\ rEnd' \in BOOLEAN
  BY DEF readNothing
<1>3. rBarrier' \in Nat
  BY <1>1, OpenWindowType DEF RTypeOK, Offsets
<1>4. /\ rLife' \in {"assigned", "unassigned", "complete"}
      /\ rRTS' \in BOOLEAN
      /\ rLife' \in {"unassigned", "complete"} =>
            \/ rState = "SHUTDOWN" /\ rEof = rOffset
            \/ rState' = "RESET_DOWN"
            \/ rLife' = rLife
  BY <1>1 DEF readNothing, Events, RTypeOK, atEOF
<1>5. RTypeOK'
  BY <1>1, <1>2, <1>3, <1>4 DEF RTypeOK
<1>6. ReaderInv'
  BY <1>1, <1>4 DEF ReaderInv, IsReset
<1>7. rEnd' => rEnd \/ (rState = "SHUTDOWN" /\ rEof = rOffset /\ rReady = 0)
  BY <1>1 DEF readNothing, atEOF
<1> QED BY <1>1, <1>5, <1>6, <1>7

\* InStreamQueue.read of ready bytes.
LEMMA readSomeOK ==
  ASSUME RTypeOK, ReaderInv, NEW n, readSome(n)
  PROVE  /\ RTypeOK' /\ ReaderInv'
         /\ UNCHANGED <<rState, rEof, rOffset, rQueue, rEnd>>
         /\ rReady' < rReady
<1> USE Parameters
<1>1. /\ UNCHANGED <<rState, rEof, rOffset, rQueue, rLastBarrier, rWindow,
                     rReading, rEnd, rOut>>
      /\ rReady' = rReady - n /\ n \in 1 .. rReady
      /\ OpenWindow
      /\ rLife # "unborn"
  BY DEF readSome
<1>2. rReady' \in Offsets /\ rReady' < rReady /\ rReady' <= rOffset
  BY <1>1 DEF RTypeOK, Offsets, ReaderInv
<1>3. rBarrier' \in Nat
  BY <1>1, <1>2, OpenWindowType DEF RTypeOK, Offsets
<1>4. Events(FALSE, TRUE, rRTS)
  BY DEF readSome
<1>5. RTypeOK'
  BY <1>1, <1>2, <1>3, <1>4, EventsEffect DEF RTypeOK
<1>6. ReaderInv'
  BY <1>1, <1>2, <1>4, EventsEffect DEF ReaderInv, IsReset
<1> QED BY <1>1, <1>2, <1>5, <1>6

\* InStreamQueue.reset by the user, and the arrival of a WRITER_RESETS.
LEMMA resetReaderOK ==
  ASSUME RTypeOK, ReaderInv, resetReader \/ recvWriterResets
  PROVE  /\ RTypeOK' /\ ReaderInv'
         /\ IsReset(rState')
         /\ rOffset' = rOffset /\ rQueue' = {} /\ rReady' = 0
         /\ rEnd' = rEnd
<1> USE Parameters
<1>1. /\ rState' \in {"RESET", "RESET_DOWN"}
      /\ rReady' = 0 /\ rQueue' = {} /\ rReading' = FALSE
      /\ rEof' \in {rEof, 0}
      /\ UNCHANGED <<rOffset, rBarrier, rLastBarrier, rWindow, rEnd, rOut>>
      /\ Events(FALSE, TRUE, TRUE)
  BY DEF resetReader, recvWriterResets, RTypeOK
<1>2. /\ rLife' \in {"assigned", "unassigned", "complete"}
      /\ rRTS' \in BOOLEAN
  BY <1>1, EventsEffect
<1>3. RTypeOK'
  <2>1. rEof' \in Offsets /\ rReady' \in Offsets
    BY <1>1 DEF RTypeOK, Offsets
  <2>2. rState' \in {"CONNECTED", "SHUTDOWN", "RESET", "RESET_DOWN"}
    BY <1>1
  <2> QED BY <1>1, <1>2, <2>1, <2>2 DEF RTypeOK
<1>4. rReady' <= rOffset' /\ IsReset(rState')
  BY <1>1 DEF RTypeOK, Offsets, IsReset
<1>5. ReaderInv'
  BY <1>1, <1>2, <1>4 DEF ReaderInv, IsReset
<1> QED BY <1>1, <1>3, <1>4, <1>5

\* What InStreamQueue.pull and the ack callbacks leave alone.
Quiet == UNCHANGED <<rState, rEof, rOffset, rReady, rQueue, rEnd>>

\* InStreamQueue.pull.
LEMMA pullReaderOK ==
  ASSUME RTypeOK, ReaderInv, NEW s \in RSlots,
         pullBarrier(s) \/ pullReaderResets(s)
  PROVE  RTypeOK' /\ ReaderInv' /\ Quiet
<1> USE Parameters
<1>1. CASE pullBarrier(s)
  <2> DEFINE a == [type |-> "READER_BARRIER", barrier |-> rBarrier,
                   last |-> rLastBarrier, from |-> ReaderOffset]
  <2>1. /\ rOut' = [rOut EXCEPT ![s] = a]
        /\ rLastBarrier' = rBarrier /\ rRTS' = FALSE
        /\ UNCHANGED <<rLife, rState, rEof, rOffset, rReady, rQueue, rBarrier,
                       rWindow, rReading, rEnd>>
    BY <1>1 DEF pullBarrier
  <2>2. a \in ReaderAcks /\ a.type # "READER_RESETS"
    BY DEF ReaderAcks, ReaderOffset, RTypeOK, ReaderInv, Offsets
  <2> HIDE DEF a
  <2>3. RTypeOK'
    BY <2>1, <2>2 DEF RTypeOK
  <2>4. ReaderInv'
    BY <2>1, <2>2 DEF ReaderInv, RTypeOK, IsReset
  <2> QED BY <2>1, <2>3, <2>4 DEF Quiet
<1>2. CASE pullReaderResets(s)
  <2> DEFINE a == [NoAck EXCEPT !.type = "READER_RESETS"]
  <2>1. /\ rOut' = [rOut EXCEPT ![s] = a]
        /\ IsReset(rState) /\ rRTS' = FALSE
        /\ UNCHANGED <<rLife, rState, rEof, rOffset, rReady, rQueue, rBarrier,
                       rLastBarrier, rWindow, rReading, rEnd>>
    BY <1>2 DEF pullReaderResets
  <2>2. a \in ReaderAcks
    BY DEF ReaderAcks, NoAck, Offsets
  <2> HIDE DEF a
  <2>3. RTypeOK'
    BY <2>1, <2>2 DEF RTypeOK
  <2>4. ReaderInv'
    BY <2>1 DEF ReaderInv, RTypeOK, IsReset
  <2> QED BY <2>1, <2>3, <2>4 DEF Quiet
<1> QED BY <1>1, <1>2

\* The ack callbacks of the reader's packets: only a reset stream is over
\* when its packet is acked.
LEMMA ackReaderOK ==
  ASSUME RTypeOK, ReaderInv, NEW s \in RSlots, NEW ok \in BOOLEAN,
         ackReader(s, ok)
  PROVE  /\ RTypeOK' /\ ReaderInv' /\ Quiet
         /\ rOut' = [rOut EXCEPT ![s] = NoAck]
<1> USE Parameters
<1>1. NoAck \in ReaderAcks /\ NoAck.type # "READER_RESETS"
  BY DEF ReaderAcks, NoAck, Offsets
<1>2. CASE ackBarrier(s)
  <2>1. /\ rOut' = [rOut EXCEPT ![s] = NoAck]
        /\ rWindow' = Max2(Min2((ReaderOffset - rOut[s].from) * 2, MaxWindow), MinimumWindow)
        /\ rBarrier' = Max2(rBarrier, ReaderOffset + rWindow')
        /\ UNCHANGED <<rState, rEof, rOffset, rReady, rQueue, rLastBarrier,
                       rReading, rEnd>>
        /\ Events(FALSE, TRUE, rRTS)
    BY <1>2 DEF ackBarrier
  <2>2. rWindow' \in Nat
    <3>1. (ReaderOffset - rOut[s].from) * 2 \in Int
      BY DEF RTypeOK, ReaderAcks, ReaderOffset, Offsets
    <3>2. Min2((ReaderOffset - rOut[s].from) * 2, MaxWindow) \in Int
      BY <3>1 DEF Min2
    <3> QED BY <2>1, <3>2 DEF Max2
  <2>3. rBarrier' \in Nat
    <3>1. ReaderOffset + rWindow' \in Int
      BY <2>2 DEF RTypeOK, ReaderOffset, Offsets
    <3> QED BY <2>1, <3>1 DEF Max2, RTypeOK
  <2>4. RTypeOK'
    BY <1>1, <2>1, <2>2, <2>3, EventsEffect DEF RTypeOK
  <2>5. ReaderInv'
    BY <1>1, <2>1, EventsEffect DEF ReaderInv, RTypeOK, IsReset
  <2> QED BY <2>1, <2>4, <2>5 DEF Quiet
<1>3. CASE nackBarrier(s)
  <2>1. /\ rOut' = [rOut EXCEPT ![s] = NoAck]
        /\ rLastBarrier' \in {rOut[s].last, rLastBarrier}
        /\ UNCHANGED <<rState, rEof, rOffset, rReady, rQueue, rBarrier, rWindow,
                       rReading, rEnd>>
        /\ Events(FALSE, rLastBarrier = rOut[s].barrier, rRTS)
    BY <1>3 DEF nackBarrier
  <2>2. rLastBarrier' \in Nat
    BY <2>1 DEF RTypeOK, ReaderAcks
  <2>3. /\ rLife' \in {"assigned", "unassigned", "complete"}
        /\ rRTS' \in BOOLEAN
        /\ rLife' \in {"unassigned", "complete"} =>
               \/ rState' = "RESET_DOWN"
               \/ rState' = "SHUTDOWN" /\ rEof' = rOffset'
               \/ rLife' = rLife
    BY <2>1, EventsEffect
  <2>4. RTypeOK'
    BY <1>1, <2>1, <2>2, <2>3 DEF RTypeOK
  <2>5. ReaderInv'
    BY <1>1, <2>1, <2>3 DEF ReaderInv, RTypeOK, IsReset
  <2> QED BY <2>1, <2>4, <2>5 DEF Quiet
<1>4. CASE ackReaderResets(s, ok)
  <2>1. /\ rOut' = [rOut EXCEPT ![s] = NoAck]
        /\ IsReset(rState)
        /\ UNCHANGED <<rState, rEof, rOffset, rReady, rQueue, rBarrier,
                       rLastBarrier, rWindow, rReading, rEnd>>
        /\ Events(ok, FALSE, rRTS \/ ~ ok)
    BY <1>4 DEF ackReaderResets, ReaderInv
  <2>2. /\ rLife' \in {"assigned", "unassigned", "complete"}
        /\ rRTS' \in BOOLEAN
    BY <2>1, EventsEffect
  <2>3. RTypeOK'
    BY <1>1, <2>1, <2>2 DEF RTypeOK
  <2>4. ReaderInv'
    BY <1>1, <2>1, <2>2 DEF ReaderInv, RTypeOK, IsReset
  <2> QED BY <2>1, <2>3, <2>4 DEF Quiet
<1> QED BY <1>2, <1>3, <1>4 DEF ackReader

\* InStreamQueue.recvData: nothing that arrived is forgotten, and a packet
\* within the barrier leaves all its bytes.
LEMMA recvDataOK ==
  ASSUME RTypeOK, ReaderInv, ReceivedInv, wSendOffset \in Offsets,
         NEW m \in ReaderMsgs, m.off <= m.end, m.end <= wSendOffset,
         NEW st, recvData(m, st)
  PROVE  /\ rOffset' \in Offsets /\ rReady' \in Offsets /\ rBarrier' \in Nat
         /\ rQueue' \in SUBSET Bytes
         /\ rQueue' \subseteq Run(0, wSendOffset)
         /\ rOffset <= rOffset' /\ rOffset' <= wSendOffset
         /\ rReady' <= rOffset'
         /\ \A x \in rQueue' : rOffset' < x
         /\ Received \subseteq Received'
         /\ Within(m) => Payload(m) \subseteq Received'
         /\ ~ Feeds(m) => rOffset' = rOffset /\ rReady' = rReady
<1> USE Parameters
<1>1. /\ m.off \in Nat /\ m.end \in Nat /\ wSendOffset \in Nat
      /\ rOffset \in Nat /\ rReady \in Nat /\ rReady <= rOffset
      /\ rOffset <= wSendOffset /\ wSendOffset <= MaxOffset
      /\ rQueue \subseteq Run(0, wSendOffset) /\ rQueue \subseteq Bytes
  BY DEF ReaderMsgs, Offsets, RTypeOK, ReaderInv, ReceivedInv
<1>2. /\ Payload(m) \subseteq Run(0, wSendOffset) /\ Payload(m) \subseteq Bytes
  BY <1>1, RunContains, BytesAreARun DEF Payload
<1>3. CASE Feeds(m) /\ \E o \in FirstGap(m.end) :
             \E n \in IF rReading THEN 0 .. (m.end - rOffset) ELSE {0} :
                /\ rOffset' = o
                /\ rQueue' = {x \in rQueue : o < x}
                /\ rReady' = IF IsReset(st) THEN 0
                             ELSE rReady + (o - (rOffset + n))
                /\ OpenWindow
  <2>1. PICK o \in FirstGap(m.end),
             n \in IF rReading THEN 0 .. (m.end - rOffset) ELSE {0} :
           /\ rOffset' = o
           /\ rQueue' = {x \in rQueue : o < x}
           /\ rReady' = IF IsReset(st) THEN 0
                        ELSE rReady + (o - (rOffset + n))
           /\ OpenWindow
    BY <1>3
  <2>2. m.off <= rOffset /\ rOffset < m.end
    BY <1>3 DEF Feeds
  <2>3. n \in Nat /\ n <= m.end - rOffset
    BY <1>1, <2>2
  <2>4. /\ o \in Nat /\ m.end <= o /\ o \notin rQueue
        /\ Run(m.end, o) \subseteq rQueue
    BY <1>1 DEF FirstGap
  <2>5. o <= wSendOffset
    <3>1. CASE o = m.end
      BY <3>1
    <3>2. CASE m.end < o
      <4>1. o - 1 \in Run(m.end, o)
        BY <1>1, <2>4, <3>2, RunElement
      <4>2. o - 1 \in Run(0, wSendOffset)
        BY <1>1, <2>4, <4>1
      <4> QED BY <1>1, <2>4, <4>2, RunElement
    <3> QED BY <1>1, <2>4, <3>1, <3>2
  <2>6. rReady' \in Nat /\ rReady' <= o
    BY <1>1, <2>1, <2>2, <2>3, <2>4
  <2>7. rBarrier' \in Nat
    BY <2>1, <2>4, <2>6, OpenWindowType
  <2>8. Run(0, rOffset) \subseteq Run(0, o)
    BY <1>1, <2>2, <2>4, RunContains
  <2>9. rQueue \subseteq Run(0, o) \cup rQueue'
    <3> SUFFICES ASSUME NEW x \in rQueue, x \notin rQueue'
                 PROVE  x \in Run(0, o)
      OBVIOUS
    <3>1. x \in Int /\ 0 <= x
      BY <1>1, RunElement
    <3>2. x <= o /\ x # o
      BY <2>1, <2>4, <3>1
    <3> QED BY <2>4, <3>1, <3>2, RunElement
  <2>10. Payload(m) \subseteq Run(0, o)
    BY <1>1, <2>4, RunContains DEF Payload
  <2> QED
    BY <1>1, <1>3, <2>1, <2>2, <2>4, <2>5, <2>6, <2>7, <2>8, <2>9, <2>10
       DEF Received, Offsets
<1>4. CASE /\ Gaps(m)
           /\ rQueue' = rQueue \cup Payload(m)
           /\ UNCHANGED <<rOffset, rReady, rBarrier>>
  <2>1. \A x \in Payload(m) : rOffset < x
    BY <1>1, <1>4, RunElement DEF Gaps, Payload
  <2> QED BY <1>1, <1>2, <1>4, <2>1 DEF ReaderInv, RTypeOK, Received
<1>5. CASE /\ ~ Feeds(m) /\ ~ Gaps(m)
           /\ UNCHANGED <<rOffset, rReady, rQueue, rBarrier>>
  <2>1. Within(m) => Payload(m) \subseteq Run(0, rOffset)
    <3> SUFFICES ASSUME Within(m), NEW x \in Payload(m)
                 PROVE  x \in Run(0, rOffset)
      OBVIOUS
    <3>1. x \in Int /\ m.off <= x /\ x < m.end
      BY <1>1, RunElement DEF Payload
    <3>2. m.end <= rOffset
      BY <1>1, <1>5, <3>1 DEF Feeds, Gaps
    <3> QED BY <1>1, <3>1, <3>2, RunElement
  <2> QED BY <1>1, <1>5, <2>1 DEF ReaderInv, RTypeOK, Received
<1> QED BY <1>3, <1>4, <1>5 DEF recvData

\* InStreamQueue.recv of a DATA message, by a new stream or a known one.
LEMMA recvDATAOK ==
  ASSUME RTypeOK, ReaderInv, ReceivedInv, EofTruth, wSendOffset \in Offsets,
         NEW m \in ReaderMsgs, m.type = "DATA", PacketOK(m),
         NEW st, \/ rLife = "unborn" /\ st \in {"CONNECTED", "RESET"}
                 \/ rLife = "assigned" /\ st = rState,
         recvDATA(m, st), UNCHANGED wVars
  PROVE  /\ RTypeOK' /\ ReaderInv' /\ ReceivedInv' /\ EofTruth'
         /\ rOffset <= rOffset'
         /\ Received \subseteq Received'
         /\ Within(m) => Payload(m) \subseteq Received'
         /\ ~ IsReset(rState') =>
               /\ ~ IsReset(rState)
               /\ rState = "SHUTDOWN" => rState' = "SHUTDOWN" /\ rEof' = rEof
               /\ m.eof => rState' = "SHUTDOWN"
<1> USE Parameters
<1> DEFINE ends == m.eof /\ rReading /\ ~ Feeds(m)
                   /\ m.end = rOffset /\ rReady = 0
           now == CASE m.eof /\ st = "CONNECTED" -> "SHUTDOWN"
                    [] m.eof /\ st = "RESET" -> "RESET_DOWN"
                    [] OTHER -> st
<1>1. /\ recvData(m, st)
      /\ rState' = now
      /\ rEof' = IF m.eof /\ st = "CONNECTED" THEN m.end ELSE rEof
      /\ rReading' = (rReading /\ ~ Feeds(m) /\ ~ ends)
      /\ rEnd' = (rEnd \/ ends)
      /\ UNCHANGED <<rLastBarrier, rWindow, rOut>>
      /\ Events(ends, m.eof \/ Feeds(m), KeyAfter(now, st))
  BY DEF recvDATA
<1>2. /\ m.off <= m.end /\ m.end <= wSendOffset
      /\ m.eof => WasShutdown /\ m.end = wSendOffset
      /\ m.off \in Nat /\ m.end \in Offsets
      /\ wSendOffset' = wSendOffset /\ WasShutdown' = WasShutdown
  BY DEF PacketOK, ReaderMsgs, Offsets, wVars, WasShutdown
<1>3. st \in {"CONNECTED", "SHUTDOWN", "RESET", "RESET_DOWN"}
  BY DEF RTypeOK
<1>4. /\ m.eof /\ st = "CONNECTED" => now = "SHUTDOWN"
      /\ m.eof /\ st = "RESET" => now = "RESET_DOWN"
      /\ ~ (m.eof /\ st \in {"CONNECTED", "RESET"}) => now = st
  OBVIOUS
<1>5. /\ rOffset' \in Offsets /\ rReady' \in Offsets /\ rBarrier' \in Nat
      /\ rQueue' \in SUBSET Bytes
      /\ rQueue' \subseteq Run(0, wSendOffset)
      /\ rOffset <= rOffset' /\ rOffset' <= wSendOffset
      /\ rReady' <= rOffset'
      /\ \A x \in rQueue' : rOffset' < x
      /\ Received \subseteq Received'
      /\ Within(m) => Payload(m) \subseteq Received'
      /\ ~ Feeds(m) => rOffset' = rOffset /\ rReady' = rReady
  BY <1>1, <1>2, recvDataOK
<1>6. /\ ends \in BOOLEAN
      /\ ends => m.eof /\ ~ Feeds(m) /\ m.end = rOffset /\ rReady = 0
  BY DEF Feeds
<1> HIDE DEF ends, now
<1>7. /\ rLife' \in {"assigned", "unassigned", "complete"}
      /\ rRTS' \in BOOLEAN
      /\ rLife' \in {"unassigned", "complete"} =>
            \/ ends
            \/ rState' = "RESET_DOWN"
            \/ rState' = "SHUTDOWN" /\ rEof' = rOffset'
  <2>1. /\ rLife' \in {"assigned", "unassigned", "complete"}
        /\ rRTS' \in BOOLEAN
        /\ rLife' \in {"unassigned", "complete"} =>
              \/ ends
              \/ rState' = "RESET_DOWN"
              \/ rState' = "SHUTDOWN" /\ rEof' = rOffset'
              \/ rLife' = rLife
    BY <1>1, EventsEffect
  <2> QED BY <2>1
<1>8. rState' \in {"CONNECTED", "SHUTDOWN", "RESET", "RESET_DOWN"}
  BY <1>1, <1>3, <1>4
<1>9. rEof' \in Offsets /\ rReading' \in BOOLEAN /\ rEnd' \in BOOLEAN
  <2>1. rEof' \in Offsets
    BY <1>1, <1>2 DEF RTypeOK
  <2>2. rReading' \in BOOLEAN
    BY <1>1
  <2>3. rEnd' \in BOOLEAN
    BY <1>1
  <2> QED BY <2>1, <2>2, <2>3
<1>10. RTypeOK'
  BY <1>1, <1>5, <1>7, <1>8, <1>9 DEF RTypeOK
<1>11. IsReset(rState) => IsReset(rState')
  BY <1>1, <1>4 DEF IsReset, ReaderInv
<1>12. ends => IsReset(rState') \/ (rState' = "SHUTDOWN" /\ rOffset' = rEof')
  <2>1. CASE st = "CONNECTED"
    BY <1>1, <1>4, <1>5, <1>6, <2>1
  <2>2. CASE st = "SHUTDOWN"
    BY <1>1, <1>2, <1>4, <1>5, <1>6, <2>2 DEF EofTruth
  <2>3. CASE IsReset(st)
    BY <1>1, <1>4, <2>3 DEF IsReset
  <2> QED BY <1>3, <2>1, <2>2, <2>3 DEF IsReset
<1>13. ReaderInv'
  <2>1. rLife' # "unborn"
    BY <1>7
  <2>2. rLife' \in {"unassigned", "complete"} =>
          IsReset(rState') \/ (rState' = "SHUTDOWN" /\ rOffset' = rEof')
    BY <1>7, <1>12 DEF IsReset
  <2>3. \A s \in RSlots : rOut'[s].type = "READER_RESETS" => IsReset(rState')
    BY <1>1, <1>11 DEF ReaderInv
  <2> QED BY <1>5, <2>1, <2>2, <2>3 DEF ReaderInv, IsReset
<1>14. ReceivedInv'
  BY <1>2, <1>5 DEF ReceivedInv
<1>15. rState' = "SHUTDOWN" => WasShutdown /\ rEof' = wSendOffset
  BY <1>1, <1>2, <1>3, <1>4 DEF EofTruth, ReaderInv
<1>16. rEnd' => WasShutdown /\ rOffset' = wSendOffset /\ rReady' = 0
  <2>1. CASE rEnd
    <3>1. WasShutdown /\ rOffset = wSendOffset /\ rReady = 0
      BY <2>1 DEF EofTruth
    <3>2. ~ Feeds(m)
      BY <1>2, <3>1 DEF Feeds, Offsets
    <3> QED BY <1>5, <3>1, <3>2
  <2>2. CASE ends
    BY <1>2, <1>5, <1>6, <2>2
  <2> QED BY <1>1, <2>1, <2>2
<1>17. EofTruth'
  BY <1>2, <1>15, <1>16 DEF EofTruth
<1>18. ~ IsReset(rState') =>
          /\ ~ IsReset(rState)
          /\ rState = "SHUTDOWN" => rState' = "SHUTDOWN" /\ rEof' = rEof
          /\ m.eof => rState' = "SHUTDOWN"
  BY <1>1, <1>3, <1>4, <1>11 DEF IsReset, ReaderInv
<1> QED BY <1>5, <1>10, <1>13, <1>14, <1>17, <1>18

----------------------------------------------------------------------------
\* OutStreamQueue.pull of a reset stream.
LEMMA pullResetOK ==
  ASSUME WTypeOK, WriterInv, NEW s \in WSlots, pullReset(s)
  PROVE  /\ WTypeOK' /\ WriterInv' /\ Grows
         /\ UNCHANGED <<wState, wRetransmit, wInflight, wSendOffset, wPull,
                        wShutdown>>
         /\ wOut' = [wOut EXCEPT ![s] = WriterResets]
<1> USE Parameters
<1>1. /\ wOut' = [wOut EXCEPT ![s] = WriterResets]
      /\ wRTS' = FALSE
      /\ UNCHANGED <<wState, wRetransmit, wRetransmitBytes, wInflight,
                     wSendOffset, wBarrier, wBuffer, wShutdown, wInHeap, wPull>>
  BY DEF pullReset
<1>2. WriterResets \in ReaderMsgs
  BY DEF WriterResets, ReaderMsgs, Offsets
<1>3. WTypeOK'
  BY <1>1, <1>2 DEF WTypeOK
<1>4. WriterInv' /\ Grows
  BY <1>1 DEF WriterInv, Grows, WasShutdown, WTypeOK, Offsets
<1> QED BY <1>1, <1>3, <1>4

\* OutStreamQueue.pull, begun or continued after a READY callback.
LEMMA pullOK ==
  ASSUME WTypeOK, WriterInv, NEW s \in WSlots,
         \/ PullResume(s)
         \/ pullReset(s)
         \/ \E room \in 1 .. PacketMax : pullData(s, room)
  PROVE  /\ WTypeOK' /\ WriterInv' /\ Grows
         /\ wShutdown' = wShutdown
         /\ wState' = "ACKD" => wState = "ACKD"
         /\ wState = "RESET" => wState' = "RESET"
         /\ \/ wOut' = wOut
            \/ \E m \in ReaderMsgs :
                  wOut' = [wOut EXCEPT ![s] = m] /\ PacketOK(m)'
         /\ wRetransmit \cup wInflight \cup Pulled
                \cup Run(wSendOffset, wSendOffset')
                \subseteq wRetransmit' \cup wInflight' \cup Pulled'
<1> USE Parameters
<1>1. CASE PullResume(s)
  <2>1. /\ wPull.on
        /\ wPull.off \in Offsets /\ wPull.next \in Offsets
        /\ wPull.room \in 0 .. PacketMax
        /\ wPull.off <= wPull.next /\ wPull.next <= wSendOffset
        /\ PullFrom(s, wPull.off, wPull.next, wPull.room)
    BY <1>1 DEF PullResume, WTypeOK, WriterInv
  <2>2. Pulled = Run(wPull.off, wPull.next)
    BY <2>1 DEF Pulled
  <2>3. PICK off \in Offsets, next \in Offsets, room \in 0 .. PacketMax :
           off = wPull.off /\ next = wPull.next /\ room = wPull.room
    BY <2>1
  <2> QED BY <2>1, <2>2, <2>3, PullFromOK
<1>2. CASE pullReset(s)
  <2>1. WriterResets \in ReaderMsgs
    BY DEF WriterResets, ReaderMsgs, Offsets
  <2>2. PacketOK(WriterResets)'
    BY DEF PacketOK, WriterResets
  <2>3. Pulled' = Pulled /\ Run(wSendOffset, wSendOffset') = {}
    BY <1>2, pullResetOK DEF Pulled, Run, WTypeOK, Offsets
  <2> QED BY <1>2, <2>1, <2>2, <2>3, pullResetOK
<1>3. CASE \E room \in 1 .. PacketMax : pullData(s, room)
  <2>1. PICK room \in 1 .. PacketMax, off \in Offsets :
           /\ off \in wRetransmit \/ off = wSendOffset
           /\ PullFrom(s, off, off, room)
           /\ ~ wPull.on
    BY <1>3 DEF pullData
  <2>2. off <= wSendOffset
    BY <2>1, RunElement DEF WriterInv, WTypeOK, Offsets
  <2>3. Pulled = {}
    BY <2>1 DEF Pulled
  <2>4. off <= off /\ room \in 0 .. PacketMax
    BY DEF Offsets
  <2> QED BY <2>1, <2>2, <2>3, <2>4, PullFromOK
<1> QED BY <1>1, <1>2, <1>3

----------------------------------------------------------------------------
\* A step of the writing end leaves the reader's own invariants in place.
LEMMA ReaderUntouched ==
  ASSUME RTypeOK, ReaderInv, ReceivedInv, EofTruth, WTypeOK, WTypeOK',
         Grows, UNCHANGED rVars
  PROVE  /\ RTypeOK' /\ ReaderInv' /\ ReceivedInv' /\ EofTruth'
         /\ Received' = Received /\ rState' = rState
         /\ rEof' = rEof /\ rOffset' = rOffset
<1>1. UNCHANGED <<rLife, rState, rEof, rOffset, rReady, rQueue, rBarrier,
                  rLastBarrier, rWindow, rReading, rEnd, rRTS, rOut>>
  BY DEF rVars
<1>2. RTypeOK' /\ ReaderInv'
  BY <1>1 DEF RTypeOK, ReaderInv, IsReset
<1>3. /\ wSendOffset \in Nat /\ wSendOffset' \in Nat /\ rOffset \in Nat
      /\ wSendOffset <= wSendOffset'
  BY DEF WTypeOK, RTypeOK, Offsets, Grows
<1>4. ReceivedInv'
  BY <1>1, <1>3, RunContains DEF ReceivedInv
<1>5. EofTruth'
  BY <1>1 DEF EofTruth, Grows
<1> QED BY <1>1, <1>2, <1>4, <1>5 DEF Received

\* A packet stays what it was while the stream grows.
LEMMA PacketKept ==
  ASSUME WTypeOK, WTypeOK', Grows, NEW m \in ReaderMsgs, PacketOK(m)
  PROVE  PacketOK(m)'
<1>1. wSendOffset \in Nat /\ wSendOffset' \in Nat /\ m.end \in Nat
  BY DEF WTypeOK, Offsets, ReaderMsgs
<1> QED BY <1>1 DEF PacketOK, Grows

\* No packet moves.
LEMMA PacketsKept ==
  ASSUME TypeOK, PacketInv, WTypeOK', Grows, UNCHANGED <<wOut, wNet, wGot>>
  PROVE  PacketInv'
<1>1. ASSUME NEW s \in WSlots
      PROVE  PacketOK(wOut[s])' /\ PacketOK(wNet[s])'
  <2>1. PICK m \in ReaderMsgs, n \in ReaderMsgs : m = wOut[s] /\ n = wNet[s]
    BY DEF TypeOK, WTypeOK
  <2>2. PacketOK(m)' /\ PacketOK(n)'
    BY <2>1, PacketKept DEF PacketInv, TypeOK
  <2>3. wOut'[s] = m /\ wNet'[s] = n
    BY <2>1
  <2> QED BY <2>2, <2>3 DEF PacketOK
<1> QED BY <1>1 DEF PacketInv

\* The writer's bytes are where they were, or have moved on.
LEMMA BytesKept ==
  ASSUME NoByteLost, WTypeOK, WTypeOK', Grows,
         wState = "RESET" => wState' = "RESET",
         IsReset(rState) => IsReset(rState'),
         wState' # "RESET" /\ ~ IsReset(rState') =>
             wRetransmit \cup wInflight \cup Pulled \cup Received
                 \cup Run(wSendOffset, wSendOffset')
             \subseteq wRetransmit' \cup wInflight' \cup Pulled'
                           \cup Received'
  PROVE  NoByteLost'
<1>1. Run(0, wSendOffset') =
          Run(0, wSendOffset) \cup Run(wSendOffset, wSendOffset')
  BY RunSplit DEF Grows, WTypeOK, Offsets
<1> QED BY <1>1 DEF NoByteLost

\* The verdict of shutdown does not change, nor what it was about.
LEMMA DeliveryKept ==
  ASSUME DeliveryTruth, Grows,
         wShutdown' = "true" => wShutdown = "true",
         ~ IsReset(rState') =>
             /\ ~ IsReset(rState)
             /\ rState = "SHUTDOWN" => rState' = "SHUTDOWN" /\ rEof' = rEof,
         rOffset \in Int, rOffset' \in Int,
         rOffset <= rOffset', rOffset' <= wSendOffset', wSendOffset' \in Int
  PROVE  DeliveryTruth'
  BY DEF DeliveryTruth, Grows, WasShutdown

\* Every step of the writing end: what is left to show of it.
LEMMA WriterStep ==
  ASSUME IInv, WTypeOK', WriterInv', Grows, UNCHANGED rVars,
         wNet' \in [WSlots -> ReaderMsgs], wGot' \in SUBSET WSlots,
         rNet' \in [RSlots -> WriterMsgs], rGot' \in SUBSET RSlots,
         faults' \in 0 .. MaxFaults,
         PacketInv', GotInv', DeliveryTruth',
         wState = "RESET" => wState' = "RESET",
         wState' # "RESET" /\ ~ IsReset(rState) =>
             wRetransmit \cup wInflight \cup Pulled
                 \cup Run(wSendOffset, wSendOffset')
             \subseteq wRetransmit' \cup wInflight' \cup Pulled' \cup Received
  PROVE  IInv'
<1>1. /\ RTypeOK' /\ ReaderInv' /\ ReceivedInv' /\ EofTruth'
      /\ Received' = Received /\ rState' = rState
  BY ReaderUntouched DEF IInv, TypeOK
<1>2. NoByteLost'
  BY <1>1, BytesKept DEF IInv, TypeOK
<1>3. TypeOK'
  BY <1>1 DEF TypeOK
<1> QED BY <1>1, <1>2, <1>3 DEF IInv

\* A step of the writing end that moves none of its packets.
LEMMA WriterLocalStep ==
  ASSUME IInv, WTypeOK', WriterInv', Grows,
         UNCHANGED <<rVars, wOut, wNet, wGot>>,
         rNet' \in [RSlots -> WriterMsgs], rGot' \in SUBSET RSlots,
         faults' \in 0 .. MaxFaults,
         wState = "RESET" => wState' = "RESET",
         wState' = "ACKD" => wState = "ACKD",
         wShutdown' = "true" => wShutdown = "true",
         wState' # "RESET" =>
             wRetransmit \cup wInflight \cup Pulled
                 \cup Run(wSendOffset, wSendOffset')
             \subseteq wRetransmit' \cup wInflight' \cup Pulled'
  PROVE  IInv'
<1>1. PacketInv'
  BY PacketsKept DEF IInv
<1>2. /\ Received' = Received /\ rState' = rState /\ rEof' = rEof
      /\ rOffset' = rOffset /\ ReceivedInv'
  BY ReaderUntouched DEF IInv, TypeOK
<1>3. GotInv'
  BY <1>2 DEF IInv, GotInv
<1>4. rOffset \in Int /\ wSendOffset' \in Int /\ rOffset <= wSendOffset'
  BY <1>2 DEF IInv, TypeOK, RTypeOK, WTypeOK, Offsets, ReceivedInv
<1>5. DeliveryTruth'
  BY <1>2, <1>4, DeliveryKept DEF IInv
<1>6. wNet' \in [WSlots -> ReaderMsgs] /\ wGot' \in SUBSET WSlots
  BY DEF IInv, TypeOK
<1> QED BY <1>1, <1>3, <1>5, <1>6, WriterStep

\* Every step of the reading end: what is left to show of it.
LEMMA ReaderStep ==
  ASSUME IInv, RTypeOK', ReaderInv', ReceivedInv', EofTruth',
         UNCHANGED wVars,
         wNet' \in [WSlots -> ReaderMsgs], wGot' \in SUBSET WSlots,
         rNet' \in [RSlots -> WriterMsgs], rGot' \in SUBSET RSlots,
         faults' \in 0 .. MaxFaults,
         PacketInv',
         rOffset <= rOffset',
         ~ IsReset(rState') =>
             /\ ~ IsReset(rState)
             /\ rState = "SHUTDOWN" => rState' = "SHUTDOWN" /\ rEof' = rEof
             /\ Received \subseteq Received'
             /\ \A s \in wGot' \ wGot :
                   wOut[s].type = "DATA" =>
                       /\ Payload(wOut[s]) \subseteq Received'
                       /\ wOut[s].eof => rState' = "SHUTDOWN"
  PROVE  IInv'
<1>1. UNCHANGED <<wState, wRetransmit, wRetransmitBytes, wInflight,
                  wSendOffset, wBarrier, wBuffer, wShutdown, wInHeap, wRTS,
                  wPull, wOut>>
  BY DEF wVars
<1>2. WTypeOK' /\ WriterInv'
  BY <1>1 DEF IInv, TypeOK, WTypeOK, WriterInv
<1>3. Grows /\ Pulled' = Pulled
  BY <1>1 DEF Grows, WasShutdown, IInv, TypeOK, WTypeOK, Offsets, Pulled
<1>4. Run(wSendOffset, wSendOffset') = {}
  BY <1>1 DEF Run, IInv, TypeOK, WTypeOK, Offsets
<1>5. IsReset(rState) => IsReset(rState')
  OBVIOUS
<1>6. NoByteLost'
  BY <1>1, <1>2, <1>3, <1>4, <1>5, BytesKept DEF IInv, TypeOK
<1>7. /\ rOffset \in Int /\ rOffset' \in Int /\ wSendOffset' \in Int
      /\ rOffset' <= wSendOffset'
  BY <1>2 DEF IInv, TypeOK, RTypeOK, WTypeOK, Offsets, ReceivedInv
<1>8. DeliveryTruth'
  BY <1>1, <1>3, <1>7, DeliveryKept DEF IInv
<1>9. GotInv'
  BY <1>1 DEF IInv, GotInv
<1>10. TypeOK'
  BY <1>2 DEF TypeOK
<1> QED BY <1>2, <1>6, <1>8, <1>9, <1>10 DEF IInv

\* A step of the reading end that takes in no packet.
LEMMA ReaderLocalStep ==
  ASSUME IInv, RTypeOK', ReaderInv',
         UNCHANGED <<wVars, wNet, wGot>>,
         rNet' \in [RSlots -> WriterMsgs], rGot' \in SUBSET RSlots,
         faults' \in 0 .. MaxFaults,
         rOffset' = rOffset,
         rQueue' \subseteq rQueue,
         \/ IsReset(rState') /\ rReady' = 0 /\ rEnd' = rEnd
         \/ /\ UNCHANGED <<rState, rEof, rQueue>>
            /\ rReady' <= rReady
            /\ rEnd' => rEnd \/ (rState = "SHUTDOWN" /\ rEof = rOffset
                                 /\ rReady = 0)
  PROVE  IInv'
<1>1. wSendOffset' = wSendOffset /\ WasShutdown' = WasShutdown /\ wOut' = wOut
  BY DEF wVars, WasShutdown
<1>2. ReceivedInv'
  BY <1>1 DEF IInv, ReceivedInv
<1>3. rReady \in Nat /\ rReady' \in Nat /\ rOffset \in Nat
  BY DEF IInv, TypeOK, RTypeOK, Offsets
<1>4. EofTruth'
  BY <1>1, <1>3 DEF IInv, EofTruth, IsReset
<1>5. WTypeOK' /\ Grows
  <2>1. WTypeOK'
    BY DEF IInv, TypeOK, WTypeOK, wVars
  <2> QED BY <1>1, <2>1 DEF Grows, WTypeOK, Offsets
<1>6. PacketInv'
  BY <1>1, <1>5, PacketsKept DEF IInv
<1>7. wNet' \in [WSlots -> ReaderMsgs] /\ wGot' \in SUBSET WSlots
  BY DEF IInv, TypeOK
<1>8. ~ IsReset(rState') =>
         /\ ~ IsReset(rState)
         /\ rState = "SHUTDOWN" => rState' = "SHUTDOWN" /\ rEof' = rEof
         /\ Received \subseteq Received'
         /\ wGot' \ wGot = {}
  BY DEF Received
<1> QED BY <1>2, <1>3, <1>4, <1>6, <1>7, <1>8, ReaderStep

----------------------------------------------------------------------------
\* The steps of CuspStream, one by one.

LEMMA InitOK == Init => IInv
<1> USE Parameters
<1> SUFFICES ASSUME Init PROVE IInv
  OBVIOUS
<1>1. /\ NoData \in ReaderMsgs /\ NoData.type = "NONE"
      /\ NoCtl \in WriterMsgs /\ NoAck \in ReaderAcks
      /\ NoAck.type = "NONE"
  BY DEF NoData, NoCtl, NoAck, ReaderMsgs, WriterMsgs, ReaderAcks, Offsets
<1> HIDE DEF NoData, NoCtl, NoAck
<1>2. WTypeOK
  <2>1. wOut \in [WSlots -> ReaderMsgs]
    BY <1>1 DEF Init, WInit
  <2>2. wPull \in [on : BOOLEAN, off : Offsets, next : Offsets,
                   room : 0 .. PacketMax]
    BY DEF Init, WInit, NoPull, Offsets
  <2>3. /\ wSendOffset \in Offsets /\ wBuffer \in Offsets /\ wBarrier \in Nat
        /\ wRetransmitBytes \in Int
        /\ wRetransmit \in SUBSET Bytes /\ wInflight \in SUBSET Bytes
    BY DEF Init, WInit, Offsets
  <2>4. wInHeap \in BOOLEAN /\ wRTS \in BOOLEAN
    BY Zenon DEF Init, WInit
  <2> QED BY <2>1, <2>2, <2>3, <2>4 DEF Init, WInit, WTypeOK
<1>3. RTypeOK
  <2>1. rOut \in [RSlots -> ReaderAcks]
    BY <1>1 DEF Init, RInit
  <2>2. /\ rEof \in Offsets /\ rOffset \in Offsets /\ rReady \in Offsets
        /\ rQueue \in SUBSET Bytes
        /\ rBarrier \in Nat /\ rLastBarrier \in Nat /\ rWindow \in Nat
    BY DEF Init, RInit, Offsets
  <2>3. rReading \in BOOLEAN /\ rEnd \in BOOLEAN /\ rRTS \in BOOLEAN
    BY Zenon DEF Init, RInit
  <2> QED BY <2>1, <2>2, <2>3 DEF Init, RInit, RTypeOK
<1>4. TypeOK
  BY <1>1, <1>2, <1>3 DEF Init, TypeOK
<1>5. WriterInv
  BY DEF Init, WInit, WriterInv, NoPull
<1>6. ReaderInv /\ EofTruth /\ ReceivedInv
  BY <1>1 DEF Init, RInit, WInit, ReaderInv, EofTruth, ReceivedInv, IsReset
<1>7. PacketInv /\ GotInv
  BY <1>1 DEF Init, WInit, PacketInv, PacketOK, GotInv
<1>8. NoByteLost /\ DeliveryTruth
  BY DEF Init, WInit, NoByteLost, DeliveryTruth, Run
<1> QED BY <1>4, <1>5, <1>6, <1>7, <1>8 DEF IInv

LEMMA WriterUserOK ==
  ASSUME IInv, WriterUser
  PROVE  IInv'
<1>1. /\ UNCHANGED <<rVars, wNet, wGot>>
      /\ rNet' \in [RSlots -> WriterMsgs] /\ rGot' \in SUBSET RSlots
      /\ faults' \in 0 .. MaxFaults
  BY DEF WriterUser, netVars, IInv, TypeOK
<1>2. WTypeOK /\ WriterInv
  BY DEF IInv, TypeOK
<1>3. CASE \E n \in 1 .. MaxWrite : write(n)
  <2>1. PICK n \in 1 .. MaxWrite : write(n)
    BY <1>3
  <2>2. Pulled' = Pulled
    BY <1>2, <2>1, writeOK DEF Pulled
  <2> QED BY <1>1, <1>2, <2>1, <2>2, writeOK, WriterLocalStep
<1>4. CASE shutdown \/ shutdownRefused \/ setPriority
  <2>1. Pulled' = Pulled /\ Run(wSendOffset, wSendOffset') = {}
    BY <1>2, <1>4, shutdownOK DEF Pulled, Run, WTypeOK, Offsets
  <2> QED BY <1>1, <1>2, <1>4, <2>1, shutdownOK, WriterLocalStep
<1>5. CASE resetWriter
  BY <1>1, <1>2, <1>5, resetOK, WriterLocalStep
<1> QED BY <1>3, <1>4, <1>5 DEF WriterUser

LEMMA ReaderUserOK ==
  ASSUME IInv, ReaderReads \/ ReaderReset
  PROVE  IInv'
<1>1. /\ UNCHANGED <<wVars, wNet, wGot>>
      /\ rNet' \in [RSlots -> WriterMsgs] /\ rGot' \in SUBSET RSlots
      /\ faults' \in 0 .. MaxFaults
  BY DEF ReaderReads, ReaderReset, netVars, IInv, TypeOK
<1>2. RTypeOK /\ ReaderInv /\ EofTruth /\ rReady \in Nat
  BY DEF IInv, TypeOK, RTypeOK, Offsets
<1>3. CASE readNothing
  BY <1>1, <1>2, <1>3, readNothingOK, ReaderLocalStep
<1>4. CASE \E n \in Offsets : readSome(n)
  <2>1. PICK n \in Offsets : readSome(n)
    BY <1>4
  <2>2. /\ RTypeOK' /\ ReaderInv'
        /\ UNCHANGED <<rState, rEof, rOffset, rQueue, rEnd>>
        /\ rReady' < rReady
    BY <1>2, <2>1, readSomeOK
  <2>3. rReady' \in Nat /\ rReady' <= rReady
    BY <1>2, <2>2 DEF RTypeOK, Offsets
  <2> QED BY <1>1, <2>2, <2>3, ReaderLocalStep
<1>5. CASE resetReader
  BY <1>1, <1>2, <1>5, resetReaderOK, ReaderLocalStep
<1> QED BY <1>3, <1>4, <1>5 DEF ReaderReads, ReaderReset

LEMMA ReaderPullsOK ==
  ASSUME IInv, NEW s \in RSlots, ReaderPulls(s)
  PROVE  IInv'
<1> DEFINE c == IF rOut'[s].type = "READER_BARRIER"
                THEN BarrierMsg(rOut'[s].barrier) ELSE ReaderResets
<1>1. RTypeOK' /\ ReaderInv' /\ Quiet
  BY pullReaderOK DEF ReaderPulls, IInv, TypeOK
<1>2. c \in WriterMsgs
  <2>1. rOut'[s].barrier \in Nat
    BY <1>1 DEF RTypeOK, ReaderAcks
  <2> QED BY <2>1 DEF BarrierMsg, ReaderResets, WriterMsgs
<1>3. /\ rNet' = [rNet EXCEPT ![s] = c]
      /\ UNCHANGED <<wVars, wNet, wGot, rGot, faults>>
  BY DEF ReaderPulls
<1> HIDE DEF c
<1>4. /\ rNet' \in [RSlots -> WriterMsgs] /\ rGot' \in SUBSET RSlots
      /\ faults' \in 0 .. MaxFaults
  BY <1>2, <1>3 DEF IInv, TypeOK
<1>5. rReady' <= rReady
  BY <1>1 DEF Quiet, IInv, TypeOK, RTypeOK, Offsets
<1> QED BY <1>1, <1>3, <1>4, <1>5, ReaderLocalStep DEF Quiet

LEMMA ReaderHearsOK ==
  ASSUME IInv, NEW s \in RSlots, NEW ok \in BOOLEAN, ReaderHears(s, ok),
         faults' \in 0 .. MaxFaults
  PROVE  IInv'
<1>1. RTypeOK' /\ ReaderInv' /\ Quiet
  BY ackReaderOK DEF ReaderHears, IInv, TypeOK
<1>2. /\ UNCHANGED <<wVars, wNet, wGot>>
      /\ rNet' \in [RSlots -> WriterMsgs] /\ rGot' \in SUBSET RSlots
  BY DEF ReaderHears, IInv, TypeOK
<1>3. rReady' <= rReady
  BY <1>1 DEF Quiet, IInv, TypeOK, RTypeOK, Offsets
<1> QED BY <1>1, <1>2, <1>3, ReaderLocalStep DEF Quiet

LEMMA WriterReceivesOK ==
  ASSUME IInv, NEW s \in RSlots, WriterReceives(s)
  PROVE  IInv'
<1>1. /\ UNCHANGED <<rVars, wNet, wGot, faults>>
      /\ rNet' = [rNet EXCEPT ![s] = NoCtl]
      /\ rGot' \in {rGot, rGot \cup {s}}
      /\ recvWriterMsg(rNet[s])
  BY DEF WriterReceives
<1>2. /\ rNet' \in [RSlots -> WriterMsgs] /\ rGot' \in SUBSET RSlots
      /\ faults' \in 0 .. MaxFaults
  BY <1>1 DEF IInv, TypeOK, WriterMsgs, NoCtl
<1>3. WTypeOK /\ WriterInv
  BY DEF IInv, TypeOK
<1>4. CASE recvBarrier(rNet[s].barrier)
  <2>1. PICK b \in Nat : b = rNet[s].barrier
    BY DEF IInv, TypeOK, WriterMsgs
  <2>2. Pulled' = Pulled
    BY <1>3, <1>4, <2>1, recvBarrierOK DEF Pulled
  <2> QED BY <1>1, <1>2, <1>3, <1>4, <2>1, <2>2, recvBarrierOK, WriterLocalStep
<1>5. CASE recvReaderResets
  <2>1. UNCHANGED wOut
    BY <1>3, <1>5, resetOK
  <2> QED BY <1>1, <1>2, <1>3, <1>5, <2>1, resetOK, WriterLocalStep
<1>6. CASE UNCHANGED wVars
  <2>1. RTypeOK' /\ ReaderInv'
    BY <1>1 DEF IInv, TypeOK, RTypeOK, ReaderInv, IsReset, rVars
  <2>2. UNCHANGED <<rState, rEof, rOffset, rReady, rQueue, rEnd>>
    BY <1>1 DEF rVars
  <2>3. rReady' <= rReady
    BY <2>2 DEF IInv, TypeOK, RTypeOK, Offsets
  <2> QED BY <1>1, <1>2, <1>6, <2>1, <2>2, <2>3, ReaderLocalStep
<1> QED BY <1>1, <1>4, <1>5, <1>6 DEF recvWriterMsg

LEMMA LoseCtlOK ==
  ASSUME IInv, NEW s \in RSlots, LoseCtl(s)
  PROVE  IInv'
<1>1. /\ UNCHANGED <<wVars, rVars, wNet, wGot, rGot>>
      /\ rNet' = [rNet EXCEPT ![s] = NoCtl]
      /\ faults < MaxFaults /\ faults' = faults + 1
  BY DEF LoseCtl, Fault
<1>2. /\ rNet' \in [RSlots -> WriterMsgs] /\ rGot' \in SUBSET RSlots
      /\ faults' \in 0 .. MaxFaults
  BY <1>1, Parameters DEF IInv, TypeOK, WriterMsgs, NoCtl
<1>3. RTypeOK' /\ ReaderInv'
  BY <1>1 DEF IInv, TypeOK, RTypeOK, ReaderInv, IsReset, rVars
<1>4. UNCHANGED <<rState, rEof, rOffset, rReady, rQueue, rEnd>>
  BY <1>1 DEF rVars
<1>5. rReady' <= rReady
  BY <1>4 DEF IInv, TypeOK, RTypeOK, Offsets
<1> QED BY <1>1, <1>2, <1>3, <1>4, <1>5, ReaderLocalStep

\* Packets with one of them replaced, in the writer's hands and on the way.
LEMMA PacketsMove ==
  ASSUME TypeOK, PacketInv, WTypeOK', Grows, NEW s \in WSlots,
         NEW m \in ReaderMsgs, NEW n \in ReaderMsgs,
         wOut' = [wOut EXCEPT ![s] = m], wNet' = [wNet EXCEPT ![s] = n],
         PacketOK(m)', PacketOK(n)',
         n # NoData /\ m # NoData => n = m,
         wGot' \subseteq wGot \cup {s}, s \in wGot' => m # NoData
  PROVE  PacketInv' /\ wNet' \in [WSlots -> ReaderMsgs]
                    /\ wGot' \in SUBSET WSlots
<1>1. /\ wOut'[s] = m /\ wNet'[s] = n
      /\ \A t \in WSlots \ {s} : wOut'[t] = wOut[t] /\ wNet'[t] = wNet[t]
  BY DEF TypeOK, WTypeOK
<1>2. ASSUME NEW t \in WSlots
      PROVE  PacketOK(wOut[t])' /\ PacketOK(wNet[t])'
  <2>1. CASE t = s
    BY <1>1, <2>1 DEF PacketOK
  <2>2. CASE t # s
    <3>1. PICK x \in ReaderMsgs, y \in ReaderMsgs : x = wOut[t] /\ y = wNet[t]
      BY DEF TypeOK, WTypeOK
    <3>2. PacketOK(x)' /\ PacketOK(y)'
      BY <3>1, PacketKept DEF PacketInv, TypeOK
    <3>3. wOut'[t] = x /\ wNet'[t] = y
      BY <1>1, <2>2, <3>1
    <3> QED BY <3>2, <3>3 DEF PacketOK
  <2> QED BY <2>1, <2>2
<1>3. \A t \in WSlots :
         wNet'[t] # NoData /\ wOut'[t] # NoData => wNet'[t] = wOut'[t]
  BY <1>1 DEF PacketInv
<1>4. \A t \in wGot' : wOut'[t] # NoData
  BY <1>1 DEF PacketInv, TypeOK
<1>5. wNet' \in [WSlots -> ReaderMsgs] /\ wGot' \in SUBSET WSlots
  BY DEF TypeOK
<1> QED BY <1>2, <1>3, <1>4, <1>5 DEF PacketInv

LEMMA NoDataOK == NoData \in ReaderMsgs /\ NoData.type # "DATA"
                  /\ PacketOK(NoData) /\ PacketOK(NoData)'
  BY Parameters DEF NoData, ReaderMsgs, Offsets, PacketOK

LEMMA WriterPullsOK ==
  ASSUME IInv, NEW s \in WSlots, WriterPulls(s)
  PROVE  IInv'
<1>1. /\ wOut[s] = NoData /\ wNet[s] = NoData
      /\ wNet' = [wNet EXCEPT ![s] = wOut'[s]]
      /\ UNCHANGED <<rVars, wGot, rNet, rGot, faults>>
  BY DEF WriterPulls, WFree
<1>2. /\ WTypeOK' /\ WriterInv' /\ Grows
      /\ wShutdown' = wShutdown
      /\ wState' = "ACKD" => wState = "ACKD"
      /\ wState = "RESET" => wState' = "RESET"
      /\ \/ wOut' = wOut
         \/ \E m \in ReaderMsgs :
               wOut' = [wOut EXCEPT ![s] = m] /\ PacketOK(m)'
      /\ wRetransmit \cup wInflight \cup Pulled
             \cup Run(wSendOffset, wSendOffset')
             \subseteq wRetransmit' \cup wInflight' \cup Pulled'
  BY pullOK DEF WriterPulls, IInv, TypeOK
<1>3. PICK m \in ReaderMsgs :
         /\ wOut' = [wOut EXCEPT ![s] = m]
         /\ PacketOK(m)'
  <2>1. CASE wOut' = wOut
    <3>1. wOut' = [wOut EXCEPT ![s] = NoData]
      BY <1>1, <2>1 DEF IInv, TypeOK, WTypeOK
    <3> QED BY <3>1, NoDataOK
  <2> QED BY <1>2, <2>1
<1>4. wNet' = [wNet EXCEPT ![s] = m] /\ wOut'[s] = m
  BY <1>1, <1>3 DEF IInv, TypeOK, WTypeOK
<1>5. s \notin wGot
  BY <1>1 DEF IInv, PacketInv
<1>6. PacketInv' /\ wNet' \in [WSlots -> ReaderMsgs] /\ wGot' \in SUBSET WSlots
  BY <1>1, <1>2, <1>3, <1>4, <1>5, PacketsMove DEF IInv
<1>7. /\ Received' = Received /\ rState' = rState /\ rEof' = rEof
      /\ rOffset' = rOffset /\ ReceivedInv'
  BY <1>1, <1>2, ReaderUntouched DEF IInv, TypeOK
<1>8. \A t \in wGot : wOut'[t] = wOut[t]
  BY <1>3, <1>5 DEF IInv, TypeOK, WTypeOK
<1>9. GotInv'
  BY <1>1, <1>2, <1>7, <1>8 DEF IInv, GotInv
<1>10. rOffset \in Int /\ wSendOffset' \in Int /\ rOffset <= wSendOffset'
  BY <1>2, <1>7 DEF IInv, TypeOK, RTypeOK, WTypeOK, Offsets, ReceivedInv
<1>11. DeliveryTruth'
  BY <1>2, <1>7, <1>10, DeliveryKept DEF IInv
<1>12. /\ rNet' \in [RSlots -> WriterMsgs] /\ rGot' \in SUBSET RSlots
       /\ faults' \in 0 .. MaxFaults
  BY <1>1 DEF IInv, TypeOK
<1> QED BY <1>1, <1>2, <1>6, <1>9, <1>11, <1>12, WriterStep

LEMMA WriterHearsOK ==
  ASSUME IInv, NEW s \in WSlots, NEW ok \in BOOLEAN, WriterHears(s, ok),
         faults' \in 0 .. MaxFaults
  PROVE  IInv'
<1>1. /\ ~ wPull.on
      /\ ackData(s, ok) \/ ackWriterResets(s, ok)
      /\ ok => s \in wGot
      /\ wGot' = wGot \ {s}
      /\ UNCHANGED <<rVars, wNet, rNet, rGot>>
  BY DEF WriterHears, ackWriter
<1>2. /\ WTypeOK /\ WriterInv /\ PacketOK(wOut[s]) /\ wOut[s] \in ReaderMsgs
  BY DEF IInv, TypeOK, WTypeOK, PacketInv
<1>3. /\ WTypeOK' /\ WriterInv' /\ Grows
      /\ wOut' = [wOut EXCEPT ![s] = NoData]
      /\ wPull' = wPull
      /\ wState = "RESET" => wState' = "RESET"
  BY <1>1, <1>2, ackDataOK, ackWriterResetsOK
<1>4. wState' = "ACKD" =>
          wState = "ACKD" \/ (ok /\ wOut[s].type = "DATA" /\ wOut[s].eof)
  <2>1. CASE ackData(s, ok)
    BY <1>2, <2>1, ackDataOK DEF ackData
  <2>2. CASE ackWriterResets(s, ok)
    BY <1>2, <2>2, ackWriterResetsOK
  <2> QED BY <1>1, <2>1, <2>2
<1>5. /\ Received' = Received /\ rState' = rState /\ rEof' = rEof
      /\ rOffset' = rOffset /\ ReceivedInv' /\ EofTruth'
  BY <1>1, <1>3, ReaderUntouched DEF IInv, TypeOK
<1>6. Pulled = {} /\ Pulled' = {}
  BY <1>1, <1>3 DEF Pulled
<1>7. wState' # "RESET" /\ ~ IsReset(rState) =>
          wRetransmit \cup wInflight \cup Run(wSendOffset, wSendOffset')
             \subseteq wRetransmit' \cup wInflight' \cup Received
  <2>1. CASE ackData(s, ok)
    <3>1. ok /\ ~ IsReset(rState) => Payload(wOut[s]) \subseteq Received
      BY <1>1, <2>1 DEF IInv, GotInv, ackData
    <3> QED BY <1>2, <2>1, <3>1, ackDataOK
  <2>2. CASE ackWriterResets(s, ok)
    <3>1. Run(wSendOffset, wSendOffset') = {}
      BY <1>2, <2>2, ackWriterResetsOK DEF Run, WTypeOK, Offsets
    <3> QED BY <1>2, <2>2, <3>1, ackWriterResetsOK
  <2> QED BY <1>1, <2>1, <2>2
<1>8. PacketInv' /\ wNet' \in [WSlots -> ReaderMsgs] /\ wGot' \in SUBSET WSlots
  <2>1. PICK n \in ReaderMsgs : n = wNet[s]
    BY DEF IInv, TypeOK
  <2>2. PacketOK(n)'
    BY <1>2, <1>3, <2>1, PacketKept DEF IInv, PacketInv
  <2>3. wNet' = [wNet EXCEPT ![s] = n]
    BY <1>1, <2>1 DEF IInv, TypeOK
  <2> QED BY <1>1, <1>3, <2>2, <2>3, NoDataOK, PacketsMove DEF IInv
<1>9. GotInv'
  <2>1. \A t \in wGot' : wOut'[t] = wOut[t] /\ t \in wGot
    BY <1>1, <1>3 DEF IInv, TypeOK, WTypeOK
  <2>2. ~ IsReset(rState) /\ wState' = "ACKD" => rState = "SHUTDOWN"
    BY <1>1, <1>4 DEF IInv, GotInv
  <2> QED BY <1>5, <2>1, <2>2 DEF IInv, GotInv
<1>10. DeliveryTruth'
  <2>1. CASE wShutdown' = "true" => wShutdown = "true"
    <3>1. rOffset \in Int /\ wSendOffset' \in Int /\ rOffset <= wSendOffset'
      BY <1>3, <1>5 DEF IInv, TypeOK, RTypeOK, WTypeOK, Offsets, ReceivedInv
    <3> QED BY <1>3, <1>5, <2>1, <3>1, DeliveryKept DEF IInv
  <2>2. CASE /\ wState' = "ACKD" /\ wInflight' = {} /\ wRetransmit' = {}
             /\ wSendOffset' = wSendOffset
    <3> SUFFICES ASSUME ~ IsReset(rState)
                 PROVE  rState = "SHUTDOWN" /\ rEof = wSendOffset
                        /\ rOffset = wSendOffset
      BY <1>5, <2>2 DEF DeliveryTruth
    <3>1. Run(0, wSendOffset) \subseteq Received
      BY <1>3, <1>6, <1>7, <2>2 DEF IInv, NoByteLost
    <3>2. rOffset \in Nat /\ wSendOffset \in Nat /\ rOffset <= wSendOffset
      BY DEF IInv, TypeOK, RTypeOK, WTypeOK, Offsets, ReceivedInv
    <3>3. rOffset \notin Received
      BY <3>2, RunElement DEF Received, IInv, ReaderInv
    <3>4. rOffset = wSendOffset
      BY <3>1, <3>2, <3>3, RunElement
    <3>5. rState = "SHUTDOWN"
      BY <1>5, <1>9, <2>2 DEF GotInv
    <3> QED BY <3>4, <3>5 DEF IInv, EofTruth
  <2>3. \/ wShutdown' = "true" => wShutdown = "true"
        \/ /\ wState' = "ACKD" /\ wInflight' = {} /\ wRetransmit' = {}
           /\ wSendOffset' = wSendOffset
    BY <1>1, <1>2, ackDataOK, ackWriterResetsOK
  <2> QED BY <2>1, <2>2, <2>3
<1>11. rNet' \in [RSlots -> WriterMsgs] /\ rGot' \in SUBSET RSlots
  BY <1>1 DEF IInv, TypeOK
<1> QED BY <1>1, <1>3, <1>6, <1>7, <1>8, <1>9, <1>10, <1>11, WriterStep

LEMMA LoseDataOK ==
  ASSUME IInv, NEW s \in WSlots, LoseData(s)
  PROVE  IInv'
<1>1. /\ UNCHANGED <<wVars, rVars, wGot, rNet, rGot>>
      /\ wNet' = [wNet EXCEPT ![s] = NoData]
      /\ faults < MaxFaults /\ faults' = faults + 1
  BY DEF LoseData, Fault
<1>2. WTypeOK' /\ wOut' = wOut /\ Grows
  BY <1>1 DEF IInv, TypeOK, WTypeOK, wVars, Grows, WasShutdown, Offsets
<1>3. PICK m \in ReaderMsgs : m = wOut[s]
  BY DEF IInv, TypeOK, WTypeOK
<1>4. PacketOK(m)'
  BY <1>2, <1>3, PacketKept DEF IInv, PacketInv, TypeOK
<1>5. wOut' = [wOut EXCEPT ![s] = m] /\ wGot' = wGot /\ (s \in wGot => m # NoData)
  BY <1>1, <1>2, <1>3 DEF IInv, TypeOK, WTypeOK, PacketInv
<1>6. PacketInv' /\ wNet' \in [WSlots -> ReaderMsgs] /\ wGot' \in SUBSET WSlots
  BY <1>1, <1>2, <1>4, <1>5, NoDataOK, PacketsMove DEF IInv
<1>7. /\ RTypeOK' /\ ReaderInv' /\ ReceivedInv' /\ EofTruth'
      /\ Received' = Received /\ rState' = rState /\ rEof' = rEof
      /\ rOffset' = rOffset
  BY <1>1, <1>2, ReaderUntouched DEF IInv, TypeOK
<1>8. rOffset <= rOffset'
  BY <1>7 DEF RTypeOK, Offsets
<1>9. /\ rNet' \in [RSlots -> WriterMsgs] /\ rGot' \in SUBSET RSlots
      /\ faults' \in 0 .. MaxFaults
  BY <1>1, Parameters DEF IInv, TypeOK
<1> QED BY <1>1, <1>6, <1>7, <1>8, <1>9, ReaderStep

LEMMA ReaderReceivesOK ==
  ASSUME IInv, NEW s \in WSlots, ReaderReceives(s)
  PROVE  IInv'
<1>1. PICK m \in ReaderMsgs : m = wNet[s]
  BY DEF IInv, TypeOK
<1>2. /\ m # NoData
      /\ recvReaderMsg(m)
      /\ wNet' = [wNet EXCEPT ![s] = NoData]
      /\ wGot' = IF Accepts(m) /\ wOut[s] # NoData THEN wGot \cup {s} ELSE wGot
      /\ UNCHANGED <<wVars, rNet, rGot, faults>>
  BY <1>1 DEF ReaderReceives
<1>3. /\ PacketOK(m)
      /\ wOut[s] # NoData => wOut[s] = m
      /\ wSendOffset \in Offsets
  BY <1>1, <1>2 DEF IInv, PacketInv, TypeOK, WTypeOK
<1>4. WTypeOK' /\ wOut' = wOut /\ Grows
  BY <1>2 DEF IInv, TypeOK, WTypeOK, wVars, Grows, WasShutdown, Offsets
<1>5. PacketInv' /\ wNet' \in [WSlots -> ReaderMsgs] /\ wGot' \in SUBSET WSlots
  <2>1. PICK n \in ReaderMsgs : n = wOut[s]
    BY DEF IInv, TypeOK, WTypeOK
  <2>2. PacketOK(n)'
    BY <1>4, <2>1, PacketKept DEF IInv, PacketInv, TypeOK
  <2>3. wOut' = [wOut EXCEPT ![s] = n]
    BY <1>4, <2>1 DEF IInv, TypeOK, WTypeOK
  <2>4. wGot' \subseteq wGot \cup {s} /\ (s \in wGot' => n # NoData)
    BY <1>2, <2>1 DEF IInv, PacketInv
  <2> QED BY <1>2, <1>4, <2>2, <2>3, <2>4, NoDataOK, PacketsMove DEF IInv
<1>6. /\ rNet' \in [RSlots -> WriterMsgs] /\ rGot' \in SUBSET RSlots
      /\ faults' \in 0 .. MaxFaults
  BY <1>2 DEF IInv, TypeOK
<1>7. RTypeOK /\ ReaderInv /\ ReceivedInv /\ EofTruth
  BY DEF IInv, TypeOK
<1>8. \A t \in wGot' \ wGot : t = s /\ wOut[t] = m /\ Accepts(m)
  BY <1>2, <1>3
<1>9. CASE /\ rLife \in {"unborn", "assigned"} /\ m.type = "DATA"
           /\ \E st \in IF rLife = "unborn" THEN {"CONNECTED", "RESET"}
                        ELSE {rState} : recvDATA(m, st)
  <2>1. PICK st : /\ \/ rLife = "unborn" /\ st \in {"CONNECTED", "RESET"}
                     \/ rLife = "assigned" /\ st = rState
                  /\ recvDATA(m, st)
    BY <1>9
  <2>2. /\ RTypeOK' /\ ReaderInv' /\ ReceivedInv' /\ EofTruth'
        /\ rOffset <= rOffset'
        /\ Received \subseteq Received'
        /\ Within(m) => Payload(m) \subseteq Received'
        /\ ~ IsReset(rState') =>
              /\ ~ IsReset(rState)
              /\ rState = "SHUTDOWN" => rState' = "SHUTDOWN" /\ rEof' = rEof
              /\ m.eof => rState' = "SHUTDOWN"
    BY <1>2, <1>3, <1>7, <1>9, <2>1, recvDATAOK
  <2>3. Accepts(m) => Within(m)
    BY <1>9 DEF Accepts
  <2> QED BY <1>2, <1>5, <1>6, <1>8, <2>2, <2>3, ReaderStep
<1>10. CASE recvWriterResets
  <2>1. /\ RTypeOK' /\ ReaderInv' /\ IsReset(rState')
        /\ rOffset' = rOffset /\ rQueue' = {} /\ rReady' = 0 /\ rEnd' = rEnd
    BY <1>7, <1>10, resetReaderOK
  <2>2. wSendOffset' = wSendOffset /\ WasShutdown' = WasShutdown
    BY <1>2 DEF wVars, WasShutdown
  <2>3. ReceivedInv' /\ EofTruth'
    BY <1>7, <2>1, <2>2 DEF ReceivedInv, EofTruth, IsReset
  <2>4. rOffset <= rOffset'
    BY <1>7, <2>1 DEF RTypeOK, Offsets
  <2> QED BY <1>2, <1>5, <1>6, <2>1, <2>3, <2>4, ReaderStep
<1>11. CASE rLife \in {"unassigned", "complete"} /\ UNCHANGED rVars
  <2>1. /\ RTypeOK' /\ ReaderInv' /\ ReceivedInv' /\ EofTruth'
        /\ Received' = Received /\ rState' = rState /\ rEof' = rEof
        /\ rOffset' = rOffset
    BY <1>4, <1>7, <1>11, ReaderUntouched DEF IInv, TypeOK
  <2>2. rOffset <= rOffset'
    BY <1>7, <2>1 DEF RTypeOK, Offsets
  <2>3. ~ IsReset(rState) => rState = "SHUTDOWN" /\ rOffset = wSendOffset
    BY <1>7, <1>11 DEF ReaderInv, EofTruth
  <2>4. m.type = "DATA" => Payload(m) \subseteq Run(0, wSendOffset)
    <3>1. m.type = "DATA" => /\ m.off \in Nat /\ m.end \in Nat
                             /\ m.off <= m.end /\ m.end <= wSendOffset
      BY <1>3 DEF PacketOK, ReaderMsgs, Offsets
    <3> QED BY <1>3, <3>1, RunContains DEF Payload, Offsets
  <2>5. ~ IsReset(rState) /\ m.type = "DATA" => Payload(m) \subseteq Received
    BY <2>3, <2>4 DEF Received
  <2> QED BY <1>2, <1>5, <1>6, <1>8, <2>1, <2>2, <2>3, <2>5, ReaderStep
<1> QED BY <1>2, <1>9, <1>10, <1>11 DEF recvReaderMsg

\* What the sender hears of a packet, and the bound on the faults.
LEMMA HearsOK ==
  ASSUME IInv,
         \/ \E s \in WSlots : WriterAcked(s) \/ WriterNacked(s) \/ WriterMisled(s)
         \/ \E s \in RSlots : ReaderAcked(s) \/ ReaderNacked(s) \/ ReaderMisled(s)
  PROVE  IInv'
<1>1. faults' \in 0 .. MaxFaults
  <2>1. faults \in 0 .. MaxFaults
    BY DEF IInv, TypeOK
  <2>2. faults' = faults \/ (faults < MaxFaults /\ faults' = faults + 1)
    BY DEF Fault, WriterAcked, WriterNacked, WriterMisled,
           ReaderAcked, ReaderNacked, ReaderMisled
  <2> QED BY <2>1, <2>2, Parameters
<1>2. \/ \E s \in WSlots, ok \in BOOLEAN : WriterHears(s, ok)
      \/ \E s \in RSlots, ok \in BOOLEAN : ReaderHears(s, ok)
  BY DEF WriterAcked, WriterNacked, WriterMisled,
         ReaderAcked, ReaderNacked, ReaderMisled
<1> QED BY <1>1, <1>2, WriterHearsOK, ReaderHearsOK

\* Every step of the stream preserves the invariant.
LEMMA NextOK == IInv /\ [Next]_vars => IInv'
<1> SUFFICES ASSUME IInv, [Next]_vars PROVE IInv'
  OBVIOUS
<1>1. CASE User
  BY <1>1, WriterUserOK, ReaderUserOK DEF User
<1>2. ASSUME NEW s \in WSlots, WriterChannel(s) PROVE IInv'
  BY <1>2, WriterPullsOK, ReaderReceivesOK, HearsOK, LoseDataOK
     DEF WriterChannel
<1>3. ASSUME NEW s \in RSlots, ReaderChannel(s) PROVE IInv'
  BY <1>3, ReaderPullsOK, WriterReceivesOK, HearsOK, LoseCtlOK
     DEF ReaderChannel
<1>4. CASE UNCHANGED vars
  <2>1. UNCHANGED <<wVars, rVars, wNet, wGot, rNet, rGot, faults>>
    BY <1>4 DEF vars, netVars
  <2>2. WTypeOK' /\ Grows
    BY <2>1 DEF IInv, TypeOK, WTypeOK, wVars, Grows, WasShutdown, Offsets
  <2>3. PacketInv'
    BY <2>1, <2>2, PacketsKept DEF IInv, wVars
  <2>4. /\ RTypeOK' /\ ReaderInv' /\ ReceivedInv' /\ EofTruth'
        /\ Received' = Received /\ rState' = rState /\ rEof' = rEof
        /\ rOffset' = rOffset
    BY <2>1, <2>2, ReaderUntouched DEF IInv, TypeOK
  <2>5. rOffset <= rOffset'
    BY <2>4 DEF RTypeOK, Offsets
  <2> QED BY <2>1, <2>3, <2>4, <2>5, ReaderStep DEF IInv, TypeOK
<1> QED BY <1>1, <1>2, <1>3, <1>4 DEF Next
----------------------------------------------------------------------------
\* IInv holds in every state a stream and its packets can reach.
THEOREM Invariance == Spec => []IInv
<1>1. Init => IInv
  BY InitOK
<1>2. IInv /\ [Next]_vars => IInv'
  BY NextOK
<1> QED BY <1>1, <1>2, PTL DEF Spec

\* The state of OutStreamQueue, InStreamQueue and the packets between them
\* stays well formed: offsets within the stream, known states, records of
\* the right shape.
THEOREM TypeCorrectness == Spec => []TypeOK
<1>1. IInv => TypeOK
  BY DEF IInv
<1> QED BY <1>1, Invariance, PTL

\* OutStreamQueue.pull and ack never lose a byte: while neither end is
\* reset, every byte taken from the user is to be sent, in flight, or with
\* the reader.
THEOREM NoByteIsLost == Spec => []NoByteLost
<1>1. IInv => NoByteLost
  BY DEF IInv
<1> QED BY <1>1, Invariance, PTL

\* InStreamQueue.shutdown believes the right end: the reader's eof is the
\* writer's, from a shutdown made before any reset, and its user hears
\* SHUTDOWN only after the last byte.
THEOREM EofIsTrue == Spec => []EofTruth
<1>1. IInv => EofTruth
  BY DEF IInv
<1> QED BY <1>1, Invariance, PTL

\* out-stream.sig, shutdown: when the callback hears true, every byte and
\* the end have been delivered to the remote in-stream, or it is reset.
THEOREM DeliveryIsTrue == Spec => []DeliveryTruth
<1>1. IInv => DeliveryTruth
  BY DEF IInv
<1> QED BY <1>1, Invariance, PTL
=============================================================================
