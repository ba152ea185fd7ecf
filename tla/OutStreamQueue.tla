--------------------------- MODULE OutStreamQueue ---------------------------
(***************************************************************************)
(* The sending half of a CUSP stream (cusp/stream/out-stream-queue.sml)    *)
(* with the part of its host record (host-dispatch.fun outStreamCallback)  *)
(* that belongs to the one stream: whether the record is still in the heap *)
(* and whether its heap key says "ready to send".                          *)
(*                                                                         *)
(* pull runs the user's READY callback in the middle of its loop.  Pull    *)
(* stops there (wPull holds the half-filled packet), the user's actions    *)
(* may run, and PullResume continues the loop.  The other handlers run     *)
(* their callbacks last and are single steps.                              *)
(***************************************************************************)
EXTENDS SegmentFormat

CONSTANTS
    WSlots,   \* packets of the writer that can be outstanding at once
    MaxWrite  \* bound: bytes of one write

ASSUME WriterAssumption == MaxWrite \in Nat

VARIABLES
    wState,      \* AM_CONNECTED, AM_SHUTDOWN of {RETRANSMIT, INFLIGHT, ACKD}, AM_RESET
    wRetransmit, \* offsets in the retransmit heap
    wRetransmitBytes, \* the counter kept beside it
    wInflight,   \* offsets in the inflight heap
    wSendOffset, wBarrier,
    wBuffer,     \* length of the pending write, 0 for NONE
    wShutdown,   \* what became of shutdown's callback
    wInHeap,     \* the record is in the host's heap (the stream is known)
    wRTS,        \* the heap key is not negInf
    wPull,       \* the pull loop suspended in a READY callback
    wOut         \* ack callbacks owed, by packet

wVars == <<wState, wRetransmit, wRetransmitBytes, wInflight, wSendOffset,
           wBarrier, wBuffer, wShutdown, wInHeap, wRTS, wPull, wOut>>

NoPull == [on |-> FALSE, off |-> 0, next |-> 0, room |-> 0]
Pulling(off, next, room) ==
    [on |-> TRUE, off |-> off, next |-> next, room |-> room]

IsShutdown(st) == st \in {"RETRANSMIT", "INFLIGHT", "ACKD"}

WTypeOK ==
    /\ wState \in {"CONNECTED", "RETRANSMIT", "INFLIGHT", "ACKD", "RESET"}
    /\ wRetransmit \in SUBSET Bytes
    /\ wRetransmitBytes \in Int
    /\ wInflight \in SUBSET Bytes
    /\ wSendOffset \in Offsets
    /\ wBarrier \in Nat
    /\ wBuffer \in Offsets
    /\ wShutdown \in {"none", "pending", "true", "false", "refused"}
    /\ wInHeap \in BOOLEAN
    /\ wRTS \in BOOLEAN
    /\ wPull \in [on : BOOLEAN, off : Offsets, next : Offsets,
                  room : 0 .. PacketMax]
    /\ wOut \in [WSlots -> ReaderMsgs]

WInit ==
    /\ wState = "CONNECTED"
    /\ wRetransmit = {}
    /\ wRetransmitBytes = 0
    /\ wInflight = {}
    /\ wSendOffset = 0
    /\ wBarrier = MinimumWindow
    /\ wBuffer = 0
    /\ wShutdown = "none"
    /\ wInHeap = TRUE
    /\ wRTS = FALSE
    /\ wPull = NoPull
    /\ wOut = [s \in WSlots |-> NoData]

----------------------------------------------------------------------------
\* Definitions named X_Y are X with the fault Y put in: mutants that the
\* properties have to tell from the code.
amRTS_NoMargin ==
    \/ wState \in {"RESET", "RETRANSMIT"}
    \/ \E x \in wRetransmit : x < wBarrier

\* We are RTS to indicate shutdown or reset, or if the head of the
\* retransmit heap lies clear of the barrier.
amRTS ==
    \/ wState \in {"RESET", "RETRANSMIT"}
    \/ \E x \in wRetransmit : x < wBarrier - SillyWindow

\* The RTS event: a record outside the heap ignores it.
UpdateRTS == wRTS' = (wInHeap' /\ amRTS')

TakeBuffer_Kept ==
    /\ wBuffer > 0
    /\ wRetransmit' = Run(wSendOffset, wSendOffset + wBuffer)
    /\ wSendOffset' = wSendOffset + wBuffer
    /\ UNCHANGED wBuffer

\* Move the buffer into the empty retransmit heap; its writer hears READY.
TakeBuffer ==
    /\ wBuffer > 0
    /\ wRetransmit' = Run(wSendOffset, wSendOffset + wBuffer)
    /\ wSendOffset' = wSendOffset + wBuffer
    /\ wBuffer' = 0

\* makeProgress, when the retransmit heap holds ret.
makeProgress(ret) ==
    \/ /\ ret # {}
       /\ wRetransmit' = ret
       /\ UNCHANGED <<wSendOffset, wBuffer>>
       /\ UpdateRTS
    \/ /\ ret = {}
       /\ TakeBuffer
       /\ UpdateRTS
    \/ /\ ret = {}
       /\ wBuffer = 0
       /\ wRetransmit' = {}
       /\ wRTS' = (wInHeap' /\ wRTS)
       /\ UNCHANGED <<wSendOffset, wBuffer>>

Progress_Uncounted(ret) == 0

\* How many bytes makeProgress adds to the retransmit heap.
Progress(ret) == IF ret = {} THEN wBuffer ELSE 0

----------------------------------------------------------------------------
\* The user's calls.  A call out of turn (a second write before READY, a
\* write or shutdown after shutdown) raises RaceCondition and changes
\* nothing.

write(n) ==
    /\ wState = "CONNECTED"
    /\ wBuffer = 0
    /\ wSendOffset + n <= MaxOffset
    /\ \/ /\ wRetransmit # {}
          /\ wBuffer' = n
          /\ UNCHANGED <<wRetransmit, wRetransmitBytes, wSendOffset>>
       \/ /\ wRetransmit = {}
          /\ wRetransmit' = Run(wSendOffset, wSendOffset + n)
          /\ wRetransmitBytes' = wRetransmitBytes + n
          /\ wSendOffset' = wSendOffset + n
          /\ UNCHANGED wBuffer
    /\ UNCHANGED <<wState, wInflight, wBarrier, wShutdown, wInHeap, wPull,
                   wOut>>
    /\ UpdateRTS

shutdown ==
    /\ wState = "CONNECTED"
    /\ wBuffer = 0
    /\ wState' = "RETRANSMIT"
    /\ wShutdown' = "pending"
    /\ UNCHANGED <<wRetransmit, wRetransmitBytes, wInflight, wSendOffset,
                   wBarrier, wBuffer, wInHeap, wPull, wOut>>
    /\ UpdateRTS

\* shutdown of a stream that is already reset: the callback hears false.
shutdownRefused ==
    /\ wState = "RESET"
    /\ wShutdown = "none"
    /\ wShutdown' = "refused"
    /\ UNCHANGED <<wState, wRetransmit, wRetransmitBytes, wInflight,
                   wSendOffset, wBarrier, wBuffer, wInHeap, wRTS, wPull,
                   wOut>>

doReset_Silent ==
    /\ wState' = "RESET"
    /\ wRetransmit' = {}
    /\ wRetransmitBytes' = 0
    /\ wShutdown' = IF wShutdown = "pending" THEN "false" ELSE wShutdown
    /\ UNCHANGED <<wBuffer, wInflight, wSendOffset, wPull, wOut>>

\* doReset: the retransmit heap and the buffer are dropped, a pending
\* shutdown hears false.
doReset ==
    /\ wState' = "RESET"
    /\ wRetransmit' = {}
    /\ wRetransmitBytes' = 0
    /\ wBuffer' = 0
    /\ wShutdown' = IF wShutdown = "pending" THEN "false" ELSE wShutdown
    /\ UNCHANGED <<wInflight, wSendOffset, wPull, wOut>>

resetWriter ==
    /\ doReset
    /\ UNCHANGED <<wBarrier, wInHeap>>
    /\ UpdateRTS

setPriority ==
    /\ UNCHANGED <<wState, wRetransmit, wRetransmitBytes, wInflight,
                   wSendOffset, wBarrier, wBuffer, wShutdown, wInHeap, wPull,
                   wOut>>
    /\ UpdateRTS

----------------------------------------------------------------------------
FinishPull_EarlyEOF(s, off, end, ret) ==
    LET attachEOF == wState \in {"RETRANSMIT", "INFLIGHT"}
    IN  /\ wOut' = [wOut EXCEPT ![s] = DataMsg(off, end, attachEOF)]
        /\ wInflight' = wInflight \cup Run(off, end)
        /\ wState' = IF attachEOF THEN "INFLIGHT" ELSE wState
        /\ wRetransmit' = ret
        /\ wRetransmitBytes' = wRetransmitBytes - (end - off)
        /\ wPull' = NoPull
        /\ UNCHANGED <<wSendOffset, wBarrier, wBuffer, wShutdown, wInHeap>>
        /\ UpdateRTS

\* The end of pull: the run [off, end) is in flight and packet s carries it,
\* with EOF when it ends a stream that is shut down.  ret is what stays in
\* the retransmit heap.
FinishPull(s, off, end, ret) ==
    LET attachEOF == wState \in {"RETRANSMIT", "INFLIGHT"}
                     /\ end = wSendOffset
    IN  /\ wOut' = [wOut EXCEPT ![s] = DataMsg(off, end, attachEOF)]
        /\ wInflight' = wInflight \cup Run(off, end)
        /\ wState' = IF attachEOF THEN "INFLIGHT" ELSE wState
        /\ wRetransmit' = ret
        /\ wRetransmitBytes' = wRetransmitBytes - (end - off)
        /\ wPull' = NoPull
        /\ UNCHANGED <<wSendOffset, wBarrier, wBuffer, wShutdown, wInHeap>>
        /\ UpdateRTS

PullFrom_NoProgress(s, off, next, room) ==
    \E end \in next .. (next + room) :
        /\ Run(next, end) \subseteq wRetransmit
        /\ end = next + room \/ end \notin wRetransmit
        /\ FinishPull(s, off, end, wRetransmit \ Run(next, end))

\* pullContiguousSegments: the packet starts at off, is filled up to next
\* and has room bytes left.  When the last segment is used up and a write is
\* waiting, makeProgress runs its READY callback and the loop is suspended.
PullFrom(s, off, next, room) ==
    \E end \in next .. (next + room) :
        /\ Run(next, end) \subseteq wRetransmit
        /\ end = next + room \/ end \notin wRetransmit
        /\ LET ret == wRetransmit \ Run(next, end) IN
           \/ /\ next < end /\ ret = {} /\ wBuffer > 0
              /\ TakeBuffer
              /\ wRetransmitBytes' = wRetransmitBytes + Progress(ret)
              /\ wPull' = Pulling(off, end, room - (end - next))
              /\ UNCHANGED <<wState, wInflight, wBarrier, wShutdown, wInHeap,
                             wOut>>
              /\ UpdateRTS
           \/ /\ ~ (next < end /\ ret = {} /\ wBuffer > 0)
              /\ FinishPull(s, off, end, ret)

\* pull of a live stream into a packet with room bytes left.
pullData(s, room) ==
    /\ wInHeap /\ wRTS
    /\ ~ wPull.on
    /\ wState # "RESET"
    /\ \E off \in Offsets :
          /\ \/ off \in wRetransmit /\ \A x \in wRetransmit : off <= x
             \/ wRetransmit = {} /\ off = wSendOffset
          /\ PullFrom(s, off, off, room)

PullResume(s) ==
    /\ wPull.on
    /\ PullFrom(s, wPull.off, wPull.next, wPull.room)

\* pull of a reset stream: RTS goes off until the fate of the packet is known.
pullReset(s) ==
    /\ wInHeap /\ wRTS
    /\ ~ wPull.on
    /\ wState = "RESET"
    /\ wOut' = [wOut EXCEPT ![s] = WriterResets]
    /\ wRTS' = FALSE
    /\ UNCHANGED <<wState, wRetransmit, wRetransmitBytes, wInflight,
                   wSendOffset, wBarrier, wBuffer, wShutdown, wInHeap, wPull>>

----------------------------------------------------------------------------
\* How the ack of a DATA packet moves a stream that is shutting down.
AckedState_Stuck(m, ok) ==
    IF ok /\ m.eof /\ wState \in {"RETRANSMIT", "INFLIGHT"} THEN "ACKD"
    ELSE wState

AckedState(m, ok) ==
    IF m.eof /\ wState \in {"RETRANSMIT", "INFLIGHT"}
    THEN IF ok THEN "ACKD" ELSE "RETRANSMIT"
    ELSE wState

\* amDone, when ack leaves the state st and the inflight heap left.
amDone_TooSoon(st, left) == st = "ACKD" /\ wRetransmit = {}

amDone(st, left) == st = "ACKD" /\ left = {} /\ wRetransmit = {}

\* What a packet that was not delivered puts back.
Requeue_Tail(m) == Run(m.off + 1, m.end)

Requeue(m) == Payload(m)

\* The ack callback of a DATA packet that was delivered (ok), or not.
ackData(s, ok) ==
    LET m == wOut[s]
        st == AckedState(m, ok)
        left == wInflight \ Payload(m)
        done == amDone(st, left)
    IN  /\ m.type = "DATA"
        /\ wOut' = [wOut EXCEPT ![s] = NoData]
        /\ wInflight' = left
        /\ wState' = st
        /\ UNCHANGED <<wBarrier, wPull>>
        /\ \/ /\ ~ ok /\ st # "RESET"
              /\ wRetransmit' = wRetransmit \cup Requeue(m)
              /\ wRetransmitBytes' = wRetransmitBytes + (m.end - m.off)
              /\ UNCHANGED <<wSendOffset, wBuffer, wShutdown, wInHeap>>
              /\ UpdateRTS
           \/ /\ ok \/ st = "RESET"
              /\ wRetransmitBytes' = wRetransmitBytes + Progress(wRetransmit)
              /\ wInHeap' = (wInHeap /\ ~ done)
              /\ wShutdown' = IF done /\ wShutdown = "pending" THEN "true"
                              ELSE wShutdown
              /\ makeProgress(wRetransmit)

ackWriterResets_Once(s, ok) ==
    /\ wOut[s].type = "WRITER_RESETS"
    /\ wOut' = [wOut EXCEPT ![s] = NoData]
    /\ wInHeap' = (wInHeap /\ ~ ok)
    /\ wRTS' = (wInHeap' /\ wRTS)
    /\ UNCHANGED <<wState, wRetransmit, wRetransmitBytes, wInflight,
                   wSendOffset, wBarrier, wBuffer, wShutdown, wPull>>

\* The ack callback of a WRITER_RESETS: delivered completes the stream.
ackWriterResets(s, ok) ==
    /\ wOut[s].type = "WRITER_RESETS"
    /\ wOut' = [wOut EXCEPT ![s] = NoData]
    /\ wInHeap' = (wInHeap /\ ~ ok)
    /\ wRTS' = (wInHeap' /\ (wRTS \/ ~ ok))
    /\ UNCHANGED <<wState, wRetransmit, wRetransmitBytes, wInflight,
                   wSendOffset, wBarrier, wBuffer, wShutdown, wPull>>

ackWriter(s, ok) ==
    /\ ~ wPull.on
    /\ ackData(s, ok) \/ ackWriterResets(s, ok)

----------------------------------------------------------------------------
recvBarrier_Asleep(b) ==
    /\ wBarrier' = b
    /\ UNCHANGED <<wState, wRetransmit, wRetransmitBytes, wInflight,
                   wSendOffset, wBuffer, wShutdown, wInHeap, wRTS, wPull,
                   wOut>>

\* recv of a READER_BARRIER: the barrier is overwritten.
recvBarrier(b) ==
    /\ wBarrier' = b
    /\ wRetransmitBytes' = wRetransmitBytes + Progress(wRetransmit)
    /\ UNCHANGED <<wState, wInflight, wShutdown, wInHeap, wPull, wOut>>
    /\ makeProgress(wRetransmit)

\* recv of a READER_RESETS: the stream is reset and forgotten.
recvReaderResets ==
    /\ doReset
    /\ wInHeap' = FALSE
    /\ wRTS' = FALSE
    /\ UNCHANGED wBarrier

\* HostDispatch.recvSegment: a message for a stream that is gone (its slot
\* is FREE, or its seq has been ticked) is skipped.
recvWriterMsg(m) ==
    /\ ~ wPull.on
    /\ \/ wInHeap /\ m.type = "READER_BARRIER" /\ recvBarrier(m.barrier)
       \/ wInHeap /\ m.type = "READER_RESETS" /\ recvReaderResets
       \/ ~ wInHeap /\ UNCHANGED wVars
=============================================================================
