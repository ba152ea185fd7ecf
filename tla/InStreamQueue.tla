--------------------------- MODULE InStreamQueue ---------------------------
(***************************************************************************)
(* The receiving half of a CUSP stream (cusp/stream/in-stream-queue.sml)   *)
(* with the part of its host record (host-dispatch.fun gotConnection and   *)
(* inStreamCallback) that belongs to the one stream: its life in the       *)
(* inStreams table and the heap, and whether its heap key says "ready to   *)
(* send".                                                                  *)
(*                                                                         *)
(* The queue of out-of-order slices may hold overlapping and repeated      *)
(* slices; what the stream does depends on the set of offsets they cover,  *)
(* and rQueue is that set.  A read returns one slice of the ready queue or *)
(* a part of it: any positive number of the ready bytes.                   *)
(***************************************************************************)
EXTENDS SegmentFormat

CONSTANT RSlots   \* packets of the reader that can be outstanding at once

VARIABLES
    rLife,    \* "unborn", "assigned" (has an id), "unassigned", "complete"
    rState,   \* AM_CONNECTED, AM_SHUTDOWN, AM_RESET, AM_RESET_DOWN
    rEof,     \* the eof of AM_SHUTDOWN
    rOffset,  \* the first byte not in ready
    rReady,   \* bytes in the ready queue (readyBytes)
    rQueue,   \* offsets in the out-of-order queue
    rBarrier, rLastBarrier, rWindow,
    rReading, \* a read is waiting (bufferSize # noBuffer)
    rEnd,     \* SHUTDOWN was reported to the user
    rRTS,     \* the heap key is not negInf
    rOut      \* ack callbacks owed, by packet, with what they captured

rVars == <<rLife, rState, rEof, rOffset, rReady, rQueue, rBarrier,
           rLastBarrier, rWindow, rReading, rEnd, rRTS, rOut>>

IsReset(st) == st \in {"RESET", "RESET_DOWN"}
rInHeap == rLife \in {"assigned", "unassigned"}

NoAck == [type |-> "NONE", barrier |-> 0, last |-> 0, from |-> 0]
ReaderAcks == [type : {"READER_BARRIER", "READER_RESETS", "NONE"},
               barrier : Nat, last : Nat, from : Offsets]

RTypeOK ==
    /\ rLife \in {"unborn", "assigned", "unassigned", "complete"}
    /\ rState \in {"CONNECTED", "SHUTDOWN", "RESET", "RESET_DOWN"}
    /\ rEof \in Offsets
    /\ rOffset \in Offsets
    /\ rReady \in Offsets
    /\ rQueue \in SUBSET Bytes
    /\ rBarrier \in Nat
    /\ rLastBarrier \in Nat
    /\ rWindow \in Nat
    /\ rReading \in BOOLEAN
    /\ rEnd \in BOOLEAN
    /\ rRTS \in BOOLEAN
    /\ rOut \in [RSlots -> ReaderAcks]

RInit ==
    /\ rLife = "unborn"
    /\ rState = "CONNECTED"
    /\ rEof = 0
    /\ rOffset = 0
    /\ rReady = 0
    /\ rQueue = {}
    /\ rBarrier = MinimumWindow
    /\ rLastBarrier = MinimumWindow
    /\ rWindow = MinimumWindow
    /\ rReading = FALSE
    /\ rEnd = FALSE
    /\ rRTS = FALSE
    /\ rOut = [s \in RSlots |-> NoAck]

----------------------------------------------------------------------------
\* The bytes handed to the user so far.
ReaderOffset == rOffset - rReady

\* What the events a handler fires do to the host's record, given the state
\* it leaves: over is BECAME_COMPLETE fired by the handler itself, fired
\* says that fireEvent ran, rts is the key if fireEvent does not set it.
Events(over, fired, rts) ==
    /\ rLife' = IF over \/ (fired /\ rState' = "RESET_DOWN") THEN "complete"
                ELSE IF fired /\ rState' = "SHUTDOWN" /\ rEof' = rOffset'
                        /\ rLife # "complete" THEN "unassigned"
                ELSE IF rLife = "unborn" THEN "assigned"
                ELSE rLife
    /\ rRTS' = (rInHeap' /\ IF fired /\ rState' = "CONNECTED"
                            THEN rBarrier' - rLastBarrier' >= BarrierIncrement
                            ELSE rts)

OpenWindow_Shut == rBarrier' = rBarrier

\* The barrier keeps a window open beyond the bytes the user has read.
OpenWindow == rBarrier' = Max2(rBarrier, ReaderOffset' + rWindow)

----------------------------------------------------------------------------
\* atEOF: the stream is shut down and every byte of it has arrived.
atEOF_Early == rState = "SHUTDOWN"

atEOF == rState = "SHUTDOWN" /\ rEof = rOffset

\* read while nothing is ready: at the end of the stream the user hears
\* SHUTDOWN and the stream is complete, else the read waits.
readNothing ==
    /\ rLife # "unborn" /\ ~ IsReset(rState) /\ ~ rReading
    /\ rReady = 0
    /\ rReading' = ~ atEOF
    /\ rEnd' = (rEnd \/ atEOF)
    /\ UNCHANGED <<rState, rEof, rOffset, rReady, rQueue, rLastBarrier,
                   rWindow, rOut>>
    /\ OpenWindow
    /\ Events(atEOF, TRUE, rRTS)

\* read of n ready bytes.
readSome(n) ==
    /\ rLife # "unborn" /\ ~ IsReset(rState) /\ ~ rReading
    /\ n \in 1 .. rReady
    /\ rReady' = rReady - n
    /\ UNCHANGED <<rState, rEof, rOffset, rQueue, rLastBarrier, rWindow,
                   rReading, rEnd, rOut>>
    /\ OpenWindow
    /\ Events(FALSE, TRUE, rRTS)

\* reset by the user: a stream that has heard its eof has nobody to tell.
resetReader ==
    /\ rLife # "unborn"
    /\ rState' = CASE rState = "CONNECTED" -> "RESET"
                   [] rState = "SHUTDOWN" -> "RESET_DOWN"
                   [] OTHER -> rState
    /\ rReady' = 0
    /\ rQueue' = {}
    /\ rReading' = FALSE
    /\ UNCHANGED <<rEof, rOffset, rBarrier, rLastBarrier, rWindow, rEnd,
                   rOut>>
    /\ Events(FALSE, TRUE, TRUE)

----------------------------------------------------------------------------
\* Where the transfer from the queue stops when the ready data ends at start.
FirstGap(start) == {o \in start .. MaxOffset :
                        o \notin rQueue /\ Run(start, o) \subseteq rQueue}

\* Data that extends the ready data, data that leaves a gap; all other data
\* is old, empty or beyond the barrier.
Within(m) == m.end <= rBarrier
Feeds(m) == Within(m) /\ m.off <= rOffset /\ rOffset < m.end
Gaps(m) == Within(m) /\ rOffset < m.off /\ m.off < m.end

\* recvData, outOfOrder, feedReader and transferQueue: n of the new bytes go
\* straight to a waiting read, the rest and what the queue can add become
\* ready (a reset stream drops them).
recvData(m, st) ==
    \/ /\ Feeds(m)
       /\ \E o \in FirstGap(m.end) :
          \E n \in IF rReading THEN 0 .. (m.end - rOffset) ELSE {0} :
             /\ rOffset' = o
             /\ rQueue' = {x \in rQueue : o < x}
             /\ rReady' = IF IsReset(st) THEN 0
                          ELSE rReady + (o - (rOffset + n))
       /\ OpenWindow
    \/ /\ Gaps(m)
       /\ rQueue' = rQueue \cup Payload(m)
       /\ UNCHANGED <<rOffset, rReady, rBarrier>>
    \/ /\ ~ Feeds(m) /\ ~ Gaps(m)
       /\ UNCHANGED <<rOffset, rReady, rQueue, rBarrier>>

\* The heap key after shutdown has run: off once the stream is AM_SHUTDOWN,
\* on if the stream was reset when it was created.
KeyAfter_Kept(now, st) == rRTS \/ st # rState

KeyAfter(now, st) == now # "SHUTDOWN" /\ (rRTS \/ st # rState)

\* recv of a DATA message by a stream in state st: recvData, then shutdown
\* if the message carries EOF, accepted or not.
recvDATA(m, st) ==
    LET ends == m.eof /\ rReading /\ ~ Feeds(m)
                /\ m.end = rOffset /\ rReady = 0
        now == CASE m.eof /\ st = "CONNECTED" -> "SHUTDOWN"
                 [] m.eof /\ st = "RESET" -> "RESET_DOWN"
                 [] OTHER -> st
    IN  /\ recvData(m, st)
        /\ rState' = now
        /\ rEof' = IF m.eof /\ st = "CONNECTED" THEN m.end ELSE rEof
        /\ rReading' = (rReading /\ ~ Feeds(m) /\ ~ ends)
        /\ rEnd' = (rEnd \/ ends)
        /\ UNCHANGED <<rLastBarrier, rWindow, rOut>>
        /\ Events(ends, m.eof \/ Feeds(m),
                  KeyAfter(now, st))

\* recv of a WRITER_RESETS: shut down, then reset.
recvWriterResets ==
    /\ rState' = "RESET_DOWN"
    /\ rReady' = 0
    /\ rQueue' = {}
    /\ rReading' = FALSE
    /\ rEof' = 0
    /\ UNCHANGED <<rOffset, rBarrier, rLastBarrier, rWindow, rEnd, rOut>>
    /\ Events(FALSE, TRUE, TRUE)

\* HostDispatch.recvSegment: the first packet creates the stream, which a
\* host without a listener resets at once (st); a message for a stream that
\* has given up its id is skipped.
recvReaderMsg(m) ==
    \/ /\ rLife \in {"unborn", "assigned"}
       /\ \/ /\ m.type = "DATA"
             /\ \E st \in IF rLife = "unborn" THEN {"CONNECTED", "RESET"}
                          ELSE {rState} : recvDATA(m, st)
          \/ /\ m.type = "WRITER_RESETS"
             /\ recvWriterResets
    \/ /\ rLife \in {"unassigned", "complete"}
       /\ UNCHANGED rVars

\* What recvSegment reports to the ack layer: false only for data beyond the
\* barrier.
Accepts(m) == rLife \in {"unborn", "assigned"} /\ m.type = "DATA" => Within(m)

----------------------------------------------------------------------------
\* pull: announce the barrier.  A stream in AM_SHUTDOWN raises Fail
\* "unreachable".
pullBarrier(s) ==
    /\ rInHeap /\ rRTS
    /\ rState = "CONNECTED"
    /\ rOut' = [rOut EXCEPT ![s] = [type |-> "READER_BARRIER",
                                    barrier |-> rBarrier,
                                    last |-> rLastBarrier,
                                    from |-> ReaderOffset]]
    /\ rLastBarrier' = rBarrier
    /\ rRTS' = FALSE
    /\ UNCHANGED <<rLife, rState, rEof, rOffset, rReady, rQueue, rBarrier,
                   rWindow, rReading, rEnd>>

pullReaderResets(s) ==
    /\ rInHeap /\ rRTS
    /\ IsReset(rState)
    /\ rOut' = [rOut EXCEPT ![s] = [NoAck EXCEPT !.type = "READER_RESETS"]]
    /\ rRTS' = FALSE
    /\ UNCHANGED <<rLife, rState, rEof, rOffset, rReady, rQueue, rBarrier,
                   rLastBarrier, rWindow, rReading, rEnd>>

\* The ack callbacks of a READER_BARRIER: the window becomes twice the
\* progress made meanwhile; a lost announcement restores lastBarrier unless
\* a later one replaced it.
ackBarrier(s) ==
    LET doubled == (ReaderOffset - rOut[s].from) * 2 IN
    /\ rOut[s].type = "READER_BARRIER"
    /\ rOut' = [rOut EXCEPT ![s] = NoAck]
    /\ rWindow' = Max2(Min2(doubled, MaxWindow), MinimumWindow)
    /\ rBarrier' = Max2(rBarrier, ReaderOffset + rWindow')
    /\ UNCHANGED <<rState, rEof, rOffset, rReady, rQueue, rLastBarrier,
                   rReading, rEnd>>
    /\ Events(FALSE, TRUE, rRTS)

nackBarrier_Forgets(s) ==
    /\ rOut[s].type = "READER_BARRIER"
    /\ rOut' = [rOut EXCEPT ![s] = NoAck]
    /\ UNCHANGED <<rLife, rState, rEof, rOffset, rReady, rQueue, rBarrier,
                   rLastBarrier, rWindow, rReading, rEnd, rRTS>>

nackBarrier_Asleep(s) ==
    LET m == rOut[s] IN
    /\ m.type = "READER_BARRIER"
    /\ rOut' = [rOut EXCEPT ![s] = NoAck]
    /\ rLastBarrier' = IF rLastBarrier = m.barrier THEN m.last
                       ELSE rLastBarrier
    /\ UNCHANGED <<rState, rEof, rOffset, rReady, rQueue, rBarrier, rWindow,
                   rReading, rEnd>>
    /\ Events(FALSE, FALSE, rRTS)

nackBarrier(s) ==
    LET m == rOut[s] IN
    /\ m.type = "READER_BARRIER"
    /\ rOut' = [rOut EXCEPT ![s] = NoAck]
    /\ rLastBarrier' = IF rLastBarrier = m.barrier THEN m.last
                       ELSE rLastBarrier
    /\ UNCHANGED <<rState, rEof, rOffset, rReady, rQueue, rBarrier, rWindow,
                   rReading, rEnd>>
    /\ Events(FALSE, rLastBarrier = m.barrier, rRTS)

ackReaderResets_Once(s, ok) ==
    /\ rOut[s].type = "READER_RESETS"
    /\ rOut' = [rOut EXCEPT ![s] = NoAck]
    /\ UNCHANGED <<rState, rEof, rOffset, rReady, rQueue, rBarrier,
                   rLastBarrier, rWindow, rReading, rEnd>>
    /\ Events(ok, FALSE, rRTS)

\* The ack callback of a READER_RESETS.
ackReaderResets(s, ok) ==
    /\ rOut[s].type = "READER_RESETS"
    /\ rOut' = [rOut EXCEPT ![s] = NoAck]
    /\ UNCHANGED <<rState, rEof, rOffset, rReady, rQueue, rBarrier,
                   rLastBarrier, rWindow, rReading, rEnd>>
    /\ Events(ok, FALSE, rRTS \/ ~ ok)

ackReader(s, ok) ==
    \/ ok /\ ackBarrier(s)
    \/ ~ ok /\ nackBarrier(s)
    \/ ackReaderResets(s, ok)
=============================================================================
