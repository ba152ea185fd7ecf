----------------------------- MODULE CuspStream -----------------------------
(***************************************************************************)
(* One CUSP stream from end to end: OutStreamQueue on one host,            *)
(* InStreamQueue on the other, and between them the packets of the channel *)
(* layer.  The channel layer promises little (cusp/channel): a packet may  *)
(* be lost or overtaken, it is handed up at most once, its sender hears of *)
(* its fate exactly once, hears "delivered" only if the receiver accepted  *)
(* it, and may hear "lost" of a packet that was delivered or that is still *)
(* under way (FastRetransmit gives up after three later packets or a       *)
(* timeout).                                                               *)
(*                                                                         *)
(* A packet is named by a slot, free again when its fate is known and it   *)
(* is no longer under way.                                                 *)
(***************************************************************************)
EXTENDS OutStreamQueue, InStreamQueue

CONSTANT MaxFaults   \* bound: packets lost or given up too early

ASSUME FaultsAssumption == MaxFaults \in Nat

VARIABLES
    wNet,   \* the writer's packets under way
    wGot,   \* the writer's packets accepted by the reader's host
    rNet,   \* the reader's packets under way
    rGot,   \* the reader's packets accepted by the writer's host
    faults

netVars == <<wNet, wGot, rNet, rGot, faults>>
vars == <<wVars, rVars, netVars>>

TypeOK ==
    /\ WTypeOK
    /\ RTypeOK
    /\ wNet \in [WSlots -> ReaderMsgs]
    /\ wGot \in SUBSET WSlots
    /\ rNet \in [RSlots -> WriterMsgs]
    /\ rGot \in SUBSET RSlots
    /\ faults \in 0 .. MaxFaults

Init ==
    /\ WInit
    /\ RInit
    /\ wNet = [s \in WSlots |-> NoData]
    /\ wGot = {}
    /\ rNet = [s \in RSlots |-> NoCtl]
    /\ rGot = {}
    /\ faults = 0

WFree(s) == wOut[s] = NoData /\ wNet[s] = NoData
RFree(s) == rOut[s] = NoAck /\ rNet[s] = NoCtl

----------------------------------------------------------------------------
\* The users of the two ends.
WriterUser ==
    /\ \/ \E n \in 1 .. MaxWrite : write(n)
       \/ shutdown
       \/ shutdownRefused
       \/ resetWriter
       \/ setPriority
    /\ UNCHANGED <<rVars, netVars>>

ReaderReads ==
    /\ readNothing \/ \E n \in Offsets : readSome(n)
    /\ UNCHANGED <<wVars, netVars>>

ReaderReset ==
    /\ resetReader
    /\ UNCHANGED <<wVars, netVars>>

----------------------------------------------------------------------------
\* The channel asks a host for a packet; HostDispatch.pull passes the
\* request on to the stream.
WriterPulls(s) ==
    /\ WFree(s)
    /\ \/ PullResume(s)
       \/ pullReset(s)
       \/ \E room \in 1 .. PacketMax : pullData(s, room)
    /\ wNet' = [wNet EXCEPT ![s] = wOut'[s]]
    /\ UNCHANGED <<rVars, wGot, rNet, rGot, faults>>

ReaderPulls(s) ==
    /\ RFree(s)
    /\ pullBarrier(s) \/ pullReaderResets(s)
    /\ rNet' = [rNet EXCEPT ![s] = IF rOut'[s].type = "READER_BARRIER"
                                   THEN BarrierMsg(rOut'[s].barrier)
                                   ELSE ReaderResets]
    /\ UNCHANGED <<wVars, wNet, wGot, rGot, faults>>

\* A packet arrives; the host that accepts it marks it to be acknowledged.
ReaderReceives(s) ==
    /\ wNet[s] # NoData
    /\ recvReaderMsg(wNet[s])
    /\ wNet' = [wNet EXCEPT ![s] = NoData]
    /\ wGot' = IF Accepts(wNet[s]) /\ wOut[s] # NoData
               THEN wGot \cup {s} ELSE wGot
    /\ UNCHANGED <<wVars, rNet, rGot, faults>>

WriterReceives(s) ==
    /\ rNet[s] # NoCtl
    /\ recvWriterMsg(rNet[s])
    /\ rNet' = [rNet EXCEPT ![s] = NoCtl]
    /\ rGot' = IF rOut[s] # NoAck THEN rGot \cup {s} ELSE rGot
    /\ UNCHANGED <<rVars, wNet, wGot, faults>>

\* The sender hears of the fate of its packet.
WriterHears(s, ok) ==
    /\ ackWriter(s, ok)
    /\ ok => s \in wGot
    /\ wGot' = wGot \ {s}
    /\ UNCHANGED <<rVars, wNet, rNet, rGot>>

ReaderHears(s, ok) ==
    /\ ackReader(s, ok)
    /\ ok => s \in rGot
    /\ rGot' = rGot \ {s}
    /\ UNCHANGED <<wVars, wNet, wGot, rNet>>

\* A packet is given up although it arrived or may still arrive.
Fault == faults < MaxFaults /\ faults' = faults + 1

WriterAcked(s) == WriterHears(s, TRUE) /\ UNCHANGED faults
WriterNacked(s) == /\ WriterHears(s, FALSE)
                   /\ wNet[s] = NoData /\ s \notin wGot
                   /\ UNCHANGED faults
WriterMisled(s) == /\ WriterHears(s, FALSE)
                   /\ wNet[s] # NoData \/ s \in wGot
                   /\ Fault
ReaderAcked(s) == ReaderHears(s, TRUE) /\ UNCHANGED faults
ReaderNacked(s) == /\ ReaderHears(s, FALSE)
                   /\ rNet[s] = NoCtl /\ s \notin rGot
                   /\ UNCHANGED faults
ReaderMisled(s) == /\ ReaderHears(s, FALSE)
                   /\ rNet[s] # NoCtl \/ s \in rGot
                   /\ Fault

LoseData(s) ==
    /\ wNet[s] # NoData
    /\ Fault
    /\ wNet' = [wNet EXCEPT ![s] = NoData]
    /\ UNCHANGED <<wVars, rVars, wGot, rNet, rGot>>

LoseCtl(s) ==
    /\ rNet[s] # NoCtl
    /\ Fault
    /\ rNet' = [rNet EXCEPT ![s] = NoCtl]
    /\ UNCHANGED <<wVars, rVars, wNet, wGot, rGot>>

----------------------------------------------------------------------------
User == WriterUser \/ ReaderReads \/ ReaderReset

WriterChannel(s) ==
    \/ WriterPulls(s) \/ ReaderReceives(s)
    \/ WriterAcked(s) \/ WriterNacked(s) \/ WriterMisled(s)
    \/ LoseData(s)

ReaderChannel(s) ==
    \/ ReaderPulls(s) \/ WriterReceives(s)
    \/ ReaderAcked(s) \/ ReaderNacked(s) \/ ReaderMisled(s)
    \/ LoseCtl(s)

Next ==
    \/ User
    \/ \E s \in WSlots : WriterChannel(s)
    \/ \E s \in RSlots : ReaderChannel(s)

Spec == Init /\ [][Next]_vars

\* The channel keeps asking a host that is ready to send, a packet that is
\* not lost arrives, and FastRetransmit's queue and timer see to it that
\* every packet is answered for.  FairReader: the reading application reads.
FairChannel ==
    /\ WF_vars(\E s \in WSlots : WriterPulls(s))
    /\ WF_vars(\E s \in RSlots : ReaderPulls(s))
    /\ \A s \in WSlots : /\ WF_vars(ReaderReceives(s))
                         /\ WF_vars(WriterAcked(s))
                         /\ WF_vars(WriterNacked(s))
    /\ \A s \in RSlots : /\ WF_vars(WriterReceives(s))
                         /\ WF_vars(ReaderAcked(s))
                         /\ WF_vars(ReaderNacked(s))

FairReader == WF_vars(ReaderReads)

LiveSpec == Spec /\ FairChannel /\ FairReader
----------------------------------------------------------------------------
\* The bytes in the packet a suspended pull is filling.
Pulled == IF wPull.on THEN Run(wPull.off, wPull.next) ELSE {}

\* The bytes the receiving stream holds or has passed on.
Received == Run(0, rOffset) \cup rQueue

\* The writer heard its user's shutdown before any reset.
WasShutdown == wShutdown \in {"pending", "true", "false"}

\* While neither end is reset, every byte taken from the user is still in
\* the retransmit heap, or in flight, or at the reader: no order of acks,
\* false alarms and splits of segments in ack and pull lets one slip.
NoByteLost ==
    wState # "RESET" /\ ~ IsReset(rState) =>
        Run(0, wSendOffset) \subseteq
            wRetransmit \cup wInflight \cup Pulled \cup Received

\* out-stream.sig, shutdown: the callback hears true only when all the data
\* and the end have been delivered to the remote in-stream, unless the
\* remote end has been reset.
DeliveryTruth ==
    wShutdown = "true" =>
        \/ IsReset(rState)
        \/ rState = "SHUTDOWN" /\ rEof = wSendOffset /\ rOffset = wSendOffset

\* The end the reader knows is the writer's end: it comes only from a
\* shutdown the writer made before any reset, so that a stream reset before
\* shutdown is never seen as ended (out-stream.sig, reset), and the user
\* hears SHUTDOWN only after every byte.
EofTruth ==
    /\ rState = "SHUTDOWN" => WasShutdown /\ rEof = wSendOffset
    /\ rEnd => WasShutdown /\ rOffset = wSendOffset /\ rReady = 0

\* A writer that is not shut down never sends beyond the reader's barrier
\* ("The sender is not allowed to exceed this barrier"), whatever old
\* announcements it obeys, so recvData never drops its packets.
ConnectedWithinBarrier ==
    wState = "CONNECTED" =>
        \A s \in WSlots : /\ wOut[s].end <= rBarrier
                          /\ wNet[s].end <= rBarrier

\* updateRTS is never forgotten: whenever the writer has something to send
\* its host's heap says so, or the reset packet's fate is still to be heard.
WriterWakeup ==
    wInHeap /\ ~ wPull.on /\ amRTS =>
        \/ wRTS
        \/ wState = "RESET" /\ \E s \in WSlots : wOut[s] = WriterResets

\* The same of the reader: a barrier worth announcing, or a reset to tell,
\* is in the heap or under way.
ReaderWakeup ==
    rInHeap =>
        /\ rState = "CONNECTED" =>
              (rRTS <=> rBarrier - rLastBarrier >= BarrierIncrement)
        /\ rState = "RESET" =>
              rRTS \/ \E s \in RSlots : rOut[s].type = "READER_RESETS"

\* A pending write waits only behind data of its own stream, so that an ack
\* or a pull will come to release it.
NoStuckWrite == wBuffer > 0 => wRetransmit # {}

\* Nobody sleeps who has something to do: nothing polls, so a handler that
\* forgets to raise RTS or to release the writer once stops the stream.
NobodySleeps == WriterWakeup /\ ReaderWakeup /\ NoStuckWrite

\* "retransmitBytes = sum of lengths in retransmit", while the stream has
\* not been reset.
RetransmitBytes ==
    wState # "RESET" =>
        wRetransmitBytes = Cardinality(wRetransmit) + Cardinality(Pulled)

\* The reassembly keeps its promises: nothing queued touches the ready data,
\* a waiting read means nothing is ready, and the barrier leaves a window
\* open ("barrier >= reader_offset + window"); and pull is never asked for the
\* state where it would raise Fail "unreachable".
ReassemblyInv ==
    /\ \A x \in rQueue : rOffset < x
    /\ rReading => rReady = 0 /\ ~ IsReset(rState)
    /\ ~ IsReset(rState) => rBarrier >= ReaderOffset + rWindow
    /\ rInHeap /\ rRTS => rState # "SHUTDOWN"

----------------------------------------------------------------------------
\* out-stream.sig, shutdown: "Once all queued data is finally delivered, the
\* callback is invoked with true", or with false after a reset: the callback
\* of a shutdown is never left waiting.
ShutdownCompletes == wShutdown = "pending" ~> wShutdown \in {"true", "false"}

\* out-stream.sig, write: the callback of a write hears READY (or RESET).
WriteCompletes == wBuffer > 0 ~> wBuffer = 0

\* out-stream.sig, reset: "If used before shutdown, remote in-stream is
\* guaranteed to see RESET".
ResetIsSeen == wState = "RESET" /\ ~ WasShutdown ~> IsReset(rState)

\* Both ends of a stream that was reset give their records back.
ResetIsForgotten ==
    /\ wState = "RESET" ~> ~ wInHeap
    /\ IsReset(rState) ~> rLife = "complete"

\* A reset, from whichever end, reaches the other end and is then forgotten by
\* both, however often the packet that tells of it is lost.
ResetsResolve == ResetIsSeen /\ ResetIsForgotten
=============================================================================
