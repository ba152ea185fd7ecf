------------------------------ MODULE AckLayer ------------------------------
(***************************************************************************)
(* cusp/channel/delayed-ack.fun over fast-retransmit.fun over the count of *)
(* bytes in flight of reno.fun: the two established ends of a channel, and *)
(* a network that loses, repeats and reorders their packets.               *)
(*                                                                         *)
(* An ack { mask, rasn } is written with the numbers its mask stands for:  *)
(* bit o of the mask is rasn - o in `seen`.  A packet carries asn and the  *)
(* numbers [asn - acklen, asn] that it acknowledges.  The numbers do not   *)
(* wrap at 2^32, and a packet counts as one, not as its bytes.             *)
(***************************************************************************)
EXTENDS Integers, FiniteSets

CONSTANTS Width,           \* the bits of the receive mask, 16 in the code
          ReorderLimit,    \* 3 in the code
          LastTsn          \* bound: end -> the last packet it sends

Ends == {"a", "b"}
Peer == [e \in Ends |-> IF e = "a" THEN "b" ELSE "a"]

ASSUME AckAssumption ==
    /\ Width \in Nat \ {0}
    /\ ReorderLimit \in Nat
    /\ LastTsn \in [Ends -> Nat]

VARIABLES tsn,             \* end -> number of its last packet
          new, oop,        \* the newest ack, and an out-of-order one or NoAck
          delay, arts,     \* is the ack's timer scheduled; is an ack to send
          queue, expiry,   \* packets to hear of; is their timer scheduled
          inFlight,        \* packets congestion control counts in flight
          open,            \* not destroyed
          net,             \* every packet that was ever sent
          accepted, handed, acked   \* for the properties: see AckService

vars == <<tsn, new, oop, delay, arts, queue, expiry, inFlight, open, net,
          accepted, handed, acked>>
histories == <<accepted, handed, acked>>

NoAck == [rasn |-> -1, seen |-> {}]
Acks == [rasn : Nat, seen : SUBSET Nat]
Packets == [from : Ends, tsn : Nat, asn : Nat, acks : SUBSET Nat, data : BOOLEAN]

\* ackCount: the packets in a row, from the newest downward, that were seen.
InARow(ack) == {t \in ack.seen : t .. ack.rasn \subseteq ack.seen}

\* A channel starts as if packet 0 had been seen; the end that answers a
\* WELCOME schedules an ack.
Init ==
    /\ tsn = [e \in Ends |-> 0] /\ inFlight = tsn /\ handed = tsn
    /\ new = [e \in Ends |-> [rasn |-> 0, seen |-> {0}]]
    /\ oop = [e \in Ends |-> NoAck]
    /\ delay \in [Ends -> BOOLEAN]
    /\ arts = [e \in Ends |-> TRUE] /\ open = arts
    /\ expiry = [e \in Ends |-> FALSE]
    /\ queue = [e \in Ends |-> {}] /\ accepted = queue /\ acked = queue
    /\ net = {}

\* A slip: the timer is not scheduled for the next packet.
TimerAfter_Once(s) == FALSE

\* A slip: the timer is left running.
TimerAfter_Always(s) == TRUE

\* scheduleAt: a timer runs while there is a packet to hear of.
TimerAfter(s) == s # {}
-----------------------------------------------------------------------------
(* Sending. *)

\* DelayedAck.pull: the packet takes the out-of-order ack if there is one.
AckToSend(e) == IF oop[e] # NoAck THEN oop[e] ELSE new[e]

Numbered(e, data) ==
    [from |-> e, tsn |-> tsn[e] + 1, asn |-> AckToSend(e).rasn,
     acks |-> InARow(AckToSend(e)), data |-> data]

Pull(e) ==
    /\ open[e] /\ tsn[e] < LastTsn[e]
    /\ tsn' = [tsn EXCEPT ![e] = @ + 1]
    /\ oop' = [oop EXCEPT ![e] = NoAck]
    /\ arts' = [arts EXCEPT ![e] = FALSE]
    /\ delay' = [delay EXCEPT ![e] = FALSE]
    /\ UNCHANGED <<new, open, histories>>

\* The host has data and the window has room; the packet is sent (ok true)
\* and its timer runs.
PullData(e) ==
    /\ Pull(e)
    /\ net' = net \cup {Numbered(e, TRUE)}
    /\ queue' = [queue EXCEPT ![e] = @ \cup {tsn[e] + 1}]
    /\ expiry' = [expiry EXCEPT ![e] = TimerAfter(queue'[e])]
    /\ inFlight' = [inFlight EXCEPT ![e] = @ + 1]

\* The packet is too long to be sent (ok false): its sender hears MTU at once.
PullUnsent(e) ==
    /\ Pull(e)
    /\ UNCHANGED <<net, queue, expiry, inFlight>>

\* There is only an ack to send.
PullAck(e) ==
    /\ arts[e] /\ Pull(e)
    /\ net' = net \cup {Numbered(e, FALSE)}
    /\ UNCHANGED <<queue, expiry, inFlight>>

DelayFires(e) ==
    /\ delay[e]
    /\ delay' = [delay EXCEPT ![e] = FALSE]
    /\ arts' = [arts EXCEPT ![e] = TRUE]
    /\ UNCHANGED <<tsn, new, oop, queue, expiry, inFlight, open, net, histories>>
-----------------------------------------------------------------------------
(* Receiving. *)

\* FastRetransmit.recv: what the ack says of the packets in the queue.
Acked(e, p) == queue[e] \cap p.acks
Missing(e, p) ==
    {s \in queue[e] \ p.acks : s <= p.asn /\ p.asn - s >= ReorderLimit}

Answered(e, p) == Acked(e, p) \cup Missing(e, p)

\* The ack callbacks are called; what is undecided stays in its place.  The
\* packets in `given` were given up within a callback.
HearAcks(e, p, given) ==
    /\ queue' = [queue EXCEPT ![e] = @ \ Answered(e, p)]
    /\ expiry' = [expiry EXCEPT ![e] = TimerAfter(queue'[e])]
    /\ inFlight' = [inFlight EXCEPT ![e] = @ - Cardinality(Answered(e, p))
                                             - Cardinality(given)]
    /\ acked' = [acked EXCEPT ![e] = @ \cup Acked(e, p)]

\* The host accepts the packet; an empty one it never refuses.
HandedUp(e, p) ==
    /\ accepted' = [accepted EXCEPT ![e] = @ \cup {p.tsn}]
    /\ handed' = [handed EXCEPT ![e] = @ + 1]
Refused(e, p, timer) ==
    /\ p.data
    /\ delay' = [delay EXCEPT ![e] = timer]
    /\ UNCHANGED <<accepted, handed, new, oop, arts>>

immediateAck(e) ==
    /\ delay' = [delay EXCEPT ![e] = FALSE]
    /\ arts' = [arts EXCEPT ![e] = TRUE]
delayedAck(e, timer) ==
    /\ delay' = [delay EXCEPT ![e] = timer]
    /\ UNCHANGED arts

\* Data is acked at once if its timer runs for another ack, or it is out of
\* order.
ScheduleAck(e, p, timer, atOnce) ==
    IF p.data /\ (atOnce \/ timer)
    THEN immediateAck(e) ELSE delayedAck(e, p.data \/ timer)

\* A slip: the mask is not shifted out by a jump.
Newest_Kept(e, p) == [rasn |-> p.tsn, seen |-> new[e].seen \cup {p.tsn}]

\* The newest packet moves the mask on.
Newest(e, p) ==
    [rasn |-> p.tsn,
     seen |-> {t \in new[e].seen \cup {p.tsn} : p.tsn - t < Width}]
IsNewest(e, p) == p.tsn > new[e].rasn

\* The newest packet yet.
recvNewest(e, p, timer) ==
    /\ IsNewest(e, p)
    /\ \/ Refused(e, p, timer)
       \/ /\ HandedUp(e, p)
          /\ new' = [new EXCEPT ![e] = Newest(e, p)]
          /\ ScheduleAck(e, p, timer, FALSE)
          /\ UNCHANGED oop

\* A packet of the mask, not seen before: the next new ack covers it, or it
\* needs an ack of its own.
SeenToo(e, p) == new[e].seen \cup {p.tsn}
Covered(e, p) == p.tsn .. new[e].rasn \subseteq SeenToo(e, p)
OwnAck(e, p) == [rasn |-> p.tsn, seen |-> {t \in SeenToo(e, p) : t <= p.tsn}]

\* A slip: what was seen is accepted again.
IsLate_Again(e, p) == p.tsn <= new[e].rasn /\ new[e].rasn - p.tsn < Width

IsLate(e, p) ==
    p.tsn <= new[e].rasn /\ new[e].rasn - p.tsn < Width /\ p.tsn \notin new[e].seen

recvLate(e, p, timer) ==
    /\ IsLate(e, p)
    /\ \/ Refused(e, p, timer)
       \/ /\ HandedUp(e, p)
          /\ new' = [new EXCEPT ![e].seen = SeenToo(e, p)]
          /\ oop' = IF Covered(e, p) \/ ~p.data THEN oop
                    ELSE [oop EXCEPT ![e] = OwnAck(e, p)]
          /\ ScheduleAck(e, p, timer, ~Covered(e, p))

\* Older packets and those seen before are dropped with their acks.
Recv(e, p) ==
    /\ open[e] /\ p.from = Peer[e]
    /\ recvNewest(e, p, delay[e]) \/ recvLate(e, p, delay[e])
    /\ HearAcks(e, p, {})
    /\ UNCHANGED <<tsn, open, net>>
-----------------------------------------------------------------------------
(* Time, and the end. *)

\* The oldest packet is given up.
Timeout(e) ==
    /\ open[e] /\ expiry[e]
    /\ \E t \in queue[e] :
          /\ \A s \in queue[e] : t <= s
          /\ queue' = [queue EXCEPT ![e] = @ \ {t}]
    /\ expiry' = [expiry EXCEPT ![e] = TimerAfter(queue'[e])]
    /\ inFlight' = [inFlight EXCEPT ![e] = @ - 1]
    /\ UNCHANGED <<tsn, new, oop, delay, arts, open, net, histories>>

\* Every packet in the queue is given up; the queue is left as it is.
destroy(e) ==
    /\ open[e]
    /\ open' = [open EXCEPT ![e] = FALSE]
    /\ delay' = [delay EXCEPT ![e] = FALSE]
    /\ expiry' = [expiry EXCEPT ![e] = FALSE]
    /\ inFlight' = [inFlight EXCEPT ![e] = @ - Cardinality(queue[e])]
    /\ UNCHANGED <<tsn, new, oop, arts, queue, net, histories>>

\* The user's callback for packet c, within recv, destroys the end point: the
\* rest of the queue is given up there, and recv goes on as ever.
RecvDestroyed(e, p, c) ==
    /\ open[e] /\ p.from = Peer[e] /\ c \in Acked(e, p)
    /\ open' = [open EXCEPT ![e] = FALSE]
    /\ recvNewest(e, p, FALSE) \/ recvLate(e, p, FALSE)
    /\ HearAcks(e, p, {s \in queue[e] : s > c})
    /\ UNCHANGED <<tsn, net>>
-----------------------------------------------------------------------------
Step(e) ==
    \/ PullData(e) \/ PullAck(e)
    \/ DelayFires(e) \/ Timeout(e)
    \/ \E p \in net : Recv(e, p)
    \/ destroy(e)

Next == \E e \in Ends : Step(e) \/ PullUnsent(e)

Spec == Init /\ [][Next]_vars

\* Timers fire.
LiveSpec == Spec /\ \A e \in Ends : WF_vars(Timeout(e))

\* Users destroy end points also within callbacks.
CallbackSpec ==
    Init /\ [][\E e \in Ends :
                  \/ Step(e)
                  \/ \E p \in net, c \in queue[e] : RecvDestroyed(e, p, c)]_vars
-----------------------------------------------------------------------------
\* And a timer runs only while there is a packet to give up: timeout raises
\* "unreachable code: cannot timeout no acks!".
TypeOK ==
    /\ tsn \in [Ends -> Nat]
    /\ \A e \in Ends : new[e].rasn \in Nat /\ new[e].seen \subseteq 0 .. new[e].rasn
    /\ \A e \in Ends : oop[e] # NoAck => oop[e].seen \subseteq 0 .. oop[e].rasn
    /\ delay \in [Ends -> BOOLEAN] /\ arts \in [Ends -> BOOLEAN]
    /\ expiry \in [Ends -> BOOLEAN] /\ open \in [Ends -> BOOLEAN]
    /\ \A e \in Ends : queue[e] \subseteq 1 .. tsn[e]
    /\ inFlight \in [Ends -> Nat]
    /\ \A e \in Ends : expiry[e] => queue[e] # {}

(***************************************************************************)
(* Whatever jumps, gaps and stragglers arrive: the mask remembers exactly  *)
(* the last Width packets that were accepted, and the packets it has       *)
(* forgotten are too old to be accepted again.                             *)
(***************************************************************************)
MaskExact ==
    \A e \in Ends :
        /\ new[e].rasn \in accepted[e] \cup {0}
        /\ \A t \in accepted[e] : t <= new[e].rasn
        /\ new[e].seen = {t \in accepted[e] \cup {0} : new[e].rasn - t < Width}

(***************************************************************************)
(* The three layers are the channel that the streams stand on: a packet is *)
(* handed up once, a sender hears of each packet once, "delivered" only of *)
(* an accepted one, and congestion control counts what is still owed.      *)
(***************************************************************************)
Sent == [e \in Ends |-> {p.tsn : p \in {q \in net : q.from = e}}]
Owed == [e \in Ends |-> IF open[e] THEN queue[e] ELSE {}]
MaxTsn == IF LastTsn["a"] > LastTsn["b"] THEN LastTsn["a"] ELSE LastTsn["b"]
Service == INSTANCE AckService WITH sent <- Sent, owed <- Owed, due <- inFlight,
                                    Tsns <- 1 .. MaxTsn
ImplementsChannel == Service!SSpec

(***************************************************************************)
(* The sender of a packet hears of it, if the channel lasts, although no   *)
(* packet may ever arrive again.                                           *)
(***************************************************************************)
EveryPacketAnswered ==
    \A e \in Ends : \A t \in 1 .. MaxTsn :
        open[e] /\ t \in queue[e] ~> ~open[e] \/ t \notin queue[e]

(***************************************************************************)
(* negotiation.sig:54, destroy: "Clear all events associated to the        *)
(* channel."                                                               *)
(***************************************************************************)
EventsCleared == \A e \in Ends : ~open[e] => ~expiry[e] /\ ~delay[e]
=============================================================================
