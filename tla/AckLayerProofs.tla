--------------------------- MODULE AckLayerProofs ---------------------------
(***************************************************************************)
(* Proofs about AckLayer, for every width of the mask, reorder limit and   *)
(* number of packets: the mask is exact, and the layers implement the      *)
(* channel of AckService.                                                  *)
(*                                                                         *)
(* That "delivered" is heard only of an accepted packet needs three facts  *)
(* on the way of an ack, at its receiver (MaskExact), where it waits as an *)
(* out-of-order ack (OwnAcksTrue) and in the network (AcksTrue).  That a   *)
(* packet is accepted once needs the exact mask: a packet that is not in   *)
(* it and lies within its width was never accepted.                        *)
(***************************************************************************)
EXTENDS AckLayer, FiniteSetTheorems, TLAPS

Numbers == Nat \ {0}

Typed ==
    /\ tsn \in [Ends -> Nat] /\ inFlight \in [Ends -> Int]
    /\ handed \in [Ends -> Nat]
    /\ new \in [Ends -> Acks] /\ oop \in [Ends -> Acks \cup {NoAck}]
    /\ delay \in [Ends -> BOOLEAN] /\ arts \in [Ends -> BOOLEAN]
    /\ expiry \in [Ends -> BOOLEAN] /\ open \in [Ends -> BOOLEAN]
    /\ queue \in [Ends -> SUBSET Numbers]
    /\ accepted \in [Ends -> SUBSET Numbers] /\ acked \in [Ends -> SUBSET Numbers]
    /\ net \subseteq Packets

\* Packets have the numbers their sender has reached.
Reached ==
    /\ \A p \in net : 1 <= p.tsn /\ p.tsn <= tsn[p.from]
    /\ \A e \in Ends : tsn[e] <= LastTsn[e] /\ \A t \in queue[e] : t <= tsn[e]

\* An ack names accepted packets: waiting to be sent, and under way.
OwnAcksTrue ==
    \A e \in Ends : \A t \in oop[e].seen :
        t \in accepted[e] \cup {0} /\ t <= oop[e].rasn
AcksTrue == \A p \in net : p.acks \subseteq accepted[p.from] \cup {0}

\* Congestion control counts what is owed.
Counted ==
    \A e \in Ends :
        /\ IsFiniteSet(queue[e])
        /\ inFlight[e] = IF open[e] THEN Cardinality(queue[e]) ELSE 0

TimerNeeded == \A e \in Ends : expiry[e] => queue[e] # {}

IInv ==
    /\ Typed /\ Reached /\ OwnAcksTrue /\ AcksTrue /\ Counted /\ TimerNeeded
    /\ MaskExact

\* AckService counts as this module does.
LEMMA SameCardinality == \A S : Service!Cardinality(S) = Cardinality(S)
BY Zenon DEF Service!Cardinality, Cardinality

LEMMA PeerType == \A e \in Ends : Peer[e] \in Ends /\ Peer[e] # e
BY DEF Peer, Ends
-----------------------------------------------------------------------------
LEMMA InitStep ==
    ASSUME Init
    PROVE  IInv /\ Service!SInit
<1>1. Typed
  BY DEF Init, Typed, Acks, Packets, NoAck, Numbers
<1>2. Reached /\ OwnAcksTrue /\ AcksTrue /\ TimerNeeded
  BY AckAssumption DEF Init, Reached, OwnAcksTrue, AcksTrue, TimerNeeded, NoAck
<1>3. Counted
  BY FS_EmptySet DEF Init, Counted
<1>4. MaskExact
  BY AckAssumption DEF Init, MaskExact
<1>5. Sent = [e \in Ends |-> {}] /\ Owed = Sent
  BY DEF Init, Sent, Owed
<1>6. Service!SInit
  BY <1>5 DEF Init, Service!SInit
<1> QED BY <1>1, <1>2, <1>3, <1>4, <1>6 DEF IInv
-----------------------------------------------------------------------------
(* Sending. *)

LEMMA NumberedPacket ==
    ASSUME IInv, NEW e \in Ends, NEW d \in BOOLEAN
    PROVE  /\ Numbered(e, d) \in Packets
           /\ Numbered(e, d).from = e /\ Numbered(e, d).tsn = tsn[e] + 1
           /\ Numbered(e, d).acks \subseteq accepted[e] \cup {0}
<1>1. AckToSend(e) \in Acks
  BY DEF AckToSend, IInv, Typed
<1>2. AckToSend(e).seen \subseteq accepted[e] \cup {0}
  BY DEF AckToSend, IInv, OwnAcksTrue, MaskExact
<1>3. InARow(AckToSend(e)) \subseteq AckToSend(e).seen
  BY DEF InARow
<1>4. AckToSend(e).rasn \in Nat /\ AckToSend(e).seen \subseteq Nat
  BY <1>1 DEF Acks
<1>5. tsn[e] + 1 \in Nat
  BY DEF IInv, Typed
<1> QED BY <1>2, <1>3, <1>4, <1>5 DEF Numbered, Packets

\* What every pull leaves in order.
LEMMA PullKeeps ==
    ASSUME IInv, NEW e \in Ends, Pull(e)
    PROVE  /\ tsn' \in [Ends -> Nat] /\ handed' \in [Ends -> Nat]
           /\ new' \in [Ends -> Acks] /\ oop' \in [Ends -> Acks \cup {NoAck}]
           /\ delay' \in [Ends -> BOOLEAN] /\ arts' \in [Ends -> BOOLEAN]
           /\ open' \in [Ends -> BOOLEAN] /\ open[e]
           /\ accepted' \in [Ends -> SUBSET Numbers] /\ acked' \in [Ends -> SUBSET Numbers]
           /\ tsn'[e] = tsn[e] + 1 /\ tsn'[e] <= LastTsn[e]
           /\ \A f \in Ends : f # e => tsn'[f] = tsn[f]
           /\ OwnAcksTrue' /\ MaskExact'
<1>1. tsn \in [Ends -> Nat] /\ LastTsn[e] \in Nat
  BY AckAssumption DEF IInv, Typed
<1>2. OwnAcksTrue'
  BY DEF IInv, Typed, OwnAcksTrue, Pull, histories, NoAck
<1>3. MaskExact'
  BY DEF IInv, MaskExact, Pull, histories
<1> QED BY <1>1, <1>2, <1>3 DEF IInv, Typed, Pull, histories

LEMMA SendStep ==
    ASSUME IInv, NEW e \in Ends, PullData(e) \/ PullAck(e)
    PROVE  IInv' /\ Service!SSend(e)
<1> DEFINE n == tsn[e] + 1
<1>1. PICK d \in BOOLEAN :
          /\ Pull(e) /\ net' = net \cup {Numbered(e, d)}
          /\ d => /\ queue' = [queue EXCEPT ![e] = @ \cup {n}]
                  /\ expiry' = [expiry EXCEPT ![e] = TimerAfter(queue'[e])]
                  /\ inFlight' = [inFlight EXCEPT ![e] = @ + 1]
          /\ ~d => UNCHANGED <<queue, expiry, inFlight>>
  BY DEF PullData, PullAck
<1>2. /\ Numbered(e, d) \in Packets /\ Numbered(e, d).from = e
      /\ Numbered(e, d).tsn = n /\ Numbered(e, d).acks \subseteq accepted[e] \cup {0}
  BY NumberedPacket
<1>3. n \in Numbers /\ n <= LastTsn[e] /\ LastTsn[e] \in Nat
  <2>1. tsn[e] \in Nat /\ LastTsn[e] \in Nat
    BY AckAssumption DEF IInv, Typed
  <2>2. tsn[e] < LastTsn[e]
    BY <1>1 DEF Pull
  <2> QED BY <2>1, <2>2 DEF Numbers
<1>4. n \notin queue[e]
  BY <1>3 DEF IInv, Typed, Reached
<1>5. Typed'
  <2>1. queue' \in [Ends -> SUBSET Numbers] /\ inFlight' \in [Ends -> Int]
        /\ expiry' \in [Ends -> BOOLEAN]
    <3>1. /\ queue \in [Ends -> SUBSET Numbers] /\ inFlight \in [Ends -> Int]
          /\ expiry \in [Ends -> BOOLEAN]
      BY DEF IInv, Typed
    <3>2. queue[e] \cup {n} \in SUBSET Numbers /\ inFlight[e] + 1 \in Int
      BY <1>3, <3>1
    <3>3. TimerAfter(queue'[e]) \in BOOLEAN
      BY DEF TimerAfter
    <3>4. CASE d
      BY <1>1, <3>1, <3>2, <3>3, <3>4
    <3>5. CASE ~d
      BY <1>1, <3>1, <3>5
    <3> QED BY <3>4, <3>5
  <2>2. net' \subseteq Packets
    BY <1>1, <1>2 DEF IInv, Typed
  <2> QED BY <1>1, <2>1, <2>2, PullKeeps DEF Typed
<1>6. Reached'
  <2>1. \A p \in net' : 1 <= p.tsn /\ p.tsn <= tsn'[p.from]
    <3>1. \A p \in net : p.from \in Ends /\ p.tsn \in Nat
      BY DEF IInv, Typed, Packets
    <3> QED BY <1>1, <1>2, <1>3, <3>1, PullKeeps DEF IInv, Reached, Typed, Numbers
  <2>2. \A f \in Ends : tsn'[f] <= LastTsn[f] /\ \A t \in queue'[f] : t <= tsn'[f]
    <3> SUFFICES ASSUME NEW f \in Ends
                 PROVE  tsn'[f] <= LastTsn[f] /\ \A t \in queue'[f] : t <= tsn'[f]
      OBVIOUS
    <3>0. /\ tsn[f] \in Nat /\ tsn[f] <= LastTsn[f] /\ queue \in [Ends -> SUBSET Nat]
          /\ \A t \in queue[f] : t <= tsn[f]
      BY DEF IInv, Reached, Typed, Numbers
    <3>1. CASE f = e
      <4>1. \A t \in queue'[e] : t \in queue[e] \/ t = n
        BY <1>1, <3>0
      <4>2. tsn'[e] = n /\ tsn'[e] <= LastTsn[e]
        BY <1>1, PullKeeps
      <4> QED BY <3>0, <3>1, <4>1, <4>2
    <3>2. CASE f # e
      <4>1. queue'[f] = queue[f]
        BY <1>1, <3>0, <3>2
      <4>2. tsn'[f] = tsn[f]
        BY <1>1, <3>2, PullKeeps
      <4> QED BY <3>0, <4>1, <4>2
    <3> QED BY <3>1, <3>2
  <2> QED BY <2>1, <2>2 DEF Reached
<1>7. AcksTrue' /\ TimerNeeded'
  BY <1>1, <1>2 DEF IInv, Typed, AcksTrue, TimerNeeded, TimerAfter, Pull, histories
<1>8. Counted'
  <2>1. IsFiniteSet(queue[e] \cup {n})
        /\ Cardinality(queue[e] \cup {n}) = Cardinality(queue[e]) + 1
    BY <1>4, FS_AddElement DEF IInv, Counted
  <2>2. open' = open /\ open[e]
    BY <1>1 DEF Pull
  <2> QED BY <1>1, <2>1, <2>2 DEF IInv, Counted, Typed
<1>9. IInv'
  BY <1>1, <1>5, <1>6, <1>7, <1>8, PullKeeps DEF IInv
<1>10. Service!SSend(e)
  <2>1. n \in 1 .. MaxTsn
    <3>1. LastTsn["a"] \in Nat /\ LastTsn["b"] \in Nat /\ (e = "a" \/ e = "b")
      BY AckAssumption DEF Ends
    <3> QED BY <1>3, <3>1 DEF MaxTsn, Numbers
  <2>2. n \notin Sent[e]
    BY DEF IInv, Typed, Reached, Sent, Packets
  <2>3. Sent' = [Sent EXCEPT ![e] = @ \cup {n}]
    <3>1. net' = net \cup {Numbered(e, d)}
      BY <1>1
    <3>2. \A f \in Ends : Sent'[f] = IF f = e THEN Sent[f] \cup {n} ELSE Sent[f]
      BY <1>2, <3>1 DEF Sent
    <3> QED BY <3>2 DEF Sent
  <2>4. d => Owed' = [Owed EXCEPT ![e] = @ \cup {n}]
    BY <1>1 DEF Owed, Pull, IInv, Typed
  <2>5. ~d => UNCHANGED <<Owed, inFlight>>
    BY <1>1 DEF Owed, Pull
  <2> QED BY <1>1, <2>1, <2>2, <2>3, <2>4, <2>5 DEF Service!SSend, Pull, histories
<1> QED BY <1>9, <1>10

LEMMA QuietStep ==
    ASSUME IInv, NEW e \in Ends, PullUnsent(e) \/ DelayFires(e)
    PROVE  IInv' /\ UNCHANGED Service!sVars
<1>1. Sent' = Sent /\ Owed' = Owed
  BY DEF PullUnsent, DelayFires, Pull, Sent, Owed
<1>2. UNCHANGED Service!sVars
  BY <1>1 DEF Service!sVars, PullUnsent, DelayFires, Pull, histories
<1>3. CASE PullUnsent(e)
  <2>1. Pull(e) /\ UNCHANGED <<net, queue, expiry, inFlight>>
    BY <1>3 DEF PullUnsent
  <2>2. Typed' /\ OwnAcksTrue' /\ MaskExact'
    BY <2>1, PullKeeps DEF IInv, Typed
  <2>3. Reached'
    <3>1. \A p \in net : p.from \in Ends /\ p.tsn \in Nat
      BY DEF IInv, Typed, Packets
    <3>2. \A f \in Ends : tsn[f] \in Nat /\ tsn'[f] >= tsn[f] /\ tsn'[f] <= LastTsn[f]
                          /\ LastTsn[f] \in Nat
      BY <2>1, PullKeeps, AckAssumption DEF IInv, Reached, Typed
    <3>3. \A f \in Ends : \A t \in queue[f] : t \in Nat
      BY DEF IInv, Typed, Numbers
    <3> QED BY <2>1, <2>2, <3>1, <3>2, <3>3 DEF IInv, Reached, Typed
  <2>4. AcksTrue' /\ Counted' /\ TimerNeeded'
    <3>1. UNCHANGED <<net, queue, expiry, inFlight, open, accepted>>
      BY <2>1 DEF Pull, histories
    <3> QED BY <3>1 DEF IInv, AcksTrue, Counted, TimerNeeded
  <2> QED BY <1>2, <2>2, <2>3, <2>4 DEF IInv
<1>4. CASE DelayFires(e)
  <2>1. /\ UNCHANGED <<tsn, new, oop, queue, expiry, inFlight, open, net>>
        /\ UNCHANGED <<accepted, handed, acked>>
        /\ delay' = [delay EXCEPT ![e] = FALSE] /\ arts' = [arts EXCEPT ![e] = TRUE]
    BY <1>4 DEF DelayFires, histories
  <2>2. Typed'
    BY <2>1 DEF IInv, Typed
  <2>3. Reached' /\ OwnAcksTrue' /\ AcksTrue' /\ Counted' /\ TimerNeeded' /\ MaskExact'
    BY <2>1 DEF IInv, Reached, OwnAcksTrue, AcksTrue, Counted, TimerNeeded, MaskExact
  <2> QED BY <1>2, <2>2, <2>3 DEF IInv
<1> QED BY <1>3, <1>4
-----------------------------------------------------------------------------
(* Hearing of packets. *)

\* An end hears of some of its packets and of no other: its books stay right.
LEMMA Heard ==
    ASSUME IInv, NEW e \in Ends, open[e], open' = open, tsn' = tsn, net' = net,
           NEW gone \in SUBSET queue[e],
           queue' = [queue EXCEPT ![e] = @ \ gone],
           expiry' = [expiry EXCEPT ![e] = TimerAfter(queue'[e])],
           inFlight' = [inFlight EXCEPT ![e] = @ - Cardinality(gone)]
    PROVE  /\ queue' \in [Ends -> SUBSET Numbers] /\ inFlight' \in [Ends -> Int]
           /\ expiry' \in [Ends -> BOOLEAN]
           /\ Reached' /\ Counted' /\ TimerNeeded'
           /\ Owed' = [Owed EXCEPT ![e] = @ \ gone]
<1>1. /\ queue \in [Ends -> SUBSET Numbers] /\ inFlight \in [Ends -> Int]
      /\ expiry \in [Ends -> BOOLEAN]
  BY DEF IInv, Typed
<1>2. IsFiniteSet(queue[e]) /\ inFlight[e] = Cardinality(queue[e])
  BY DEF IInv, Counted
<1>3. /\ IsFiniteSet(gone) /\ Cardinality(gone) \in Nat
      /\ IsFiniteSet(queue[e] \ gone) /\ queue[e] \cap gone = gone
      /\ Cardinality(queue[e] \ gone) = Cardinality(queue[e]) - Cardinality(gone)
  <2>1. queue[e] \cap gone = gone
    OBVIOUS
  <2>2. IsFiniteSet(gone)
    BY <1>2, FS_Subset
  <2>3. Cardinality(gone) \in Nat
    BY <2>2, FS_CardinalityType
  <2>4. /\ IsFiniteSet(queue[e] \ gone)
        /\ Cardinality(queue[e] \ gone)
              = Cardinality(queue[e]) - Cardinality(queue[e] \cap gone)
    BY <1>2, FS_Difference
  <2> QED BY <2>1, <2>2, <2>3, <2>4
<1>4. queue'[e] = queue[e] \ gone /\ \A f \in Ends : f # e => queue'[f] = queue[f]
  BY <1>1
<1>5. queue' \in [Ends -> SUBSET Numbers] /\ inFlight' \in [Ends -> Int]
      /\ expiry' \in [Ends -> BOOLEAN]
  BY <1>1, <1>3 DEF TimerAfter
<1>6. Reached'
  BY <1>4 DEF IInv, Reached
<1>7. Counted'
  BY <1>1, <1>2, <1>3, <1>4 DEF IInv, Counted
<1>8. TimerNeeded'
  BY <1>1, <1>4 DEF IInv, TimerNeeded, TimerAfter
<1>9. Owed' = [Owed EXCEPT ![e] = @ \ gone]
  BY <1>1, <1>4 DEF Owed
<1> QED BY <1>5, <1>6, <1>7, <1>8, <1>9

LEMMA TimeoutStep ==
    ASSUME IInv, NEW e \in Ends, Timeout(e)
    PROVE  IInv' /\ Service!SReceive(e)
<1>1. PICK t \in queue[e] : queue' = [queue EXCEPT ![e] = @ \ {t}]
  BY DEF Timeout
<1>2. Cardinality({t}) = 1
  BY FS_Singleton
<1>3. /\ open[e] /\ UNCHANGED <<tsn, new, oop, delay, arts, open, net>>
      /\ UNCHANGED <<accepted, handed, acked>>
      /\ expiry' = [expiry EXCEPT ![e] = TimerAfter(queue'[e])]
      /\ inFlight' = [inFlight EXCEPT ![e] = @ - Cardinality({t})]
  BY <1>2 DEF Timeout, histories
<1>4. /\ queue' \in [Ends -> SUBSET Numbers] /\ inFlight' \in [Ends -> Int]
      /\ expiry' \in [Ends -> BOOLEAN]
      /\ Reached' /\ Counted' /\ TimerNeeded'
      /\ Owed' = [Owed EXCEPT ![e] = @ \ {t}]
  BY <1>1, <1>3, Heard
<1>5. IInv'
  <2>1. Typed'
    BY <1>3, <1>4 DEF IInv, Typed
  <2>2. OwnAcksTrue' /\ AcksTrue' /\ MaskExact'
    BY <1>3 DEF IInv, OwnAcksTrue, AcksTrue, MaskExact
  <2> QED BY <1>4, <2>1, <2>2 DEF IInv
<1>6. Service!SHear(e)
  <2> DEFINE yes == {}
             no == {t}
  <2>1. Owed[e] = queue[e]
    BY <1>3 DEF Owed
  <2>2. yes \in SUBSET (Owed[e] \cap accepted[Peer[e]]) /\ no \in SUBSET Owed[e]
        /\ yes \cap no = {} /\ yes \cup no = {t}
    BY <2>1
  <2>3. acked' = [acked EXCEPT ![e] = @ \cup yes]
    BY <1>3 DEF IInv, Typed
  <2>4. /\ Owed' = [Owed EXCEPT ![e] = @ \ (yes \cup no)]
        /\ inFlight' = [inFlight EXCEPT ![e] = @ - Service!Cardinality(yes \cup no)]
    BY <1>3, <1>4, <2>2, SameCardinality
  <2> HIDE DEF yes, no
  <2> QED BY <2>2, <2>3, <2>4, Zenon DEF Service!SHear
<1>7. Sent' = Sent
  BY <1>3 DEF Sent
<1> QED BY <1>3, <1>5, <1>6, <1>7 DEF Service!SReceive

LEMMA DestroyStep ==
    ASSUME IInv, NEW e \in Ends, destroy(e)
    PROVE  IInv' /\ Service!SReceive(e)
<1>1. /\ open[e] /\ UNCHANGED <<tsn, new, oop, arts, queue, net>>
      /\ UNCHANGED <<accepted, handed, acked>>
      /\ open' = [open EXCEPT ![e] = FALSE] /\ delay' = [delay EXCEPT ![e] = FALSE]
      /\ expiry' = [expiry EXCEPT ![e] = FALSE]
      /\ inFlight' = [inFlight EXCEPT ![e] = @ - Cardinality(queue[e])]
  BY DEF destroy, histories
<1>2. /\ open \in [Ends -> BOOLEAN] /\ inFlight \in [Ends -> Int]
      /\ expiry \in [Ends -> BOOLEAN] /\ delay \in [Ends -> BOOLEAN]
  BY DEF IInv, Typed
<1>3. inFlight[e] = Cardinality(queue[e]) /\ Cardinality(queue[e]) \in Nat
  BY <1>1, FS_CardinalityType DEF IInv, Counted
<1>4. Typed'
  BY <1>1, <1>2, <1>3 DEF IInv, Typed
<1>5. Reached' /\ OwnAcksTrue' /\ AcksTrue' /\ MaskExact'
  BY <1>1 DEF IInv, Reached, OwnAcksTrue, AcksTrue, MaskExact
<1>6. Counted' /\ TimerNeeded'
  BY <1>1, <1>2, <1>3 DEF IInv, Counted, TimerNeeded
<1>7. Service!SHear(e)
  <2> DEFINE yes == {}
             no == queue[e]
  <2>1. Owed[e] = queue[e]
    BY <1>1 DEF Owed
  <2>2. Owed' = [Owed EXCEPT ![e] = @ \ (yes \cup no)]
    BY <1>1, <1>2, <2>1 DEF Owed
  <2>3. yes \in SUBSET (Owed[e] \cap accepted[Peer[e]]) /\ no \in SUBSET Owed[e]
        /\ yes \cap no = {} /\ yes \cup no = queue[e]
    BY <2>1
  <2>4. acked' = [acked EXCEPT ![e] = @ \cup yes]
    BY <1>1 DEF IInv, Typed
  <2>5. inFlight' = [inFlight EXCEPT ![e] = @ - Service!Cardinality(yes \cup no)]
    BY <1>1, <2>3, SameCardinality
  <2> HIDE DEF yes, no
  <2> QED BY <2>2, <2>3, <2>4, <2>5, Zenon DEF Service!SHear
<1>8. Sent' = Sent
  BY <1>1 DEF Sent
<1> QED BY <1>1, <1>4, <1>5, <1>6, <1>7, <1>8 DEF IInv, Service!SReceive
-----------------------------------------------------------------------------
(* Receiving. *)

LEMMA PacketType ==
    ASSUME IInv, NEW p \in net
    PROVE  p.from \in Ends /\ p.tsn \in Numbers /\ p.data \in BOOLEAN
           /\ p.acks \in SUBSET Nat
<1>1. p \in Packets /\ 1 <= p.tsn
  BY DEF IInv, Typed, Reached
<1>2. p.tsn \in Nat
  BY <1>1 DEF Packets
<1> QED BY <1>1, <1>2 DEF Packets, Numbers

\* The timer and signal of an ack, however it is scheduled.
LEMMA AckTimers ==
    ASSUME IInv, NEW e \in Ends, NEW p \in net, NEW timer \in BOOLEAN,
           NEW atOnce \in BOOLEAN, ScheduleAck(e, p, timer, atOnce)
    PROVE  delay' \in [Ends -> BOOLEAN] /\ arts' \in [Ends -> BOOLEAN]
<1>1. p.data \in BOOLEAN /\ delay \in [Ends -> BOOLEAN] /\ arts \in [Ends -> BOOLEAN]
  BY PacketType DEF IInv, Typed
<1>2. CASE p.data /\ (atOnce \/ timer)
  BY <1>1, <1>2 DEF ScheduleAck, immediateAck
<1>3. CASE ~(p.data /\ (atOnce \/ timer))
  BY <1>1, <1>3 DEF ScheduleAck, delayedAck
<1> QED BY <1>2, <1>3

\* The ack structures after a packet, and whether it counts as accepted.
AcksTyped ==
    /\ new \in [Ends -> Acks] /\ oop \in [Ends -> Acks \cup {NoAck}]
    /\ delay \in [Ends -> BOOLEAN] /\ arts \in [Ends -> BOOLEAN]
    /\ accepted \in [Ends -> SUBSET Numbers] /\ handed \in [Ends -> Nat]
FirstTime(e, p) == p.tsn \notin accepted[e] /\ HandedUp(e, p)

LEMMA RefusedStep ==
    ASSUME IInv, NEW e \in Ends, NEW p \in net, Refused(e, p, delay[e])
    PROVE  /\ AcksTyped' /\ MaskExact' /\ OwnAcksTrue'
           /\ UNCHANGED <<accepted, handed>>
<1>1. delay' \in [Ends -> BOOLEAN] /\ UNCHANGED <<accepted, handed, new, oop, arts>>
  BY DEF Refused, IInv, Typed
<1> QED BY <1>1 DEF IInv, Typed, AcksTyped, MaskExact, OwnAcksTrue

LEMMA HandedUpTyped ==
    ASSUME IInv, NEW e \in Ends, NEW p \in net, HandedUp(e, p)
    PROVE  /\ accepted' \in [Ends -> SUBSET Numbers] /\ handed' \in [Ends -> Nat]
           /\ accepted'[e] = accepted[e] \cup {p.tsn}
           /\ \A f \in Ends : f # e => accepted'[f] = accepted[f]
<1>1. /\ accepted \in [Ends -> SUBSET Numbers] /\ handed \in [Ends -> Nat]
      /\ p.tsn \in Numbers
  BY PacketType DEF IInv, Typed
<1> QED BY <1>1 DEF HandedUp

LEMMA NewestStep ==
    ASSUME IInv, NEW e \in Ends, NEW p \in net, recvNewest(e, p, delay[e]),
           ~Refused(e, p, delay[e])
    PROVE  AcksTyped' /\ MaskExact' /\ OwnAcksTrue' /\ FirstTime(e, p)
<1>1. /\ IsNewest(e, p) /\ HandedUp(e, p) /\ new' = [new EXCEPT ![e] = Newest(e, p)]
      /\ ScheduleAck(e, p, delay[e], FALSE) /\ oop' = oop
  BY DEF recvNewest
<1>2. /\ accepted' \in [Ends -> SUBSET Numbers] /\ handed' \in [Ends -> Nat]
      /\ accepted'[e] = accepted[e] \cup {p.tsn}
      /\ \A f \in Ends : f # e => accepted'[f] = accepted[f]
  BY <1>1, HandedUpTyped
<1>3. delay[e] \in BOOLEAN /\ new \in [Ends -> Acks] /\ oop \in [Ends -> Acks \cup {NoAck}]
      /\ accepted[e] \subseteq Nat /\ p.tsn \in Nat /\ p.tsn > 0 /\ Width \in Nat \ {0}
  BY PacketType, AckAssumption DEF IInv, Typed, Numbers
<1>4. new[e].rasn \in Nat /\ new[e].seen \in SUBSET Nat /\ p.tsn > new[e].rasn
  BY <1>1, <1>3 DEF Acks, IsNewest
<1>5. /\ new[e].rasn \in accepted[e] \cup {0}
      /\ \A t \in accepted[e] : t <= new[e].rasn
      /\ new[e].seen = {t \in accepted[e] \cup {0} : new[e].rasn - t < Width}
  BY DEF IInv, MaskExact
<1>6. Newest(e, p) \in Acks
  BY <1>3, <1>4 DEF Newest, Acks
<1>7. AcksTyped'
  BY <1>1, <1>2, <1>3, <1>6, AckTimers DEF AcksTyped
<1>8. FirstTime(e, p)
  BY <1>1, <1>3, <1>4, <1>5 DEF FirstTime
<1>9. MaskExact'
  <2>1. new'[e] = Newest(e, p) /\ \A f \in Ends : f # e => new'[f] = new[f]
    BY <1>1, <1>3
  <2>2. \A t \in accepted'[e] : t <= p.tsn
    BY <1>2, <1>3, <1>4, <1>5
  <2>3. Newest(e, p).seen = {t \in accepted'[e] \cup {0} : p.tsn - t < Width}
    <3>1. \A t \in accepted[e] \cup {0} : p.tsn - t < Width => new[e].rasn - t < Width
      BY <1>3, <1>4
    <3>2. p.tsn - p.tsn < Width
      BY <1>3
    <3> QED BY <1>2, <1>5, <3>1, <3>2 DEF Newest
  <2>4. Newest(e, p).rasn = p.tsn
    BY DEF Newest
  <2> QED BY <1>2, <2>1, <2>2, <2>3, <2>4 DEF IInv, MaskExact
<1>10. OwnAcksTrue'
  BY <1>1, <1>2 DEF IInv, OwnAcksTrue
<1> QED BY <1>7, <1>8, <1>9, <1>10

LEMMA LateStep ==
    ASSUME IInv, NEW e \in Ends, NEW p \in net, recvLate(e, p, delay[e]),
           ~Refused(e, p, delay[e])
    PROVE  AcksTyped' /\ MaskExact' /\ OwnAcksTrue' /\ FirstTime(e, p)
<1>1. /\ IsLate(e, p) /\ HandedUp(e, p) /\ new' = [new EXCEPT ![e].seen = SeenToo(e, p)]
      /\ ScheduleAck(e, p, delay[e], ~Covered(e, p))
      /\ oop' = oop \/ oop' = [oop EXCEPT ![e] = OwnAck(e, p)]
  BY DEF recvLate
<1>2. /\ accepted' \in [Ends -> SUBSET Numbers] /\ handed' \in [Ends -> Nat]
      /\ accepted'[e] = accepted[e] \cup {p.tsn}
      /\ \A f \in Ends : f # e => accepted'[f] = accepted[f]
  BY <1>1, HandedUpTyped
<1>3. delay[e] \in BOOLEAN /\ new \in [Ends -> Acks] /\ oop \in [Ends -> Acks \cup {NoAck}]
      /\ accepted[e] \subseteq Nat /\ p.tsn \in Nat /\ Width \in Nat \ {0}
  BY PacketType, AckAssumption DEF IInv, Typed, Numbers
<1>4. /\ new[e].rasn \in Nat /\ new[e].seen \in SUBSET Nat /\ p.tsn <= new[e].rasn
      /\ new[e].rasn - p.tsn < Width /\ p.tsn \notin new[e].seen
  BY <1>1, <1>3 DEF Acks, IsLate
<1>5. /\ new[e].rasn \in accepted[e] \cup {0}
      /\ \A t \in accepted[e] : t <= new[e].rasn
      /\ new[e].seen = {t \in accepted[e] \cup {0} : new[e].rasn - t < Width}
  BY DEF IInv, MaskExact
<1>6. OwnAck(e, p) \in Acks /\ SeenToo(e, p) \in SUBSET Nat
  BY <1>3, <1>4 DEF OwnAck, SeenToo, Acks
<1>7. new' \in [Ends -> Acks] /\ new'[e].seen = SeenToo(e, p) /\ new'[e].rasn = new[e].rasn
      /\ \A f \in Ends : f # e => new'[f] = new[f]
  BY <1>1, <1>3, <1>6 DEF Acks
<1>8. AcksTyped'
  <2>1. Covered(e, p) \in BOOLEAN
    BY DEF Covered
  <2>2. delay' \in [Ends -> BOOLEAN] /\ arts' \in [Ends -> BOOLEAN]
    BY <1>1, <1>3, <2>1, AckTimers
  <2> QED BY <1>1, <1>2, <1>3, <1>6, <1>7, <2>2 DEF AcksTyped
<1>9. FirstTime(e, p)
  BY <1>1, <1>4, <1>5 DEF FirstTime
<1>10. MaskExact'
  <2>1. SeenToo(e, p) = {t \in accepted'[e] \cup {0} : new[e].rasn - t < Width}
    BY <1>2, <1>4, <1>5 DEF SeenToo
  <2>2. /\ new'[e].rasn \in accepted'[e] \cup {0}
        /\ \A t \in accepted'[e] : t <= new'[e].rasn
    BY <1>2, <1>4, <1>5, <1>7
  <2> QED BY <1>2, <1>7, <2>1, <2>2 DEF IInv, MaskExact
<1>11. OwnAcksTrue'
  <2>1. \A t \in OwnAck(e, p).seen : t \in accepted'[e] \cup {0} /\ t <= OwnAck(e, p).rasn
    BY <1>2, <1>5 DEF OwnAck, SeenToo
  <2> QED BY <1>1, <1>2, <1>3, <2>1 DEF IInv, OwnAcksTrue
<1> QED BY <1>8, <1>9, <1>10, <1>11

LEMMA RecvStep ==
    ASSUME IInv, NEW e \in Ends, NEW p \in net, Recv(e, p)
    PROVE  IInv' /\ Service!SReceive(e)
<1> DEFINE gone == Answered(e, p)
<1>1. /\ open[e] /\ p.from = Peer[e] /\ UNCHANGED <<tsn, open, net>>
      /\ recvNewest(e, p, delay[e]) \/ recvLate(e, p, delay[e])
      /\ queue' = [queue EXCEPT ![e] = @ \ gone]
      /\ expiry' = [expiry EXCEPT ![e] = TimerAfter(queue'[e])]
      /\ inFlight' = [inFlight EXCEPT ![e] = @ - Cardinality(gone) - Cardinality({})]
      /\ acked' = [acked EXCEPT ![e] = @ \cup Acked(e, p)]
  BY DEF Recv, HearAcks
<1>2. gone \in SUBSET queue[e] /\ gone = Acked(e, p) \cup Missing(e, p)
      /\ Acked(e, p) \cap Missing(e, p) = {} /\ Acked(e, p) = queue[e] \cap p.acks
  BY DEF Answered, Acked, Missing
<1>3. IsFiniteSet(gone) /\ Cardinality(gone) \in Nat
  <2>1. IsFiniteSet(queue[e])
    BY DEF IInv, Counted
  <2>2. IsFiniteSet(gone)
    BY <1>2, <2>1, FS_Subset
  <2> QED BY <2>2, FS_CardinalityType
<1>4. inFlight' = [inFlight EXCEPT ![e] = @ - Cardinality(gone)]
  <2>1. Cardinality({}) = 0 /\ inFlight \in [Ends -> Int]
    BY FS_EmptySet DEF IInv, Typed
  <2>2. inFlight[e] - Cardinality(gone) - Cardinality({}) = inFlight[e] - Cardinality(gone)
    BY <1>3, <2>1
  <2> QED BY <1>1, <2>2
<1> HIDE DEF gone
<1>5. /\ queue' \in [Ends -> SUBSET Numbers] /\ inFlight' \in [Ends -> Int]
      /\ expiry' \in [Ends -> BOOLEAN]
      /\ Reached' /\ Counted' /\ TimerNeeded'
      /\ Owed' = [Owed EXCEPT ![e] = @ \ gone]
  <2>1. /\ UNCHANGED <<tsn, net>> /\ open[e] /\ open' = open /\ gone \in SUBSET queue[e]
        /\ queue' = [queue EXCEPT ![e] = @ \ gone]
        /\ expiry' = [expiry EXCEPT ![e] = TimerAfter(queue'[e])]
    BY <1>1, <1>2
  <2> QED BY <2>1, <1>4, Heard
<1>6. /\ AcksTyped' /\ MaskExact' /\ OwnAcksTrue'
      /\ UNCHANGED <<accepted, handed>> \/ FirstTime(e, p)
  <2>1. CASE Refused(e, p, delay[e])
    BY <2>1, RefusedStep
  <2>2. CASE ~Refused(e, p, delay[e])
    BY <1>1, <2>2, NewestStep, LateStep
  <2> QED BY <2>1, <2>2
<1>7. Acked(e, p) \subseteq accepted[Peer[e]]
  <2>1. p.acks \subseteq accepted[Peer[e]] \cup {0}
    BY <1>1 DEF IInv, AcksTrue
  <2>2. 0 \notin queue[e]
    BY DEF IInv, Typed, Numbers
  <2> QED BY <1>2, <2>1, <2>2
<1>8. IInv'
  <2>1. acked' \in [Ends -> SUBSET Numbers]
    <3>1. acked \in [Ends -> SUBSET Numbers] /\ Acked(e, p) \subseteq Numbers
      BY <1>2 DEF IInv, Typed
    <3> QED BY <1>1, <3>1
  <2>2. Typed'
    BY <1>1, <1>5, <1>6, <2>1 DEF IInv, Typed, AcksTyped
  <2>3. AcksTrue'
    <3>1. \A f \in Ends : accepted[f] \subseteq accepted'[f]
      BY <1>6 DEF FirstTime, HandedUp, IInv, Typed
    <3>2. \A q \in net : q.from \in Ends
      BY PacketType
    <3> QED BY <1>1, <3>1, <3>2 DEF IInv, AcksTrue
  <2> QED BY <1>5, <1>6, <2>2, <2>3 DEF IInv
<1>9. Service!SHear(e)
  <2> DEFINE yes == Acked(e, p)
             no == Missing(e, p)
  <2>1. Owed[e] = queue[e]
    BY <1>1 DEF Owed
  <2>2. yes \in SUBSET (Owed[e] \cap accepted[Peer[e]]) /\ no \in SUBSET Owed[e]
        /\ yes \cap no = {} /\ yes \cup no = gone
    BY <1>2, <1>7, <2>1
  <2>3. acked' = [acked EXCEPT ![e] = @ \cup yes]
    BY <1>1
  <2>4. /\ Owed' = [Owed EXCEPT ![e] = @ \ (yes \cup no)]
        /\ inFlight' = [inFlight EXCEPT ![e] = @ - Service!Cardinality(yes \cup no)]
    BY <1>4, <1>5, <2>2, SameCardinality
  <2> HIDE DEF yes, no
  <2> QED BY <2>2, <2>3, <2>4, Zenon DEF Service!SHear
<1>10. Sent' = Sent
  BY <1>1 DEF Sent
<1>11. FirstTime(e, p) =>
          \E t \in Sent[Peer[e]] \ accepted[e] :
             /\ accepted' = [accepted EXCEPT ![e] = @ \cup {t}]
             /\ handed' = [handed EXCEPT ![e] = @ + 1]
  <2>1. p.tsn \in Sent[Peer[e]]
    BY <1>1, PeerType DEF Sent
  <2> QED BY <2>1 DEF FirstTime, HandedUp
<1> QED BY <1>6, <1>8, <1>9, <1>10, <1>11 DEF Service!SReceive
-----------------------------------------------------------------------------
LEMMA NextStep ==
    ASSUME IInv, Next
    PROVE  IInv' /\ [Service!SNext]_Service!sVars
<1>1. PICK e \in Ends : Step(e) \/ PullUnsent(e)
  BY DEF Next
<1>2. CASE PullData(e) \/ PullAck(e)
  BY <1>2, SendStep DEF Service!SNext
<1>3. CASE DelayFires(e) \/ PullUnsent(e)
  BY <1>3, QuietStep
<1>4. CASE Timeout(e)
  BY <1>4, TimeoutStep DEF Service!SNext
<1>5. CASE \E p \in net : Recv(e, p)
  BY <1>5, RecvStep DEF Service!SNext
<1>6. CASE destroy(e)
  BY <1>6, DestroyStep DEF Service!SNext
<1> QED BY <1>1, <1>2, <1>3, <1>4, <1>5, <1>6 DEF Step

LEMMA StutterStep ==
    ASSUME IInv, UNCHANGED vars
    PROVE  IInv' /\ UNCHANGED Service!sVars
<1>1. IInv'
  BY DEF vars, IInv, Typed, Reached, OwnAcksTrue, AcksTrue, Counted, TimerNeeded,
         MaskExact
<1>2. Sent' = Sent /\ Owed' = Owed
  BY DEF vars, Sent, Owed
<1> QED BY <1>1, <1>2 DEF vars, Service!sVars

LEMMA Inductive == Spec => []IInv
<1>1. Init => IInv
  BY InitStep
<1>2. IInv /\ [Next]_vars => IInv'
  BY NextStep, StutterStep
<1> QED BY <1>1, <1>2, PTL DEF Spec
-----------------------------------------------------------------------------
(***************************************************************************)
(* The state of the two ends is well formed, and the retransmit timer      *)
(* never runs without a packet to give up (fast-retransmit.fun:82).        *)
(***************************************************************************)
THEOREM TypeCorrectness == Spec => []TypeOK
<1>1. IInv => TypeOK
  <2> SUFFICES ASSUME IInv PROVE TypeOK
    OBVIOUS
  <2>1. \A e \in Ends : new[e].rasn \in Nat /\ new[e].seen \subseteq 0 .. new[e].rasn
    BY DEF IInv, Typed, MaskExact, Numbers, Acks
  <2>2. \A e \in Ends : oop[e] # NoAck => oop[e].seen \subseteq 0 .. oop[e].rasn
    <3> SUFFICES ASSUME NEW e \in Ends, oop[e] # NoAck, NEW t \in oop[e].seen
                 PROVE  t \in 0 .. oop[e].rasn
      OBVIOUS
    <3>1. oop[e].rasn \in Nat /\ oop[e].seen \in SUBSET Nat
      BY DEF IInv, Typed, Acks
    <3> QED BY <3>1 DEF IInv, OwnAcksTrue
  <2>3. \A e \in Ends : queue[e] \subseteq 1 .. tsn[e]
    BY DEF IInv, Typed, Reached, Numbers
  <2>4. inFlight \in [Ends -> Nat]
    <3>1. \A e \in Ends : inFlight[e] \in Nat
      BY FS_CardinalityType DEF IInv, Counted
    <3> QED BY <3>1 DEF IInv, Typed
  <2> QED BY <2>1, <2>2, <2>3, <2>4 DEF IInv, Typed, TimerNeeded, TypeOK
<1> QED BY <1>1, Inductive, PTL

(***************************************************************************)
(* However far the packets jump, and in whatever order stragglers come,    *)
(* the mask of delayed-ack.fun remembers the last Width of those accepted. *)
(***************************************************************************)
THEOREM MaskIsExact == Spec => []MaskExact
<1>1. IInv => MaskExact
  BY DEF IInv
<1> QED BY <1>1, Inductive, PTL

(***************************************************************************)
(* inFlight of reno.fun follows what is owed: it is zero again when every  *)
(* packet was answered or the channel is destroyed.                        *)
(***************************************************************************)
THEOREM InFlightIsOwed ==
    Spec => [](\A e \in Ends : inFlight[e] = Cardinality(Owed[e]))
<1>1. IInv => \A e \in Ends : inFlight[e] = Cardinality(Owed[e])
  BY FS_EmptySet DEF IInv, Counted, Owed
<1> QED BY <1>1, Inductive, PTL

(***************************************************************************)
(* The layers are the channel the streams stand on: whatever is lost,      *)
(* repeated, reordered, refused, given up or destroyed, a packet is handed *)
(* up once, its sender hears of it once, and "delivered" only if the peer  *)
(* accepted it.                                                            *)
(***************************************************************************)
THEOREM LayersAreTheChannel == Spec => ImplementsChannel
<1>1. Init => Service!SInit
  BY InitStep
<1>2. IInv /\ [Next]_vars => [Service!SNext]_Service!sVars
  BY NextStep, StutterStep
<1> QED BY <1>1, <1>2, Inductive, PTL DEF Spec, ImplementsChannel, Service!SSpec
=============================================================================
