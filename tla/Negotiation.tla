---------------------------- MODULE Negotiation ----------------------------
(***************************************************************************)
(* cusp/channel/negotiation.fun at the two ends of one pair of addresses,  *)
(* with what it asks of end-point.fun (the table of channels, the waiting  *)
(* contacts) and of host-table.fun and host-dispatch.fun (is there state   *)
(* to resume), over a network that loses, repeats and reorders.            *)
(*                                                                         *)
(* A half negotiation is a number, never used twice; the full one, that    *)
(* both sides compute from their half and the other's public part, is the  *)
(* pair of the two, and a MAC is good for whoever has that pair.  The tail *)
(* of a packet, by which a NOSTATE names the packet it answers, is its     *)
(* sender, key and number (0 for a WELCOME).                               *)
(***************************************************************************)
EXTENDS Integers, FiniteSets

CONSTANTS Ends,            \* the two of them
          Offers,          \* the pairs of suite sets the two ends may have
          DeathCount,      \* retransmissions before giving up, 8 in the code
          MaxHalves,       \* bound: half negotiations that are generated
          MaxNet,          \* bound: packets under way at once
          MaxTsn           \* bound: DATA packets of one association

ASSUME NegotiationAssumption ==
    /\ \E a, b \in Ends : a # b /\ Ends = {a, b}
    /\ Offers \subseteq [Ends -> (SUBSET Nat) \ {{}}]
    /\ DeathCount \in Nat /\ MaxHalves \in Nat
    /\ MaxNet \in Nat \ {0} /\ MaxTsn \in Nat

Peer == [e \in Ends |-> CHOOSE x \in Ends : x # e]

VARIABLES offer,           \* end -> the suites it was opened with
          chan,            \* end -> its channel to the peer, or None
          host,            \* end -> its state about the peer's key, or NoHost
          waiting,         \* end -> are there contact callbacks to call
          reused,          \* has a dead host been used again, see TablesMatch
          born,            \* halves generated so far
          net              \* the packets under way

vars == <<offer, chan, host, waiting, reused, born, net>>

None == [st |-> "NONE"]
NoHost == [use |-> "unknown"]
NoHalf == 0
Halves == Nat \ {NoHalf}
Keys == [Ends -> Halves]
Bits == [suites : SUBSET Nat, resume : BOOLEAN]
\* No key; of a host: that of an association before the two ends started.
NoKey == [e \in Ends |-> NoHalf]
Tails == [by : Ends, key : Keys, sn : Nat]

Packets ==
    [type : {"HELLO"}, to : Ends, bits : Bits, half : Halves]
        \cup [type : {"WELCOME"}, to : Ends, bits : Bits, half : Halves, key : Keys]
        \cup [type : {"FAIL"}, to : Ends]
        \cup [type : {"NOSTATE"}, to : Ends, tail : Tails]
        \cup [type : {"DATA"}, to : Ends, key : Keys, tsn : Nat, finish : BOOLEAN]

\* st is the state's name; bits is `agreed` (resume of an ESTABLISHED channel:
\* what goESTABLISHED was called with); tail is `noState` of CLOSED and SENT,
\* and of the other two the last packet sent; timer: is `timeout` scheduled.
\* The layers above and below may have something to send at any time: an
\* ESTABLISHED channel stays ready.
Channels ==
    [st : {"CLOSED", "SENT", "RECEIVED", "ESTABLISHED"}, bits : Bits,
     half : Nat, key : Keys \cup {NoKey},
     tail : Tails \cup {None}, tsn : Nat, rts : BOOLEAN, timer : BOOLEAN,
     count : 0 .. DeathCount]
Uses == {"streams", "listens", "none"}
Hosts == [epoch : Keys \cup {NoKey}, use : Uses]

NoBits == [suites |-> {}, resume |-> FALSE]
Bare == [st |-> "CLOSED", bits |-> NoBits, half |-> NoHalf, key |-> NoKey,
         tail |-> None, tsn |-> 0, rts |-> FALSE, timer |-> TRUE, count |-> 0]

Cheapest(suites) == CHOOSE s \in suites : \A t \in suites : s <= t

Init ==
    /\ offer \in Offers
    /\ chan = [e \in Ends |-> None]
    /\ host \in [Ends -> {NoHost} \cup [epoch : {NoKey}, use : {"listens"}]]
    /\ waiting = [e \in Ends |-> FALSE]
    /\ reused = FALSE /\ born = 0 /\ net = {}
-----------------------------------------------------------------------------
(* What the handlers ask about an end. *)

Is(e, state) == chan[e].st = state

\* `bits` of the end point.
OwnBits(e) == [suites |-> offer[e], resume |-> FALSE]

\* isZombie: no stream that is not reset.  isBound: a channel carries it.
Zombie(e) == host[e].use # "streams"
Bound(e) == Is(e, "ESTABLISHED")

\* effectivelyDead: no stream and no listener.  existHost takes such a host
\* for unknown.
Known(e) == host[e].use \in {"streams", "listens"}

\* The key that e's half makes with the half of a packet.
KeyOf(e, half, theirs) == [x \in Ends |-> IF x = e THEN half ELSE theirs]

TailOf(p) == [by |-> Peer[p.to], key |-> p.key,
              sn |-> IF p.type = "WELCOME" THEN 0 ELSE p.tsn]
-----------------------------------------------------------------------------
(* The go functions.  c is the channel they are called on; makeProgress    *)
(* makes it ready and schedules its timer.                                 *)

Becomes(e, c) == chan' = [chan EXCEPT ![e] = c]
Progress(c) == [c EXCEPT !.rts = TRUE, !.timer = TRUE]
Reset(c, state) == [Bare EXCEPT !.st = state, !.count = c.count]

\* killRecord: the channel is gone, its contacts hear NONE.
Die(e) ==
    /\ Becomes(e, None)
    /\ waiting' = [waiting EXCEPT ![e] = FALSE]
    /\ UNCHANGED <<host, born>>

Quiet == UNCHANGED <<host, waiting>>

GoFAIL(e, c) == Becomes(e, Progress(Reset(c, "CLOSED"))) /\ UNCHANGED born

GoNOSTATE(e, c, tail) ==
    /\ Becomes(e, Progress([Reset(c, "CLOSED") EXCEPT !.tail = tail]))
    /\ UNCHANGED born

GoOOBNOSTATE(e, c, tail) ==
    Becomes(e, Progress([c EXCEPT !.tail = tail])) /\ UNCHANGED born

\* The half that is kept, or a new one.
HalfOrNew(kept, half) ==
    \/ kept # NoHalf /\ half = kept /\ UNCHANGED born
    \/ kept = NoHalf /\ half = born + 1 /\ born' = half

GoSENT(e, c, bits, kept) ==
    \E half \in 1 .. MaxHalves :
        /\ HalfOrNew(kept, half)
        /\ Becomes(e, Progress([Reset(c, "SENT") EXCEPT !.bits = bits, !.half = half]))

GoRECEIVED(e, c, bits, kept, theirs) ==
    \E half \in 1 .. MaxHalves :
        /\ HalfOrNew(kept, half)
        /\ Becomes(e, Progress([Reset(c, "RECEIVED") EXCEPT
                                   !.bits = bits, !.half = half,
                                   !.key = KeyOf(e, half, theirs)]))

\* Mutant: a host that is still known is not wiped.
Attached_Kept(e, key, resume) ==
    LET old == host[e]
        epoch == IF Known(e) \/ (old # NoHost /\ resume) THEN old.epoch ELSE key
        uses == CASE waiting[e] -> {"streams"}
                  [] ~waiting[e] /\ old = NoHost -> {"none"}
                  [] ~waiting[e] /\ old # NoHost -> {old.use}
    IN  [epoch : {epoch}, use : uses]

\* attachHost, and wipeState unless resumed, which spares the listeners and
\* the out-streams that were never acknowledged; each waiting contact connects
\* a stream.
Attached(e, key, resume) ==
    LET old == host[e]
        epoch == IF old # NoHost /\ resume THEN old.epoch ELSE key
        uses == CASE waiting[e] -> {"streams"}
                  [] ~waiting[e] /\ old = NoHost -> {"none"}
                  [] ~waiting[e] /\ old # NoHost ->
                        IF ~resume /\ old.use = "streams" THEN Uses ELSE {old.use}
    IN  [epoch : {epoch}, use : uses]

Established(c, key, resume) ==
    [Reset(c, "ESTABLISHED") EXCEPT !.key = key, !.bits.resume = resume,
                                    !.rts = TRUE, !.timer = FALSE]

\* Mutant: the contacts are not called.
GoESTABLISHED_Silent(e, c, key, resume) ==
    /\ \E h \in Attached(e, key, resume) : host' = [host EXCEPT ![e] = h]
    /\ Becomes(e, Established(c, key, resume))
    /\ UNCHANGED <<waiting, born>>

GoESTABLISHED(e, c, key, resume) ==
    /\ \E h \in Attached(e, key, resume) : host' = [host EXCEPT ![e] = h]
    /\ Becomes(e, Established(c, key, resume))
    /\ waiting' = [waiting EXCEPT ![e] = FALSE]
    /\ UNCHANGED born
-----------------------------------------------------------------------------
(* Receiving.  RecvX is what `recv` does in state X; what it ignores is no *)
(* step.  A NOSTATE counts if it names the last packet this end sent.      *)

ProcessHELLO(e, c, agreed, half, p) ==
    LET ip == agreed.suites \cap p.bits.suites
        kept == IF half # NoHalf /\ Cheapest(agreed.suites) \in p.bits.suites
                THEN half ELSE NoHalf
        usable == Cheapest(p.bits.suites) \in agreed.suites
        known == usable /\ Known(e)
        isect == [suites |-> ip, resume |-> known]
        again == ~usable \/ (known /\ ~p.bits.resume)
    IN  /\ \/ ip = {} /\ GoFAIL(e, c)
           \/ ip # {} /\ again /\ GoSENT(e, c, isect, kept)
           \/ ip # {} /\ ~again /\ GoRECEIVED(e, c, isect, kept, p.half)
        /\ Quiet

\* Mutant: the peer may keep what this end does not know.
ConfirmWELCOME_Trusting(agreed, remote) ==
    /\ remote.suites # {}
    /\ remote.suites \subseteq agreed.suites
    /\ Cheapest(remote.suites) = Cheapest(agreed.suites)

ConfirmWELCOME(agreed, remote) ==
    /\ remote.suites # {}
    /\ remote.suites \subseteq agreed.suites
    /\ Cheapest(remote.suites) = Cheapest(agreed.suites)
    /\ remote.resume => agreed.resume

\* A DATA packet on an established channel c with host state h.  What is in it
\* may end the last stream or open one.  A last packet that leaves no stream
\* here closes the channel and makes the peer close; an empty one is answered,
\* which leads out of a simultaneous close.
ProcessDATA(e, c, h, p) ==
    \E empty \in BOOLEAN, use \in Uses :
        /\ empty => use = h.use
        /\ host' = [host EXCEPT ![e] = [h EXCEPT !.use = use]]
        /\ Becomes(e, IF p.finish /\ use # "streams"
                      THEN Progress([Reset(c, "CLOSED") EXCEPT !.tail = TailOf(p)])
                      ELSE [c EXCEPT !.rts = @ \/ (empty /\ use # "streams")])

RecvCLOSED(e, c, p) ==
    \/ p.type \in {"NOSTATE", "FAIL"} /\ Die(e)
    \/ p.type = "HELLO" /\ ProcessHELLO(e, c, OwnBits(e), NoHalf, p)
    \/ p.type \in {"WELCOME", "DATA"} /\ GoNOSTATE(e, c, TailOf(p)) /\ Quiet

RecvSENT(e, c, p) ==
    \/ p.type = "FAIL" /\ Die(e)
    \/ p.type = "HELLO" /\ ProcessHELLO(e, c, c.bits, c.half, p)
    \/ /\ p.type = "WELCOME"
       /\ LET good == ConfirmWELCOME(c.bits, p.bits) /\ p.key = KeyOf(e, c.half, p.half)
          IN  \/ good /\ GoESTABLISHED(e, c, p.key, p.bits.resume)
              \/ ~good /\ GoOOBNOSTATE(e, c, TailOf(p)) /\ Quiet
    \/ p.type = "DATA" /\ GoOOBNOSTATE(e, c, TailOf(p)) /\ Quiet

\* Mutant: the MAC of a DATA packet is not looked at.
RecvRECEIVED_NoMac(e, c, p) ==
    \/ /\ p.type = "NOSTATE" /\ c.tail = p.tail
       /\ GoSENT(e, c, OwnBits(e), NoHalf) /\ Quiet
    \/ /\ p.type = "WELCOME"
       /\ ConfirmWELCOME(c.bits, p.bits) /\ p.key = c.key
       /\ GoESTABLISHED(e, c, c.key, p.bits.resume)
    \/ /\ p.type = "DATA"
       /\ \E h \in Attached(e, c.key, c.bits.resume) :
              ProcessDATA(e, Established(c, c.key, c.bits.resume), h, p)
       /\ waiting' = [waiting EXCEPT ![e] = FALSE]
       /\ UNCHANGED born

RecvRECEIVED(e, c, p) ==
    \/ /\ p.type = "NOSTATE" /\ c.tail = p.tail
       /\ GoSENT(e, c, OwnBits(e), NoHalf) /\ Quiet
    \/ /\ p.type = "WELCOME"
       /\ ConfirmWELCOME(c.bits, p.bits) /\ p.key = c.key
       /\ GoESTABLISHED(e, c, c.key, p.bits.resume)
    \/ /\ p.type = "DATA" /\ p.key = c.key
       /\ \E h \in Attached(e, c.key, c.bits.resume) :
              ProcessDATA(e, Established(c, c.key, c.bits.resume), h, p)
       /\ waiting' = [waiting EXCEPT ![e] = FALSE]
       /\ UNCHANGED born

RecvESTABLISHED(e, c, p) ==
    \/ /\ p.type = "NOSTATE" /\ c.tail = p.tail
       /\ \/ Zombie(e) /\ Die(e)
          \/ /\ ~Zombie(e)
             /\ GoSENT(e, [c EXCEPT !.count = 0], OwnBits(e), NoHalf) /\ Quiet
    \/ /\ p.type \in {"HELLO", "WELCOME"}
       /\ Becomes(e, [c EXCEPT !.rts = TRUE])
       /\ UNCHANGED born /\ Quiet
    \/ /\ p.type = "DATA" /\ p.key = c.key
       /\ ProcessDATA(e, c, host[e], p)
       /\ UNCHANGED <<waiting, born>>

\* recv; a packet of a stranger first creates a channel.
Recv(e, p) ==
    /\ p \in net /\ p.to = e
    /\ \/ chan[e] = None /\ RecvCLOSED(e, Bare, p)
       \/ Is(e, "CLOSED") /\ RecvCLOSED(e, chan[e], p)
       \/ Is(e, "SENT") /\ RecvSENT(e, chan[e], p)
       \/ Is(e, "RECEIVED") /\ RecvRECEIVED(e, chan[e], p)
       \/ Is(e, "ESTABLISHED") /\ RecvESTABLISHED(e, chan[e], p)
    /\ UNCHANGED <<offer, reused, net>>
-----------------------------------------------------------------------------
(* Sending. *)

\* The network holds MaxNet packets at once; what is one too many is lost.
Emit(p) ==
    \/ Cardinality(net \cup {p}) <= MaxNet /\ net' = net \cup {p}
    \/ /\ Cardinality(net \cup {p}) > MaxNet
       /\ \E lost \in net \ {p} : net' = (net \ {lost}) \cup {p}

Idle(c) == [c EXCEPT !.rts = FALSE]

NOSTATE(e, tail) == [type |-> "NOSTATE", to |-> Peer[e], tail |-> tail]

\* The answer of a channel that has nothing more to say.
PullCLOSED(e, c) ==
    /\ Die(e)
    /\ \/ c.tail = None /\ Emit([type |-> "FAIL", to |-> Peer[e]])
       \/ c.tail # None /\ Emit(NOSTATE(e, c.tail))

PullSENT(e, c) ==
    /\ \/ c.tail # None /\ Emit(NOSTATE(e, c.tail))
       \/ /\ c.tail = None
          /\ Emit([type |-> "HELLO", to |-> Peer[e], bits |-> c.bits, half |-> c.half])
    /\ Becomes(e, [Idle(c) EXCEPT !.tail = None])
    /\ UNCHANGED born /\ Quiet

PullRECEIVED(e, c) ==
    LET p == [type |-> "WELCOME", to |-> Peer[e], bits |-> c.bits,
              half |-> c.half, key |-> c.key]
    IN  /\ Emit(p)
        /\ Becomes(e, [Idle(c) EXCEPT !.tail = TailOf(p)])
        /\ UNCHANGED born /\ Quiet

PullESTABLISHED(e, c) ==
    LET p == [type |-> "DATA", to |-> Peer[e], key |-> c.key,
              tsn |-> c.tsn + 1, finish |-> Zombie(e)]
    IN  /\ c.tsn < MaxTsn
        /\ Emit(p)
        /\ Becomes(e, [c EXCEPT !.tail = TailOf(p), !.tsn = @ + 1])
        /\ UNCHANGED born /\ Quiet

Pull(e) ==
    /\ chan[e] # None /\ chan[e].rts
    /\ \/ Is(e, "CLOSED") /\ PullCLOSED(e, chan[e])
       \/ Is(e, "SENT") /\ PullSENT(e, chan[e])
       \/ Is(e, "RECEIVED") /\ PullRECEIVED(e, chan[e])
       \/ Is(e, "ESTABLISHED") /\ PullESTABLISHED(e, chan[e])
    /\ UNCHANGED <<offer, reused>>
-----------------------------------------------------------------------------
(* Timers and the rest of the end's life. *)

\* Mutant: the count is not taken.
Timeout_Uncounted(e) ==
    /\ chan[e] # None /\ chan[e].timer
    /\ Becomes(e, [chan[e] EXCEPT !.rts = TRUE, !.count = @ + 1])
    /\ UNCHANGED born /\ Quiet
    /\ UNCHANGED <<offer, reused, net>>

\* newDeathCounter: retransmit, or give up.
Timeout(e) ==
    /\ chan[e] # None /\ chan[e].timer
    /\ \/ chan[e].count = DeathCount /\ Die(e)
       \/ /\ chan[e].count < DeathCount
          /\ Becomes(e, [chan[e] EXCEPT !.rts = TRUE, !.count = @ + 1])
          /\ UNCHANGED born /\ Quiet
    /\ UNCHANGED <<offer, reused, net>>

\* An ICMP error ends only what is not yet sure of its peer.
Unreachable(e) ==
    /\ Is(e, "CLOSED") \/ Is(e, "SENT")
    /\ Die(e)
    /\ UNCHANGED <<offer, reused, net>>

\* checkZombie: a bound host without streams kills its channel in the end.
Disconnect(e) ==
    /\ Is(e, "ESTABLISHED") /\ Zombie(e)
    /\ Die(e)
    /\ UNCHANGED <<offer, reused, net>>

\* connect, of a channel that is made if there is none; only a closed one
\* starts.
Connect(e) ==
    LET c == IF chan[e] = None THEN Bare ELSE chan[e]
    IN  \/ c.st = "CLOSED" /\ GoSENT(e, c, OwnBits(e), NoHalf)
        \/ c.st # "CLOSED" /\ UNCHANGED <<chan, born>>

\* EndPoint.contact: answered at once, or when the channel knows.
Contact(e) ==
    /\ \/ /\ Is(e, "ESTABLISHED")
          /\ host' = [host EXCEPT ![e].use = "streams"]
          /\ UNCHANGED <<chan, waiting, born>>
       \/ /\ ~Is(e, "ESTABLISHED")
          /\ Connect(e)
          /\ waiting' = [waiting EXCEPT ![e] = TRUE]
          /\ UNCHANGED host
    /\ UNCHANGED <<offer, reused, net>>

\* The function that contact returns takes its callback back.
Cancel(e) ==
    /\ waiting[e] /\ waiting' = [waiting EXCEPT ![e] = FALSE]
    /\ UNCHANGED <<offer, chan, host, reused, born, net>>

\* HostDispatch.connect by a user who holds the host.  If it is neither bound
\* nor has streams it asks to reconnect, which does nothing if there is a
\* channel, whatever its state.
ConnectHost(e) ==
    /\ host[e] # NoHost
    /\ host' = [host EXCEPT ![e].use = "streams"]
    /\ LET reconnect == ~Bound(e) /\ Zombie(e) /\ chan[e] = None
       IN  \/ reconnect /\ Connect(e)
           \/ ~reconnect /\ UNCHANGED <<chan, born>>
    /\ reused' = (reused \/ (~Bound(e) /\ ~Known(e)))
    /\ UNCHANGED <<offer, waiting, net>>

\* HostDispatch.listen.
ListenHost(e) ==
    /\ host[e] # NoHost /\ ~Known(e)
    /\ host' = [host EXCEPT ![e].use = "listens"]
    /\ reused' = (reused \/ ~Bound(e))
    /\ UNCHANGED <<offer, chan, waiting, born, net>>

\* The last stream ends, the last listener is taken back.
Relinquish(e, use) ==
    /\ Known(e)
    /\ host[e].use = "listens" => use = "none"
    /\ use # "streams"
    /\ host' = [host EXCEPT ![e].use = use]
    /\ UNCHANGED <<offer, chan, waiting, reused, born, net>>

\* The program ends and starts again.
Restart(e) ==
    /\ Becomes(e, None)
    /\ host' = [host EXCEPT ![e] = NoHost]
    /\ waiting' = [waiting EXCEPT ![e] = FALSE]
    /\ UNCHANGED <<offer, reused, born, net>>

User(e) == Contact(e) \/ Cancel(e) \/ ConnectHost(e) \/ ListenHost(e)
           \/ (\E use \in Uses : Relinquish(e, use))
           \/ Restart(e)
System(e) ==
    \/ \E p \in net : Recv(e, p)
    \/ Pull(e) \/ Timeout(e) \/ Unreachable(e) \/ Disconnect(e)

Next == \E e \in Ends : User(e) \/ System(e)
Spec == Init /\ [][Next]_vars
-----------------------------------------------------------------------------
\* The shapes of the variables; the death counter stays within its limit.
TypeOK ==
    /\ offer \in Offers
    /\ chan \in [Ends -> Channels \cup {None}]
    /\ host \in [Ends -> Hosts \cup {NoHost}]
    /\ waiting \in [Ends -> BOOLEAN] /\ reused \in BOOLEAN
    /\ born \in 0 .. MaxHalves
    /\ net \subseteq Packets

BothEstablished == \A e \in Ends : Is(e, "ESTABLISHED")

\* Two established ends have the same key.  "The ultimate bad news would be if
\* both sides got into AM_ESTABLISHED with different keys" (negotiation.fun,
\* before recv): whatever old HELLO, WELCOME or DATA arrives, whoever died.
KeysAgree ==
    BothEstablished => \A e \in Ends : chan[e].key = chan[Peer[e]].key

\* Two established ends have both wiped their tables or both kept them, though
\* each decided alone what it knew (existHost) and one may not have heard the
\* other's decision but only its first DATA.
ResumeAgrees ==
    BothEstablished =>
        \A e \in Ends : chan[e].bits.resume = chan[Peer[e]].bits.resume

\* Two established ends number their streams alike (host-table.fun, existHost:
\* "need the matching sequence tables"), provided that no user went back to a
\* host that was already dead, as host.sig forbids and the code does not.
TablesMatch ==
    BothEstablished /\ ~reused =>
        \A e \in Ends : host[e].epoch = host[Peer[e]].epoch

\* Whoever contacts a peer hears of the host, or that the connection failed
\* (end-point.sig, contact): while somebody waits there is a channel, its death
\* timer is scheduled, and its counter never goes back.
WaitingEnds ==
    [][\A e \in Ends : waiting'[e] =>
           /\ chan'[e] # None /\ chan'[e].timer
           /\ waiting[e] => chan[e].count <= chan'[e].count]_vars
=============================================================================
