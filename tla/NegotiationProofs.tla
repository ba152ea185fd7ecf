------------------------- MODULE NegotiationProofs -------------------------
(***************************************************************************)
(* Proofs about Negotiation, for every set of suites, limit and number of  *)
(* halves and packets: the shapes of the variables, and that two           *)
(* established ends have the same key, have taken the same decision        *)
(* whether to resume, and number their streams alike.                      *)
(***************************************************************************)
EXTENDS Negotiation, TLAPS

\* The two ends are each other's peer.
LEMMA PeerFacts ==
    \A e \in Ends : /\ Peer[e] \in Ends /\ Peer[e] # e /\ Peer[Peer[e]] = e
                    /\ \A x \in Ends : x = e \/ x = Peer[e]
<1>1. PICK a \in Ends, b \in Ends : a # b /\ Ends = {a, b}
  BY NegotiationAssumption
<1>2. Peer[a] = b
  <2>1. \E x \in Ends : x # a
    BY <1>1
  <2>2. (CHOOSE x \in Ends : x # a) # a /\ (CHOOSE x \in Ends : x # a) \in Ends
    BY <2>1
  <2>. QED BY <1>1, <2>2 DEF Peer
<1>3. Peer[b] = a
  <2>1. \E x \in Ends : x # b
    BY <1>1
  <2>2. (CHOOSE x \in Ends : x # b) # b /\ (CHOOSE x \in Ends : x # b) \in Ends
    BY <2>1
  <2>. QED BY <1>1, <2>2 DEF Peer
<1>. QED BY <1>1, <1>2, <1>3
-----------------------------------------------------------------------------
(* The shapes. *)

Chans == Channels \cup {None}

LEMMA NoKeyShape == NoKey \notin Keys
<1>1. PICK a \in Ends : TRUE
  BY NegotiationAssumption
<1>. QED BY <1>1 DEF NoKey, Keys, Halves, NoHalf

LEMMA NoneIsNoChannel ==
    ASSUME NEW c \in Channels
    PROVE  c # None
BY DEF Channels, None

LEMMA NoHostIsNoHost ==
    ASSUME NEW h \in Hosts
    PROVE  h # NoHost
BY DEF Hosts, Uses, NoHost

LEMMA BareShape == Bare \in Channels
BY NegotiationAssumption DEF Bare, Channels, NoBits, Bits, NoHalf

LEMMA ResetShape ==
    ASSUME NEW c \in Channels, NEW state \in {"CLOSED", "SENT", "RECEIVED", "ESTABLISHED"}
    PROVE  /\ Reset(c, state) \in Channels
           /\ Reset(c, state).st = state /\ Reset(c, state).key = NoKey
           /\ Reset(c, state).timer = TRUE /\ Reset(c, state).count = c.count
<1>1. c.count \in 0 .. DeathCount
  BY DEF Channels
<1>2. NoBits \in Bits /\ NoHalf \in Nat
  BY DEF NoBits, Bits, NoHalf
<1>. QED BY <1>1, <1>2 DEF Channels, Reset, Bare

LEMMA ProgressShape ==
    ASSUME NEW c \in Channels
    PROVE  /\ Progress(c) \in Channels
           /\ Progress(c).st = c.st /\ Progress(c).bits = c.bits
           /\ Progress(c).half = c.half /\ Progress(c).key = c.key
           /\ Progress(c).count = c.count /\ Progress(c).timer = TRUE
BY DEF Progress, Channels

LEMMA BecomesShape ==
    ASSUME chan \in [Ends -> Chans], NEW e \in Ends, NEW c \in Chans, Becomes(e, c)
    PROVE  /\ chan' \in [Ends -> Chans]
           /\ chan'[e] = c
           /\ \A x \in Ends \ {e} : chan'[x] = chan[x]
BY DEF Becomes

LEMMA KeyOfShape ==
    ASSUME NEW e \in Ends, NEW h \in Halves, NEW t \in Halves
    PROVE  KeyOf(e, h, t) \in Keys /\ KeyOf(e, h, t)[e] = h
BY DEF KeyOf, Keys

LEMMA TailShape ==
    ASSUME NEW p \in Packets, p.type \in {"WELCOME", "DATA"}
    PROVE  TailOf(p) \in Tails
<1>1. p.to \in Ends /\ p.key \in Keys /\ (p.type = "DATA" => p.tsn \in Nat)
  BY DEF Packets
<1>. QED BY <1>1, PeerFacts DEF TailOf, Tails
-----------------------------------------------------------------------------
(* What the go functions do, given variables of the right shape. *)

HostShape == host \in [Ends -> Hosts \cup {NoHost}]
BornShape == born \in 0 .. MaxHalves

\* The channel of e is c now, and all the others are as they were.
Only(e, c) == /\ chan' \in [Ends -> Chans] /\ chan'[e] \in Channels
              /\ \A x \in Ends \ {e} : chan'[x] = chan[x]
              /\ chan'[e].timer = TRUE /\ chan'[e].count = c.count

LEMMA CloseEffect ==
    ASSUME chan \in [Ends -> Chans], NEW e \in Ends, NEW c \in Channels,
           NEW tail \in Tails \cup {None},
           GoFAIL(e, c) \/ GoNOSTATE(e, c, tail)
    PROVE  Only(e, c) /\ chan'[e].st = "CLOSED" /\ born' = born
<1>1. Reset(c, "CLOSED") \in Channels /\ Reset(c, "CLOSED").st = "CLOSED"
      /\ Reset(c, "CLOSED").timer = TRUE /\ Reset(c, "CLOSED").count = c.count
  BY ResetShape
<1>2. ASSUME NEW r \in Channels, r.st = "CLOSED", r.count = c.count, born' = born,
             Becomes(e, Progress(r))
      PROVE  Only(e, c) /\ chan'[e].st = "CLOSED" /\ born' = born
  <2>1. Progress(r) \in Channels /\ Progress(r).st = "CLOSED"
        /\ Progress(r).timer = TRUE /\ Progress(r).count = c.count
    BY <1>2, ProgressShape
  <2>. QED BY <1>2, <2>1, BecomesShape DEF Only, Chans
<1>3. CASE GoFAIL(e, c)
  BY <1>1, <1>2, <1>3 DEF GoFAIL
<1>4. CASE GoNOSTATE(e, c, tail)
  <2>. DEFINE r == [Reset(c, "CLOSED") EXCEPT !.tail = tail]
  <2>1. r \in Channels /\ r.st = "CLOSED" /\ r.count = c.count
    BY <1>1 DEF Channels
  <2>2. Becomes(e, Progress(r)) /\ born' = born
    BY <1>4 DEF GoNOSTATE
  <2>. HIDE DEF r
  <2>. QED BY <1>2, <2>1, <2>2
<1>. QED BY <1>3, <1>4

LEMMA SentEffect ==
    ASSUME chan \in [Ends -> Chans], BornShape, NEW e \in Ends, NEW c \in Channels,
           NEW bits \in Bits, NEW kept \in Nat, GoSENT(e, c, bits, kept)
    PROVE  /\ Only(e, c) /\ chan'[e].st = "SENT" /\ chan'[e].key = NoKey
           /\ BornShape' /\ chan'[e].half \in Halves
           /\ \/ kept # NoHalf /\ chan'[e].half = kept /\ born' = born
              \/ born' = born + 1 /\ chan'[e].half = born'
<1>1. PICK half \in 1 .. MaxHalves :
         /\ HalfOrNew(kept, half)
         /\ Becomes(e, Progress([Reset(c, "SENT") EXCEPT !.bits = bits, !.half = half]))
  BY DEF GoSENT
<1>. DEFINE r == [Reset(c, "SENT") EXCEPT !.bits = bits, !.half = half]
<1>2. Reset(c, "SENT") \in Channels /\ Reset(c, "SENT").st = "SENT"
      /\ Reset(c, "SENT").key = NoKey /\ Reset(c, "SENT").count = c.count
  BY ResetShape
<1>3. half \in Nat /\ half # 0
  BY NegotiationAssumption
<1>4. r \in Channels /\ r.st = "SENT" /\ r.key = NoKey /\ r.half = half
      /\ r.count = c.count
  BY <1>2, <1>3 DEF Channels
<1>5. Becomes(e, Progress(r))
  BY <1>1
<1>. HIDE DEF r
<1>6. Progress(r) \in Channels /\ Progress(r).st = "SENT" /\ Progress(r).key = NoKey
      /\ Progress(r).half = half /\ Progress(r).timer = TRUE
      /\ Progress(r).count = c.count
  BY <1>4, ProgressShape
<1>7. Only(e, c) /\ chan'[e].st = "SENT" /\ chan'[e].key = NoKey /\ chan'[e].half = half
  BY <1>5, <1>6, BecomesShape DEF Only, Chans
<1>8. \/ kept # NoHalf /\ half = kept /\ born' = born
      \/ born' = born + 1 /\ half = born'
  BY <1>1 DEF HalfOrNew
<1>9. BornShape'
  BY <1>8, NegotiationAssumption DEF BornShape
<1>. QED BY <1>3, <1>7, <1>8, <1>9 DEF Halves, NoHalf

LEMMA ReceivedEffect ==
    ASSUME chan \in [Ends -> Chans], BornShape, NEW e \in Ends, NEW c \in Channels,
           NEW bits \in Bits, NEW kept \in Nat, NEW theirs \in Halves,
           GoRECEIVED(e, c, bits, kept, theirs)
    PROVE  /\ Only(e, c) /\ chan'[e].st = "RECEIVED"
           /\ BornShape' /\ chan'[e].half \in Halves
           /\ chan'[e].key = KeyOf(e, chan'[e].half, theirs)
           /\ \/ kept # NoHalf /\ chan'[e].half = kept /\ born' = born
              \/ born' = born + 1 /\ chan'[e].half = born'
<1>1. PICK half \in 1 .. MaxHalves :
         /\ HalfOrNew(kept, half)
         /\ Becomes(e, Progress([Reset(c, "RECEIVED") EXCEPT
                                    !.bits = bits, !.half = half,
                                    !.key = KeyOf(e, half, theirs)]))
  BY DEF GoRECEIVED
<1>. DEFINE r == [Reset(c, "RECEIVED") EXCEPT !.bits = bits, !.half = half,
                                              !.key = KeyOf(e, half, theirs)]
<1>2. Reset(c, "RECEIVED") \in Channels /\ Reset(c, "RECEIVED").st = "RECEIVED"
      /\ Reset(c, "RECEIVED").count = c.count
  BY ResetShape
<1>3. half \in Halves /\ half \in Nat
  BY NegotiationAssumption DEF Halves, NoHalf
<1>4. KeyOf(e, half, theirs) \in Keys
  BY <1>3, KeyOfShape
<1>5. r \in Channels /\ r.st = "RECEIVED" /\ r.half = half
      /\ r.key = KeyOf(e, half, theirs) /\ r.count = c.count
  BY <1>2, <1>3, <1>4 DEF Channels
<1>6. Becomes(e, Progress(r))
  BY <1>1
<1>. HIDE DEF r
<1>7. Progress(r) \in Channels /\ Progress(r).st = "RECEIVED"
      /\ Progress(r).key = KeyOf(e, half, theirs)
      /\ Progress(r).half = half /\ Progress(r).timer = TRUE
      /\ Progress(r).count = c.count
  BY <1>5, ProgressShape
<1>8. Only(e, c) /\ chan'[e].st = "RECEIVED" /\ chan'[e].half = half
      /\ chan'[e].key = KeyOf(e, half, theirs)
  BY <1>6, <1>7, BecomesShape DEF Only, Chans
<1>9. \/ kept # NoHalf /\ half = kept /\ born' = born
      \/ born' = born + 1 /\ half = born'
  BY <1>1 DEF HalfOrNew
<1>10. BornShape'
  BY <1>9, NegotiationAssumption DEF BornShape
<1>. QED BY <1>3, <1>8, <1>9, <1>10

LEMMA AttachedShape ==
    ASSUME HostShape, NEW e \in Ends, NEW key \in Keys, NEW resume \in BOOLEAN,
           NEW h \in Attached(e, key, resume)
    PROVE  h \in Hosts
<1>. DEFINE old == host[e]
            epoch == IF old # NoHost /\ resume THEN old.epoch ELSE key
            uses == CASE waiting[e] -> {"streams"}
                      [] ~waiting[e] /\ old = NoHost -> {"none"}
                      [] ~waiting[e] /\ old # NoHost ->
                            IF ~resume /\ old.use = "streams" THEN Uses ELSE {old.use}
<1>1. old \in Hosts \cup {NoHost}
  BY DEF HostShape
<1>2. epoch \in Keys \cup {NoKey}
  BY <1>1 DEF Hosts
<1>3. uses \subseteq Uses
  <2>1. CASE waiting[e]
    BY <2>1 DEF Uses
  <2>2. CASE ~waiting[e] /\ old = NoHost
    BY <2>2 DEF Uses
  <2>3. CASE ~waiting[e] /\ old # NoHost
    <3>1. old.use \in Uses
      BY <1>1, <2>3 DEF Hosts
    <3>2. uses = IF ~resume /\ old.use = "streams" THEN Uses ELSE {old.use}
      BY <2>3
    <3>. QED BY <3>1, <3>2
  <2>. QED BY <2>1, <2>2, <2>3
<1>4. h \in [epoch : {epoch}, use : uses]
  BY DEF Attached
<1>. HIDE DEF old, epoch, uses
<1>. QED BY <1>2, <1>3, <1>4 DEF Hosts

LEMMA EstablishedShape ==
    ASSUME NEW c \in Channels, NEW key \in Keys, NEW resume \in BOOLEAN
    PROVE  /\ Established(c, key, resume) \in Channels
           /\ Established(c, key, resume).st = "ESTABLISHED"
           /\ Established(c, key, resume).key = key
           /\ Established(c, key, resume).bits.resume = resume
           /\ Established(c, key, resume).count = c.count
<1>. DEFINE r == Reset(c, "ESTABLISHED")
<1>1. r \in Channels /\ r.st = "ESTABLISHED" /\ r.count = c.count
  BY ResetShape
<1>2. Established(c, key, resume) = [r EXCEPT !.key = key, !.bits.resume = resume,
                                              !.rts = TRUE, !.timer = FALSE]
  BY DEF Established
<1>3. r.bits \in Bits
  BY <1>1 DEF Channels
<1>. HIDE DEF r
<1>4. [r.bits EXCEPT !.resume = resume] \in Bits
      /\ [r.bits EXCEPT !.resume = resume].resume = resume
  BY <1>3 DEF Bits
<1>. QED BY <1>1, <1>2, <1>4 DEF Channels

LEMMA EstablishedEffect ==
    ASSUME chan \in [Ends -> Chans], HostShape, waiting \in [Ends -> BOOLEAN],
           NEW e \in Ends, NEW c \in Channels, NEW key \in Keys,
           NEW resume \in BOOLEAN, GoESTABLISHED(e, c, key, resume)
    PROVE  /\ chan' \in [Ends -> Chans] /\ chan'[e] \in Channels
           /\ \A x \in Ends \ {e} : chan'[x] = chan[x]
           /\ chan'[e].st = "ESTABLISHED" /\ chan'[e].key = key
           /\ chan'[e].bits.resume = resume
           /\ HostShape' /\ born' = born
           /\ host'[e] \in Hosts /\ \A x \in Ends \ {e} : host'[x] = host[x]
           /\ waiting' = [waiting EXCEPT ![e] = FALSE]
<1>1. Becomes(e, Established(c, key, resume)) /\ born' = born
      /\ waiting' = [waiting EXCEPT ![e] = FALSE]
  BY DEF GoESTABLISHED
<1>2. PICK h \in Attached(e, key, resume) : host' = [host EXCEPT ![e] = h]
  BY DEF GoESTABLISHED
<1>3. h \in Hosts
  BY AttachedShape
<1>4. HostShape' /\ host'[e] \in Hosts /\ \A x \in Ends \ {e} : host'[x] = host[x]
  BY <1>2, <1>3 DEF HostShape
<1>. QED BY <1>1, <1>4, EstablishedShape, BecomesShape DEF Chans

\* A DATA packet leaves the channel established or closes it.
LEMMA DataEffect ==
    ASSUME chan \in [Ends -> Chans], HostShape, NEW e \in Ends,
           NEW c \in Channels, c.st = "ESTABLISHED", NEW h \in Hosts,
           NEW p \in Packets, p.type = "DATA", ProcessDATA(e, c, h, p)
    PROVE  /\ chan' \in [Ends -> Chans] /\ chan'[e] \in Channels
           /\ \A x \in Ends \ {e} : chan'[x] = chan[x]
           /\ HostShape' /\ chan'[e].count = c.count
           /\ host'[e] \in Hosts /\ \A x \in Ends \ {e} : host'[x] = host[x]
           /\ \/ chan'[e].st = "CLOSED" /\ chan'[e].timer = TRUE
              \/ /\ chan'[e].st = "ESTABLISHED" /\ chan'[e].key = c.key
                 /\ chan'[e].half = c.half /\ chan'[e].bits = c.bits
<1>1. PICK empty \in BOOLEAN, use \in Uses :
         /\ host' = [host EXCEPT ![e] = [h EXCEPT !.use = use]]
         /\ Becomes(e, IF p.finish /\ use # "streams"
                       THEN Progress([Reset(c, "CLOSED") EXCEPT !.tail = TailOf(p)])
                       ELSE [c EXCEPT !.rts = @ \/ (empty /\ use # "streams")])
  BY DEF ProcessDATA
<1>2. HostShape' /\ host'[e] \in Hosts /\ \A x \in Ends \ {e} : host'[x] = host[x]
  <2>1. [h EXCEPT !.use = use] \in Hosts
    BY DEF Hosts
  <2>. QED BY <1>1, <2>1 DEF HostShape
<1>3. CASE p.finish /\ use # "streams"
  <2>. DEFINE r == [Reset(c, "CLOSED") EXCEPT !.tail = TailOf(p)]
  <2>1. Reset(c, "CLOSED") \in Channels /\ Reset(c, "CLOSED").st = "CLOSED"
        /\ Reset(c, "CLOSED").count = c.count
    BY ResetShape
  <2>2. TailOf(p) \in Tails
    BY TailShape
  <2>3. r \in Channels /\ r.st = "CLOSED" /\ r.count = c.count
    BY <2>1, <2>2 DEF Channels
  <2>4. Becomes(e, Progress(r))
    BY <1>1, <1>3
  <2>. HIDE DEF r
  <2>5. Progress(r) \in Channels /\ Progress(r).st = "CLOSED"
        /\ Progress(r).timer = TRUE /\ Progress(r).count = c.count
    BY <2>3, ProgressShape
  <2>. QED BY <1>2, <2>4, <2>5, BecomesShape DEF Chans
<1>4. CASE ~(p.finish /\ use # "streams")
  <2>1. PICK ready \in BOOLEAN : Becomes(e, [c EXCEPT !.rts = ready])
    <3>1. Becomes(e, [c EXCEPT !.rts = c.rts \/ (empty /\ use # "streams")])
      BY <1>1, <1>4
    <3>. QED BY <3>1
  <2>. DEFINE r == [c EXCEPT !.rts = ready]
  <2>2. r \in Channels /\ r.st = c.st /\ r.key = c.key /\ r.half = c.half
        /\ r.bits = c.bits /\ r.count = c.count
    BY DEF Channels
  <2>. HIDE DEF r
  <2>3. Becomes(e, r)
    BY <2>1 DEF r
  <2>. QED BY <1>2, <2>2, <2>3, BecomesShape DEF Chans
<1>. QED BY <1>3, <1>4
-----------------------------------------------------------------------------
(* Four kinds of step of an end e.  What matters to the other end is in    *)
(* them; TypeOK and the fate of the waiting contacts come with them.       *)

Speaks(p) == p.type \in {"WELCOME", "DATA"}
Active(e) == chan[e].st \in {"SENT", "RECEIVED", "ESTABLISHED"}

\* The state stays; a packet may go out that says what the state is.
Stays(e) ==
    /\ chan'[e].st = chan[e].st /\ chan'[e].key = chan[e].key
    /\ chan'[e].half = chan[e].half /\ chan'[e].bits = chan[e].bits
    /\ born' = born
    /\ \A p \in net' \ net :
        /\ p.type = "HELLO" => Is(e, "SENT") /\ p.half = chan[e].half
        /\ Speaks(p) => p.to = Peer[e] /\ p.key = chan[e].key
        /\ p.type = "WELCOME" =>
              Is(e, "RECEIVED") /\ p.half = chan[e].half /\ p.bits = chan[e].bits
        /\ p.type = "DATA" => Is(e, "ESTABLISHED")

\* No state is left; a NOSTATE or a FAIL may go out.
Leaves(e) ==
    /\ chan'[e].st \in {"CLOSED", "NONE"} /\ born' = born
    /\ \A p \in net' \ net : p.type \in {"NOSTATE", "FAIL"}

\* The end starts, or goes on with the half that no key contains yet.
Starts(e) ==
    /\ net' = net /\ chan'[e].half \in Halves
    /\ \/ born' = born + 1 /\ chan'[e].half = born'
       \/ born' = born /\ Is(e, "SENT") /\ chan'[e].half = chan[e].half
    /\ \/ chan'[e].st = "SENT" /\ chan'[e].key = NoKey
       \/ /\ chan'[e].st = "RECEIVED"
          /\ \E p \in net : /\ p.type = "HELLO"
                            /\ chan'[e].key = KeyOf(e, chan'[e].half, p.half)

\* A packet that only the peer can have made establishes the channel.
Trusts(e) ==
    /\ net' = net /\ born' = born /\ chan'[e].st = "ESTABLISHED"
    /\ \E p \in net :
        /\ Speaks(p) /\ p.to = e /\ chan'[e].key = p.key
        /\ p.type = "WELCOME" => chan'[e].bits.resume = p.bits.resume
        /\ \/ Is(e, "SENT") /\ p.type = "WELCOME" /\ p.key[e] = chan[e].half
           \/ /\ Is(e, "RECEIVED") /\ p.key = chan[e].key
              /\ p.type = "WELCOME" => (p.bits.resume => chan[e].bits.resume)
              /\ p.type = "DATA" => chan'[e].bits.resume = chan[e].bits.resume

Move(e) == /\ \A x \in Ends \ {e} : chan'[x] = chan[x]
           /\ Stays(e) \/ Leaves(e) \/ Starts(e) \/ Trusts(e)

\* Who waits has a channel that is not established, and its timer runs; an
\* established channel has a host.
WaitInv ==
    \A e \in Ends :
        /\ waiting[e] => chan[e] # None /\ ~Is(e, "ESTABLISHED")
        /\ chan[e] # None /\ ~Is(e, "ESTABLISHED") => chan[e].timer = TRUE
        /\ Is(e, "ESTABLISHED") => host[e] \in Hosts

Heard(e) ==
    /\ \A x \in Ends \ {e} : waiting'[x] = waiting[x] /\ host'[x] = host[x]
    /\ chan'[e].st = "ESTABLISHED" => host'[e] \in Hosts
    /\ waiting'[e] => /\ chan'[e] # None /\ chan'[e].st # "ESTABLISHED"
                      /\ waiting[e] => chan[e].count <= chan'[e].count
    /\ chan'[e] # None /\ chan'[e].st # "ESTABLISHED" => chan'[e].timer = TRUE

Before == TypeOK /\ WaitInv
After(e) == TypeOK' /\ Move(e) /\ Heard(e)
At(e, c) == c \in Channels /\ (chan[e] = c \/ (chan[e] = None /\ c = Bare))

\* A step to c of which only the timer and the counter still matter.
LEMMA OnlyHeard ==
    ASSUME Before, NEW e \in Ends, NEW c, At(e, c), Only(e, c),
           chan'[e].st # "ESTABLISHED", Quiet
    PROVE  Heard(e)
<1>1. c.count \in 0 .. DeathCount
  BY DEF At, Channels
<1>2. chan'[e] # None /\ chan'[e].timer = TRUE /\ chan'[e].count = c.count
  BY NoneIsNoChannel DEF Only
<1>3. waiting[e] => chan[e] = c
  BY DEF At, Before, WaitInv
<1>4. waiting[e] => chan[e].count <= chan'[e].count
  BY <1>1, <1>2, <1>3, NegotiationAssumption
<1>. QED BY <1>2, <1>4 DEF Heard, Quiet

LEMMA CloseStep ==
    ASSUME Before, NEW e \in Ends, NEW c, At(e, c), NEW tail \in Tails \cup {None},
           GoFAIL(e, c) \/ GoNOSTATE(e, c, tail), Quiet, UNCHANGED <<offer, reused, net>>
    PROVE  After(e)
<1>1. Only(e, c) /\ chan'[e].st = "CLOSED" /\ born' = born
  BY CloseEffect DEF Before, TypeOK, At, Chans
<1>2. TypeOK'
  BY <1>1 DEF Before, TypeOK, Only, Chans, Quiet
<1>3. Move(e)
  BY <1>1 DEF Move, Leaves, Only
<1>4. Heard(e)
  BY <1>1, OnlyHeard
<1>. QED BY <1>2, <1>3, <1>4 DEF After

LEMMA SentStep ==
    ASSUME Before, NEW e \in Ends, NEW c, At(e, c), NEW bits \in Bits, NEW kept \in Nat,
           kept = NoHalf \/ (Is(e, "SENT") /\ kept = chan[e].half),
           GoSENT(e, c, bits, kept), Quiet, UNCHANGED <<offer, reused, net>>
    PROVE  After(e)
<1>1. /\ Only(e, c) /\ chan'[e].st = "SENT" /\ chan'[e].key = NoKey
      /\ BornShape' /\ chan'[e].half \in Halves
      /\ \/ kept # NoHalf /\ chan'[e].half = kept /\ born' = born
         \/ born' = born + 1 /\ chan'[e].half = born'
  BY SentEffect DEF Before, TypeOK, At, Chans, BornShape
<1>2. TypeOK'
  BY <1>1 DEF Before, TypeOK, Only, Chans, Quiet, BornShape
<1>3. Starts(e)
  BY <1>1 DEF Starts
<1>4. Move(e)
  BY <1>1, <1>3 DEF Move, Only
<1>5. Heard(e)
  BY <1>1, OnlyHeard
<1>. QED BY <1>2, <1>4, <1>5 DEF After

LEMMA ReceivedStep ==
    ASSUME Before, NEW e \in Ends, NEW c, At(e, c), NEW bits \in Bits, NEW kept \in Nat,
           kept = NoHalf \/ (Is(e, "SENT") /\ kept = chan[e].half),
           NEW p \in net, p.type = "HELLO", p.half \in Halves,
           GoRECEIVED(e, c, bits, kept, p.half), Quiet, UNCHANGED <<offer, reused, net>>
    PROVE  After(e)
<1>1. /\ Only(e, c) /\ chan'[e].st = "RECEIVED"
      /\ BornShape' /\ chan'[e].half \in Halves
      /\ chan'[e].key = KeyOf(e, chan'[e].half, p.half)
      /\ \/ kept # NoHalf /\ chan'[e].half = kept /\ born' = born
         \/ born' = born + 1 /\ chan'[e].half = born'
  BY ReceivedEffect DEF Before, TypeOK, At, Chans, BornShape
<1>2. TypeOK'
  BY <1>1 DEF Before, TypeOK, Only, Chans, Quiet, BornShape
<1>3. Starts(e)
  BY <1>1 DEF Starts
<1>4. Move(e)
  BY <1>1, <1>3 DEF Move, Only
<1>5. Heard(e)
  BY <1>1, OnlyHeard
<1>. QED BY <1>2, <1>4, <1>5 DEF After

LEMMA DieStep ==
    ASSUME Before, NEW e \in Ends, Die(e), UNCHANGED <<offer, reused>>,
           net' \subseteq Packets, \A p \in net' \ net : p.type \in {"NOSTATE", "FAIL"}
    PROVE  After(e)
<1>1. /\ chan' \in [Ends -> Chans] /\ chan'[e] = None /\ born' = born /\ host' = host
      /\ waiting' = [waiting EXCEPT ![e] = FALSE]
      /\ \A x \in Ends \ {e} : chan'[x] = chan[x]
  BY BecomesShape DEF Die, Before, TypeOK, Chans
<1>2. TypeOK'
  BY <1>1 DEF Before, TypeOK, Chans
<1>3. Move(e)
  BY <1>1 DEF Move, Leaves, None
<1>4. Heard(e)
  BY <1>1 DEF Heard, Before, TypeOK, None
<1>. QED BY <1>2, <1>3, <1>4 DEF After

\* A step that changes only what the other end does not see of a channel.
LEMMA StayStep ==
    ASSUME Before, NEW e \in Ends, NEW r \in Channels, chan[e] \in Channels,
           r.st = chan[e].st, r.key = chan[e].key, r.half = chan[e].half,
           r.bits = chan[e].bits, chan[e].count <= r.count,
           r.timer = chan[e].timer \/ r.timer = TRUE,
           Becomes(e, r), UNCHANGED <<offer, waiting, reused, born>>,
           HostShape', \A x \in Ends \ {e} : host'[x] = host[x],
           host[e] \in Hosts => host'[e] \in Hosts, net' \subseteq Packets,
           \A p \in net' \ net :
              /\ p.type = "HELLO" => Is(e, "SENT") /\ p.half = chan[e].half
              /\ Speaks(p) => p.to = Peer[e] /\ p.key = chan[e].key
              /\ p.type = "WELCOME" =>
                    Is(e, "RECEIVED") /\ p.half = chan[e].half /\ p.bits = chan[e].bits
              /\ p.type = "DATA" => Is(e, "ESTABLISHED")
    PROVE  After(e)
<1>1. /\ chan' \in [Ends -> Chans] /\ chan'[e] = r
      /\ \A x \in Ends \ {e} : chan'[x] = chan[x]
  BY BecomesShape DEF Before, TypeOK, Chans
<1>2. TypeOK'
  BY <1>1 DEF Before, TypeOK, Chans, HostShape
<1>3. Stays(e)
  BY <1>1 DEF Stays
<1>4. Move(e)
  BY <1>1, <1>3 DEF Move
<1>5. Heard(e)
  <2>1. chan[e] # None /\ r # None
    BY NoneIsNoChannel
  <2>2. waiting[e] => chan[e].st # "ESTABLISHED"
    BY DEF Before, WaitInv, Is
  <2>3. chan[e].st # "ESTABLISHED" => chan[e].timer = TRUE
    BY <2>1 DEF Before, WaitInv, Is
  <2>4. chan[e].st = "ESTABLISHED" => host'[e] \in Hosts
    BY DEF Before, WaitInv, Is
  <2>. QED BY <1>1, <2>1, <2>2, <2>3, <2>4 DEF Heard
<1>. QED BY <1>2, <1>4, <1>5 DEF After

LEMMA OobStep ==
    ASSUME Before, NEW e \in Ends, Is(e, "SENT"), NEW tail \in Tails,
           GoOOBNOSTATE(e, chan[e], tail), Quiet, UNCHANGED <<offer, reused, net>>
    PROVE  After(e)
<1>. DEFINE r == [chan[e] EXCEPT !.tail = tail]
<1>1. chan[e] \in Channels
  BY DEF Is, Before, TypeOK, None
<1>2. /\ r \in Channels /\ r.st = chan[e].st /\ r.key = chan[e].key
      /\ r.half = chan[e].half /\ r.bits = chan[e].bits /\ r.count = chan[e].count
  BY <1>1 DEF Channels
<1>3. Becomes(e, Progress(r)) /\ UNCHANGED born
  BY DEF GoOOBNOSTATE
<1>. HIDE DEF r
<1>4. /\ Progress(r) \in Channels /\ Progress(r).st = chan[e].st
      /\ Progress(r).key = chan[e].key /\ Progress(r).half = chan[e].half
      /\ Progress(r).bits = chan[e].bits /\ Progress(r).count = chan[e].count
      /\ Progress(r).timer = TRUE
  BY <1>2, ProgressShape
<1>5. chan[e].count <= Progress(r).count
  BY <1>1, <1>4, NegotiationAssumption DEF Channels
<1>6. HostShape' /\ net' \subseteq Packets /\ net' \ net = {} /\ host' = host
  BY DEF Before, TypeOK, Quiet, HostShape
<1>. QED BY <1>1, <1>3, <1>4, <1>5, <1>6, StayStep DEF Quiet

\* What makes a packet proof for e that its peer has the key.
Proof(e, p, resume) ==
    /\ Speaks(p) /\ p.to = e
    /\ p.type = "WELCOME" => resume = p.bits.resume
    /\ \/ Is(e, "SENT") /\ p.type = "WELCOME" /\ p.key[e] = chan[e].half
       \/ /\ Is(e, "RECEIVED") /\ p.key = chan[e].key
          /\ p.type = "WELCOME" => (p.bits.resume => chan[e].bits.resume)
          /\ p.type = "DATA" => resume = chan[e].bits.resume

LEMMA TrustStep ==
    ASSUME Before, NEW e \in Ends, NEW c \in Channels, chan[e] = c, NEW p \in net,
           NEW resume \in BOOLEAN, Proof(e, p, resume),
           GoESTABLISHED(e, c, p.key, resume), UNCHANGED <<offer, reused, net>>
    PROVE  After(e)
<1>1. p.key \in Keys
  BY DEF Before, TypeOK, Packets, Proof, Speaks
<1>2. /\ chan' \in [Ends -> Chans] /\ chan'[e] \in Channels
      /\ \A x \in Ends \ {e} : chan'[x] = chan[x]
      /\ chan'[e].st = "ESTABLISHED" /\ chan'[e].key = p.key
      /\ chan'[e].bits.resume = resume
      /\ HostShape' /\ born' = born
      /\ host'[e] \in Hosts /\ \A x \in Ends \ {e} : host'[x] = host[x]
      /\ waiting' = [waiting EXCEPT ![e] = FALSE]
  BY <1>1, EstablishedEffect DEF Before, TypeOK, Chans, HostShape
<1>3. TypeOK'
  BY <1>2 DEF Before, TypeOK, Chans, HostShape
<1>4. Trusts(e)
  BY <1>2 DEF Trusts, Proof
<1>5. Move(e)
  BY <1>2, <1>4 DEF Move
<1>6. Heard(e)
  BY <1>2 DEF Heard, Before, TypeOK
<1>. QED BY <1>3, <1>5, <1>6 DEF After
-----------------------------------------------------------------------------
(* Receiving. *)

LEMMA HelloStep ==
    ASSUME Before, NEW e \in Ends, NEW c, At(e, c), NEW agreed \in Bits,
           NEW half \in Nat, half = NoHalf \/ (Is(e, "SENT") /\ half = chan[e].half),
           NEW p \in net, p.type = "HELLO",
           ProcessHELLO(e, c, agreed, half, p), UNCHANGED <<offer, reused, net>>
    PROVE  After(e)
<1>. DEFINE ip == agreed.suites \cap p.bits.suites
            kept == IF half # NoHalf /\ Cheapest(agreed.suites) \in p.bits.suites
                    THEN half ELSE NoHalf
            usable == Cheapest(p.bits.suites) \in agreed.suites
            known == usable /\ Known(e)
            isect == [suites |-> ip, resume |-> known]
            again == ~usable \/ (known /\ ~p.bits.resume)
<1>1. p.half \in Halves
  BY DEF Before, TypeOK, Packets
<1>2. isect \in Bits
  <2>1. agreed.suites \in SUBSET Nat
    BY DEF Bits
  <2>2. ip \in SUBSET Nat
    BY <2>1
  <2>3. known \in BOOLEAN
    OBVIOUS
  <2>. HIDE DEF ip, known
  <2>. QED BY <2>2, <2>3 DEF Bits
<1>3. kept \in Nat /\ (kept = NoHalf \/ (Is(e, "SENT") /\ kept = chan[e].half))
  BY DEF NoHalf
<1>4. /\ \/ ip = {} /\ GoFAIL(e, c)
         \/ ip # {} /\ again /\ GoSENT(e, c, isect, kept)
         \/ ip # {} /\ ~again /\ GoRECEIVED(e, c, isect, kept, p.half)
      /\ Quiet
  BY DEF ProcessHELLO
<1>. HIDE DEF ip, again, isect, kept
<1>5. CASE GoFAIL(e, c)
  BY <1>4, <1>5, CloseStep
<1>6. CASE GoSENT(e, c, isect, kept)
  BY <1>2, <1>3, <1>4, <1>6, SentStep
<1>7. CASE GoRECEIVED(e, c, isect, kept, p.half)
  BY <1>1, <1>2, <1>3, <1>4, <1>7, ReceivedStep
<1>. QED BY <1>4, <1>5, <1>6, <1>7

LEMMA OwnBitsShape ==
    ASSUME Before, NEW e \in Ends
    PROVE  OwnBits(e) \in Bits
<1>1. offer[e] \in SUBSET Nat
  BY NegotiationAssumption DEF Before, TypeOK
<1>. QED BY <1>1 DEF OwnBits, Bits

LEMMA PacketTail ==
    ASSUME Before, NEW p \in net, p.type \in {"WELCOME", "DATA"}
    PROVE  TailOf(p) \in Tails
BY TailShape DEF Before, TypeOK

LEMMA RecvClosedStep ==
    ASSUME Before, NEW e \in Ends, NEW c, At(e, c), NEW p \in net, p.to = e,
           RecvCLOSED(e, c, p), UNCHANGED <<offer, reused, net>>
    PROVE  After(e)
<1>1. CASE p.type \in {"NOSTATE", "FAIL"} /\ Die(e)
  BY <1>1, DieStep DEF Before, TypeOK
<1>2. CASE p.type = "HELLO" /\ ProcessHELLO(e, c, OwnBits(e), NoHalf, p)
  BY <1>2, HelloStep, OwnBitsShape DEF NoHalf
<1>3. CASE p.type \in {"WELCOME", "DATA"} /\ GoNOSTATE(e, c, TailOf(p)) /\ Quiet
  BY <1>3, CloseStep, PacketTail
<1>. QED BY <1>1, <1>2, <1>3 DEF RecvCLOSED

LEMMA RecvSentStep ==
    ASSUME Before, NEW e \in Ends, Is(e, "SENT"), NEW p \in net, p.to = e,
           RecvSENT(e, chan[e], p), UNCHANGED <<offer, reused, net>>
    PROVE  After(e)
<1>. DEFINE c == chan[e]
<1>1. c \in Channels /\ c.bits \in Bits /\ c.half \in Nat /\ At(e, c)
  BY DEF Is, Before, TypeOK, None, At, Channels
<1>2. CASE p.type = "FAIL" /\ Die(e)
  BY <1>2, DieStep DEF Before, TypeOK
<1>3. CASE p.type = "HELLO" /\ ProcessHELLO(e, c, c.bits, c.half, p)
  BY <1>1, <1>3, HelloStep
<1>4. CASE /\ p.type = "WELCOME"
           /\ ConfirmWELCOME(c.bits, p.bits) /\ p.key = KeyOf(e, c.half, p.half)
           /\ GoESTABLISHED(e, c, p.key, p.bits.resume)
  <2>1. p.bits.resume \in BOOLEAN /\ p.to \in Ends
    BY <1>4 DEF Before, TypeOK, Packets, Bits
  <2>2. p.key[e] = c.half
    BY <1>4 DEF KeyOf
  <2>. QED BY <1>1, <1>4, <2>1, <2>2, TrustStep DEF Proof, Speaks
<1>5. CASE p.type \in {"WELCOME", "DATA"} /\ GoOOBNOSTATE(e, c, TailOf(p)) /\ Quiet
  BY <1>5, OobStep, PacketTail
<1>. QED BY <1>2, <1>3, <1>4, <1>5 DEF RecvSENT

LEMMA RecvReceivedStep ==
    ASSUME Before, NEW e \in Ends, Is(e, "RECEIVED"), NEW p \in net, p.to = e,
           RecvRECEIVED(e, chan[e], p), UNCHANGED <<offer, reused, net>>
    PROVE  After(e)
<1>. DEFINE c == chan[e]
<1>1. c \in Channels /\ c.bits.resume \in BOOLEAN /\ At(e, c)
  BY DEF Is, Before, TypeOK, None, At, Channels, Bits
<1>2. CASE p.type = "NOSTATE" /\ GoSENT(e, c, OwnBits(e), NoHalf) /\ Quiet
  BY <1>1, <1>2, SentStep, OwnBitsShape DEF NoHalf
<1>3. CASE /\ p.type = "WELCOME"
           /\ ConfirmWELCOME(c.bits, p.bits) /\ p.key = c.key
           /\ GoESTABLISHED(e, c, c.key, p.bits.resume)
  <2>1. p.bits.resume \in BOOLEAN
    BY <1>3 DEF Before, TypeOK, Packets, Bits
  <2>2. p.bits.resume => c.bits.resume
    BY <1>3 DEF ConfirmWELCOME
  <2>. QED BY <1>1, <1>3, <2>1, <2>2, TrustStep DEF Proof, Speaks
<1>4. CASE /\ p.type = "DATA" /\ p.key = c.key
           /\ \E h \in Attached(e, c.key, c.bits.resume) :
                  ProcessDATA(e, Established(c, c.key, c.bits.resume), h, p)
           /\ waiting' = [waiting EXCEPT ![e] = FALSE]
           /\ UNCHANGED born
  <2>. DEFINE d == Established(c, c.key, c.bits.resume)
  <2>1. c.key \in Keys /\ p \in Packets
    BY <1>4 DEF Before, TypeOK, Packets
  <2>2. /\ d \in Channels /\ d.st = "ESTABLISHED" /\ d.key = c.key
        /\ d.bits.resume = c.bits.resume
    BY <1>1, <2>1, EstablishedShape
  <2>3. PICK h \in Attached(e, c.key, c.bits.resume) : ProcessDATA(e, d, h, p)
    BY <1>4
  <2>4. h \in Hosts
    BY <1>1, <2>1, <2>3, AttachedShape DEF Before, TypeOK, HostShape
  <2>. HIDE DEF d
  <2>5. /\ chan' \in [Ends -> Chans] /\ chan'[e] \in Channels
        /\ \A x \in Ends \ {e} : chan'[x] = chan[x]
        /\ HostShape'
        /\ host'[e] \in Hosts /\ \A x \in Ends \ {e} : host'[x] = host[x]
        /\ \/ chan'[e].st = "CLOSED" /\ chan'[e].timer = TRUE
           \/ /\ chan'[e].st = "ESTABLISHED" /\ chan'[e].key = d.key
              /\ chan'[e].half = d.half /\ chan'[e].bits = d.bits
    BY <1>4, <2>1, <2>2, <2>3, <2>4, DataEffect DEF Before, TypeOK, Chans, HostShape
  <2>6. TypeOK'
    BY <1>4, <2>5 DEF Before, TypeOK, Chans, HostShape
  <2>7. Leaves(e) \/ Trusts(e)
    BY <1>4, <2>2, <2>5 DEF Leaves, Trusts, Is, Speaks
  <2>8. Move(e)
    BY <2>5, <2>7 DEF Move
  <2>9. Heard(e)
    BY <1>4, <2>5 DEF Heard, Before, TypeOK
  <2>. QED BY <2>6, <2>8, <2>9 DEF After
<1>. QED BY <1>2, <1>3, <1>4 DEF RecvRECEIVED

LEMMA RecvEstablishedStep ==
    ASSUME Before, NEW e \in Ends, Is(e, "ESTABLISHED"), NEW p \in net, p.to = e,
           RecvESTABLISHED(e, chan[e], p), UNCHANGED <<offer, reused, net>>
    PROVE  After(e)
<1>. DEFINE c == chan[e]
<1>1. c \in Channels /\ c # None /\ At(e, c) /\ host[e] \in Hosts /\ ~waiting[e]
  BY DEF Is, Before, TypeOK, None, At, WaitInv
<1>2. CASE Die(e)
  BY <1>2, DieStep DEF Before, TypeOK
<1>3. CASE GoSENT(e, [c EXCEPT !.count = 0], OwnBits(e), NoHalf) /\ Quiet
  <2>. DEFINE d == [c EXCEPT !.count = 0]
  <2>1. d \in Channels
    BY <1>1, NegotiationAssumption DEF Channels
  <2>2. GoSENT(e, d, OwnBits(e), NoHalf)
    BY <1>3
  <2>. HIDE DEF d
  <2>3. OwnBits(e) \in Bits /\ NoHalf \in Nat
    BY OwnBitsShape DEF NoHalf
  <2>4. /\ Only(e, d) /\ chan'[e].st = "SENT" /\ chan'[e].key = NoKey
        /\ BornShape' /\ chan'[e].half \in Halves
        /\ born' = born + 1 /\ chan'[e].half = born'
    BY <2>1, <2>2, <2>3, SentEffect DEF Before, TypeOK, Chans, BornShape
  <2>5. TypeOK'
    BY <1>3, <2>4 DEF Before, TypeOK, Only, Chans, Quiet, BornShape
  <2>6. Move(e)
    BY <2>4 DEF Move, Starts, Only
  <2>7. Heard(e)
    BY <1>1, <1>3, <2>4, NoneIsNoChannel DEF Heard, Only, Quiet
  <2>. QED BY <2>5, <2>6, <2>7 DEF After
<1>4. CASE Becomes(e, [c EXCEPT !.rts = TRUE]) /\ UNCHANGED born /\ Quiet
  <2>. DEFINE d == [c EXCEPT !.rts = TRUE]
  <2>1. /\ d \in Channels /\ d.st = c.st /\ d.key = c.key /\ d.half = c.half
        /\ d.bits = c.bits /\ d.count = c.count /\ d.timer = c.timer
    BY <1>1 DEF Channels
  <2>2. Becomes(e, d)
    BY <1>4
  <2>. HIDE DEF d
  <2>3. c.count <= d.count
    BY <1>1, <2>1, NegotiationAssumption DEF Channels
  <2>4. HostShape' /\ host' = host /\ net' \subseteq Packets /\ net' \ net = {}
    BY <1>4 DEF Before, TypeOK, Quiet, HostShape
  <2>. QED BY <1>1, <1>4, <2>1, <2>2, <2>3, <2>4, StayStep DEF Quiet
<1>5. CASE /\ p.type = "DATA" /\ p.key = c.key
           /\ ProcessDATA(e, c, host[e], p)
           /\ UNCHANGED <<waiting, born>>
  <2>1. c.st = "ESTABLISHED" /\ p \in Packets
    BY DEF Is, Before, TypeOK
  <2>2. /\ chan' \in [Ends -> Chans] /\ chan'[e] \in Channels
        /\ \A x \in Ends \ {e} : chan'[x] = chan[x]
        /\ HostShape'
        /\ host'[e] \in Hosts /\ \A x \in Ends \ {e} : host'[x] = host[x]
        /\ \/ chan'[e].st = "CLOSED" /\ chan'[e].timer = TRUE
           \/ /\ chan'[e].st = "ESTABLISHED" /\ chan'[e].key = c.key
              /\ chan'[e].half = c.half /\ chan'[e].bits = c.bits
    BY <1>1, <1>5, <2>1, DataEffect DEF Before, TypeOK, Chans, HostShape
  <2>3. TypeOK'
    BY <1>5, <2>2 DEF Before, TypeOK, Chans, HostShape
  <2>4. Leaves(e) \/ Stays(e)
    BY <1>5, <2>1, <2>2 DEF Leaves, Stays
  <2>5. Move(e)
    BY <2>2, <2>4 DEF Move
  <2>6. Heard(e)
    BY <1>1, <1>5, <2>2 DEF Heard
  <2>. QED BY <2>3, <2>5, <2>6 DEF After
<1>. QED BY <1>2, <1>3, <1>4, <1>5 DEF RecvESTABLISHED

LEMMA RecvStep ==
    ASSUME Before, NEW e \in Ends, NEW p \in net, Recv(e, p)
    PROVE  After(e)
<1>1. p.to = e /\ UNCHANGED <<offer, reused, net>>
  BY DEF Recv
<1>2. CASE chan[e] = None /\ RecvCLOSED(e, Bare, p)
  BY <1>1, <1>2, BareShape, RecvClosedStep DEF At
<1>3. CASE Is(e, "CLOSED") /\ RecvCLOSED(e, chan[e], p)
  <2>1. At(e, chan[e])
    BY <1>3 DEF At, Is, Before, TypeOK, None
  <2>. QED BY <1>1, <1>3, <2>1, RecvClosedStep
<1>4. CASE Is(e, "SENT") /\ RecvSENT(e, chan[e], p)
  BY <1>1, <1>4, RecvSentStep
<1>5. CASE Is(e, "RECEIVED") /\ RecvRECEIVED(e, chan[e], p)
  BY <1>1, <1>5, RecvReceivedStep
<1>6. CASE Is(e, "ESTABLISHED") /\ RecvESTABLISHED(e, chan[e], p)
  BY <1>1, <1>6, RecvEstablishedStep
<1>. QED BY <1>2, <1>3, <1>4, <1>5, <1>6 DEF Recv
-----------------------------------------------------------------------------
(* Sending. *)

LEMMA EmitEffect ==
    ASSUME Before, NEW p \in Packets, Emit(p)
    PROVE  net' \subseteq Packets /\ net' \ net \subseteq {p}
BY DEF Emit, Before, TypeOK

LEMMA PullClosedStep ==
    ASSUME Before, NEW e \in Ends, Is(e, "CLOSED"), PullCLOSED(e, chan[e]),
           UNCHANGED <<offer, reused>>
    PROVE  After(e)
<1>1. chan[e].tail \in Tails \cup {None} /\ Peer[e] \in Ends
  BY PeerFacts DEF Is, Before, TypeOK, None, Channels
<1>2. CASE chan[e].tail = None /\ Emit([type |-> "FAIL", to |-> Peer[e]])
  <2>. DEFINE p == [type |-> "FAIL", to |-> Peer[e]]
  <2>1. p \in Packets /\ p.type = "FAIL"
    BY <1>1 DEF Packets
  <2>. HIDE DEF p
  <2>2. net' \subseteq Packets /\ net' \ net \subseteq {p}
    BY <1>2, <2>1, EmitEffect DEF p
  <2>. QED BY <2>1, <2>2, DieStep DEF PullCLOSED
<1>3. CASE chan[e].tail # None /\ Emit(NOSTATE(e, chan[e].tail))
  <2>. DEFINE p == NOSTATE(e, chan[e].tail)
  <2>1. p \in Packets /\ p.type = "NOSTATE"
    BY <1>1, <1>3 DEF Packets, NOSTATE
  <2>. HIDE DEF p
  <2>2. net' \subseteq Packets /\ net' \ net \subseteq {p}
    BY <1>3, <2>1, EmitEffect DEF p
  <2>. QED BY <2>1, <2>2, DieStep DEF PullCLOSED
<1>. QED BY <1>2, <1>3 DEF PullCLOSED

LEMMA PullSentStep ==
    ASSUME Before, NEW e \in Ends, Is(e, "SENT"), chan[e].half \in Halves,
           PullSENT(e, chan[e]), UNCHANGED <<offer, reused>>
    PROVE  After(e)
<1>. DEFINE c == chan[e]
            d == [Idle(c) EXCEPT !.tail = None]
            hello == [type |-> "HELLO", to |-> Peer[e], bits |-> c.bits, half |-> c.half]
<1>1. c \in Channels /\ c.bits \in Bits /\ c.tail \in Tails \cup {None} /\ Peer[e] \in Ends
  BY PeerFacts DEF Is, Before, TypeOK, None, Channels
<1>2. /\ d \in Channels /\ d.st = c.st /\ d.key = c.key /\ d.half = c.half
      /\ d.bits = c.bits /\ d.count = c.count /\ d.timer = c.timer
  BY <1>1 DEF Channels, Idle
<1>3. Becomes(e, d) /\ UNCHANGED <<waiting, born>> /\ HostShape' /\ host' = host
  BY DEF PullSENT, Quiet, Before, TypeOK, HostShape
<1>4. c.count <= d.count
  BY <1>1, <1>2, NegotiationAssumption DEF Channels
<1>. HIDE DEF d
<1>5. CASE c.tail # None /\ Emit(NOSTATE(e, c.tail))
  <2>. DEFINE p == NOSTATE(e, c.tail)
  <2>1. p \in Packets /\ p.type = "NOSTATE"
    BY <1>1, <1>5 DEF Packets, NOSTATE
  <2>. HIDE DEF p
  <2>2. net' \subseteq Packets /\ net' \ net \subseteq {p}
    BY <1>5, <2>1, EmitEffect DEF p
  <2>. QED BY <1>1, <1>2, <1>3, <1>4, <2>1, <2>2, StayStep DEF Speaks
<1>6. CASE c.tail = None /\ Emit(hello)
  <2>1. hello \in Packets /\ hello.type = "HELLO" /\ hello.half = c.half
    BY <1>1 DEF Packets
  <2>. HIDE DEF hello
  <2>2. net' \subseteq Packets /\ net' \ net \subseteq {hello}
    BY <1>6, <2>1, EmitEffect
  <2>. QED BY <1>1, <1>2, <1>3, <1>4, <2>1, <2>2, StayStep DEF Speaks
<1>. QED BY <1>5, <1>6 DEF PullSENT

LEMMA PullReceivedStep ==
    ASSUME Before, NEW e \in Ends, Is(e, "RECEIVED"), chan[e].half \in Halves,
           chan[e].key \in Keys, PullRECEIVED(e, chan[e]), UNCHANGED <<offer, reused>>
    PROVE  After(e)
<1>. DEFINE c == chan[e]
            p == [type |-> "WELCOME", to |-> Peer[e], bits |-> c.bits,
                  half |-> c.half, key |-> c.key]
            d == [Idle(c) EXCEPT !.tail = TailOf(p)]
<1>1. c \in Channels /\ c.bits \in Bits /\ Peer[e] \in Ends
  BY PeerFacts DEF Is, Before, TypeOK, None, Channels
<1>2. /\ p \in Packets /\ p.type = "WELCOME" /\ p.to = Peer[e]
      /\ p.key = c.key /\ p.half = c.half /\ p.bits = c.bits
  BY <1>1 DEF Packets
<1>3. Emit(p) /\ Becomes(e, d) /\ UNCHANGED <<waiting, born, host>>
  BY DEF PullRECEIVED, Quiet
<1>. HIDE DEF p
<1>4. TailOf(p) \in Tails
  BY <1>2, TailShape
<1>5. /\ d \in Channels /\ d.st = c.st /\ d.key = c.key /\ d.half = c.half
      /\ d.bits = c.bits /\ d.count = c.count /\ d.timer = c.timer
  BY <1>1, <1>4 DEF Channels, Idle
<1>. HIDE DEF d
<1>6. c.count <= d.count
  BY <1>1, <1>5, NegotiationAssumption DEF Channels
<1>7. net' \subseteq Packets /\ net' \ net \subseteq {p}
  BY <1>2, <1>3, EmitEffect
<1>8. HostShape'
  BY <1>3 DEF Before, TypeOK, HostShape
<1>. QED BY <1>1, <1>2, <1>3, <1>5, <1>6, <1>7, <1>8, StayStep DEF Speaks

LEMMA PullEstablishedStep ==
    ASSUME Before, NEW e \in Ends, Is(e, "ESTABLISHED"), chan[e].key \in Keys,
           PullESTABLISHED(e, chan[e]), UNCHANGED <<offer, reused>>
    PROVE  After(e)
<1>. DEFINE c == chan[e]
            p == [type |-> "DATA", to |-> Peer[e], key |-> c.key,
                  tsn |-> c.tsn + 1, finish |-> Zombie(e)]
            d == [c EXCEPT !.tail = TailOf(p), !.tsn = c.tsn + 1]
<1>1. c \in Channels /\ c.tsn \in Nat /\ Peer[e] \in Ends
  BY PeerFacts DEF Is, Before, TypeOK, None, Channels
<1>2. p \in Packets /\ p.type = "DATA" /\ p.to = Peer[e] /\ p.key = c.key
  <2>1. Zombie(e) \in BOOLEAN
    BY DEF Zombie
  <2>. QED BY <1>1, <2>1 DEF Packets
<1>3. Emit(p) /\ Becomes(e, d) /\ UNCHANGED <<waiting, born, host>>
  BY DEF PullESTABLISHED, Quiet
<1>. HIDE DEF p
<1>4. TailOf(p) \in Tails
  BY <1>2, TailShape
<1>5. /\ d \in Channels /\ d.st = c.st /\ d.key = c.key /\ d.half = c.half
      /\ d.bits = c.bits /\ d.count = c.count /\ d.timer = c.timer
  <2>1. ASSUME NEW t \in Tails, NEW n \in Nat
        PROVE  LET r == [c EXCEPT !.tail = t, !.tsn = n]
               IN  /\ r \in Channels /\ r.st = c.st /\ r.key = c.key
                   /\ r.half = c.half /\ r.bits = c.bits /\ r.count = c.count
                   /\ r.timer = c.timer
    BY <1>1 DEF Channels
  <2>2. c.tsn + 1 \in Nat
    BY <1>1
  <2>. QED BY <1>4, <2>1, <2>2
<1>. HIDE DEF d
<1>6. c.count <= d.count
  BY <1>1, <1>5, NegotiationAssumption DEF Channels
<1>7. net' \subseteq Packets /\ net' \ net \subseteq {p}
  BY <1>2, <1>3, EmitEffect
<1>8. HostShape'
  BY <1>3 DEF Before, TypeOK, HostShape
<1>. QED BY <1>1, <1>2, <1>3, <1>5, <1>6, <1>7, <1>8, StayStep DEF Speaks
-----------------------------------------------------------------------------
(* Timers and users. *)

\* A step that changes no channel, only the host or who waits.
LEMMA CalmStep ==
    ASSUME Before, NEW e \in Ends, UNCHANGED <<offer, chan, born, net>>,
           HostShape', host[e] \in Hosts => host'[e] \in Hosts,
           \A x \in Ends \ {e} : waiting'[x] = waiting[x] /\ host'[x] = host[x],
           waiting' \in [Ends -> BOOLEAN], reused' \in BOOLEAN,
           waiting'[e] => chan[e] # None /\ ~Is(e, "ESTABLISHED")
    PROVE  After(e)
<1>1. TypeOK'
  BY DEF Before, TypeOK, HostShape
<1>2. Move(e)
  BY DEF Move, Stays
<1>3. Heard(e)
  <2>1. chan[e] # None /\ chan[e].st # "ESTABLISHED" => chan[e].timer = TRUE
    BY DEF Before, WaitInv, Is
  <2>2. chan[e].st = "ESTABLISHED" => host'[e] \in Hosts
    BY DEF Before, WaitInv, Is
  <2>3. waiting'[e] /\ waiting[e] => chan[e].count <= chan[e].count
    <3>1. chan[e] # None => chan[e].count \in 0 .. DeathCount
      BY DEF Before, TypeOK, Channels
    <3>. QED BY <3>1, NegotiationAssumption DEF Before, WaitInv
  <2>. QED BY <2>1, <2>2, <2>3 DEF Heard, Is
<1>. QED BY <1>1, <1>2, <1>3 DEF After

LEMMA TimeoutStep ==
    ASSUME Before, NEW e \in Ends, Timeout(e)
    PROVE  After(e)
<1>. DEFINE c == chan[e]
            d == [c EXCEPT !.rts = TRUE, !.count = @ + 1]
<1>1. c \in Channels /\ UNCHANGED <<offer, reused, net>>
  BY DEF Timeout, Before, TypeOK
<1>2. CASE Die(e)
  BY <1>1, <1>2, DieStep DEF Before, TypeOK
<1>3. CASE /\ c.count < DeathCount /\ Becomes(e, d)
           /\ UNCHANGED born /\ Quiet
  <2>1. c.count \in 0 .. DeathCount
    BY <1>1 DEF Channels
  <2>2. c.count + 1 \in 0 .. DeathCount /\ c.count <= c.count + 1
    BY <1>3, <2>1, NegotiationAssumption
  <2>3. /\ d \in Channels /\ d.st = c.st /\ d.key = c.key /\ d.half = c.half
        /\ d.bits = c.bits /\ d.count = c.count + 1 /\ d.timer = c.timer
    BY <1>1, <2>2 DEF Channels
  <2>. HIDE DEF d
  <2>4. HostShape' /\ host' = host /\ net' \subseteq Packets /\ net' \ net = {}
    BY <1>1, <1>3 DEF Before, TypeOK, Quiet, HostShape
  <2>. QED BY <1>1, <1>3, <2>2, <2>3, <2>4, StayStep DEF Quiet
<1>. QED BY <1>2, <1>3 DEF Timeout

LEMMA ContactStep ==
    ASSUME Before, NEW e \in Ends, Contact(e)
    PROVE  After(e)
<1>. DEFINE c == IF chan[e] = None THEN Bare ELSE chan[e]
<1>1. UNCHANGED <<offer, reused, net>>
  BY DEF Contact
<1>2. CASE /\ Is(e, "ESTABLISHED")
           /\ host' = [host EXCEPT ![e].use = "streams"]
           /\ UNCHANGED <<chan, waiting, born>>
  <2>1. host[e] \in Hosts /\ ~waiting[e] /\ host \in [Ends -> Hosts \cup {NoHost}]
    BY <1>2 DEF Before, WaitInv, TypeOK
  <2>2. [host[e] EXCEPT !.use = "streams"] \in Hosts
    BY <2>1 DEF Hosts, Uses
  <2>3. HostShape' /\ host'[e] \in Hosts /\ \A x \in Ends \ {e} : host'[x] = host[x]
    BY <1>2, <2>1, <2>2 DEF HostShape
  <2>. QED BY <1>1, <1>2, <2>1, <2>3, CalmStep DEF Before, TypeOK
<1>3. CASE /\ ~Is(e, "ESTABLISHED") /\ Connect(e)
           /\ waiting' = [waiting EXCEPT ![e] = TRUE] /\ UNCHANGED host
  <2>1. At(e, c) /\ c \in Channels
    BY BareShape DEF At, Before, TypeOK
  <2>2. HostShape' /\ waiting' \in [Ends -> BOOLEAN] /\ waiting'[e] = TRUE
        /\ \A x \in Ends \ {e} : waiting'[x] = waiting[x] /\ host'[x] = host[x]
    BY <1>3 DEF Before, TypeOK, HostShape
  <2>3. CASE c.st # "CLOSED" /\ UNCHANGED <<chan, born>>
    <3>1. chan[e] # None
      BY <2>3 DEF Bare
    <3>. QED BY <1>1, <1>3, <2>2, <2>3, <3>1, CalmStep DEF Before, TypeOK
  <2>4. CASE GoSENT(e, c, OwnBits(e), NoHalf)
    <3>1. OwnBits(e) \in Bits /\ NoHalf \in Nat
      BY OwnBitsShape DEF NoHalf
    <3>2. /\ Only(e, c) /\ chan'[e].st = "SENT" /\ chan'[e].key = NoKey
          /\ BornShape' /\ chan'[e].half \in Halves
          /\ born' = born + 1 /\ chan'[e].half = born'
      BY <2>1, <2>4, <3>1, SentEffect DEF Before, TypeOK, Chans, BornShape
    <3>3. TypeOK'
      BY <1>1, <2>2, <3>2 DEF Before, TypeOK, Only, Chans, BornShape, HostShape
    <3>4. Move(e)
      BY <1>1, <3>2 DEF Move, Starts, Only
    <3>5. Heard(e)
      <4>1. waiting[e] => chan[e] = c
        BY DEF Before, WaitInv
      <4>2. c.count <= c.count
        BY <2>1, NegotiationAssumption DEF Channels
      <4>. QED BY <2>2, <3>2, <4>1, <4>2, NoneIsNoChannel DEF Heard, Only
    <3>. QED BY <3>3, <3>4, <3>5 DEF After
  <2>. QED BY <1>3, <2>3, <2>4 DEF Connect
<1>. QED BY <1>2, <1>3 DEF Contact

LEMMA ConnectHostStep ==
    ASSUME Before, NEW e \in Ends, ConnectHost(e)
    PROVE  After(e)
<1>1. /\ host[e] \in Hosts /\ host' = [host EXCEPT ![e].use = "streams"]
      /\ UNCHANGED <<offer, waiting, net>>
  BY DEF ConnectHost, Before, TypeOK
<1>2. reused' \in BOOLEAN
  BY DEF ConnectHost
<1>3. [host[e] EXCEPT !.use = "streams"] \in Hosts
  BY <1>1 DEF Hosts, Uses
<1>4. HostShape' /\ host'[e] \in Hosts /\ \A x \in Ends \ {e} : host'[x] = host[x]
  BY <1>1, <1>3 DEF HostShape, Before, TypeOK
<1>5. CASE UNCHANGED <<chan, born>>
  BY <1>1, <1>2, <1>4, <1>5, CalmStep DEF Before, TypeOK, WaitInv
<1>6. CASE chan[e] = None /\ Connect(e)
  <2>1. GoSENT(e, Bare, OwnBits(e), NoHalf)
    BY <1>6 DEF Connect, Bare
  <2>2. OwnBits(e) \in Bits /\ NoHalf \in Nat /\ Bare \in Channels /\ ~waiting[e]
    BY <1>6, OwnBitsShape, BareShape DEF NoHalf, Before, WaitInv
  <2>3. /\ Only(e, Bare) /\ chan'[e].st = "SENT" /\ chan'[e].key = NoKey
        /\ BornShape' /\ chan'[e].half \in Halves
        /\ born' = born + 1 /\ chan'[e].half = born'
    BY <2>1, <2>2, SentEffect DEF Before, TypeOK, Chans, BornShape
  <2>4. TypeOK'
    BY <1>1, <1>2, <1>4, <2>3 DEF Before, TypeOK, Only, Chans, BornShape, HostShape
  <2>5. Move(e)
    BY <1>1, <2>3 DEF Move, Starts, Only
  <2>6. Heard(e)
    BY <1>1, <1>4, <2>2, <2>3, NoneIsNoChannel DEF Heard, Only
  <2>. QED BY <2>4, <2>5, <2>6 DEF After
<1>. QED BY <1>5, <1>6 DEF ConnectHost

LEMMA UserStep ==
    ASSUME Before, NEW e \in Ends,
           Cancel(e) \/ ListenHost(e) \/ (\E use \in Uses : Relinquish(e, use))
    PROVE  After(e)
<1>1. CASE Cancel(e)
  BY <1>1, CalmStep DEF Cancel, Before, TypeOK, HostShape
<1>2. ASSUME NEW use \in Uses, host[e] \in Hosts,
             host' = [host EXCEPT ![e].use = use], reused' \in BOOLEAN,
             UNCHANGED <<offer, chan, waiting, born, net>>
      PROVE  After(e)
  <2>1. [host[e] EXCEPT !.use = use] \in Hosts
    BY <1>2 DEF Hosts
  <2>2. HostShape' /\ host'[e] \in Hosts /\ \A x \in Ends \ {e} : host'[x] = host[x]
    BY <1>2, <2>1 DEF HostShape, Before, TypeOK
  <2>. QED BY <1>2, <2>2, CalmStep DEF Before, TypeOK, WaitInv
<1>3. CASE ListenHost(e)
  <2>1. host[e] \in Hosts /\ reused' \in BOOLEAN
    BY <1>3 DEF ListenHost, Before, TypeOK
  <2>. QED BY <1>2, <1>3, <2>1 DEF ListenHost, Uses
<1>4. CASE \E use \in Uses : Relinquish(e, use)
  <2>1. PICK use \in Uses : Relinquish(e, use)
    BY <1>4
  <2>2. host[e] \in Hosts
    BY <2>1 DEF Relinquish, Known, NoHost, Before, TypeOK
  <2>. QED BY <1>2, <2>1, <2>2 DEF Relinquish, Before, TypeOK
<1>. QED BY <1>1, <1>3, <1>4

LEMMA RestartStep ==
    ASSUME Before, NEW e \in Ends, Restart(e)
    PROVE  After(e)
<1>1. /\ chan' \in [Ends -> Chans] /\ chan'[e] = None
      /\ \A x \in Ends \ {e} : chan'[x] = chan[x]
  BY BecomesShape DEF Restart, Before, TypeOK, Chans
<1>2. TypeOK'
  BY <1>1 DEF Restart, Before, TypeOK, Chans
<1>3. Move(e)
  BY <1>1 DEF Move, Leaves, Restart, None
<1>4. Heard(e)
  BY <1>1 DEF Heard, Restart, Before, TypeOK, None
<1>. QED BY <1>2, <1>3, <1>4 DEF After
-----------------------------------------------------------------------------
(* The halves and keys that are in use, and every step in one of the four  *)
(* kinds.                                                                  *)

\* Whatever a channel or a packet holds was generated.
ChannelShape ==
    \A e \in Ends :
        /\ chan[e].st \in {"SENT", "RECEIVED"} => chan[e].half \in 1 .. born
        /\ Is(e, "SENT") => chan[e].key = NoKey
        /\ chan[e].st \in {"RECEIVED", "ESTABLISHED"} => chan[e].key \in [Ends -> 1 .. born]
        /\ Is(e, "RECEIVED") => chan[e].key[e] = chan[e].half

PacketShape ==
    \A p \in net :
        /\ p.type \in {"HELLO", "WELCOME"} => p.half \in 1 .. born
        /\ Speaks(p) => p.key \in [Ends -> 1 .. born]

Shapes == ChannelShape /\ PacketShape

LEMMA PullStep ==
    ASSUME Before, Shapes, NEW e \in Ends, Pull(e)
    PROVE  After(e)
<1>1. UNCHANGED <<offer, reused>>
  BY DEF Pull
<1>2. born \in Nat
  BY NegotiationAssumption DEF Before, TypeOK
<1>3. CASE Is(e, "CLOSED") /\ PullCLOSED(e, chan[e])
  BY <1>1, <1>3, PullClosedStep
<1>4. CASE Is(e, "SENT") /\ PullSENT(e, chan[e])
  <2>1. chan[e].half \in Halves
    BY <1>2, <1>4 DEF Shapes, ChannelShape, Is, Halves, NoHalf
  <2>. QED BY <1>1, <1>4, <2>1, PullSentStep
<1>5. CASE Is(e, "RECEIVED") /\ PullRECEIVED(e, chan[e])
  <2>1. chan[e].half \in Halves /\ chan[e].key \in Keys
    BY <1>2, <1>5 DEF Shapes, ChannelShape, Is, Halves, NoHalf, Keys
  <2>. QED BY <1>1, <1>5, <2>1, PullReceivedStep
<1>6. CASE Is(e, "ESTABLISHED") /\ PullESTABLISHED(e, chan[e])
  <2>1. chan[e].key \in Keys
    BY <1>2, <1>6 DEF Shapes, ChannelShape, Is, Halves, NoHalf, Keys
  <2>. QED BY <1>1, <1>6, <2>1, PullEstablishedStep
<1>. QED BY <1>3, <1>4, <1>5, <1>6 DEF Pull

LEMMA EndStep ==
    ASSUME Before, Shapes, NEW e \in Ends, User(e) \/ System(e)
    PROVE  After(e)
<1>1. CASE User(e)
  <2>1. CASE Contact(e)
    BY <2>1, ContactStep
  <2>2. CASE ConnectHost(e)
    BY <2>2, ConnectHostStep
  <2>3. CASE Restart(e)
    BY <2>3, RestartStep
  <2>4. CASE Cancel(e) \/ ListenHost(e) \/ (\E use \in Uses : Relinquish(e, use))
    BY <2>4, UserStep
  <2>. QED BY <1>1, <2>1, <2>2, <2>3, <2>4 DEF User
<1>2. CASE System(e)
  <2>1. CASE \E p \in net : Recv(e, p)
    BY <2>1, RecvStep
  <2>2. CASE Pull(e)
    BY <2>2, PullStep
  <2>3. CASE Timeout(e)
    BY <2>3, TimeoutStep
  <2>4. CASE Unreachable(e) \/ Disconnect(e)
    BY <2>4, DieStep DEF Unreachable, Disconnect, Before, TypeOK
  <2>. QED BY <1>2, <2>1, <2>2, <2>3, <2>4 DEF System
<1>. QED BY <1>1, <1>2

LEMMA IdleStep ==
    ASSUME Before, NEW e \in Ends, UNCHANGED vars
    PROVE  After(e)
BY CalmStep DEF vars, Before, TypeOK, WaitInv, HostShape

LEMMA NextStep ==
    ASSUME Before, Shapes, [Next]_vars
    PROVE  \E e \in Ends : After(e)
<1>1. CASE UNCHANGED vars
  BY <1>1, IdleStep, NegotiationAssumption
<1>. QED BY <1>1, EndStep DEF Next

LEMMA ShapesStep ==
    ASSUME TypeOK, TypeOK', Shapes, NEW x \in Ends, Move(x)
    PROVE  Shapes'
<1>1. born \in Nat /\ born' \in Nat /\ born <= born'
  BY NegotiationAssumption DEF TypeOK, Move, Stays, Leaves, Starts, Trusts
<1>2. 1 .. born \subseteq 1 .. born' /\ [Ends -> 1 .. born] \subseteq [Ends -> 1 .. born']
  BY <1>1
<1>3. \A e \in Ends \ {x} : chan'[e] = chan[e]
  BY DEF Move
<1>4. ChannelShape' <=>
        /\ chan'[x].st \in {"SENT", "RECEIVED"} => chan'[x].half \in 1 .. born'
        /\ chan'[x].st = "SENT" => chan'[x].key = NoKey
        /\ chan'[x].st \in {"RECEIVED", "ESTABLISHED"} => chan'[x].key \in [Ends -> 1 .. born']
        /\ chan'[x].st = "RECEIVED" => chan'[x].key[x] = chan'[x].half
  BY <1>2, <1>3 DEF Shapes, ChannelShape, Is
<1>5. ASSUME \A p \in net' \ net :
                /\ p.type \in {"HELLO", "WELCOME"} => p.half \in 1 .. born
                /\ Speaks(p) => p.key \in [Ends -> 1 .. born]
      PROVE  PacketShape'
  BY <1>2, <1>5 DEF Shapes, PacketShape, Speaks
<1>6. CASE Stays(x)
  <2>1. ChannelShape'
    BY <1>1, <1>4, <1>6 DEF Stays, Shapes, ChannelShape, Is
  <2>2. PacketShape'
    BY <1>5, <1>6 DEF Stays, Shapes, ChannelShape, Is, Speaks
  <2>. QED BY <2>1, <2>2 DEF Shapes
<1>7. CASE Leaves(x)
  BY <1>4, <1>5, <1>7 DEF Leaves, Shapes, Speaks
<1>8. CASE Starts(x)
  <2>1. chan'[x].half \in 1 .. born'
    BY <1>1, <1>8 DEF Starts, Shapes, ChannelShape, Is, Halves, NoHalf
  <2>2. CASE chan'[x].st = "SENT" /\ chan'[x].key = NoKey
    BY <1>4, <1>5, <1>8, <2>1, <2>2 DEF Starts, Shapes
  <2>3. CASE chan'[x].st = "RECEIVED"
    <3>1. PICK p \in net : p.type = "HELLO" /\ chan'[x].key = KeyOf(x, chan'[x].half, p.half)
      BY <1>8, <2>3 DEF Starts
    <3>2. p.half \in 1 .. born'
      BY <1>2, <3>1 DEF Shapes, PacketShape
    <3>3. chan'[x].key \in [Ends -> 1 .. born'] /\ chan'[x].key[x] = chan'[x].half
      BY <2>1, <3>1, <3>2 DEF KeyOf
    <3>. QED BY <1>4, <1>5, <1>8, <2>1, <2>3, <3>3 DEF Starts, Shapes
  <2>. QED BY <1>8, <2>2, <2>3 DEF Starts
<1>9. CASE Trusts(x)
  <2>1. chan'[x].key \in [Ends -> 1 .. born]
    BY <1>9 DEF Trusts, Shapes, PacketShape
  <2>. QED BY <1>2, <1>4, <1>5, <1>9, <2>1 DEF Trusts, Shapes
<1>. QED BY <1>6, <1>7, <1>8, <1>9 DEF Move
-----------------------------------------------------------------------------
(* Freshness.  The peer of e, its DATA, and the network on the way to it   *)
(* may only hold keys that e has had; and once e has left a key it never   *)
(* comes back to it, because the half that it then makes is newer than     *)
(* both halves of every key that anybody holds.                            *)

Cur(e) == IF Is(e, "ESTABLISHED") THEN chan[e].key[e] ELSE chan[e].half

Said(e, key) == \E p \in net : Speaks(p) /\ p.to = Peer[e] /\ p.key = key
Answered(e, key) == \E p \in net : p.type = "DATA" /\ p.to = e /\ p.key = key
Had(e, key) == \/ Said(e, key) \/ Answered(e, key)
               \/ Is(Peer[e], "ESTABLISHED") /\ chan[Peer[e]].key = key

Newest(e, key) ==
    /\ key[e] <= Cur(e)
    /\ key[e] = Cur(e) => chan[e].key = key
    /\ key[e] < Cur(e) => key[Peer[e]] < Cur(e)

Fresh == \A e \in Ends, key \in Keys : Had(e, key) /\ Active(e) => Newest(e, key)

LEMMA HadShape ==
    ASSUME TypeOK, Shapes, NEW e \in Ends, NEW key, Had(e, key)
    PROVE  key \in Keys /\ key \in [Ends -> 1 .. born]
<1>1. key \in [Ends -> 1 .. born]
  BY PeerFacts DEF Had, Said, Answered, Speaks, Shapes, PacketShape, ChannelShape, Is
<1>2. born \in Nat
  BY NegotiationAssumption DEF TypeOK
<1>. QED BY <1>1, <1>2 DEF Keys, Halves, NoHalf

LEMMA CurShape ==
    ASSUME TypeOK, Shapes, NEW e \in Ends, Active(e)
    PROVE  Cur(e) \in Nat /\ Cur(e) <= born
<1>1. born \in Nat
  BY NegotiationAssumption DEF TypeOK
<1>. QED BY <1>1 DEF Active, Cur, Is, Shapes, ChannelShape

\* An end that starts has had no key with the half it starts with.
LEMMA StartIsNew ==
    ASSUME TypeOK, Shapes, Fresh, NEW x \in Ends, Starts(x), NEW key, Had(x, key)
    PROVE  key[x] < chan'[x].half /\ key[Peer[x]] < chan'[x].half
<1>1. key \in Keys /\ key \in [Ends -> 1 .. born] /\ Peer[x] \in Ends
  BY HadShape, PeerFacts
<1>2. born \in Nat
  BY NegotiationAssumption DEF TypeOK
<1>3. CASE born' = born + 1 /\ chan'[x].half = born'
  BY <1>1, <1>2, <1>3
<1>4. CASE Is(x, "SENT") /\ chan'[x].half = chan[x].half
  <2>1. Newest(x, key) /\ Cur(x) = chan[x].half
    BY <1>1, <1>4 DEF Fresh, Active, Is, Cur
  <2>2. chan[x].key = NoKey
    BY <1>4 DEF Shapes, ChannelShape
  <2>3. key # NoKey
    BY <1>1, NoKeyShape
  <2>4. Cur(x) \in Nat
    BY <1>4, CurShape DEF Active, Is
  <2>. QED BY <1>1, <1>4, <2>1, <2>2, <2>3, <2>4 DEF Newest
<1>. QED BY <1>3, <1>4 DEF Starts

\* What the network says to the mover's peer, and the peer holds, does not
\* grow but by the key the mover has.
LEMMA HadOfMover ==
    ASSUME NEW x \in Ends, Move(x), NEW key, Had(x, key)'
    PROVE  \/ Had(x, key)
           \/ Stays(x) /\ key = chan[x].key /\ chan[x].st \in {"RECEIVED", "ESTABLISHED"}
<1>1. Peer[x] \in Ends \ {x}
  BY PeerFacts
<1>2. chan'[Peer[x]] = chan[Peer[x]]
  BY <1>1 DEF Move
<1>3. CASE Is(Peer[x], "ESTABLISHED")' /\ chan'[Peer[x]].key = key
  BY <1>2, <1>3 DEF Had, Is
<1>4. CASE Said(x, key)'
  <2>1. PICK p \in net' : Speaks(p) /\ p.to = Peer[x] /\ p.key = key
    BY <1>4 DEF Said, Speaks
  <2>2. CASE p \in net
    BY <2>1, <2>2 DEF Had, Said
  <2>3. CASE p \notin net
    BY <2>1, <2>3 DEF Move, Stays, Leaves, Starts, Trusts, Speaks, Is
  <2>. QED BY <2>2, <2>3
<1>5. CASE Answered(x, key)'
  <2>1. PICK p \in net' : p.type = "DATA" /\ p.to = x /\ p.key = key
    BY <1>5 DEF Answered
  <2>2. p \in net
    BY <1>1, <2>1 DEF Move, Stays, Leaves, Starts, Trusts, Speaks
  <2>. QED BY <2>1, <2>2 DEF Had, Answered
<1>. QED BY <1>3, <1>4, <1>5 DEF Had

LEMMA HadOfOther ==
    ASSUME NEW x \in Ends, Move(x), NEW key, Had(Peer[x], key)'
    PROVE  Had(Peer[x], key)
<1>. DEFINE o == Peer[x]
<1>1. Peer[o] = x /\ o # x
  BY PeerFacts
<1>2. CASE Said(o, key)'
  <2>1. PICK p \in net' : Speaks(p) /\ p.to = x /\ p.key = key
    BY <1>1, <1>2 DEF Said, Speaks
  <2>2. p \in net
    BY <1>1, <2>1 DEF Move, Stays, Leaves, Starts, Trusts, Speaks
  <2>. QED BY <1>1, <2>1, <2>2 DEF Had, Said
<1>3. CASE chan'[x].st = "ESTABLISHED" /\ chan'[x].key = key
  <2>1. CASE Stays(x)
    BY <1>1, <1>3, <2>1 DEF Stays, Had, Is
  <2>2. CASE Trusts(x)
    BY <1>1, <1>3, <2>2 DEF Trusts, Had, Said
  <2>3. ~Leaves(x) /\ ~Starts(x)
    BY <1>3 DEF Leaves, Starts
  <2>. QED BY <2>1, <2>2, <2>3 DEF Move
<1>4. CASE Answered(o, key)'
  <2>1. PICK p \in net' : p.type = "DATA" /\ p.to = o /\ p.key = key
    BY <1>4 DEF Answered
  <2>2. CASE p \in net
    BY <2>1, <2>2 DEF Had, Answered
  <2>3. CASE p \notin net
    BY <1>1, <2>1, <2>3 DEF Move, Stays, Leaves, Starts, Trusts, Speaks, Had, Is
  <2>. QED BY <2>2, <2>3
<1>. QED BY <1>1, <1>2, <1>3, <1>4 DEF Had, Is

LEMMA FreshStep ==
    ASSUME TypeOK, TypeOK', Shapes, Shapes', Fresh, NEW x \in Ends, Move(x)
    PROVE  Fresh'
<1>. SUFFICES ASSUME NEW e \in Ends, NEW key \in Keys, Had(e, key)', Active(e)'
              PROVE  Newest(e, key)'
  BY DEF Fresh
<1>. DEFINE o == Peer[x]
<1>1. o \in Ends /\ o # x /\ Peer[o] = x /\ (e = x \/ e = o)
  BY PeerFacts
<1>2. CASE e = o
  <2>1. chan'[o] = chan[o]
    BY <1>1 DEF Move
  <2>2. Active(o) /\ Had(o, key)
    BY <1>2, <2>1, HadOfOther DEF Active
  <2>. QED BY <1>1, <1>2, <2>1, <2>2 DEF Fresh, Newest, Cur, Is
<1>3. CASE e = x
  <2>1. CASE Stays(x) /\ key = chan[x].key /\ chan[x].st \in {"RECEIVED", "ESTABLISHED"}
    <3>1. key[x] = Cur(x)
      BY <2>1 DEF Cur, Is, Shapes, ChannelShape
    <3>2. Cur(x)' = Cur(x) /\ chan'[x].key = chan[x].key
      BY <2>1 DEF Stays, Cur, Is
    <3>3. key[x] \in Nat
      BY DEF Keys, Halves
    <3>. QED BY <1>3, <2>1, <3>1, <3>2, <3>3 DEF Newest
  <2>2. CASE Had(x, key) /\ Stays(x)
    <3>1. Active(x)
      BY <1>3, <2>2 DEF Stays, Active
    <3>2. Cur(x)' = Cur(x) /\ chan'[x].key = chan[x].key
      BY <2>2 DEF Stays, Cur, Is
    <3>. QED BY <1>3, <2>2, <3>1, <3>2 DEF Fresh, Newest
  <2>3. CASE Had(x, key) /\ Starts(x)
    <3>1. key[x] < chan'[x].half /\ key[o] < chan'[x].half
      BY <2>3, StartIsNew
    <3>2. Cur(x)' = chan'[x].half /\ Cur(x)' \in Nat
      BY <2>3 DEF Starts, Cur, Is, Halves
    <3>3. key[x] \in Nat /\ key[o] \in Nat
      BY <1>1 DEF Keys, Halves
    <3>. QED BY <1>3, <3>1, <3>2, <3>3 DEF Newest
  <2>4. CASE Had(x, key) /\ Trusts(x)
    <3>1. Newest(x, key)
      BY <1>3, <2>4 DEF Fresh, Active, Trusts, Is
    <3>2. Cur(x)' = Cur(x) /\ chan'[x].key[x] = Cur(x)
      BY <2>4 DEF Trusts, Cur, Is, Shapes, ChannelShape
    <3>3. key[x] = Cur(x) => chan'[x].key = key
      <4>1. CASE Is(x, "SENT")
        BY <3>1, <4>1, NoKeyShape DEF Newest, Shapes, ChannelShape
      <4>2. CASE Is(x, "RECEIVED")
        BY <2>4, <3>1, <4>2 DEF Newest, Trusts, Is
      <4>. QED BY <2>4, <4>1, <4>2 DEF Trusts
    <3>. QED BY <1>3, <3>1, <3>2, <3>3 DEF Newest
  <2>5. ~Leaves(x)
    BY <1>3 DEF Leaves, Active
  <2>. QED BY <1>3, <2>1, <2>2, <2>3, <2>4, <2>5, HadOfMover DEF Move
<1>. QED BY <1>1, <1>2, <1>3

\* Each of two established ends has had the other's key: the newest of theirs.
LEMMA FreshKeysAgree == TypeOK /\ Shapes /\ Fresh => KeysAgree
<1>. SUFFICES ASSUME TypeOK, Shapes, Fresh, BothEstablished, NEW e \in Ends
              PROVE  chan[e].key = chan[Peer[e]].key
  BY DEF KeysAgree
<1>. DEFINE o == Peer[e]
            mine == chan[e].key
            theirs == chan[o].key
<1>1. o \in Ends /\ Peer[o] = e /\ Is(e, "ESTABLISHED") /\ Is(o, "ESTABLISHED")
  BY PeerFacts DEF BothEstablished
<1>2. Had(e, theirs) /\ Had(o, mine) /\ Active(e) /\ Active(o)
  BY <1>1 DEF Had, Active, Is
<1>3. mine \in Keys /\ theirs \in Keys
  BY <1>1, <1>2, HadShape
<1>4. Newest(e, theirs) /\ Newest(o, mine)
  BY <1>1, <1>2, <1>3 DEF Fresh
<1>5. Cur(e) = mine[e] /\ Cur(o) = theirs[o]
  BY <1>1 DEF Cur
<1>6. mine[e] \in Nat /\ mine[o] \in Nat /\ theirs[e] \in Nat /\ theirs[o] \in Nat
  BY <1>1, <1>3 DEF Keys, Halves
<1>. QED BY <1>1, <1>4, <1>5, <1>6 DEF Newest
-----------------------------------------------------------------------------
(* The decision to resume.  Each end takes it alone, by the two bits that  *)
(* it has seen; what it will be is in the channel and in the packets that  *)
(* hold the key.                                                           *)

Holds(e, state, key) == Is(e, state) /\ chan[e].key = key

\* An end that is established with a key, and its peer that has received with
\* the same one.
ResumeOfReceived ==
    \A e \in Ends :
        Is(e, "ESTABLISHED") /\ Holds(Peer[e], "RECEIVED", chan[e].key)
            => chan[e].bits.resume = chan[Peer[e]].bits.resume

\* A WELCOME and the end that sent it: its offer stands while it waits, and it
\* only resumes what it offered.
ResumeOfWelcome ==
    \A p \in net : p.type = "WELCOME" =>
        /\ Holds(Peer[p.to], "RECEIVED", p.key)
             => chan[Peer[p.to]].bits.resume = p.bits.resume
        /\ Holds(Peer[p.to], "ESTABLISHED", p.key)
             => (chan[Peer[p.to]].bits.resume => p.bits.resume)

\* Only an established end sends DATA.
NoDataOfReceived ==
    \A p \in net : p.type = "DATA" => ~Holds(Peer[p.to], "RECEIVED", p.key)

Resumed == ResumeAgrees /\ ResumeOfReceived /\ ResumeOfWelcome /\ NoDataOfReceived

\* The peer keeps its state in a step of x.
LEMMA PeerStays ==
    ASSUME NEW x \in Ends, Move(x)
    PROVE  /\ Peer[x] \in Ends /\ Peer[Peer[x]] = x
           /\ chan'[Peer[x]] = chan[Peer[x]]
           /\ \A e \in Ends : e = x \/ e = Peer[x]
BY PeerFacts DEF Move

\* The end that trusts a packet resumes as its peer does, will or did.
LEMMA TrustedDecision ==
    ASSUME TypeOK, Shapes, Fresh, Resumed, KeysAgree', NEW x \in Ends, Move(x), Trusts(x)
    PROVE  /\ Is(Peer[x], "ESTABLISHED") => chan'[x].bits.resume = chan[Peer[x]].bits.resume
           /\ Holds(Peer[x], "RECEIVED", chan'[x].key)
                => chan'[x].bits.resume = chan[Peer[x]].bits.resume
           /\ \A p \in net :
                p.type = "WELCOME" /\ p.to = Peer[x] /\ p.key = chan'[x].key
                    => (chan'[x].bits.resume => p.bits.resume)
<1>. DEFINE o == Peer[x]
            key == chan'[x].key
<1>1. o \in Ends /\ Peer[o] = x /\ chan'[o] = chan[o] /\ \A e \in Ends : e = x \/ e = o
  BY PeerStays
<1>2. chan'[x].st = "ESTABLISHED"
  BY DEF Trusts
<1>3. Is(o, "ESTABLISHED") => chan[o].key = key
  <2>1. Is(o, "ESTABLISHED") => BothEstablished'
    BY <1>1, <1>2 DEF BothEstablished, Is
  <2>. QED BY <1>1, <2>1 DEF KeysAgree
<1>4. PICK p \in net :
         /\ Speaks(p) /\ p.to = x /\ key = p.key
         /\ p.type = "WELCOME" => chan'[x].bits.resume = p.bits.resume
         /\ \/ Is(x, "SENT") /\ p.type = "WELCOME" /\ p.key[x] = chan[x].half
            \/ /\ Is(x, "RECEIVED") /\ p.key = chan[x].key
               /\ p.type = "WELCOME" => (p.bits.resume => chan[x].bits.resume)
               /\ p.type = "DATA" => chan'[x].bits.resume = chan[x].bits.resume
  BY DEF Trusts
<1>5. /\ p \in Packets /\ p.type \in {"WELCOME", "DATA"}
      /\ p.type = "WELCOME" => p.bits.resume \in BOOLEAN
  BY <1>4 DEF TypeOK, Packets, Speaks, Bits
<1>6. CASE Is(x, "SENT") /\ p.type = "WELCOME" /\ p.key[x] = chan[x].half
  <2>1. ~Had(x, key)
    <3>. SUFFICES ASSUME Had(x, key)
                  PROVE  FALSE
      OBVIOUS
    <3>1. key \in Keys
      BY HadShape
    <3>2. Newest(x, key)
      BY <1>6, <3>1 DEF Fresh, Active, Is
    <3>. QED BY <1>4, <1>6, <3>1, <3>2, NoKeyShape DEF Newest, Cur, Is, Shapes, ChannelShape
  <2>2. ~Is(o, "ESTABLISHED")
    BY <1>3, <2>1 DEF Had
  <2>3. ~\E q \in net : q.type = "WELCOME" /\ q.to = o /\ q.key = key
    BY <2>1 DEF Had, Said, Speaks
  <2>. QED BY <1>4, <1>6, <2>2, <2>3 DEF Resumed, ResumeOfWelcome
<1>7. CASE Is(x, "RECEIVED") /\ p.key = chan[x].key
  <2>1. Holds(x, "RECEIVED", key)
    BY <1>4, <1>7 DEF Holds
  <2>2. Is(o, "ESTABLISHED") => chan[o].bits.resume = chan[x].bits.resume
    BY <1>1, <1>3, <2>1 DEF Resumed, ResumeOfReceived
  <2>3. ASSUME NEW q \in net, q.type = "WELCOME", q.to = o, q.key = key
        PROVE  q.bits.resume = chan[x].bits.resume
    BY <1>1, <2>1, <2>3 DEF Resumed, ResumeOfWelcome
  <2>4. CASE p.type = "WELCOME"
    <3>1. chan'[x].bits.resume = p.bits.resume
      BY <1>4, <2>4
    <3>2. p.bits.resume => chan[x].bits.resume
      BY <1>4, <1>7, <2>4 DEF Is
    <3>3. Is(o, "ESTABLISHED") => (chan[o].bits.resume => p.bits.resume)
      BY <1>1, <1>3, <1>4, <2>4 DEF Resumed, ResumeOfWelcome, Holds
    <3>4. Holds(o, "RECEIVED", key) => chan[o].bits.resume = p.bits.resume
      BY <1>4, <2>4 DEF Resumed, ResumeOfWelcome
    <3>5. Is(o, "ESTABLISHED") => chan[o].bits.resume = p.bits.resume
      <4>1. Is(o, "ESTABLISHED") => chan[o].bits.resume \in BOOLEAN
        BY <1>1 DEF Is, TypeOK, None, Channels, Bits
      <4>. QED BY <1>5, <2>2, <2>4, <3>2, <3>3, <4>1
    <3>. QED BY <2>3, <3>1, <3>2, <3>4, <3>5
  <2>5. CASE p.type = "DATA"
    <3>1. chan'[x].bits.resume = chan[x].bits.resume
      BY <1>4, <1>7, <2>5 DEF Is
    <3>2. ~Holds(o, "RECEIVED", key)
      BY <1>4, <2>5 DEF Resumed, NoDataOfReceived
    <3>. QED BY <2>2, <2>3, <3>1, <3>2
  <2>. QED BY <1>5, <2>4, <2>5
<1>. QED BY <1>4, <1>6, <1>7
LEMMA ResumedStays ==
    ASSUME TypeOK, TypeOK', Resumed, NEW x \in Ends, Move(x), Stays(x)
    PROVE  Resumed'
<1>0. \A p \in net' : p.to \in Ends
  BY DEF TypeOK, Packets
<1>1. \A e \in Ends : /\ chan'[e].st = chan[e].st /\ chan'[e].key = chan[e].key
                      /\ chan'[e].bits = chan[e].bits
  BY DEF Move, Stays
<1>2. /\ \A e \in Ends : Peer[e] \in Ends /\ Peer[Peer[e]] = e
      /\ \A e \in Ends : \A state, key : Holds(e, state, key)' <=> Holds(e, state, key)
  BY <1>1, PeerFacts DEF Holds, Is
<1>3. ASSUME NEW p \in net' \ net, Speaks(p)
      PROVE  Peer[p.to] = x
  BY <1>2, <1>3 DEF Stays
<1>4. ResumeAgrees' /\ ResumeOfReceived'
  BY <1>1, <1>2 DEF Resumed, ResumeAgrees, ResumeOfReceived, BothEstablished, Is
<1>5. ASSUME NEW p \in net', p.type = "WELCOME"
      PROVE  /\ Holds(Peer[p.to], "RECEIVED", p.key)'
                  => chan'[Peer[p.to]].bits.resume = p.bits.resume
             /\ Holds(Peer[p.to], "ESTABLISHED", p.key)'
                  => (chan'[Peer[p.to]].bits.resume => p.bits.resume)
  <2>1. CASE p \in net' \ net
    BY <1>1, <1>3, <1>5, <2>1 DEF Stays, Holds, Is, Speaks
  <2>2. CASE p \in net
    BY <1>0, <1>1, <1>2, <1>5, <2>2 DEF Resumed, ResumeOfWelcome
  <2>. QED BY <2>1, <2>2
<1>6. ASSUME NEW p \in net', p.type = "DATA"
      PROVE  ~Holds(Peer[p.to], "RECEIVED", p.key)'
  <2>1. CASE p \in net' \ net
    BY <1>1, <1>3, <1>6, <2>1 DEF Stays, Holds, Is, Speaks
  <2>2. CASE p \in net
    BY <1>0, <1>2, <1>6, <2>2 DEF Resumed, NoDataOfReceived
  <2>. QED BY <2>1, <2>2
<1>. QED BY <1>4, <1>5, <1>6 DEF Resumed, ResumeOfWelcome, NoDataOfReceived

LEMMA ResumedLeaves ==
    ASSUME TypeOK', Resumed, NEW x \in Ends, Move(x), Leaves(x)
    PROVE  Resumed'
<1>1. \A p \in net' : Speaks(p) => p \in net /\ Peer[p.to] \in Ends
  BY PeerFacts DEF Leaves, Speaks, TypeOK, Packets
<1>2. ASSUME NEW e \in Ends, NEW key,
             Holds(e, "RECEIVED", key)' \/ Holds(e, "ESTABLISHED", key)'
      PROVE  e # x /\ chan'[e] = chan[e]
  BY <1>2 DEF Holds, Is, Leaves, Move
<1>3. ~BothEstablished'
  BY DEF Leaves, BothEstablished, Is
<1>4. ResumeOfReceived'
  BY <1>2, PeerFacts DEF Resumed, ResumeOfReceived, Holds, Is
<1>5. ResumeOfWelcome'
  BY <1>1, <1>2 DEF Resumed, ResumeOfWelcome, Holds, Is, Speaks
<1>6. NoDataOfReceived'
  BY <1>1, <1>2 DEF Resumed, NoDataOfReceived, Holds, Is, Speaks
<1>. QED BY <1>3, <1>4, <1>5, <1>6 DEF Resumed, ResumeAgrees

LEMMA ResumedStarts ==
    ASSUME TypeOK, Shapes, Shapes', Fresh, Resumed, NEW x \in Ends, Move(x), Starts(x)
    PROVE  Resumed'
<1>1. net' = net /\ chan'[x].st \in {"SENT", "RECEIVED"}
      /\ \A p \in net : p.to \in Ends
  BY DEF Starts, TypeOK, Packets
<1>2. ~Is(x, "ESTABLISHED")'
  BY <1>1 DEF Is
<1>3. ASSUME NEW key, Had(x, key), Holds(x, "RECEIVED", key)'
      PROVE  FALSE
  <2>1. key[x] < chan'[x].half
    BY <1>3, StartIsNew
  <2>2. key[x] = chan'[x].half /\ key[x] \in Nat
    <3>1. key \in Keys
      BY <1>3, HadShape
    <3>. QED BY <1>3, <3>1 DEF Holds, Is, Shapes, ChannelShape, Keys, Halves
  <2>. QED BY <2>1, <2>2
<1>4. ASSUME NEW e \in Ends, NEW state \in {"RECEIVED", "ESTABLISHED"}, NEW key,
             Holds(e, state, key)', e # x \/ Had(x, key)
      PROVE  e # x /\ chan'[e] = chan[e] /\ Holds(e, state, key)
  <2>1. e # x
    BY <1>1, <1>3, <1>4 DEF Holds, Is
  <2>. QED BY <1>4, <2>1 DEF Holds, Is, Move
<1>5. ResumeAgrees'
  BY <1>2 DEF ResumeAgrees, BothEstablished
<1>6. ResumeOfReceived'
  <2>. SUFFICES ASSUME NEW e \in Ends, Is(e, "ESTABLISHED")',
                       Holds(Peer[e], "RECEIVED", chan[e].key)'
                PROVE  FALSE
    BY DEF ResumeOfReceived, Holds, Is
  <2>1. e # x /\ e = Peer[x] /\ Peer[e] = x /\ chan'[e] = chan[e]
    BY <1>2, PeerStays
  <2>2. Had(x, chan[e].key)
    BY <2>1 DEF Had, Is
  <2>. QED BY <1>3, <2>1, <2>2 DEF Holds, Is
<1>7. ASSUME NEW p \in net, Speaks(p)
      PROVE  Peer[p.to] \in Ends /\ (Peer[p.to] # x \/ Had(x, p.key))
  BY <1>1, <1>7, PeerFacts DEF Had, Said
<1>8. ResumeOfWelcome'
  BY <1>1, <1>4, <1>7 DEF Resumed, ResumeOfWelcome, Speaks, Is
<1>9. NoDataOfReceived'
  BY <1>1, <1>4, <1>7 DEF Resumed, NoDataOfReceived, Speaks, Is
<1>. QED BY <1>5, <1>6, <1>8, <1>9 DEF Resumed

LEMMA ResumedTrusts ==
    ASSUME TypeOK, Shapes, Fresh, Resumed, KeysAgree', NEW x \in Ends, Move(x), Trusts(x)
    PROVE  Resumed'
<1>. DEFINE o == Peer[x]
<1>1. /\ o \in Ends /\ Peer[o] = x /\ o # x /\ chan'[o] = chan[o]
      /\ \A e \in Ends : e = x \/ e = o
  BY PeerStays, PeerFacts
<1>2. /\ net' = net /\ Is(x, "ESTABLISHED")' /\ ~Is(x, "RECEIVED")'
      /\ \A p \in net : p.to \in Ends /\ (p.to = x \/ p.to = o)
  BY <1>1 DEF Trusts, Is, TypeOK, Packets
<1>3. /\ Is(o, "ESTABLISHED") => chan'[x].bits.resume = chan[o].bits.resume
      /\ Holds(o, "RECEIVED", chan'[x].key)
           => chan'[x].bits.resume = chan[o].bits.resume
      /\ \A p \in net :
           p.type = "WELCOME" /\ p.to = o /\ p.key = chan'[x].key
               => (chan'[x].bits.resume => p.bits.resume)
  BY TrustedDecision
<1>4. ResumeAgrees'
  BY <1>1, <1>3 DEF ResumeAgrees, BothEstablished, Is
<1>5. ResumeOfReceived'
  BY <1>1, <1>2, <1>3 DEF ResumeOfReceived, Holds, Is
<1>6. ResumeOfWelcome'
  <2>. SUFFICES ASSUME NEW p \in net, p.type = "WELCOME"
                PROVE  /\ Holds(Peer[p.to], "RECEIVED", p.key)'
                            => chan'[Peer[p.to]].bits.resume = p.bits.resume
                       /\ Holds(Peer[p.to], "ESTABLISHED", p.key)'
                            => (chan'[Peer[p.to]].bits.resume => p.bits.resume)
    BY <1>2 DEF ResumeOfWelcome
  <2>1. CASE p.to = x
    BY <1>1, <2>1 DEF Resumed, ResumeOfWelcome, Holds, Is
  <2>2. CASE p.to = o
    BY <1>1, <1>2, <1>3, <2>2 DEF Holds
  <2>. QED BY <1>2, <2>1, <2>2
<1>7. NoDataOfReceived'
  <2>. SUFFICES ASSUME NEW p \in net, p.type = "DATA", p.to = x
                PROVE  ~Holds(o, "RECEIVED", p.key)'
    BY <1>1, <1>2 DEF NoDataOfReceived, Holds
  <2>. QED BY <1>1 DEF Resumed, NoDataOfReceived, Holds, Is
<1>. QED BY <1>4, <1>5, <1>6, <1>7 DEF Resumed

LEMMA ResumedStep ==
    ASSUME TypeOK, TypeOK', Shapes, Shapes', Fresh, Resumed, KeysAgree',
           NEW x \in Ends, Move(x)
    PROVE  Resumed'
<1>1. CASE Stays(x)
  BY <1>1, ResumedStays
<1>2. CASE Leaves(x)
  BY <1>2, ResumedLeaves
<1>3. CASE Starts(x)
  BY <1>3, ResumedStarts
<1>4. CASE Trusts(x)
  BY <1>4, ResumedTrusts
<1>. QED BY <1>1, <1>2, <1>3, <1>4 DEF Move
-----------------------------------------------------------------------------
(* The tables.  A host counts as live if it has streams or a listener, or  *)
(* is bound to a channel, or has offered to resume; as long as nobody goes *)
(* back to a dead one, two live hosts number their streams alike.  An end  *)
(* that wipes its tables does so on the word of a packet; when the packet  *)
(* was sent the peer was not live, or had wiped its own for the same key.  *)

Promised(e) == chan[e].st \in {"SENT", "RECEIVED"} /\ chan[e].bits.resume
Live(e) == Known(e) \/ Bound(e) \/ Promised(e)

\* The packet establishes e without resuming.
Unresumed(e, p) ==
    /\ p.to = e
    /\ \/ /\ p.type = "WELCOME" /\ ~p.bits.resume
          /\ \/ Is(e, "SENT") /\ p.key[e] = chan[e].half
             \/ Is(e, "RECEIVED") /\ p.key = chan[e].key
       \/ /\ p.type = "DATA" /\ Is(e, "RECEIVED") /\ p.key = chan[e].key
          /\ ~chan[e].bits.resume

\* What an end knows of its own table: an offer not to resume is made by who
\* has nothing to resume, and kept by who is established on it.
OwnTable(e) ==
    /\ Live(e) => host[e] \in Hosts
    /\ Is(e, "RECEIVED") /\ ~chan[e].bits.resume => ~Known(e)
    /\ Is(e, "ESTABLISHED") /\ ~chan[e].bits.resume => host[e].epoch = chan[e].key

LiveMatch ==
    \A e \in Ends : Live(e) /\ Live(Peer[e]) => host[e].epoch = host[Peer[e]].epoch

WipesMatch ==
    \A p \in net : Unresumed(p.to, p) /\ Live(Peer[p.to])
                       => host[Peer[p.to]].epoch = p.key

Tables == (\A e \in Ends : OwnTable(e)) /\ LiveMatch /\ WipesMatch

\* The table of e survives a step, or is wiped.
Keeps(e) == Live(e)' => Live(e) /\ host'[e].epoch = host[e].epoch
Wipes(e) == /\ net' = net
            /\ \E p \in net : Unresumed(e, p) /\ host'[e].epoch = p.key
TableStep(e) == OwnTable(e)' /\ (Keeps(e) \/ Wipes(e))

\* A step that changes at most what a live host is used for.
Mild(e) ==
    /\ \/ host'[e] = host[e]
       \/ /\ Known(e) \/ Bound(e)
          /\ host'[e] \in Hosts /\ host'[e].epoch = host[e].epoch
    /\ \/ chan'[e].st \in {"CLOSED", "NONE"}
       \/ /\ chan'[e].st = chan[e].st /\ chan'[e].key = chan[e].key
          /\ chan'[e].bits = chan[e].bits
       \/ chan'[e].st = "SENT" /\ (chan'[e].bits.resume => Live(e))
       \/ /\ chan'[e].st = "RECEIVED" /\ host'[e] = host[e]
          /\ chan'[e].bits.resume <=> Known(e)

LEMMA MildStep ==
    ASSUME TypeOK, NEW e \in Ends, OwnTable(e), Mild(e)
    PROVE  TableStep(e)
<1>1. Live(e)' => Live(e) /\ host'[e].epoch = host[e].epoch
  BY DEF Mild, Live, Known, Bound, Promised, Is
<1>2. Live(e)' => host'[e] \in Hosts
  BY <1>1 DEF Mild, OwnTable
<1>3. Is(e, "RECEIVED")' /\ ~chan'[e].bits.resume => ~Known(e)'
  BY DEF Mild, OwnTable, Known, Bound, Is
<1>4. Is(e, "ESTABLISHED")' /\ ~chan'[e].bits.resume => host'[e].epoch = chan'[e].key
  BY DEF Mild, OwnTable, Is
<1>. QED BY <1>1, <1>2, <1>3, <1>4 DEF TableStep, OwnTable, Keeps

\* What a channel that is made ready says.
LEMMA SaidBits ==
    ASSUME TypeOK, NEW e \in Ends, NEW c, NEW bits, NEW kept
    PROVE  /\ GoSENT(e, c, bits, kept) =>
                  chan'[e].st = "SENT" /\ chan'[e].bits = bits
           /\ \A theirs : GoRECEIVED(e, c, bits, kept, theirs) =>
                  chan'[e].st = "RECEIVED" /\ chan'[e].bits = bits
           /\ \A tail : GoFAIL(e, c) \/ GoNOSTATE(e, c, tail) =>
                  chan'[e].st = "CLOSED"
<1>1. ASSUME NEW r, Becomes(e, r)
      PROVE  chan'[e] = r
  BY <1>1 DEF Becomes, TypeOK
<1>2. ASSUME GoSENT(e, c, bits, kept)
      PROVE  chan'[e].st = "SENT" /\ chan'[e].bits = bits
  BY <1>1, <1>2 DEF GoSENT, Progress, Reset, Bare
<1>3. ASSUME NEW theirs, GoRECEIVED(e, c, bits, kept, theirs)
      PROVE  chan'[e].st = "RECEIVED" /\ chan'[e].bits = bits
  BY <1>1, <1>3 DEF GoRECEIVED, Progress, Reset, Bare
<1>4. ASSUME NEW tail, GoFAIL(e, c) \/ GoNOSTATE(e, c, tail)
      PROVE  chan'[e].st = "CLOSED"
  BY <1>1, <1>4 DEF GoFAIL, GoNOSTATE, Progress, Reset, Bare
<1>. QED BY <1>2, <1>3, <1>4

LEMMA DieTable ==
    ASSUME TypeOK, NEW e \in Ends, OwnTable(e), Die(e)
    PROVE  TableStep(e)
<1>1. Mild(e)
  BY DEF Mild, Die, Becomes, None, TypeOK
<1>. QED BY <1>1, MildStep

LEMMA HelloTable ==
    ASSUME TypeOK, NEW e \in Ends, OwnTable(e), NEW c, NEW agreed, NEW half, NEW p,
           ProcessHELLO(e, c, agreed, half, p)
    PROVE  TableStep(e)
<1>. DEFINE ip == agreed.suites \cap p.bits.suites
            kept == IF half # NoHalf /\ Cheapest(agreed.suites) \in p.bits.suites
                    THEN half ELSE NoHalf
            usable == Cheapest(p.bits.suites) \in agreed.suites
            known == usable /\ Known(e)
            isect == [suites |-> ip, resume |-> known]
            again == ~usable \/ (known /\ ~p.bits.resume)
<1>1. /\ \/ GoFAIL(e, c)
         \/ GoSENT(e, c, isect, kept)
         \/ ~again /\ GoRECEIVED(e, c, isect, kept, p.half)
      /\ host' = host
  BY DEF ProcessHELLO, Quiet
<1>2. isect.resume = known /\ (known => Known(e)) /\ (~again => (known <=> Known(e)))
  OBVIOUS
<1>. HIDE DEF isect, known, again, kept
<1>3. CASE GoFAIL(e, c)
  BY <1>1, <1>3, SaidBits, MildStep DEF Mild
<1>4. CASE GoSENT(e, c, isect, kept)
  BY <1>1, <1>2, <1>4, SaidBits, MildStep DEF Mild, Live
<1>5. CASE ~again /\ GoRECEIVED(e, c, isect, kept, p.half)
  BY <1>1, <1>2, <1>5, SaidBits, MildStep DEF Mild
<1>. QED BY <1>1, <1>3, <1>4, <1>5

\* attachHost and wipeState.
LEMMA AttachedTable ==
    ASSUME HostShape, NEW e \in Ends, NEW key \in Keys, NEW resume \in BOOLEAN,
           NEW h \in Attached(e, key, resume)
    PROVE  h.epoch = IF host[e] # NoHost /\ resume THEN host[e].epoch ELSE key
BY DEF Attached

\* The end is attached, and its channel is established or already closed.
LEMMA AttachTable ==
    ASSUME Before, NEW e \in Ends, OwnTable(e), UNCHANGED net, NEW p \in net,
           NEW resume \in BOOLEAN, resume => Promised(e), ~resume => Unresumed(e, p),
           host'[e] \in Hosts,
           host'[e].epoch = IF host[e] # NoHost /\ resume THEN host[e].epoch ELSE p.key,
           \/ chan'[e].st = "CLOSED"
           \/ /\ chan'[e].st = "ESTABLISHED" /\ chan'[e].key = p.key
              /\ chan'[e].bits.resume = resume
    PROVE  TableStep(e)
<1>1. OwnTable(e)'
  BY DEF OwnTable, Is
<1>2. CASE resume
  <2>1. Live(e) /\ host[e] # NoHost
    BY <1>2, NoHostIsNoHost DEF Live, OwnTable
  <2>. QED BY <1>1, <1>2, <2>1 DEF TableStep, Keeps
<1>3. CASE ~resume
  BY <1>1, <1>3 DEF TableStep, Wipes
<1>. QED BY <1>2, <1>3

LEMMA TrustTable ==
    ASSUME Before, NEW e \in Ends, OwnTable(e), UNCHANGED net, NEW p \in net,
           NEW resume \in BOOLEAN, resume => Promised(e), ~resume => Unresumed(e, p),
           chan[e] \in Channels, p.key \in Keys,
           GoESTABLISHED(e, chan[e], p.key, resume)
    PROVE  TableStep(e)
<1>1. /\ chan'[e].st = "ESTABLISHED" /\ chan'[e].key = p.key
      /\ chan'[e].bits.resume = resume /\ host'[e] \in Hosts
  BY EstablishedEffect DEF Before, TypeOK, Chans, HostShape
<1>2. PICK h \in Attached(e, p.key, resume) : host' = [host EXCEPT ![e] = h]
  BY DEF GoESTABLISHED
<1>3. host'[e].epoch = IF host[e] # NoHost /\ resume THEN host[e].epoch ELSE p.key
  BY <1>2, AttachedTable DEF Before, TypeOK, HostShape
<1>. QED BY <1>1, <1>3, AttachTable

\* DATA changes what the host is used for.
LEMMA DataTable ==
    ASSUME chan \in [Ends -> Chans], HostShape, NEW e \in Ends,
           NEW c \in Channels, c.st = "ESTABLISHED", NEW h \in Hosts,
           NEW p \in Packets, p.type = "DATA", ProcessDATA(e, c, h, p)
    PROVE  /\ host'[e] \in Hosts /\ host'[e].epoch = h.epoch
           /\ \/ chan'[e].st = "CLOSED"
              \/ /\ chan'[e].st = "ESTABLISHED" /\ chan'[e].key = c.key
                 /\ chan'[e].bits = c.bits
<1>1. host'[e].epoch = h.epoch
  BY DEF ProcessDATA, HostShape, Hosts
<1>. QED BY <1>1, DataEffect

LEMMA SentTable ==
    ASSUME TypeOK, NEW e \in Ends, OwnTable(e), NEW c, NEW kept,
           GoSENT(e, c, OwnBits(e), kept),
           \/ host'[e] = host[e]
           \/ /\ Known(e) \/ Bound(e)
              /\ host'[e] \in Hosts /\ host'[e].epoch = host[e].epoch
    PROVE  TableStep(e)
<1>1. OwnBits(e).resume = FALSE
  BY DEF OwnBits
<1>. QED BY <1>1, SaidBits, MildStep DEF Mild

\* A channel that changes in nothing that is said.
LEMMA SameTable ==
    ASSUME TypeOK, NEW e \in Ends, OwnTable(e), NEW r, Becomes(e, r),
           r.st = chan[e].st, r.key = chan[e].key, r.bits = chan[e].bits,
           host' = host
    PROVE  TableStep(e)
<1>1. chan'[e] = r
  BY DEF Becomes, TypeOK
<1>. QED BY <1>1, MildStep DEF Mild

LEMMA RecvClosedTable ==
    ASSUME TypeOK, NEW e \in Ends, OwnTable(e), NEW c, NEW p, RecvCLOSED(e, c, p)
    PROVE  TableStep(e)
<1>1. CASE Die(e)
  BY <1>1, DieTable
<1>2. CASE ProcessHELLO(e, c, OwnBits(e), NoHalf, p)
  BY <1>2, HelloTable
<1>3. CASE GoNOSTATE(e, c, TailOf(p)) /\ Quiet
  BY <1>3, SaidBits, MildStep DEF Mild, Quiet
<1>. QED BY <1>1, <1>2, <1>3 DEF RecvCLOSED

LEMMA RecvSentTable ==
    ASSUME Before, NEW e \in Ends, OwnTable(e), Is(e, "SENT"), NEW p \in net, p.to = e,
           RecvSENT(e, chan[e], p), UNCHANGED net
    PROVE  TableStep(e)
<1>. DEFINE c == chan[e]
<1>1. c \in Channels /\ TypeOK
  BY DEF Is, Before, TypeOK, None
<1>2. CASE Die(e)
  BY <1>1, <1>2, DieTable
<1>3. CASE ProcessHELLO(e, c, c.bits, c.half, p)
  BY <1>1, <1>3, HelloTable
<1>4. CASE /\ p.type = "WELCOME"
           /\ ConfirmWELCOME(c.bits, p.bits) /\ p.key = KeyOf(e, c.half, p.half)
           /\ GoESTABLISHED(e, c, p.key, p.bits.resume)
  <2>1. p.bits.resume \in BOOLEAN /\ p.key \in Keys
    BY <1>4 DEF Before, TypeOK, Packets, Bits
  <2>2. p.key[e] = c.half
    BY <1>4 DEF KeyOf
  <2>3. p.bits.resume => Promised(e)
    BY <1>4 DEF ConfirmWELCOME, Promised, Is
  <2>4. ~p.bits.resume => Unresumed(e, p)
    BY <1>4, <2>2 DEF Unresumed
  <2>. QED BY <1>1, <1>4, <2>1, <2>3, <2>4, TrustTable
<1>5. CASE GoOOBNOSTATE(e, c, TailOf(p)) /\ Quiet
  <2>. DEFINE r == Progress([c EXCEPT !.tail = TailOf(p)])
  <2>1. r.st = c.st /\ r.key = c.key /\ r.bits = c.bits
    BY <1>1 DEF Progress, Channels
  <2>2. Becomes(e, r) /\ host' = host
    BY <1>5 DEF GoOOBNOSTATE, Quiet
  <2>. HIDE DEF r
  <2>. QED BY <1>1, <2>1, <2>2, SameTable
<1>. QED BY <1>2, <1>3, <1>4, <1>5 DEF RecvSENT

LEMMA RecvReceivedTable ==
    ASSUME Before, NEW e \in Ends, OwnTable(e), Is(e, "RECEIVED"), NEW p \in net, p.to = e,
           RecvRECEIVED(e, chan[e], p), UNCHANGED net
    PROVE  TableStep(e)
<1>. DEFINE c == chan[e]
<1>1. c \in Channels /\ c.bits.resume \in BOOLEAN /\ TypeOK /\ p \in Packets
  BY DEF Is, Before, TypeOK, None, Channels, Bits
<1>2. CASE GoSENT(e, c, OwnBits(e), NoHalf) /\ Quiet
  BY <1>1, <1>2, SentTable DEF Quiet
<1>3. CASE /\ p.type = "WELCOME"
           /\ ConfirmWELCOME(c.bits, p.bits) /\ p.key = c.key
           /\ GoESTABLISHED(e, c, c.key, p.bits.resume)
  <2>1. p.bits.resume \in BOOLEAN /\ p.key \in Keys
    BY <1>3 DEF Before, TypeOK, Packets, Bits
  <2>2. p.bits.resume => Promised(e)
    BY <1>3 DEF ConfirmWELCOME, Promised, Is
  <2>3. ~p.bits.resume => Unresumed(e, p)
    BY <1>3 DEF Unresumed
  <2>. QED BY <1>1, <1>3, <2>1, <2>2, <2>3, TrustTable
<1>4. CASE /\ p.type = "DATA" /\ p.key = c.key
           /\ \E h \in Attached(e, c.key, c.bits.resume) :
                  ProcessDATA(e, Established(c, c.key, c.bits.resume), h, p)
  <2>. DEFINE d == Established(c, c.key, c.bits.resume)
  <2>1. c.key \in Keys
    BY <1>1, <1>4 DEF Packets
  <2>2. /\ d \in Channels /\ d.st = "ESTABLISHED" /\ d.key = c.key
        /\ d.bits.resume = c.bits.resume
    BY <1>1, <2>1, EstablishedShape
  <2>3. PICK h \in Attached(e, c.key, c.bits.resume) : ProcessDATA(e, d, h, p)
    BY <1>4
  <2>4. /\ h \in Hosts
        /\ h.epoch = IF host[e] # NoHost /\ c.bits.resume THEN host[e].epoch ELSE c.key
    BY <1>1, <2>1, AttachedShape, AttachedTable DEF TypeOK, HostShape
  <2>. HIDE DEF d
  <2>5. /\ host'[e] \in Hosts /\ host'[e].epoch = h.epoch
        /\ \/ chan'[e].st = "CLOSED"
           \/ /\ chan'[e].st = "ESTABLISHED" /\ chan'[e].key = d.key
              /\ chan'[e].bits = d.bits
    BY <1>1, <1>4, <2>2, <2>3, <2>4, DataTable DEF TypeOK, Chans, HostShape
  <2>6. c.bits.resume => Promised(e)
    BY DEF Promised, Is
  <2>7. ~c.bits.resume => Unresumed(e, p)
    BY <1>4 DEF Unresumed
  <2>. QED BY <1>1, <1>4, <2>2, <2>4, <2>5, <2>6, <2>7, AttachTable
<1>. QED BY <1>2, <1>3, <1>4 DEF RecvRECEIVED

LEMMA RecvEstablishedTable ==
    ASSUME Before, NEW e \in Ends, OwnTable(e), Is(e, "ESTABLISHED"), NEW p \in net,
           p.to = e, RecvESTABLISHED(e, chan[e], p)
    PROVE  TableStep(e)
<1>. DEFINE c == chan[e]
<1>1. c \in Channels /\ TypeOK /\ host[e] \in Hosts /\ Bound(e)
  BY DEF Is, Before, WaitInv, TypeOK, None, Bound
<1>2. CASE Die(e)
  BY <1>1, <1>2, DieTable
<1>3. CASE GoSENT(e, [c EXCEPT !.count = 0], OwnBits(e), NoHalf) /\ Quiet
  BY <1>1, <1>3, SentTable DEF Quiet
<1>4. CASE Becomes(e, [c EXCEPT !.rts = TRUE]) /\ Quiet
  <2>. DEFINE r == [c EXCEPT !.rts = TRUE]
  <2>1. r.st = c.st /\ r.key = c.key /\ r.bits = c.bits
    BY <1>1 DEF Channels
  <2>2. Becomes(e, r) /\ host' = host
    BY <1>4 DEF Quiet
  <2>. HIDE DEF r
  <2>. QED BY <1>1, <2>1, <2>2, SameTable
<1>5. CASE p.type = "DATA" /\ ProcessDATA(e, c, host[e], p)
  <2>1. /\ host'[e] \in Hosts /\ host'[e].epoch = host[e].epoch
        /\ \/ chan'[e].st = "CLOSED"
           \/ /\ chan'[e].st = "ESTABLISHED" /\ chan'[e].key = c.key
              /\ chan'[e].bits = c.bits
    BY <1>1, <1>5, DataTable DEF TypeOK, Chans, HostShape, Is
  <2>. QED BY <1>1, <2>1, MildStep DEF Mild, Is
<1>. QED BY <1>2, <1>3, <1>4, <1>5 DEF RecvESTABLISHED

LEMMA RecvTable ==
    ASSUME Before, NEW e \in Ends, OwnTable(e), NEW p, Recv(e, p)
    PROVE  TableStep(e)
<1>1. p \in net /\ p.to = e /\ UNCHANGED net /\ TypeOK
  BY DEF Recv, Before
<1>. QED BY <1>1, RecvClosedTable, RecvSentTable, RecvReceivedTable,
            RecvEstablishedTable DEF Recv
LEMMA PullTable ==
    ASSUME Before, NEW e \in Ends, OwnTable(e), Pull(e)
    PROVE  TableStep(e)
<1>. DEFINE c == chan[e]
<1>1. TypeOK /\ c \in Channels
  BY DEF Pull, Before, TypeOK
<1>2. CASE PullCLOSED(e, c)
  BY <1>1, <1>2, DieTable DEF PullCLOSED
<1>3. ASSUME NEW r, Becomes(e, r), r.st = c.st, r.key = c.key, r.bits = c.bits, Quiet
      PROVE  TableStep(e)
  BY <1>1, <1>3, SameTable DEF Quiet
<1>4. CASE PullSENT(e, c)
  <2>. DEFINE r == [Idle(c) EXCEPT !.tail = None]
  <2>1. r.st = c.st /\ r.key = c.key /\ r.bits = c.bits
    BY <1>1 DEF Idle, Channels
  <2>2. Becomes(e, r) /\ Quiet
    BY <1>4 DEF PullSENT
  <2>. HIDE DEF r
  <2>. QED BY <1>3, <2>1, <2>2
<1>5. CASE PullRECEIVED(e, c)
  <2>1. PICK tail : Becomes(e, [Idle(c) EXCEPT !.tail = tail]) /\ Quiet
    BY <1>5 DEF PullRECEIVED
  <2>. DEFINE r == [Idle(c) EXCEPT !.tail = tail]
  <2>2. r.st = c.st /\ r.key = c.key /\ r.bits = c.bits
    BY <1>1 DEF Idle, Channels
  <2>. HIDE DEF r
  <2>. QED BY <1>3, <2>1, <2>2 DEF r
<1>6. CASE PullESTABLISHED(e, c)
  <2>1. PICK tail : Becomes(e, [c EXCEPT !.tail = tail, !.tsn = @ + 1]) /\ Quiet
    BY <1>6 DEF PullESTABLISHED
  <2>. DEFINE r == [c EXCEPT !.tail = tail, !.tsn = @ + 1]
  <2>2. r.st = c.st /\ r.key = c.key /\ r.bits = c.bits
    BY <1>1 DEF Channels
  <2>. HIDE DEF r
  <2>. QED BY <1>3, <2>1, <2>2 DEF r
<1>. QED BY <1>2, <1>4, <1>5, <1>6 DEF Pull

LEMMA TimeoutTable ==
    ASSUME Before, NEW e \in Ends, OwnTable(e), Timeout(e)
    PROVE  TableStep(e)
<1>. DEFINE c == chan[e]
            r == [c EXCEPT !.rts = TRUE, !.count = @ + 1]
<1>1. TypeOK /\ c \in Channels
  BY DEF Timeout, Before, TypeOK
<1>2. CASE Die(e)
  BY <1>1, <1>2, DieTable
<1>3. CASE Becomes(e, r) /\ Quiet
  <2>1. r.st = c.st /\ r.key = c.key /\ r.bits = c.bits
    BY <1>1 DEF Channels
  <2>. HIDE DEF r
  <2>. QED BY <1>1, <1>3, <2>1, SameTable DEF Quiet
<1>. QED BY <1>2, <1>3 DEF Timeout

\* What a user does to a host that is not dead, and with it to the channel.
LEMMA UseTable ==
    ASSUME Before, NEW e \in Ends, OwnTable(e),
           \/ host' = host
           \/ /\ Known(e) \/ Bound(e)
              /\ \E use \in Uses : host' = [host EXCEPT ![e].use = use],
           Connect(e) \/ UNCHANGED chan
    PROVE  TableStep(e)
<1>1. \/ host'[e] = host[e]
      \/ /\ Known(e) \/ Bound(e)
         /\ host'[e] \in Hosts /\ host'[e].epoch = host[e].epoch
  <2>1. Known(e) \/ Bound(e) => host[e] \in Hosts
    BY DEF OwnTable, Live
  <2>. QED BY <2>1 DEF Hosts, Before, TypeOK
<1>2. CASE UNCHANGED chan
  BY <1>1, <1>2, MildStep DEF Mild, Before
<1>3. CASE \E c : GoSENT(e, c, OwnBits(e), NoHalf)
  BY <1>1, <1>3, SentTable DEF Before
<1>. QED BY <1>2, <1>3 DEF Connect

LEMMA RestartTable ==
    ASSUME Before, NEW e \in Ends, Restart(e)
    PROVE  TableStep(e)
<1>1. chan'[e].st = "NONE" /\ host'[e].use = "unknown"
  BY DEF Restart, Becomes, None, NoHost, Before, TypeOK
<1>2. ~Live(e)'
  BY <1>1 DEF Live, Known, Bound, Promised, Is
<1>. QED BY <1>1, <1>2 DEF TableStep, OwnTable, Keeps, Is

LEMMA EndTable ==
    ASSUME Before, NEW e \in Ends, User(e) \/ System(e)
    PROVE  (reused => reused') /\ (~reused' /\ OwnTable(e) => TableStep(e))
<1>1. reused => reused'
  BY DEF User, System, Contact, Cancel, ConnectHost, ListenHost, Relinquish, Restart,
         Recv, Pull, Timeout, Unreachable, Disconnect
<1>2. ASSUME OwnTable(e), ~reused'
      PROVE  TableStep(e)
  <2>1. CASE Contact(e)
    BY <1>2, <2>1, UseTable DEF Contact, Bound, Uses
  <2>2. CASE Cancel(e)
    BY <1>2, <2>2, UseTable DEF Cancel
  <2>3. CASE ConnectHost(e)
    BY <1>2, <2>3, UseTable DEF ConnectHost, Uses
  <2>4. CASE ListenHost(e)
    BY <1>2, <2>4, UseTable DEF ListenHost, Uses
  <2>5. CASE \E use \in Uses : Relinquish(e, use)
    BY <1>2, <2>5, UseTable DEF Relinquish
  <2>6. CASE Restart(e)
    BY <2>6, RestartTable
  <2>7. CASE \E p \in net : Recv(e, p)
    BY <1>2, <2>7, RecvTable
  <2>8. CASE Pull(e)
    BY <1>2, <2>8, PullTable
  <2>9. CASE Timeout(e)
    BY <1>2, <2>9, TimeoutTable
  <2>10. CASE Unreachable(e) \/ Disconnect(e)
    BY <1>2, <2>10, DieTable DEF Unreachable, Disconnect, Before
  <2>. QED BY <2>1, <2>2, <2>3, <2>4, <2>5, <2>6, <2>7, <2>8, <2>9, <2>10 DEF User, System
<1>. QED BY <1>1, <1>2

LEMMA NextTable ==
    ASSUME Before, Shapes, [Next]_vars
    PROVE  \E e \in Ends : /\ After(e) /\ (reused => reused')
                           /\ ~reused' /\ OwnTable(e) => TableStep(e)
<1>1. CASE UNCHANGED vars
  <2>1. PICK e \in Ends : TRUE
    BY NegotiationAssumption
  <2>2. OwnTable(e) => TableStep(e)
    BY <1>1, UseTable DEF vars
  <2>. QED BY <1>1, <2>2, IdleStep DEF vars
<1>. QED BY <1>1, EndStep, EndTable DEF Next

\* What a packet is that lets an end wipe its tables: the peer's, with the half
\* the end has now.
LEMMA UnresumedKey ==
    ASSUME TypeOK, Shapes, NEW e \in Ends, NEW p \in net, Unresumed(e, p)
    PROVE  /\ p.key \in Keys /\ p.key \in [Ends -> 1 .. born] /\ p.key[e] = Cur(e)
           /\ Active(e) /\ chan[e].key \in {NoKey, p.key} /\ Had(Peer[e], p.key)
<1>1. Speaks(p) /\ p.to = e /\ Peer[Peer[e]] = e
  BY PeerFacts DEF Unresumed, Speaks
<1>2. Had(Peer[e], p.key)
  BY <1>1 DEF Had, Said
<1>3. p.key \in Keys /\ p.key \in [Ends -> 1 .. born]
  BY <1>2, HadShape, PeerFacts
<1>4. p.key[e] = Cur(e) /\ Active(e) /\ chan[e].key \in {NoKey, p.key}
  BY DEF Unresumed, Cur, Active, Is, Shapes, ChannelShape
<1>. QED BY <1>2, <1>3, <1>4

\* When both ends may wipe, they do it for the same key.
LEMMA WipeKey ==
    ASSUME TypeOK, Shapes, Fresh, NEW x \in Ends, NEW p \in net, NEW q \in net,
           Unresumed(x, q), Unresumed(Peer[x], p)
    PROVE  q.key = p.key
<1>. DEFINE o == Peer[x]
<1>1. o \in Ends /\ Peer[o] = x
  BY PeerFacts
<1>2. /\ q.key \in Keys /\ q.key \in [Ends -> 1 .. born] /\ q.key[x] = Cur(x)
      /\ Active(x) /\ chan[x].key \in {NoKey, q.key} /\ Had(o, q.key)
  BY UnresumedKey
<1>3. /\ p.key \in Keys /\ p.key \in [Ends -> 1 .. born] /\ p.key[o] = Cur(o)
      /\ Active(o) /\ chan[o].key \in {NoKey, p.key} /\ Had(x, p.key)
  BY <1>1, UnresumedKey
<1>4. Newest(x, p.key) /\ Newest(o, q.key)
  BY <1>1, <1>2, <1>3 DEF Fresh
<1>5. p.key # NoKey /\ q.key # NoKey
  BY <1>2, <1>3, NoKeyShape
<1>6. /\ Cur(x) \in Nat /\ Cur(o) \in Nat /\ born \in Nat
      /\ p.key[x] \in Nat /\ p.key[o] \in Nat /\ q.key[x] \in Nat /\ q.key[o] \in Nat
  BY <1>1, <1>2, <1>3, CurShape, NegotiationAssumption DEF TypeOK, Keys, Halves
<1>7. CASE p.key[x] = Cur(x)
  BY <1>2, <1>4, <1>5, <1>7 DEF Newest
<1>8. CASE q.key[o] = Cur(o)
  BY <1>3, <1>4, <1>5, <1>8 DEF Newest
<1>9. CASE p.key[x] # Cur(x) /\ q.key[o] # Cur(o)
  <2>1. p.key[o] < Cur(x) /\ q.key[x] < Cur(o)
    BY <1>1, <1>4, <1>6, <1>9 DEF Newest
  <2>. QED BY <1>2, <1>3, <1>6, <2>1
<1>. QED BY <1>7, <1>8, <1>9

\* A packet that lets the mover wipe let it wipe before.
LEMMA UnresumedBefore ==
    ASSUME TypeOK, Shapes, Shapes', Fresh, NEW x \in Ends, Move(x), NEW p \in net',
           Unresumed(x, p)'
    PROVE  p \in net /\ Unresumed(x, p)
<1>1. p.to = x /\ Speaks(p) /\ Peer[x] # x
  BY PeerFacts DEF Unresumed, Speaks
<1>2. p \in net
  BY <1>1 DEF Move, Stays, Leaves, Starts, Trusts, Speaks
<1>3. CASE Stays(x)
  BY <1>2, <1>3 DEF Stays, Unresumed, Is
<1>4. ~Leaves(x) /\ ~Trusts(x)
  BY DEF Leaves, Trusts, Unresumed, Is
<1>5. CASE Starts(x)
  <2>1. p.key[x] = chan'[x].half
    BY <1>5 DEF Unresumed, Shapes, ChannelShape, Is
  <2>2. p.key[x] \in 1 .. born /\ born \in Nat
    BY <1>1, <1>2, NegotiationAssumption DEF Shapes, PacketShape, TypeOK
  <2>3. Is(x, "SENT") /\ chan'[x].half = chan[x].half
    BY <1>5, <2>1, <2>2 DEF Starts
  <2>4. p.type # "DATA"
    <3>1. ASSUME p.type = "DATA"
          PROVE  FALSE
      <4>1. Had(x, p.key)
        BY <1>1, <1>2, <3>1 DEF Had, Answered
      <4>2. p.key[x] < chan'[x].half
        BY <1>5, <4>1, StartIsNew
      <4>. QED BY <2>1, <2>2, <4>2
    <3>. QED BY <3>1
  <2>. QED BY <1>1, <1>2, <2>1, <2>3, <2>4 DEF Unresumed
<1>. QED BY <1>2, <1>3, <1>4, <1>5 DEF Move

\* A packet that goes out and lets the peer wipe comes from an end that is not
\* live, or has wiped its own tables.
LEMMA UnresumedSent ==
    ASSUME Resumed, NEW x \in Ends, OwnTable(x), Move(x), Keeps(x),
           NEW p \in net' \ net, Unresumed(Peer[x], p), Live(x)'
    PROVE  host'[x].epoch = p.key
<1>1. Live(x) /\ host'[x].epoch = host[x].epoch
  BY DEF Keeps
<1>2. Speaks(p) /\ Stays(x)
  BY DEF Unresumed, Speaks, Move, Leaves, Starts, Trusts
<1>3. CASE p.type = "WELCOME"
  BY <1>1, <1>2, <1>3 DEF Stays, Unresumed, OwnTable, Live, Bound, Promised, Is
<1>4. CASE p.type = "DATA"
  <2>1. Is(x, "ESTABLISHED") /\ p.key = chan[x].key /\ Holds(Peer[x], "RECEIVED", p.key)
        /\ ~chan[Peer[x]].bits.resume
    BY <1>2, <1>4 DEF Stays, Unresumed, Holds, Speaks
  <2>2. ~chan[x].bits.resume
    BY <2>1 DEF Resumed, ResumeOfReceived
  <2>. QED BY <1>1, <2>1, <2>2 DEF OwnTable
<1>. QED BY <1>2, <1>3, <1>4 DEF Speaks

LEMMA TablesStep ==
    ASSUME TypeOK, TypeOK', Shapes, Shapes', Fresh, Resumed, Tables,
           NEW x \in Ends, Move(x), Heard(x), TableStep(x)
    PROVE  Tables'
<1>. DEFINE o == Peer[x]
<1>1. /\ o \in Ends /\ o # x /\ Peer[o] = x /\ chan'[o] = chan[o] /\ host'[o] = host[o]
      /\ \A e \in Ends : e = x \/ e = o
  BY PeerFacts, PeerStays DEF Heard
<1>2. \A p : Unresumed(o, p)' <=> Unresumed(o, p)
  BY <1>1 DEF Unresumed, Is
<1>3. Live(o)' <=> Live(o)
  BY <1>1 DEF Live, Known, Bound, Promised, Is
<1>4. OwnTable(x) /\ OwnTable(o)
  BY <1>1 DEF Tables
<1>5. (\A e \in Ends : OwnTable(e))'
  <2>1. OwnTable(o)'
    BY <1>1, <1>3, <1>4 DEF OwnTable, Known, Is
  <2>2. OwnTable(x)'
    BY DEF TableStep
  <2>3. \A e \in Ends : OwnTable(e)'
    BY <1>1, <2>1, <2>2
  <2>. QED BY <2>3
<1>6. LiveMatch'
  <2>1. ASSUME Live(x)', Live(o)
        PROVE  host'[x].epoch = host[o].epoch
    <3>1. CASE Keeps(x)
      BY <1>1, <2>1, <3>1 DEF Keeps, Tables, LiveMatch
    <3>2. CASE Wipes(x)
      <4>1. PICK q \in net : Unresumed(x, q) /\ host'[x].epoch = q.key
        BY <3>2 DEF Wipes
      <4>2. q.to = x
        BY <4>1 DEF Unresumed
      <4>. QED BY <2>1, <4>1, <4>2 DEF Tables, WipesMatch
    <3>. QED BY <3>1, <3>2 DEF TableStep
  <2>. QED BY <1>1, <1>3, <2>1 DEF LiveMatch
<1>7. WipesMatch'
  <2>1. ASSUME NEW p \in net', Unresumed(x, p)', Live(o)
        PROVE  host[o].epoch = p.key
    <3>1. p \in net /\ Unresumed(x, p)
      BY <2>1, UnresumedBefore
    <3>2. p.to = x
      BY <3>1 DEF Unresumed
    <3>. QED BY <2>1, <3>1, <3>2 DEF Tables, WipesMatch
  <2>2. ASSUME NEW p \in net', Unresumed(o, p), Live(x)'
        PROVE  host'[x].epoch = p.key
    <3>0. p.to = o
      BY <2>2 DEF Unresumed
    <3>1. CASE p \notin net
      <4>1. Keeps(x)
        BY <3>1 DEF TableStep, Wipes
      <4>. QED BY <1>4, <2>2, <3>1, <4>1, UnresumedSent
    <3>2. CASE p \in net /\ Keeps(x)
      BY <1>1, <2>2, <3>0, <3>2 DEF Keeps, Tables, WipesMatch
    <3>3. CASE p \in net /\ Wipes(x)
      <4>1. PICK q \in net : Unresumed(x, q) /\ host'[x].epoch = q.key
        BY <3>3 DEF Wipes
      <4>. QED BY <2>2, <3>3, <4>1, WipeKey
    <3>. QED BY <3>1, <3>2, <3>3 DEF TableStep
  <2>3. ASSUME NEW p \in net', Unresumed(p.to, p)', Live(Peer[p.to])', p.to \in Ends
        PROVE  host'[Peer[p.to]].epoch = p.key
    <3>1. CASE p.to = x
      BY <1>1, <1>3, <2>1, <2>3, <3>1
    <3>2. CASE p.to = o
      BY <1>1, <1>2, <2>2, <2>3, <3>2
    <3>. QED BY <1>1, <2>3, <3>1, <3>2
  <2>4. \A p \in net' : p.to \in Ends
    BY DEF TypeOK, Packets
  <2>. QED BY <2>3, <2>4 DEF WipesMatch
<1>. QED BY <1>5, <1>6, <1>7 DEF Tables
-----------------------------------------------------------------------------
(* The theorems. *)

Inv == TypeOK /\ WaitInv /\ Shapes /\ Fresh /\ Resumed /\ (reused \/ Tables)

LEMMA InvInit == Init => Inv
<1>. SUFFICES ASSUME Init PROVE Inv
  OBVIOUS
<1>1. \A e \in Ends : chan[e] = None /\ chan[e].st = "NONE"
  BY DEF Init, None
<1>2. TypeOK
  <2>1. \A e \in Ends : host[e] \in Hosts \cup {NoHost}
    BY DEF Init, Hosts, Uses
  <2>2. host \in [Ends -> Hosts \cup {NoHost}]
    BY <2>1 DEF Init
  <2>3. born \in 0 .. MaxHalves
    BY NegotiationAssumption DEF Init
  <2>. QED BY <2>2, <2>3 DEF Init, TypeOK
<1>3. WaitInv /\ Shapes
  BY <1>1 DEF Init, WaitInv, Shapes, ChannelShape, PacketShape, Is
<1>4. Fresh
  BY <1>1 DEF Fresh, Active
<1>5. Resumed
  <2>1. ResumeOfReceived /\ ResumeOfWelcome /\ NoDataOfReceived
    BY <1>1 DEF Init, ResumeOfReceived, ResumeOfWelcome, NoDataOfReceived, Is
  <2>2. ResumeAgrees
    BY <1>1, NegotiationAssumption DEF ResumeAgrees, BothEstablished, Is
  <2>. QED BY <2>1, <2>2 DEF Resumed
<1>6. Tables
  <2>1. ASSUME NEW e \in Ends, Live(e)
        PROVE  host[e] \in Hosts /\ host[e].epoch = NoKey
    <3>1. host[e] \in {NoHost} \cup [epoch : {NoKey}, use : {"listens"}]
      BY DEF Init
    <3>2. host[e] # NoHost
      BY <1>1, <2>1 DEF Live, Known, Bound, Promised, Is, NoHost
    <3>. QED BY <3>1, <3>2 DEF Hosts, Uses
  <2>2. \A e \in Ends : OwnTable(e)
    BY <1>1, <2>1 DEF OwnTable, Is
  <2>3. LiveMatch
    BY <2>1, PeerFacts DEF LiveMatch
  <2>4. WipesMatch
    BY DEF Init, WipesMatch
  <2>. QED BY <2>2, <2>3, <2>4 DEF Tables
<1>. QED BY <1>2, <1>3, <1>4, <1>5, <1>6 DEF Inv

LEMMA WaitStep ==
    ASSUME WaitInv, NEW x \in Ends, Move(x), Heard(x)
    PROVE  WaitInv'
BY DEF WaitInv, Move, Heard, Is

LEMMA InvNext == Inv /\ [Next]_vars => Inv'
<1>. SUFFICES ASSUME Inv, [Next]_vars PROVE Inv'
  OBVIOUS
<1>1. PICK x \in Ends : /\ After(x) /\ (reused => reused')
                        /\ ~reused' /\ OwnTable(x) => TableStep(x)
  BY NextTable DEF Inv, Before
<1>2. TypeOK' /\ Move(x) /\ Heard(x) /\ WaitInv'
  BY <1>1, WaitStep DEF After, Inv
<1>3. Shapes'
  BY <1>2, ShapesStep DEF Inv
<1>4. Fresh'
  BY <1>2, <1>3, FreshStep DEF Inv
<1>5. KeysAgree'
  BY <1>2, <1>3, <1>4, FreshKeysAgree, PTL
<1>6. Resumed'
  BY <1>2, <1>3, <1>5, ResumedStep DEF Inv
<1>7. reused' \/ Tables'
  <2>1. ASSUME ~reused'
        PROVE  Tables'
    <3>1. Tables
      BY <1>1, <2>1 DEF Inv
    <3>2. TableStep(x)
      BY <1>1, <2>1, <3>1 DEF Tables
    <3>. QED BY <1>2, <1>3, <3>1, <3>2, TablesStep DEF Inv
  <2>. QED BY <2>1
<1>. QED BY <1>2, <1>3, <1>4, <1>6, <1>7 DEF Inv

LEMMA Invariant == Spec => []Inv
<1>. QED BY InvInit, InvNext, PTL DEF Spec

\* The shapes of the variables: no key or half is taken from a state or a
\* packet that does not have it, and the death counter stays within its limit.
THEOREM TypeCorrectness == Spec => []TypeOK
<1>1. Inv => TypeOK
  BY DEF Inv
<1>. QED BY <1>1, Invariant, PTL

\* Two established ends have the same key, with any number of attempts, old
\* packets, retransmissions and restarts (goESTABLISHED and its callers).
THEOREM KeysAlwaysAgree == Spec => []KeysAgree
<1>1. Inv => KeysAgree
  BY FreshKeysAgree DEF Inv
<1>. QED BY <1>1, Invariant, PTL

\* Two established ends have both wiped or both kept the tables of their
\* streams (existHost, confirmWELCOME, wipeState).
THEOREM ResumeAlwaysAgrees == Spec => []ResumeAgrees
<1>1. Inv => ResumeAgrees
  BY DEF Inv, Resumed
<1>. QED BY <1>1, Invariant, PTL

\* Two established ends number their streams alike, as long as no user went
\* back to a host that was already dead (existHost, wipeState, and the
\* prohibition of host.sig): whoever of them wiped its tables, forgot them in a
\* restart or heard of the other's decision only by its first DATA.
THEOREM TablesAlwaysMatch == Spec => []TablesMatch
<1>1. Inv => TablesMatch
  BY PeerFacts DEF Inv, Tables, LiveMatch, Live, Bound, TablesMatch, BothEstablished
<1>. QED BY <1>1, Invariant, PTL

\* In every step, who waits for a contact keeps a channel whose death timer
\* is scheduled and whose counter does not go back (newDeathCounter).
THEOREM ContactsEnd == Spec => WaitingEnds
<1>. DEFINE Ending == \A e \in Ends : waiting'[e] =>
                         /\ chan'[e] # None /\ chan'[e].timer
                         /\ waiting[e] => chan[e].count <= chan'[e].count
<1>1. ASSUME Inv, [Next]_vars
      PROVE  Ending
  <2>1. PICK x \in Ends : After(x)
    BY <1>1, NextStep DEF Inv, Before
  <2>2. ASSUME NEW e \in Ends \ {x}, waiting'[e]
        PROVE  /\ chan'[e] # None /\ chan'[e].timer
               /\ waiting[e] => chan[e].count <= chan'[e].count
    <3>1. waiting[e] /\ chan'[e] = chan[e]
      BY <2>1, <2>2 DEF After, Heard, Move
    <3>2. chan[e] # None /\ chan[e].timer = TRUE
      BY <1>1, <3>1 DEF Inv, WaitInv
    <3>3. chan[e].count \in Nat
      BY <1>1, <3>2, NegotiationAssumption DEF Inv, TypeOK, Channels
    <3>. QED BY <3>1, <3>2, <3>3
  <2>. QED BY <2>1, <2>2 DEF After, Heard
<1>2. Inv /\ [Next]_vars => [Ending]_vars
  BY <1>1
<1>. QED BY <1>2, Invariant, PTL DEF Spec, WaitingEnds
=============================================================================
