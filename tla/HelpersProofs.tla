--------------------------- MODULE HelpersProofs ---------------------------
(***************************************************************************)
(* Proofs about the helpers of the bindings and the ICMP code, each for    *)
(* its own specification and every value of its constants: a buffered      *)
(* stream keeps the writes and a message is answered once (WritesKept),    *)
(* the service keeps its clients and the sockets it uses (ClientsServed),  *)
(* a request is read whole and answered once (RequestsEnd), the machine's  *)
(* addresses fit their array and are not stale (AddressesHold), an ICMP    *)
(* error is read as it was meant, or not at all (ErrorArrives).            *)
(***************************************************************************)
EXTENDS MCHelpers, NumberLemmas, SequenceTheorems
-----------------------------------------------------------------------------
(* Sequences and numbers. *)

\* What follows when an element, or a sequence, is put behind another.
LEMMA PutBehind ==
    ASSUME NEW S, NEW s \in Seq(S)
    PROVE  /\ \A x \in S : Append(s, x) \in Seq(S) /\ Len(Append(s, x)) = Len(s) + 1
           /\ \A t \in Seq(S) : s \o t \in Seq(S) /\ Len(s \o t) = Len(s) + Len(t)
           /\ Len(s) \in Nat
           /\ s \o <<>> = s
BY EmptySeq, ConcatProperties, ConcatEmptySeq

LEMMA AppendBehind ==
    ASSUME NEW S, NEW s \in Seq(S), NEW t \in Seq(S), NEW x \in S
    PROVE  /\ s \o Append(t, x) = Append(s \o t, x)
           /\ t = <<>> => Append(s, x) \o t = Append(s \o t, x)
<1>1. s \o Append(t, x) = Append(s \o t, x)
  <2>1. s \o t \in Seq(S) /\ <<x>> \in Seq(S)
    BY PutBehind
  <2>2. Append(t, x) = t \o <<x>> /\ Append(s \o t, x) = (s \o t) \o <<x>>
    BY <2>1, AppendIsConcat
  <2>3. s \o (t \o <<x>>) = (s \o t) \o <<x>>
    BY <2>1, ConcatAssociative
  <2> QED BY <2>2, <2>3
<1>2. t = <<>> => Append(s, x) \o t = Append(s \o t, x)
  BY PutBehind
<1> QED BY <1>1, <1>2

\* Two sequences that are the parts of a third.
LEMMA TwoParts ==
    ASSUME NEW S, NEW a \in Seq(S), NEW b \in Seq(S), NEW d \in Seq(S),
           Len(d) = Len(a) + Len(b),
           \A k \in 1 .. Len(a) : a[k] = d[k],
           \A k \in 1 .. Len(b) : b[k] = d[Len(a) + k]
    PROVE  a \o b = d
<1>1. /\ a \o b \in Seq(S) /\ Len(a \o b) = Len(d)
      /\ \A k \in 1 .. Len(d) :
            (a \o b)[k] = IF k <= Len(a) THEN a[k] ELSE b[k - Len(a)]
  BY ConcatProperties
<1>2. Len(a) \in Nat /\ Len(b) \in Nat
  BY LenProperties
<1>3. ASSUME NEW k \in 1 .. Len(d) PROVE (a \o b)[k] = d[k]
  <2>1. CASE k <= Len(a)
    BY <1>1, <1>2, <2>1
  <2>2. CASE k > Len(a)
    <3>1. k - Len(a) \in 1 .. Len(b) /\ Len(a) + (k - Len(a)) = k
      BY <1>2, <2>2
    <3> QED BY <1>1, <1>2, <2>2, <3>1
  <2> QED BY <1>2, <2>1, <2>2
<1> QED BY <1>1, <1>3, SeqEqual

\* A part of what was sent, and the rest.
LEMMA Split ==
    ASSUME NEW S, NEW d \in Seq(S), NEW n \in 1 .. Len(d)
    PROVE  /\ SubSeq(d, 1, n) \in Seq(S) /\ SubSeq(d, n + 1, Len(d)) \in Seq(S)
           /\ Len(SubSeq(d, 1, n)) = n
           /\ SubSeq(d, 1, n) \o SubSeq(d, n + 1, Len(d)) = d
<1>1. Len(d) \in Nat /\ n \in Nat /\ n <= Len(d)
  BY PutBehind
<1>2. /\ SubSeq(d, 1, n) \in Seq(S) /\ Len(SubSeq(d, 1, n)) = n
      /\ \A k \in 1 .. n : SubSeq(d, 1, n)[k] = d[k]
  BY <1>1, SubSeqProperties
<1>3. /\ SubSeq(d, n + 1, Len(d)) \in Seq(S)
      /\ Len(SubSeq(d, n + 1, Len(d))) = Len(d) - n
      /\ \A k \in 1 .. Len(d) - n : SubSeq(d, n + 1, Len(d))[k] = d[n + k]
  BY <1>1, SubSeqProperties
<1> DEFINE a == SubSeq(d, 1, n)
           b == SubSeq(d, n + 1, Len(d))
<1> HIDE DEF a, b
<1>4. /\ a \in Seq(S) /\ b \in Seq(S) /\ Len(a) = n /\ Len(b) = Len(d) - n
      /\ \A k \in 1 .. n : a[k] = d[k]
      /\ \A k \in 1 .. Len(d) - n : b[k] = d[n + k]
  BY <1>2, <1>3 DEF a, b
<1>5. a \o b = d
  <2>1. \A k \in 1 .. Len(a) : a[k] = d[k]
    BY <1>4
  <2>2. \A k \in 1 .. Len(b) : b[k] = d[Len(a) + k]
    BY <1>4
  <2>3. d \in Seq(S) /\ a \in Seq(S) /\ b \in Seq(S) /\ Len(d) = Len(a) + Len(b)
    BY <1>1, <1>4
  <2> QED BY <2>1, <2>2, <2>3, TwoParts
<1> QED BY <1>4, <1>5 DEF a, b

LEMMA TailOfBoth ==
    ASSUME NEW S, NEW a \in Seq(S), NEW b \in Seq(S), a # <<>>
    PROVE  Tail(a \o b) = Tail(a) \o b
<1>1. /\ Len(a) \in Nat \ {0} /\ Len(b) \in Nat
      /\ a \o b \in Seq(S) /\ Len(a \o b) = Len(a) + Len(b)
      /\ \A k \in 1 .. Len(a) + Len(b) :
            (a \o b)[k] = IF k <= Len(a) THEN a[k] ELSE b[k - Len(a)]
  BY EmptySeq, LenProperties, ConcatProperties
<1>2. a \o b # <<>>
  BY <1>1, EmptySeq
<1> DEFINE c == a \o b
           u == Tail(a)
           v == Tail(c)
<1> HIDE DEF c
<1>3. c \in Seq(S) /\ c # <<>> /\ Len(c) = Len(a) + Len(b)
  BY <1>1, <1>2 DEF c
<1>4. /\ u \in Seq(S) /\ Len(u) = Len(a) - 1
      /\ \A k \in 1 .. Len(u) : u[k] = a[k + 1]
  BY HeadTailProperties
<1>5. /\ v \in Seq(S) /\ Len(v) = Len(a) + Len(b) - 1
      /\ \A k \in 1 .. Len(v) : v[k] = c[k + 1]
  BY <1>1, <1>3, HeadTailProperties
<1> HIDE DEF u, v
<1>6. ASSUME NEW k \in 1 .. Len(u) PROVE u[k] = v[k]
  <2>1. k \in 1 .. Len(v) /\ k + 1 \in 1 .. Len(a) + Len(b) /\ k + 1 <= Len(a)
    BY <1>1, <1>4, <1>5
  <2> QED BY <1>1, <1>4, <1>5, <2>1 DEF c
<1>7. ASSUME NEW k \in 1 .. Len(b) PROVE b[k] = v[Len(u) + k]
  <2>1. /\ Len(u) + k \in 1 .. Len(v) /\ Len(u) + k + 1 = Len(a) + k
        /\ Len(a) + k \in 1 .. Len(a) + Len(b) /\ ~(Len(a) + k <= Len(a))
        /\ (Len(a) + k) - Len(a) = k
    BY <1>1, <1>4, <1>5
  <2>2. v[Len(u) + k] = c[Len(a) + k]
    BY <1>5, <2>1
  <2>3. c[Len(a) + k] = b[k]
    BY <1>1, <2>1 DEF c
  <2> QED BY <2>2, <2>3
<1>8. Len(v) = Len(u) + Len(b)
  BY <1>1, <1>4, <1>5
<1>9. u \o b = v
  BY <1>4, <1>5, <1>6, <1>7, <1>8, TwoParts
<1> QED BY <1>9 DEF c, u, v

\* Who writes before the stream is ready.
BufferedInv ==
    /\ written \in Seq(Nat) /\ took \in Seq(Nat) /\ buf \in Seq(Nat)
    /\ told \in Seq({"reset", "true", "false"})
    /\ pending \subseteq {"write", "shutdown"}
    /\ os \in {"open", "shut", "reset"}
    /\ ready \in BOOLEAN /\ shutdownRequest \in BOOLEAN /\ alive \in BOOLEAN
    /\ os # "reset" => took \o buf = written
    /\ os = "shut" => shutdownRequest /\ buf = <<>>
    /\ os = "open" /\ ready => buf = <<>>
    /\ "write" \in pending => os = "open" /\ ~ready
    /\ "shutdown" \in pending => os = "shut"
    /\ alive /\ (shutdownRequest \/ ~ready) => pending # {} \/ Len(told) > 0

MessageInv ==
    /\ stream = [unread |-> stream.unread, eof |-> stream.eof,
                 writing |-> stream.writing, shutting |-> stream.shutting,
                 reading |-> stream.reading]
    /\ sender = [told |-> sender.told, alive |-> sender.alive]
    /\ sender.told \in Seq(BOOLEAN)
    /\ ~(stream.writing /\ stream.shutting)
    /\ ToldOnce
-----------------------------------------------------------------------------
LEMMA BufferedInitInv == BufferedInit => BufferedInv
<1>1. \A S : <<>> \in Seq(S) /\ Len(<<>>) = 0
  BY EmptySeq
<1>2. <<>> \o <<>> = <<>>
  BY <1>1, PutBehind
<1> QED BY <1>1, <1>2 DEF BufferedInit, BufferedInv

LEMMA ResetsTold ==
    ASSUME BufferedInv
    PROVE  /\ told \o Resets \in Seq({"reset", "true", "false"})
           /\ pending # {} \/ Len(told) > 0 => Len(told \o Resets) > 0
<1>1. /\ Resets \in Seq({"reset", "true", "false"})
      /\ pending # {} => Len(Resets) = 1
      /\ Len(Resets) \in Nat
  <2>1. CASE "write" \in pending
    BY <2>1 DEF Resets
  <2>2. CASE "write" \notin pending /\ "shutdown" \in pending
    BY <2>2 DEF Resets
  <2>3. CASE "write" \notin pending /\ "shutdown" \notin pending
    <3>1. pending = {}
      BY <2>3 DEF BufferedInv
    <3>2. Resets = <<>>
      BY <2>3 DEF Resets
    <3> QED BY <3>1, <3>2, EmptySeq
  <2> QED BY <2>1, <2>2, <2>3
<1>2. told \in Seq({"reset", "true", "false"}) /\ Len(told) \in Nat
  BY DEF BufferedInv
<1>3. /\ told \o Resets \in Seq({"reset", "true", "false"})
      /\ Len(told \o Resets) = Len(told) + Len(Resets)
  BY <1>1, <1>2, PutBehind
<1> QED BY <1>1, <1>2, <1>3

LEMMA BufferedNextInv == BufferedInv /\ [BufferedNext]_boVars => BufferedInv'
<1> SUFFICES ASSUME BufferedInv, [BufferedNext]_boVars PROVE BufferedInv'
  OBVIOUS
<1> DEFINE A == {"reset", "true", "false"}
<1>0. /\ \A x \in A : Append(told, x) \in Seq(A) /\ Len(Append(told, x)) > 0
      /\ Len(told) \in Nat
  BY PutBehind DEF BufferedInv
<1>1. CASE UNCHANGED boVars
  BY <1>1 DEF boVars, BufferedInv
<1>2. CASE write
  <2>1. Item \in Nat
    BY DEF BufferedInv, Item
  <2>2. /\ Append(written, Item) \in Seq(Nat) /\ Append(took, Item) \in Seq(Nat)
        /\ Append(buf, Item) \in Seq(Nat)
    BY <2>1, PutBehind DEF BufferedInv
  <2>3. CASE ready /\ os = "open"
    <3>1. Append(took, Item) \o buf = Append(written, Item)
      <4>1. took \in Seq(Nat) /\ buf \in Seq(Nat) /\ buf = <<>> /\ took \o buf = written
        BY <2>3 DEF BufferedInv
      <4>2. PICK x \in Nat : x = Item
        BY <2>1
      <4>3. Append(took, x) \o buf = Append(took \o buf, x)
        BY <4>1, AppendBehind
      <4> QED BY <4>1, <4>2, <4>3
    <3> QED BY <1>2, <2>2, <2>3, <3>1 DEF write, BufferedInv
  <2>4. CASE ready /\ os = "reset"
    BY <1>0, <1>2, <2>2, <2>4 DEF write, BufferedInv
  <2>5. CASE ~ready
    <3>1. os # "reset" => took \o Append(buf, Item) = Append(written, Item)
      <4>1. /\ took \in Seq(Nat) /\ buf \in Seq(Nat)
            /\ os # "reset" => took \o buf = written
        BY DEF BufferedInv
      <4>2. PICK x \in Nat : x = Item
        BY <2>1
      <4>3. took \o Append(buf, x) = Append(took \o buf, x)
        BY <4>1, AppendBehind
      <4> QED BY <4>1, <4>2, <4>3
    <3>2. os = "shut" => FALSE
      BY <1>2 DEF write, BufferedInv
    <3> QED BY <1>2, <2>2, <2>5, <3>1, <3>2 DEF write, BufferedInv
  <2> QED BY <1>2, <2>3, <2>4, <2>5 DEF write
<1>3. CASE shutdown
  <2>1. CASE ready /\ os = "open"
    <3>1. /\ os' = "shut" /\ pending' = pending \cup {"shutdown"} /\ told' = told
          /\ shutdownRequest' = TRUE /\ buf = <<>> /\ "write" \notin pending
          /\ UNCHANGED <<written, took, ready, buf, alive>>
      BY <1>3, <2>1 DEF shutdown, BufferedInv
    <3> QED BY <2>1, <3>1 DEF BufferedInv
  <2>2. CASE ready /\ os = "reset"
    <3>1. told' = Append(told, "false") /\ UNCHANGED <<os, pending>>
      BY <1>3, <2>2 DEF shutdown
    <3>2. shutdownRequest' = TRUE /\ UNCHANGED <<written, took, ready, buf, alive>>
      BY <1>3 DEF shutdown
    <3> QED BY <1>0, <2>2, <3>1, <3>2 DEF BufferedInv
  <2>3. CASE ~ready /\ UNCHANGED <<os, pending, told>>
    <3>1. shutdownRequest' = TRUE /\ UNCHANGED <<written, took, ready, buf, alive>>
      BY <1>3 DEF shutdown
    <3> QED BY <2>3, <3>1 DEF BufferedInv
  <2> QED BY <1>3, <2>1, <2>2, <2>3 DEF shutdown
<1>4. CASE onReady
  <2>1. took \o buf \in Seq(Nat) /\ (took \o buf) \o <<>> = took \o buf
        /\ <<>> \in Seq(Nat)
    BY PutBehind, EmptySeq DEF BufferedInv
  <2>2. /\ "write" \in pending /\ os = "open" /\ ~ready
        /\ UNCHANGED <<written, shutdownRequest, told, alive>>
    BY <1>4 DEF onReady, BufferedInv
  <2>3. CASE /\ took' = took \o buf /\ buf' = <<>>
             /\ UNCHANGED <<pending, os, ready>>
    BY <2>1, <2>2, <2>3 DEF BufferedInv
  <2>4. CASE /\ buf = <<>> /\ shutdownRequest /\ os' = "shut"
             /\ pending' = (pending \ {"write"}) \cup {"shutdown"}
             /\ UNCHANGED <<took, buf, ready>>
    BY <2>2, <2>4 DEF BufferedInv
  <2>5. CASE /\ buf = <<>> /\ ~shutdownRequest /\ ready' = TRUE
             /\ pending' = pending \ {"write"} /\ UNCHANGED <<took, buf, os>>
    BY <2>2, <2>5 DEF BufferedInv
  <2> QED BY <1>4, <2>3, <2>4, <2>5 DEF onReady
<1>5. CASE onShutdown
  BY <1>0, <1>5 DEF onShutdown, BufferedInv
<1>6. CASE onReset
  BY <1>6, ResetsTold DEF onReset, BufferedInv
<1>7. CASE reset
  BY <1>7, ResetsTold, EmptySeq DEF reset, BufferedInv
<1> QED BY <1>1, <1>2, <1>3, <1>4, <1>5, <1>6, <1>7 DEF BufferedNext

LEMMA MessageInvHolds == MessageSpec => []MessageInv
<1>1. MessageInit => MessageInv
  <2>1. <<>> \in Seq(BOOLEAN) /\ Len(<<>>) = 0
    BY EmptySeq
  <2> QED BY <2>1 DEF MessageInit, MessageInv, ToldOnce
<1>2. MessageInv /\ [MessageNext]_smVars => MessageInv'
  <2> SUFFICES ASSUME MessageInv, [MessageNext]_smVars PROVE MessageInv'
    OBVIOUS
  <2>1. \A x \in {TRUE, FALSE} :
           /\ Append(sender.told, x) \in Seq(BOOLEAN)
           /\ Len(Append(sender.told, x)) = Len(sender.told) + 1
    <3>1. \A x \in BOOLEAN :
             /\ Append(sender.told, x) \in Seq(BOOLEAN)
             /\ Len(Append(sender.told, x)) = Len(sender.told) + 1
      BY PutBehind DEF MessageInv
    <3> QED BY <3>1, Zenon
  <2>2. CASE UNCHANGED smVars
    BY <2>2 DEF smVars, MessageInv, ToldOnce
  <2>3. CASE senderReady
    BY <2>3 DEF senderReady, MessageInv, ToldOnce
  <2>4. CASE senderShutdown
    <3>1. /\ stream' = [stream EXCEPT !.shutting = FALSE]
          /\ sender' = [sender EXCEPT !.told = Append(@, TRUE)] /\ stream.shutting
      BY <2>4 DEF senderShutdown, Tell
    <3>2. stream'.writing = FALSE /\ stream'.shutting = FALSE
      BY <3>1 DEF MessageInv
    <3>3. sender'.told = Append(sender.told, TRUE) /\ Len(sender.told) = 0
      BY <3>1 DEF MessageInv, ToldOnce
    <3>4. stream' = [unread |-> stream'.unread, eof |-> stream'.eof,
                     writing |-> stream'.writing, shutting |-> stream'.shutting,
                     reading |-> stream'.reading]
      BY <3>1 DEF MessageInv
    <3>5. sender' = [told |-> sender'.told, alive |-> sender'.alive]
      BY <3>1 DEF MessageInv
    <3>6. sender'.told \in Seq(BOOLEAN) /\ ToldOnce'
      <4>1. /\ Append(sender.told, TRUE) \in Seq(BOOLEAN)
            /\ Len(Append(sender.told, TRUE)) = Len(sender.told) + 1
        BY <2>1, Zenon
      <4>2. /\ sender'.told \in Seq(BOOLEAN)
            /\ Len(sender'.told) = Len(sender.told) + 1
        BY <3>3, <4>1, Zenon
      <4>3. Len(sender'.told) = 1
        BY <3>3, <4>2
      <4> QED BY <3>2, <4>2, <4>3 DEF ToldOnce
    <3> QED BY <3>2, <3>4, <3>5, <3>6 DEF MessageInv
  <2>5. CASE \E gone \in BOOLEAN : senderReset(gone)
    <3>1. PICK gone \in BOOLEAN : senderReset(gone)
      BY <2>5
    <3>2. /\ stream'.writing = FALSE /\ stream'.shutting = FALSE
          /\ sender'.told = IF stream.writing \/ stream.shutting
                            THEN Append(sender.told, FALSE) ELSE sender.told
      BY <3>1 DEF senderReset, MessageInv
    <3>3. stream' = [unread |-> stream'.unread, eof |-> stream'.eof,
                     writing |-> stream'.writing, shutting |-> stream'.shutting,
                     reading |-> stream'.reading]
      BY <3>1 DEF senderReset, MessageInv
    <3>4. sender' = [told |-> sender'.told, alive |-> sender'.alive]
      BY <3>1 DEF senderReset
    <3>5. sender'.told \in Seq(BOOLEAN) /\ ToldOnce'
      <4>1. sender.told \in Seq(BOOLEAN)
            /\ Len(sender.told) = (IF stream.writing \/ stream.shutting THEN 0 ELSE 1)
        BY DEF MessageInv, ToldOnce
      <4>2. CASE stream.writing \/ stream.shutting
        <5>1. /\ Append(sender.told, FALSE) \in Seq(BOOLEAN)
              /\ Len(Append(sender.told, FALSE)) = Len(sender.told) + 1
          BY <2>1, Zenon
        <5>2. sender'.told = Append(sender.told, FALSE) /\ Len(sender.told) = 0
          BY <3>2, <4>1, <4>2
        <5>3. /\ sender'.told \in Seq(BOOLEAN)
              /\ Len(sender'.told) = Len(sender.told) + 1
          BY <5>1, <5>2, Zenon
        <5>4. Len(sender'.told) = 1
          BY <5>2, <5>3
        <5> QED BY <3>2, <5>3, <5>4 DEF ToldOnce
      <4>3. CASE ~(stream.writing \/ stream.shutting)
        BY <3>2, <4>1, <4>3 DEF ToldOnce
      <4> QED BY <4>2, <4>3
    <3> QED BY <3>2, <3>3, <3>4, <3>5 DEF MessageInv
  <2>6. CASE receiverReceive
    BY <2>6 DEF receiverReceive, MessageInv, ToldOnce
  <2>7. CASE receiverShutdown
    BY <2>7 DEF receiverShutdown, MessageInv, ToldOnce
  <2>8. CASE \E gone \in BOOLEAN : receiverReset(gone)
    BY <2>8 DEF receiverReset, MessageInv, ToldOnce
  <2> QED BY <2>2, <2>3, <2>4, <2>5, <2>6, <2>7, <2>8 DEF MessageNext
<1> QED BY <1>1, <1>2, PTL DEF MessageSpec

\* However the program's writes and shutdown fall between the answers of the
\* stream below, and whenever that is reset: a buffered stream gives it what was
\* written, in order, and who waits for a shutdown, or for a message, hears of
\* it, of a message once.
THEOREM WritesAlwaysKept == BufferedSpec /\ MessageSpec => []WritesKept
<1>1. BufferedSpec => []BufferedInv
  BY BufferedInitInv, BufferedNextInv, PTL DEF BufferedSpec
<1>2. BufferedInv /\ MessageInv => WritesKept
  <2> SUFFICES ASSUME BufferedInv, MessageInv PROVE WritesKept
    OBVIOUS
  <2>1. Len(<<>>) = 0
    BY EmptySeq
  <2> QED BY <2>1 DEF BufferedInv, MessageInv, WritesKept, InOrder, ShutdownHeard
<1> QED BY <1>1, <1>2, MessageInvHolds, PTL
-----------------------------------------------------------------------------
(* The service that sends ICMP. *)

Live == 0 .. numClients - 1
Clients == [sock : Socks \cup {NoSock}, filterPort : Ports \cup {0},
            split : BOOLEAN]
Ifaces == [addr : IfAddrs, sock : Socks]

ServiceTyped ==
    /\ pc \in {"query", "remove", "select", "accept", "clients", "ended"}
    /\ i \in Nat
    /\ clients \in [Slots -> Clients]
    /\ numClients \in 0 .. MaxClients
    /\ ifaces \in Seq(Ifaces)
    /\ present \subseteq IfAddrs
    /\ open \subseteq Socks
    /\ served \in [Socks -> Nat]
    /\ asked \in [Socks \cup {NoSock} -> Ports \cup {0}]

\* The clients have sockets of their own, and the port they asked for.
ClientsApart ==
    /\ \A k \in Live : clients[k].split
                        \/ clients[k].filterPort = asked[clients[k].sock]
    /\ \A k, l \in Live : clients[k].sock = clients[l].sock => k = l

IfacesApart ==
    /\ \A k, l \in DOMAIN ifaces : k # l => /\ ifaces[k].addr # ifaces[l].addr
                                            /\ ifaces[k].sock # ifaces[l].sock
    /\ \A k \in DOMAIN ifaces, l \in Live : ifaces[k].sock # clients[l].sock

\* What is in use is open wherever it is used, or new sockets are made (but
\* for a client whose accept has failed).
UsedOpen ==
    /\ pc \in {"query", "accept", "clients"} =>
          /\ \A k \in Live : clients[k].sock \in open \cup {NoSock}
          /\ \A k \in DOMAIN ifaces : ifaces[k].sock \in open
    /\ pc \in {"accept", "clients"} => \A k \in Live : clients[k].sock \in open

\* The loop that removes interfaces has kept those the machine has.
Removing ==
    /\ pc = "query" => i = 0
    /\ pc = "remove" =>
          /\ i \in 1 .. Len(ifaces) + 1
          /\ \A k \in DOMAIN ifaces :
                k < i \/ k \in existing => ifaces[k].addr \in present
    /\ pc = "select" /\ i > 0 =>
          \A k \in DOMAIN ifaces : ifaces[k].addr \in present

\* The loop that reads has served those before i.
Serving ==
    /\ pc \notin {"clients", "ended"} => \A s \in Socks : served[s] = 0
    /\ pc = "clients" =>
          /\ i \in 0 .. numClients
          /\ \A k \in Live :
                served[clients[k].sock] =
                    IF k < i /\ clients[k].sock \in readfds THEN 1 ELSE 0
    /\ pc = "accept" => i = 0

ServiceInv ==
    /\ ServiceTyped /\ ClientsApart /\ IfacesApart /\ UsedOpen
    /\ Removing /\ Serving
-----------------------------------------------------------------------------
LEMMA NoSockIs == NoSock \notin Socks
BY SocksAssumption DEF NoSock

\* What is in use, slot by slot.
LEMMA SelectedIs ==
    Selected \subseteq open
        <=> /\ \A k \in Live : clients[k].sock \in open
            /\ \A k \in DOMAIN ifaces : ifaces[k].sock \in open
BY DEF Selected, InUse, Live

\* An interface is overwritten by the last.
LEMMA LastMoves ==
    ASSUME NEW s \in Seq(Ifaces), NEW n \in DOMAIN s, NEW t,
           t = SubSeq([s EXCEPT ![n] = s[Len(s)]], 1, Len(s) - 1)
    PROVE  /\ t \in Seq(Ifaces) /\ Len(t) = Len(s) - 1
           /\ DOMAIN t = 1 .. Len(s) - 1
           /\ \A k \in DOMAIN t : t[k] = IF k = n THEN s[Len(s)] ELSE s[k]
<1> DEFINE u == [s EXCEPT ![n] = s[Len(s)]]
<1>1. Len(s) \in Nat /\ DOMAIN s = 1 .. Len(s) /\ \A k \in DOMAIN s : s[k] \in Ifaces
  OBVIOUS
<1>2. u \in Seq(Ifaces) /\ Len(u) = Len(s)
  <2>1. u \in [1 .. Len(s) -> Ifaces]
    BY <1>1
  <2> QED BY <1>1, <2>1, SeqDef, LenProperties
<1>3. \A k \in 1 .. Len(s) : u[k] = IF k = n THEN s[Len(s)] ELSE s[k]
  BY <1>1
<1> HIDE DEF u
<1>4. /\ t \in Seq(Ifaces) /\ Len(t) = Len(s) - 1
      /\ \A k \in 1 .. Len(s) - 1 : t[k] = u[k]
  BY <1>1, <1>2, SubSeqProperties DEF u
<1> QED BY <1>1, <1>3, <1>4

LEMMA ServiceInitInv == ServiceInit => ServiceInv
<1> SUFFICES ASSUME ServiceInit PROVE ServiceInv
  OBVIOUS
<1>1. Live = {} /\ ifaces = <<>> /\ DOMAIN ifaces = {}
  BY DEF ServiceInit, Live
<1>2. ServiceTyped
  BY ServiceAssumption
     DEF ServiceInit, ServiceTyped, Slots, Clients, NoClient, NewClient
<1> QED BY <1>1, <1>2 DEF ServiceInit, ServiceInv, ClientsApart, IfacesApart,
          UsedOpen, Removing, Serving

LEMMA KeepStep == ServiceInv /\ keepInterfaces => ServiceInv'
BY DEF ServiceInv, ServiceTyped, ClientsApart, IfacesApart, UsedOpen, Removing,
       Serving, Live, keepInterfaces

LEMMA RemovedStep == ServiceInv /\ removed => ServiceInv'
<1> SUFFICES ASSUME ServiceInv, removed PROVE ServiceInv'
  OBVIOUS
<1>1. DOMAIN ifaces = 1 .. Len(ifaces) /\ Len(ifaces) \in Nat
  BY DEF ServiceInv, ServiceTyped
<1>2. i = Len(ifaces) + 1 /\ \A k \in DOMAIN ifaces : ifaces[k].addr \in present
  BY <1>1 DEF removed, ServiceInv, Removing
<1> QED BY <1>2 DEF ServiceInv, ServiceTyped, ClientsApart, IfacesApart,
              UsedOpen, Removing, Serving, Live, removed

LEMMA SelectStep ==
    ServiceInv /\ (select \/ selectFails \/ processEnds) => ServiceInv'
<1> SUFFICES ASSUME ServiceInv, select \/ selectFails \/ processEnds PROVE ServiceInv'
  OBVIOUS
<1>3. CASE processEnds
  <2>1. /\ pc' = "ended" /\ pc # "ended"
        /\ UNCHANGED <<i, clients, numClients, ifaces, existing, present, readfds,
                       open, served, asked>>
    BY <1>3 DEF processEnds
  <2>2. ServiceTyped'
    BY <2>1 DEF ServiceInv, ServiceTyped
  <2>3. ClientsApart' /\ IfacesApart' /\ UsedOpen' /\ Removing'
    BY <2>1 DEF ServiceInv, ClientsApart, IfacesApart, UsedOpen, Removing, Live
  <2>4. Serving'
    BY <2>1 DEF ServiceInv, Serving
  <2> QED BY <2>2, <2>3, <2>4 DEF ServiceInv
<1>1. CASE selectFails
  BY <1>1 DEF ServiceInv, ServiceTyped, ClientsApart, IfacesApart, UsedOpen,
              Removing, Serving, Live, selectFails
<1>2. CASE select
  <2>1. /\ \A k \in Live : clients[k].sock \in open
        /\ \A k \in DOMAIN ifaces : ifaces[k].sock \in open
    BY <1>2, SelectedIs DEF select
  <2>2. Live' = Live
    BY <1>2 DEF select, Live
  <2>3. ServiceTyped' /\ ClientsApart' /\ IfacesApart'
    <3>1. pc' \in {"accept", "clients"} /\ i' \in Nat
      BY <1>2 DEF select
    <3> QED BY <1>2, <3>1, <2>2
           DEF ServiceInv, ServiceTyped, ClientsApart, IfacesApart, select
  <2>4. UsedOpen' /\ Removing'
    BY <1>2, <2>1, <2>2 DEF UsedOpen, Removing, select
  <2>5. Serving'
    <3>1. \A k \in Live : clients[k].sock \in Socks /\ served[clients[k].sock] = 0
      BY <1>2, <2>1 DEF ServiceInv, ServiceTyped, Serving, select
    <3>2. \A k \in Live : ~(k < 0)
      BY DEF Live
    <3>3. /\ i' = 0 /\ pc' \in {"accept", "clients"} /\ served' = served
          /\ clients' = clients /\ numClients' = numClients /\ numClients \in Nat
          /\ \A s \in Socks : served[s] = 0
      BY <1>2, ServiceAssumption DEF ServiceInv, ServiceTyped, Serving, select
    <3> QED BY <2>2, <3>1, <3>2, <3>3 DEF Serving
  <2> QED BY <2>3, <2>4, <2>5 DEF ServiceInv
<1> QED BY <1>1, <1>2, <1>3

LEMMA QuietStep == ServiceInv /\ (clientQuiet \/ clientsDone) => ServiceInv'
<1> SUFFICES ASSUME ServiceInv, clientQuiet \/ clientsDone PROVE ServiceInv'
  OBVIOUS
<1>1. CASE clientQuiet
  <2>1. /\ pc = "clients" /\ i < numClients /\ i' = i + 1 /\ numClients \in Nat
        /\ i \in 0 .. numClients /\ i' \in 0 .. numClients /\ i \in Live
        /\ clients[i].sock \notin readfds /\ Live' = Live
        /\ UNCHANGED <<pc, clients, numClients, ifaces, existing, present,
                       readfds, open, sockRaw, served, asked>>
    BY <1>1, ServiceAssumption
       DEF clientQuiet, Current, ServiceInv, ServiceTyped, Serving, Live
  <2>2. \A k \in Live : k \in Int /\ (k # i => (k < i' <=> k < i))
    BY <2>1 DEF Live
  <2>3. Serving'
    BY <2>1, <2>2 DEF ServiceInv, Serving
  <2>4. ServiceTyped' /\ ClientsApart' /\ IfacesApart' /\ UsedOpen' /\ Removing'
    BY <2>1 DEF ServiceInv, ServiceTyped, ClientsApart, IfacesApart, UsedOpen,
                Removing
  <2> QED BY <2>3, <2>4 DEF ServiceInv
<1>2. CASE clientsDone
  <2>1. served' \in [Socks -> Nat] /\ \A s \in Socks : served'[s] = 0
    BY <1>2 DEF clientsDone
  <2> QED BY <1>2, <2>1 DEF ServiceInv, ServiceTyped, ClientsApart, IfacesApart,
                UsedOpen, Removing, Serving, Live, clientsDone
<1> QED BY <1>1, <1>2

LEMMA AddStep == ServiceInv /\ addInterfaces => ServiceInv'
<1> SUFFICES ASSUME ServiceInv, addInterfaces PROVE ServiceInv'
  OBVIOUS
<1> DEFINE known == {ifaces[k].addr : k \in DOMAIN ifaces}
<1>0. PICK n \in 0 .. MaxInterfaces - Len(ifaces) :
         \E added \in [1 .. n -> [addr : present' \ known, sock : Closed]] :
            /\ \A k, l \in 1 .. n : k # l => added[k].addr # added[l].addr
                                          /\ added[k].sock # added[l].sock
            /\ ifaces' = ifaces \o added
            /\ open' = open \cup {added[k].sock : k \in 1 .. n}
  BY DEF addInterfaces
<1>1. PICK added \in [1 .. n -> [addr : present' \ known, sock : Closed]] :
         /\ \A k, l \in 1 .. n : k # l => added[k].addr # added[l].addr
                                       /\ added[k].sock # added[l].sock
         /\ ifaces' = ifaces \o added
         /\ open' = open \cup {added[k].sock : k \in 1 .. n}
  BY <1>0
<1>2. /\ pc = "query" /\ pc' = "remove" /\ i' = 1 /\ present' \subseteq IfAddrs
      /\ existing' = {k \in DOMAIN ifaces' : ifaces'[k].addr \in present'}
      /\ UNCHANGED <<clients, numClients, readfds, sockRaw, served, asked>>
  BY DEF addInterfaces
<1>3. ifaces \in Seq(Ifaces) /\ Len(ifaces) \in Nat /\ DOMAIN ifaces = 1 .. Len(ifaces)
  BY DEF ServiceInv, ServiceTyped
<1>4. n \in Nat
  BY <1>3, ServiceAssumption
<1>5. \A k \in 1 .. n : added[k].addr \in present' \ known /\ added[k].sock \in Closed
  BY <1>1
<1>6. added \in Seq(Ifaces) /\ Len(added) = n
  <2>1. \A k \in 1 .. n : added[k] \in Ifaces
    BY <1>1, <1>2 DEF Ifaces, Closed
  <2>2. added \in [1 .. n -> Ifaces]
    BY <1>1, <2>1
  <2> QED BY <1>4, <2>2, SeqDef, LenProperties
<1>7. /\ ifaces' \in Seq(Ifaces) /\ Len(ifaces') = Len(ifaces) + n
      /\ DOMAIN ifaces' = 1 .. Len(ifaces) + n
      /\ \A k \in 1 .. Len(ifaces) : ifaces'[k] = ifaces[k]
      /\ \A k \in Len(ifaces) + 1 .. Len(ifaces) + n :
            k - Len(ifaces) \in 1 .. n /\ ifaces'[k] = added[k - Len(ifaces)]
  <2>1. /\ ifaces' \in Seq(Ifaces) /\ Len(ifaces') = Len(ifaces) + Len(added)
        /\ \A k \in 1 .. Len(ifaces) + Len(added) : ifaces'[k] =
              IF k <= Len(ifaces) THEN ifaces[k] ELSE added[k - Len(ifaces)]
    BY <1>1, <1>3, <1>6, ConcatProperties
  <2>2. DOMAIN ifaces' = 1 .. Len(ifaces) + n
    BY <1>6, <2>1, LenProperties
  <2>3. \A k \in 1 .. Len(ifaces) : ifaces'[k] = ifaces[k]
    BY <1>3, <1>4, <1>6, <2>1
  <2>4. \A k \in Len(ifaces) + 1 .. Len(ifaces) + n :
           k - Len(ifaces) \in 1 .. n /\ ifaces'[k] = added[k - Len(ifaces)]
    BY <1>3, <1>4, <1>6, <2>1
  <2> QED BY <1>6, <2>1, <2>2, <2>3, <2>4
<1>8. Live' = Live /\ \A k \in Live : clients'[k] = clients[k]
  BY <1>2 DEF Live
<1>9. /\ \A k \in Live : clients[k].sock \in open \cup {NoSock}
      /\ \A k \in DOMAIN ifaces : ifaces[k].sock \in open
  BY <1>2 DEF ServiceInv, UsedOpen
<1>10. ServiceTyped'
  <2>1. open' \subseteq Socks
    BY <1>1, <1>5 DEF ServiceInv, ServiceTyped, Closed
  <2> QED BY <1>2, <1>7, <2>1 DEF ServiceInv, ServiceTyped
<1>11. ClientsApart'
  BY <1>2, <1>8 DEF ServiceInv, ClientsApart
<1>12. IfacesApart'
  <2>1. ASSUME NEW k \in DOMAIN ifaces', NEW l \in DOMAIN ifaces', k < l
        PROVE  ifaces'[k].addr # ifaces'[l].addr /\ ifaces'[k].sock # ifaces'[l].sock
    <3>1. CASE l <= Len(ifaces)
      BY <1>3, <1>7, <2>1, <3>1 DEF ServiceInv, IfacesApart
    <3>2. CASE k <= Len(ifaces) /\ l > Len(ifaces)
      <4>1. ifaces'[k] = ifaces[k] /\ k \in DOMAIN ifaces
        BY <1>3, <1>7, <3>2
      <4>2. PICK m \in 1 .. n : ifaces'[l] = added[m]
        BY <1>3, <1>7, <3>2
      <4> QED BY <1>5, <1>9, <4>1, <4>2 DEF Closed
    <3>3. CASE k > Len(ifaces)
      BY <1>1, <1>3, <1>7, <2>1, <3>3
    <3> QED BY <1>3, <1>4, <1>7, <3>1, <3>2, <3>3
  <2>2. ASSUME NEW k \in DOMAIN ifaces', NEW l \in Live
        PROVE  ifaces'[k].sock # clients[l].sock
    <3>1. CASE k <= Len(ifaces)
      BY <1>3, <1>7, <3>1 DEF ServiceInv, IfacesApart
    <3>2. CASE k > Len(ifaces)
      <4>1. PICK m \in 1 .. n : ifaces'[k] = added[m]
        BY <1>3, <1>7, <3>2
      <4> QED BY <1>5, <1>9, <4>1, NoSockIs DEF Closed
    <3> QED BY <1>3, <1>4, <1>7, <3>1, <3>2
  <2>3. ASSUME NEW k \in DOMAIN ifaces', NEW l \in DOMAIN ifaces', k # l
        PROVE  ifaces'[k].addr # ifaces'[l].addr /\ ifaces'[k].sock # ifaces'[l].sock
    <3>1. k \in Int /\ l \in Int
      BY <1>3, <1>4, <1>7
    <3> QED BY <2>1, <2>3, <3>1
  <2> QED BY <1>2, <1>8, <2>2, <2>3 DEF IfacesApart
<1>13. Removing'
  BY <1>2, <1>3, <1>4, <1>7 DEF Removing
<1>14. UsedOpen' /\ Serving'
  BY <1>2 DEF ServiceInv, UsedOpen, Serving
<1> QED BY <1>10, <1>11, <1>12, <1>13, <1>14 DEF ServiceInv

LEMMA RemoveStep == ServiceInv /\ removeInterface => ServiceInv'
<1> SUFFICES ASSUME ServiceInv, removeInterface PROVE ServiceInv'
  OBVIOUS
<1>1. /\ pc = "remove" /\ i \in 1 .. Len(ifaces) /\ i <= Len(ifaces)
      /\ UNCHANGED <<pc, clients, numClients, present, readfds, sockRaw, served,
                     asked>>
  BY DEF removeInterface, ServiceInv, ServiceTyped, Removing
<1>2. ifaces \in Seq(Ifaces) /\ Len(ifaces) \in Nat /\ DOMAIN ifaces = 1 .. Len(ifaces)
  BY DEF ServiceInv, ServiceTyped
<1>3. Live' = Live /\ UsedOpen' /\ Serving'
  BY <1>1 DEF ServiceInv, UsedOpen, Serving, Live
<1>4. ClientsApart'
  BY <1>1, <1>3 DEF ServiceInv, ClientsApart
<1>5. CASE i \in existing /\ i' = i + 1 /\ UNCHANGED <<ifaces, existing, open>>
  <2>1. ServiceTyped' /\ IfacesApart'
    BY <1>1, <1>2, <1>3, <1>5 DEF ServiceInv, ServiceTyped, IfacesApart
  <2>2. ifaces[i].addr \in present
    BY <1>1, <1>2, <1>5 DEF ServiceInv, Removing
  <2>3. Removing'
    BY <1>1, <1>2, <1>5, <2>2 DEF ServiceInv, Removing
  <2> QED BY <1>3, <1>4, <2>1, <2>3 DEF ServiceInv
<1>6. CASE /\ i \notin existing
           /\ ifaces' = SubSeq([ifaces EXCEPT ![i] = ifaces[Len(ifaces)]],
                               1, Len(ifaces) - 1)
           /\ existing' = IF Len(ifaces) \in existing THEN existing \cup {i}
                          ELSE existing
           /\ open' = open \ {sockRaw}
           /\ UNCHANGED i
  <2>1. /\ ifaces' \in Seq(Ifaces) /\ Len(ifaces') = Len(ifaces) - 1
        /\ DOMAIN ifaces' = 1 .. Len(ifaces) - 1
        /\ \A k \in DOMAIN ifaces' :
              ifaces'[k] = IF k = i THEN ifaces[Len(ifaces)] ELSE ifaces[k]
    BY <1>1, <1>2, <1>6, LastMoves
  <2>2. ServiceTyped'
    BY <1>1, <1>6, <2>1 DEF ServiceInv, ServiceTyped
  <2>3. IfacesApart'
    BY <1>1, <1>2, <1>3, <2>1 DEF ServiceInv, IfacesApart
  <2>4. Removing'
    <3>1. \A k \in DOMAIN ifaces :
             k < i \/ k \in existing => ifaces[k].addr \in present
      BY <1>1 DEF ServiceInv, Removing
    <3>2. ASSUME NEW k \in DOMAIN ifaces', k < i \/ k \in existing'
          PROVE  ifaces'[k].addr \in present
      <4>1. k \in DOMAIN ifaces /\ Len(ifaces) \in DOMAIN ifaces /\ k < Len(ifaces)
        BY <1>1, <1>2, <2>1
      <4>2. CASE k = i
        <5>1. Len(ifaces) \in existing
          BY <1>1, <1>6, <3>2, <4>2
        <5> QED BY <2>1, <3>1, <4>1, <4>2, <5>1
      <4>3. CASE k # i
        BY <1>6, <2>1, <3>1, <3>2, <4>1, <4>3
      <4> QED BY <4>2, <4>3
    <3> QED BY <1>1, <1>2, <1>6, <2>1, <3>2 DEF Removing
  <2> QED BY <1>3, <1>4, <2>2, <2>3, <2>4 DEF ServiceInv
<1> QED BY <1>5, <1>6 DEF removeInterface

LEMMA AcceptStep == ServiceInv /\ accept => ServiceInv'
<1> SUFFICES ASSUME ServiceInv, accept PROVE ServiceInv'
  OBVIOUS
<1>1. /\ pc = "accept" /\ i = 0
      /\ UNCHANGED <<i, ifaces, existing, present, sockRaw, served>>
  BY DEF accept, ServiceInv, Serving
<1>2. CASE numClients = MaxClients /\ pc' = "clients"
           /\ UNCHANGED <<clients, numClients, readfds, open, asked>>
  BY <1>1, <1>2 DEF ServiceInv, ServiceTyped, ClientsApart, IfacesApart,
                    UsedOpen, Removing, Serving, Live
<1>3. CASE /\ numClients < MaxClients
           /\ \E s \in Closed \cup {NoSock} :
                 /\ clients' = [clients EXCEPT ![numClients] = NewClient(s)]
                 /\ open' = open \cup ({s} \cap Socks)
                 /\ asked' = [asked EXCEPT ![s] = 0]
           /\ numClients' = numClients + 1 /\ pc' = "query" /\ readfds' = {}
  <2>1. PICK s \in Closed \cup {NoSock} :
           /\ clients' = [clients EXCEPT ![numClients] = NewClient(s)]
           /\ open' = open \cup ({s} \cap Socks)
           /\ asked' = [asked EXCEPT ![s] = 0]
    BY <1>3
  <2>2. s \in Socks \cup {NoSock} /\ s \notin open
    BY NoSockIs DEF Closed, ServiceInv, ServiceTyped
  <2>3. numClients \in Nat /\ numClients \in Slots /\ numClients' \in 0 .. MaxClients
    BY <1>3, ServiceAssumption DEF ServiceInv, ServiceTyped, Slots
  <2>4. ServiceTyped'
    <3>1. clients' \in [Slots -> Clients]
      BY <2>1, <2>2 DEF ServiceInv, ServiceTyped, Clients, NewClient
    <3>2. asked' \in [Socks \cup {NoSock} -> Ports \cup {0}]
      BY <2>1, <2>2 DEF ServiceInv, ServiceTyped
    <3> QED BY <1>1, <1>3, <2>1, <2>2, <2>3, <3>1, <3>2 DEF ServiceInv, ServiceTyped
  <2>5. /\ Live' = Live \cup {numClients} /\ numClients \notin Live
        /\ \A k \in Live : clients'[k] = clients[k] /\ k \in Slots
        /\ clients'[numClients].sock = s /\ clients'[numClients].filterPort = 0
    BY <1>3, <2>1, <2>3, ServiceAssumption
       DEF ServiceInv, ServiceTyped, Live, Slots, NewClient
  <2>6. /\ \A k \in Live : clients[k].sock \in open
        /\ \A k \in DOMAIN ifaces : ifaces[k].sock \in open
        /\ open \subseteq Socks
    BY <1>1 DEF ServiceInv, UsedOpen, ServiceTyped
  <2>7. asked'[s] = 0 /\ \A r \in open : asked'[r] = asked[r]
    BY <2>1, <2>2, <2>6 DEF ServiceInv, ServiceTyped
  <2>8. ClientsApart'
    BY <2>2, <2>5, <2>6, <2>7 DEF ServiceInv, ClientsApart
  <2>9. IfacesApart' /\ UsedOpen'
    BY <1>1, <1>3, <2>1, <2>2, <2>5, <2>6 DEF ServiceInv, IfacesApart, UsedOpen
  <2>10. Removing' /\ Serving'
    BY <1>1, <1>3 DEF ServiceInv, Removing, Serving
  <2> QED BY <2>4, <2>8, <2>9, <2>10 DEF ServiceInv
<1> QED BY <1>2, <1>3 DEF accept

\* What a command does.
LEMMA CommandStep ==
    ASSUME ServiceInv, NEW cmd \in Commands, processCommand(cmd), i \in Slots
    PROVE  \/ clients' = clients
           \/ /\ cmd.to = 0 /\ cmd.fromport \in Ports
              /\ clients' = [clients EXCEPT ![i].filterPort = cmd.fromport]
BY DEF processCommand, Commands

LEMMA ReadStep == ServiceInv /\ clientRead => ServiceInv'
<1> SUFFICES ASSUME ServiceInv, clientRead PROVE ServiceInv'
  OBVIOUS
<1>1. /\ pc = "clients" /\ i < numClients /\ clients[i].sock \in readfds
      /\ served' = [served EXCEPT ![clients[i].sock] = @ + 1]
      /\ i' = i + 1
      /\ UNCHANGED <<pc, numClients, ifaces, existing, present, readfds, open,
                     sockRaw>>
  BY DEF clientRead, Current, Served
<1>2. i \in Live /\ clients[i].sock \in Socks /\ Live' = Live /\ Live \subseteq Slots
  BY <1>1, ServiceAssumption
     DEF ServiceInv, ServiceTyped, UsedOpen, Live, Slots
<1>3. PICK s \in Socks : s = clients[i].sock
  BY <1>2
<1>a. clients \in [Slots -> Clients] /\ asked \in [Socks \cup {NoSock} -> Ports \cup {0}]
  BY DEF ServiceInv, ServiceTyped
<1>b. /\ \A k \in Live : k # i => clients[k].sock # s
      /\ \A k \in Live : clients[k].sock \in Socks
      /\ \A k \in Live : clients[k].split
                          \/ clients[k].filterPort = asked[clients[k].sock]
  BY <1>1, <1>2, <1>3 DEF ServiceInv, ServiceTyped, ClientsApart, UsedOpen
<1>c. ASSUME NEW port \in Ports, clients' = [clients EXCEPT ![i].filterPort = port]
      PROVE  /\ clients' \in [Slots -> Clients]
             /\ clients'[i].sock = s /\ clients'[i].filterPort = port
             /\ (clients'[i].split <=> clients[i].split)
             /\ \A k \in Slots \ {i} : clients'[k] = clients[k]
  BY <1>2, <1>3, <1>a, <1>c DEF Clients
<1>d. ASSUME NEW cmd \in Commands, Asks(cmd)
      PROVE  /\ asked' \in [Socks \cup {NoSock} -> Ports \cup {0}]
             /\ \A r \in Socks \ {s} : asked'[r] = asked[r]
             /\ asked'[s] = IF cmd.to = 0 THEN cmd.fromport ELSE asked[s]
  <2>1. CASE cmd.to = 0
    <3>1. asked' = [asked EXCEPT ![s] = cmd.fromport] /\ cmd.fromport \in Ports
      BY <1>3, <1>d, <2>1 DEF Asks, Commands, Current
    <3> QED BY <1>a, <2>1, <3>1
  <2>2. CASE cmd.to # 0
    BY <1>a, <1>d, <2>2 DEF Asks
  <2> QED BY <2>1, <2>2
<1>4. /\ clients' \in [Slots -> Clients]
      /\ asked' \in [Socks \cup {NoSock} -> Ports \cup {0}]
      /\ \A k \in Live : clients'[k].sock = clients[k].sock
      /\ \A k \in Live : clients'[k].split
                          \/ clients'[k].filterPort = asked'[clients[k].sock]
  <2>1. CASE UNCHANGED <<clients, asked>>
    BY <1>a, <1>b, <2>1
  <2>2. CASE clients' = [clients EXCEPT ![i].split = TRUE] /\ UNCHANGED asked
    <3>1. /\ clients' \in [Slots -> Clients]
          /\ clients'[i].sock = s /\ clients'[i].split
          /\ \A k \in Slots \ {i} : clients'[k] = clients[k]
      BY <1>2, <1>3, <1>a, <2>2 DEF Clients
    <3> QED BY <1>2, <1>3, <1>a, <1>b, <2>2, <3>1
  <2>3. ASSUME NEW cmd \in Commands, Asks(cmd),
               \/ processCommand(cmd)
               \/ Current.split /\ \E c \in Commands : processCommand(c)
               \/ Current.split /\ UNCHANGED clients
        PROVE  /\ clients' \in [Slots -> Clients]
               /\ \A k \in Live : clients'[k].sock = clients[k].sock
               /\ \A k \in Live : clients'[k].split
                                   \/ clients'[k].filterPort = asked'[clients[k].sock]
    <3>1. \A k \in Live : k # i => asked'[clients[k].sock] = asked[clients[k].sock]
      BY <1>b, <1>d, <2>3
    <3>2. CASE processCommand(cmd)
      <4>1. CASE cmd.to = 0
        <5>1. /\ cmd.fromport \in Ports
              /\ clients' = [clients EXCEPT ![i].filterPort = cmd.fromport]
          BY <3>2, <4>1 DEF processCommand, Commands
        <5>2. clients'[i].filterPort = asked'[s]
          BY <1>c, <1>d, <2>3, <4>1, <5>1
        <5> QED BY <1>2, <1>3, <1>b, <1>c, <3>1, <5>1, <5>2
      <4>2. CASE cmd.to # 0
        <5>1. clients' = clients /\ asked' = asked
          BY <2>3, <3>2, <4>2 DEF processCommand, Asks
        <5> QED BY <1>a, <1>b, <5>1
      <4> QED BY <4>1, <4>2
    <3>3. CASE clients[i].split /\ clients' = clients
      BY <1>2, <1>3, <1>a, <1>b, <3>1, <3>3
    <3>4. CASE clients[i].split /\ \E c \in Commands : processCommand(c)
      <4>1. PICK c \in Commands : processCommand(c)
        BY <3>4
      <4>2. CASE clients' = clients
        BY <3>3, <3>4, <4>2
      <4>3. CASE c.fromport \in Ports
                 /\ clients' = [clients EXCEPT ![i].filterPort = c.fromport]
        BY <1>2, <1>3, <1>b, <1>c, <3>1, <3>4, <4>3
      <4> QED BY <1>2, <4>1, <4>2, <4>3, CommandStep
    <3> QED BY <2>3, <3>2, <3>3, <3>4 DEF Current
  <2> QED BY <1>d, <2>1, <2>2, <2>3 DEF clientRead
<1>5. /\ served' \in [Socks -> Nat] /\ served'[s] = served[s] + 1
      /\ \A r \in Socks \ {s} : served'[r] = served[r]
  BY <1>1, <1>3 DEF ServiceInv, ServiceTyped
<1>6. ServiceTyped'
  BY <1>1, <1>4, <1>5 DEF ServiceInv, ServiceTyped
<1>7. ClientsApart' /\ IfacesApart' /\ UsedOpen'
  BY <1>1, <1>2, <1>4 DEF ServiceInv, ClientsApart, IfacesApart, UsedOpen
<1>8. Serving'
  <2>1. ASSUME NEW k \in Live
        PROVE  served'[clients[k].sock] =
                   IF k < i' /\ clients[k].sock \in readfds THEN 1 ELSE 0
    <3>1. served[clients[k].sock] =
              IF k < i /\ clients[k].sock \in readfds THEN 1 ELSE 0
      BY <1>1 DEF ServiceInv, Serving
    <3>2. CASE k = i
      BY <1>1, <1>2, <1>3, <1>5, <3>1, <3>2 DEF ServiceInv, ServiceTyped
    <3>3. CASE k # i
      <4>1. clients[k].sock \in Socks \ {s}
        BY <1>b, <3>3
      <4>2. k \in Int /\ i \in Int
        BY <1>2 DEF Live
      <4> QED BY <1>1, <1>5, <3>1, <3>3, <4>1, <4>2
    <3> QED BY <3>2, <3>3
  <2>2. i' \in 0 .. numClients
    BY <1>1, <1>2 DEF ServiceInv, Serving, Live, ServiceTyped
  <2> QED BY <1>1, <1>2, <1>4, <2>1, <2>2 DEF Serving
<1>9. Removing'
  BY <1>1 DEF Removing
<1> QED BY <1>6, <1>7, <1>8, <1>9 DEF ServiceInv

LEMMA GoneStep == ServiceInv /\ clientGone => ServiceInv'
<1> SUFFICES ASSUME ServiceInv, clientGone PROVE ServiceInv'
  OBVIOUS
<1> DEFINE n == numClients - 1
<1>1. /\ pc = "clients" /\ i < numClients /\ clients[i].sock \in readfds
      /\ served' = [served EXCEPT ![clients[i].sock] = @ + 1]
      /\ open' = open \ {clients[i].sock}
      /\ numClients' = n
      /\ clients' = [clients EXCEPT ![i] = clients[n]]
      /\ asked' = [asked EXCEPT ![clients[i].sock] = 0]
      /\ UNCHANGED <<pc, i, ifaces, existing, present, readfds, sockRaw>>
  BY DEF clientGone, Current, Served
<1>2. /\ i \in Live /\ n \in Live /\ n \in Nat /\ Live \subseteq Slots
      /\ numClients \in Nat /\ i \in Nat /\ i <= n
  BY <1>1, ServiceAssumption DEF ServiceInv, ServiceTyped, Live, Slots
<1>3. Live' = 0 .. n - 1 /\ Live' \subseteq Live /\ n \notin Live'
  BY <1>1, <1>2 DEF Live
<1>4. PICK s \in Socks : s = clients[i].sock
  BY <1>1, <1>2 DEF ServiceInv, ServiceTyped, UsedOpen
<1>a. /\ \A k \in Live : clients[k].sock \in Socks
      /\ \A k \in Live : k # i => clients[k].sock # s
      /\ asked' \in [Socks \cup {NoSock} -> Ports \cup {0}]
      /\ \A r \in Socks \ {s} : asked'[r] = asked[r]
  BY <1>1, <1>2, <1>4 DEF ServiceInv, ServiceTyped, ClientsApart, UsedOpen
<1>5. \A k \in Live' : clients'[k] = IF k = i THEN clients[n] ELSE clients[k]
  BY <1>1, <1>2, <1>3 DEF ServiceInv, ServiceTyped
<1>6. /\ served' \in [Socks -> Nat]
      /\ \A r \in Socks \ {s} : served'[r] = served[r]
  BY <1>1, <1>4 DEF ServiceInv, ServiceTyped
<1>7. clients' \in [Slots -> Clients]
  BY <1>1, <1>2 DEF ServiceInv, ServiceTyped
<1>8. ServiceTyped'
  <2>1. n \in 0 .. MaxClients
    BY <1>1, <1>2, ServiceAssumption DEF ServiceInv, ServiceTyped
  <2> HIDE DEF n
  <2> QED BY <1>1, <1>6, <1>7, <1>a, <2>1 DEF ServiceInv, ServiceTyped
<1>9. \A k \in Live' : \E l \in Live : l # i /\ clients'[k] = clients[l]
  BY <1>2, <1>3, <1>5
<1>10. ClientsApart'
  <2>1. ASSUME NEW k \in Live'
        PROVE  clients'[k].split \/ clients'[k].filterPort = asked'[clients'[k].sock]
    <3>1. PICK l \in Live : l # i /\ clients'[k] = clients[l]
      BY <1>9
    <3>2. clients[l].split \/ clients[l].filterPort = asked[clients[l].sock]
      BY DEF ServiceInv, ClientsApart
    <3> QED BY <1>a, <3>1, <3>2
  <2>2. ASSUME NEW k \in Live', NEW l \in Live', clients'[k].sock = clients'[l].sock
        PROVE  k = l
    BY <1>2, <1>3, <1>5, <2>2 DEF ServiceInv, ClientsApart
  <2> QED BY <2>1, <2>2 DEF ClientsApart
<1>11. IfacesApart'
  BY <1>1, <1>3, <1>9 DEF ServiceInv, IfacesApart
<1>12. UsedOpen'
  <2>1. /\ \A k \in Live : clients[k].sock \in open
        /\ \A k \in DOMAIN ifaces : ifaces[k].sock \in open
    BY <1>1 DEF ServiceInv, UsedOpen
  <2>2. \A k \in Live' : clients'[k].sock \in open'
    BY <1>1, <1>2, <1>9, <2>1 DEF ServiceInv, ClientsApart
  <2>3. \A k \in DOMAIN ifaces : ifaces[k].sock \in open'
    BY <1>1, <1>2, <2>1 DEF ServiceInv, IfacesApart
  <2> QED BY <1>1, <2>2, <2>3 DEF UsedOpen
<1>13. Serving'
  <2>1. ASSUME NEW k \in Live'
        PROVE  served'[clients'[k].sock] =
                   IF k < i /\ clients'[k].sock \in readfds THEN 1 ELSE 0
    <3>1. PICK l \in Live : /\ l # i /\ clients'[k] = clients[l]
                            /\ l = IF k = i THEN n ELSE k
      BY <1>2, <1>3, <1>5
    <3>2. clients[l].sock \in Socks \ {s}
      BY <1>a, <3>1
    <3>3. served[clients[l].sock] =
              IF l < i /\ clients[l].sock \in readfds THEN 1 ELSE 0
      BY <1>1 DEF ServiceInv, Serving
    <3>4. (l < i) = (k < i)
      BY <1>2, <3>1
    <3> QED BY <1>6, <3>1, <3>2, <3>3, <3>4
  <2>2. i' \in 0 .. numClients'
    BY <1>1, <1>2
  <2> QED BY <1>1, <2>1, <2>2 DEF Serving
<1>14. Removing'
  BY <1>1 DEF Removing
<1> QED BY <1>8, <1>10, <1>11, <1>12, <1>13, <1>14 DEF ServiceInv
-----------------------------------------------------------------------------
LEMMA ServiceInvHolds == ServiceSpec => []ServiceInv
<1>1. ServiceInv /\ [ServiceNext]_iVars => ServiceInv'
  <2> SUFFICES ASSUME ServiceInv, [ServiceNext]_iVars PROVE ServiceInv'
    OBVIOUS
  <2>1. CASE UNCHANGED iVars
    BY <2>1 DEF iVars, ServiceInv, ServiceTyped, ClientsApart, IfacesApart,
                UsedOpen, Removing, Serving, Live
  <2>2. CASE ServiceNext
    BY <2>2, KeepStep, AddStep, RemoveStep, RemovedStep, SelectStep, AcceptStep,
       ReadStep, GoneStep, QuietStep DEF ServiceNext
  <2> QED BY <2>1, <2>2
<1> QED BY <1>1, ServiceInitInv, PTL DEF ServiceSpec

\* Until an interface has vanished the socket for sending is open, and nobody
\* else's: what is given out is closed before, and what is closed is a client's.
RawOwn ==
    raw = "open" =>
        /\ sockRaw \in open
        /\ \A k \in Live : clients[k].sock # sockRaw
        /\ \A k \in DOMAIN ifaces : ifaces[k].sock # sockRaw

LEMMA ReadKeepsSocks ==
    ServiceInv /\ clientRead => \A k \in Live : clients'[k].sock = clients[k].sock
<1> SUFFICES ASSUME ServiceInv, clientRead, NEW k \in Live
             PROVE  clients'[k].sock = clients[k].sock
  OBVIOUS
<1>1. /\ i \in Live /\ Live \subseteq Slots /\ clients \in [Slots -> Clients]
      /\ numClients \in Nat
  BY ServiceAssumption
     DEF clientRead, ServiceInv, ServiceTyped, Serving, Live, Slots
<1>2. \/ clients' = clients
      \/ clients' = [clients EXCEPT ![i].split = TRUE]
      \/ \E port \in Ports : clients' = [clients EXCEPT ![i].filterPort = port]
  BY <1>1, CommandStep DEF clientRead
<1>3. CASE clients' = [clients EXCEPT ![i].split = TRUE]
  BY <1>1, <1>3 DEF Clients
<1>4. ASSUME NEW port \in Ports, clients' = [clients EXCEPT ![i].filterPort = port]
      PROVE  clients'[k].sock = clients[k].sock
  BY <1>1, <1>4 DEF Clients
<1> QED BY <1>2, <1>3, <1>4

LEMMA RawStep == ServiceInv /\ RawOwn /\ [ServiceNext]_iVars => RawOwn'
<1> SUFFICES ASSUME ServiceInv, RawOwn, [ServiceNext]_iVars, raw' = "open"
             PROVE  /\ sockRaw' \in open'
                    /\ \A k \in Live' : clients'[k].sock # sockRaw'
                    /\ \A k \in DOMAIN ifaces' : ifaces'[k].sock # sockRaw'
  BY DEF RawOwn
<1>1. raw = "open" /\ sockRaw' = sockRaw
  BY DEF ServiceNext, iVars, keepInterfaces, addInterfaces, removeInterface,
         removed, select, selectFails, processEnds, accept, clientRead,
         clientGone, clientQuiet, clientsDone
<1>2. /\ sockRaw \in open /\ open \subseteq Socks
      /\ \A k \in Live : clients[k].sock # sockRaw
      /\ \A k \in DOMAIN ifaces : ifaces[k].sock # sockRaw
  BY <1>1 DEF RawOwn, ServiceInv, ServiceTyped
<1>3. CASE UNCHANGED <<clients, numClients, ifaces, open>>
  BY <1>1, <1>2, <1>3 DEF Live
<1>4. CASE addInterfaces
  <2> DEFINE known == {ifaces[k].addr : k \in DOMAIN ifaces}
  <2>1. PICK n \in 0 .. MaxInterfaces - Len(ifaces) :
           \E added \in [1 .. n -> [addr : present' \ known, sock : Closed]] :
              /\ ifaces' = ifaces \o added
              /\ open' = open \cup {added[k].sock : k \in 1 .. n}
    BY <1>4 DEF addInterfaces
  <2>2. PICK added \in [1 .. n -> [addr : present' \ known, sock : Closed]] :
           ifaces' = ifaces \o added /\ open' = open \cup {added[k].sock : k \in 1 .. n}
    BY <2>1
  <2>3. ifaces \in Seq(Ifaces) /\ Len(ifaces) \in Nat /\ n \in Nat
    BY ServiceAssumption DEF ServiceInv, ServiceTyped
  <2>4. added \in Seq(Ifaces) /\ Len(added) = n
    <3>1. present' \subseteq IfAddrs
      BY <1>4 DEF addInterfaces
    <3>2. added \in [1 .. n -> Ifaces]
      BY <2>2, <3>1 DEF Ifaces, Closed
    <3> QED BY <2>3, <3>2, SeqDef, LenProperties
  <2>5. ASSUME NEW k \in DOMAIN ifaces' PROVE ifaces'[k].sock # sockRaw
    <3>1. /\ k \in 1 .. Len(ifaces) + n
          /\ ifaces'[k] = IF k <= Len(ifaces) THEN ifaces[k]
                          ELSE added[k - Len(ifaces)]
      BY <2>2, <2>3, <2>4, ConcatProperties, LenProperties
    <3>2. CASE k <= Len(ifaces)
      BY <1>2, <2>3, <3>1, <3>2
    <3>3. CASE k > Len(ifaces)
      <4>1. k - Len(ifaces) \in 1 .. n
        BY <2>3, <3>1, <3>3
      <4>2. added[k - Len(ifaces)].sock \in Closed
        BY <4>1
      <4> QED BY <1>2, <2>3, <3>1, <3>3, <4>2 DEF Closed
    <3> QED BY <2>3, <3>1, <3>2, <3>3
  <2>6. Live' = Live /\ clients' = clients
    BY <1>4 DEF addInterfaces, Live
  <2> QED BY <1>1, <1>2, <2>2, <2>5, <2>6
<1>5. CASE accept /\ numClients' # numClients
  <2>1. PICK s \in Closed \cup {NoSock} :
           /\ clients' = [clients EXCEPT ![numClients] = NewClient(s)]
           /\ open' = open \cup ({s} \cap Socks)
    BY <1>5 DEF accept
  <2>2. numClients \in Slots /\ Live' = Live \cup {numClients} /\ Live \subseteq Slots
    BY <1>5, ServiceAssumption DEF accept, ServiceInv, ServiceTyped, Slots, Live
  <2>3. s # sockRaw /\ NewClient(s).sock = s
    BY <1>2, NoSockIs DEF Closed, NewClient
  <2>4. \A k \in Live' : clients'[k].sock # sockRaw
    BY <1>2, <2>1, <2>2, <2>3 DEF ServiceInv, ServiceTyped
  <2> QED BY <1>1, <1>2, <1>5, <2>1, <2>4 DEF accept
<1>6. CASE clientRead
  <2>1. Live' = Live /\ UNCHANGED <<ifaces, open>>
    BY <1>6 DEF clientRead, Live
  <2> QED BY <1>1, <1>2, <1>6, <2>1, ReadKeepsSocks
<1>7. CASE clientGone
  <2>1. /\ i \in Live /\ numClients - 1 \in Live /\ Live \subseteq Slots
        /\ Live' \subseteq Live
        /\ clients' = [clients EXCEPT ![i] = clients[numClients - 1]]
        /\ open' = open \ {clients[i].sock} /\ ifaces' = ifaces
    BY <1>7, ServiceAssumption
       DEF clientGone, Current, ServiceInv, ServiceTyped, Serving, Live, Slots
  <2>2. \A k \in Live' : clients'[k].sock # sockRaw
    BY <1>2, <2>1 DEF ServiceInv, ServiceTyped
  <2> QED BY <1>1, <1>2, <2>1, <2>2
<1>8. \/ UNCHANGED <<clients, numClients, ifaces, open>>
      \/ addInterfaces
      \/ accept /\ numClients' # numClients
      \/ clientRead
      \/ clientGone
  <2>1. CASE accept
    <3>1. numClients + 1 # numClients
      BY DEF ServiceInv, ServiceTyped
    <3> QED BY <2>1, <3>1 DEF accept
  <2>2. CASE removeInterface
    BY <1>1, <2>2 DEF removeInterface
  <2>3. CASE ~accept /\ ~removeInterface
    BY <2>3 DEF ServiceNext, iVars, keepInterfaces, removed, select, selectFails,
                processEnds, clientQuiet, clientsDone
  <2> QED BY <2>1, <2>2, <2>3
<1> QED BY <1>3, <1>4, <1>5, <1>6, <1>7, <1>8

\* A round reads each ready client once, also those moved to the place of one
\* that left; none is read whose socket was closed; the clients keep their
\* slots and sockets, and, if no header of theirs came in pieces, the port they
\* asked for; the interfaces have theirs; and until one has vanished the service
\* sends with a socket of its own.  So it is for tables of any size and any
\* reuse of sockets, also after Windows was told of a failure.
THEOREM ClientsAlwaysServed == ServiceSpec => []ClientsServed
<1>1. ServiceInv /\ RawOwn => ClientsServed
  <2> SUFFICES ASSUME ServiceInv, RawOwn PROVE ClientsServed
    OBVIOUS
  <2>1. ReadyServedOnce
    BY DEF ServiceInv, Serving, Live, ReadyServedOnce
  <2>2. ClientKeepsSlot
    BY SelectedIs DEF ServiceInv, ClientsApart, UsedOpen, Live, ClientKeepsSlot
  <2>3. IfacesMatch
    BY DEF ServiceInv, Removing, IfacesApart, Live, InUse, IfacesMatch
  <2>4. SendsOnRaw
    BY DEF RawOwn, Live, Selected, InUse, SendsOnRaw
  <2> QED BY <2>1, <2>2, <2>3, <2>4 DEF ClientsServed
<1>2. ServiceInit => RawOwn
  BY DEF ServiceInit, RawOwn, Live
<1> QED BY <1>1, <1>2, RawStep, ServiceInvHolds, PTL DEF ServiceSpec
-----------------------------------------------------------------------------
(* A request and its answer. *)

Ends == {"none", "open", "reset"}

Streams == [data : Seq(Bytes), eof : BOOLEAN, writer : Ends, reader : Ends,
            writing : BOOLEAN, shutting : BOOLEAN, reading : BOOLEAN]

SingleCycleConns ==
    [requestStr : Seq(Bytes), request : Strings, responseStr : Seq(Bytes),
     listening : BOOLEAN, responses : Nat, fails : Nat, alive : BOOLEAN]

Conns == [exists : BOOLEAN, sendReady : BOOLEAN, request : Seq(Bytes),
          response : Seq(Bytes), deletes : Nat, aborted : BOOLEAN]

CycleTyped ==
    /\ there \in Streams /\ back \in Streams
    /\ client \in SingleCycleConns /\ conn \in Conns
    /\ questions \in Seq(Seq(Bytes))

\* The two streams are connected one behind the other.
Connecting ==
    /\ there.writer = "none" => /\ there = NoStream
                                /\ ~client.listening /\ ~client.alive
                                /\ client.fails = 0
    /\ there.reader = "none" => /\ ~conn.exists /\ questions = <<>>
                                /\ back.writer = "none"
    /\ back.writer = "none" => /\ back.reader = "none"
                               /\ ~back.writing /\ ~back.shutting
    /\ conn.sendReady <=> back.writer # "none"
    /\ client.listening => back.reader = "none" /\ client.fails = 0

\* What the client waits for, and what it has heard.
Waiting ==
    /\ there.writing => ~there.eof /\ client.fails = 0
    /\ there.shutting => there.eof
    /\ client.alive /\ client.fails = 0 /\ ~there.eof => there.writing
    /\ back.reading => /\ back.reader = "open"
                       /\ client.responses = 0 /\ client.fails = 0
    /\ back.reader = "open" => back.reading \/ client.responses = 1
    /\ client.responses \in {0, 1}
    /\ client.responses = 1 =>
          back.eof /\ back.reader # "none" /\ client.fails = 0

\* The server's connection waits for one callback, and has been deleted once
\* when it waits for none.
Accounted ==
    /\ there.reading => there.reader = "open" /\ conn.exists /\ questions = <<>>
    /\ questions = <<>> => ~back.writing /\ ~back.shutting /\ ~back.eof
    /\ questions # <<>> => there.eof
    /\ ~(back.writing /\ back.shutting)
    /\ back.writing \/ back.shutting => conn.exists
    /\ conn.exists => there.reading \/ back.writing \/ back.shutting
    /\ conn.deletes = IF there.reader # "none" /\ ~conn.exists THEN 1 ELSE 0

\* What was sent is what was read and what is still to be read.
RequestRead ==
    /\ there.writer # "none" /\ there.reader # "reset" =>
          conn.request \o (there.data \o client.requestStr) =
              IF back.writer = "none" THEN Service \o client.request
              ELSE client.request
    /\ there.writer = "none" => client.requestStr = client.request
    /\ back.writer = "none" => conn.request = <<>>
    /\ there.eof => client.requestStr = <<>>
    /\ questions \in {<<>>, <<client.request>>}

ResponseRead ==
    /\ questions = <<>> => /\ conn.response = <<>> /\ client.responseStr = <<>>
                           /\ back.data = <<>>
    /\ back.reader # "reset" => client.responseStr \o back.data = conn.response
    /\ client.responses = 1 => client.responseStr = conn.response

SentIsRead == RequestRead /\ ResponseRead

CycleInv == CycleTyped /\ Connecting /\ Waiting /\ Accounted /\ SentIsRead
-----------------------------------------------------------------------------
LEMMA StringsTyped ==
    /\ Strings \subseteq Seq(Bytes) /\ Service \in Seq(Bytes) /\ <<>> \in Seq(Bytes)
<1>1. \A r \in Strings : r \in Seq(Bytes)
  BY StringsAssumption
<1>2. "high" \in Bytes /\ "low" \in Bytes
  BY DEF Bytes
<1>3. Service \in Seq(Bytes)
  BY <1>2 DEF Service
<1> QED BY <1>1, <1>3, EmptySeq

LEMMA EndsTyped ==
    ASSUME NEW s \in Streams
    PROVE  /\ WriterReset(s) \in Streams /\ ReaderReset(s) \in Streams
           /\ Shut(s) \in Streams /\ Connected(s) \in Streams
           /\ Accepted(s) \in Streams
           /\ \A x \in Seq(Bytes) : /\ Written(s, x) \in Streams
                                    /\ [s EXCEPT !.data = x] \in Streams
           /\ [s EXCEPT !.reader = "reset"] \in Streams
           /\ [s EXCEPT !.reading = FALSE] \in Streams
           /\ [s EXCEPT !.shutting = FALSE] \in Streams
<1>1. <<>> \in Seq(Bytes)
  BY EmptySeq
<1>2. \A x \in Seq(Bytes) : s.data \o x \in Seq(Bytes)
  BY PutBehind DEF Streams
<1> QED BY <1>1, <1>2
           DEF Streams, Ends, WriterReset, ReaderReset, Shut, Connected,
                      Accepted, Written

\* What is behind the service id, and what follows it.
LEMMA BehindId ==
    ASSUME NEW x \in Seq(Bytes), NEW y \in Seq(Bytes), Len(x) >= 2
    PROVE  Tail(Tail(x)) \in Seq(Bytes) /\ Tail(Tail(x \o y)) = Tail(Tail(x)) \o y
<1> DEFINE u == Tail(x)
<1>1. Len(x) \in Nat /\ x # <<>>
  BY EmptySeq, LenProperties
<1>2. u \in Seq(Bytes) /\ Len(u) = Len(x) - 1
  BY <1>1, HeadTailProperties
<1>3. Tail(x \o y) = u \o y
  BY <1>1, TailOfBoth
<1> HIDE DEF u
<1>4. u # <<>>
  BY <1>1, <1>2, EmptySeq
<1>5. Tail(u) \in Seq(Bytes)
  BY <1>2, <1>4, HeadTailProperties
<1>6. Tail(u \o y) = Tail(u) \o y
  BY <1>2, <1>4, TailOfBoth
<1> QED BY <1>3, <1>5, <1>6 DEF u

LEMMA CycleInitInv == CycleInit => CycleInv
<1> SUFFICES ASSUME CycleInit PROVE CycleInv
  OBVIOUS
<1>1. PICK q \in Strings :
         client = [requestStr |-> q, request |-> q, responseStr |-> <<>>,
                   listening |-> FALSE, responses |-> 0, fails |-> 0,
                   alive |-> FALSE]
  BY DEF CycleInit
<1>2. CycleTyped
  BY <1>1, StringsTyped, EmptySeq
     DEF CycleTyped, CycleInit, NoStream, Streams, Ends, SingleCycleConns, Conns
<1>3. <<>> \o <<>> = <<>>
  BY StringsTyped, PutBehind
<1> QED BY <1>1, <1>2, <1>3
           DEF CycleInit, CycleInv, Connecting, Waiting, Accounted,
                             SentIsRead, RequestRead, ResponseRead, NoStream

CycleFlags == Connecting /\ Waiting /\ Accounted


LEMMA FailFlags == CycleInv /\ (there.writing \/ back.reading) /\ Fail => CycleFlags'
<1> SUFFICES ASSUME CycleInv, (there.writing \/ back.reading) /\ Fail PROVE CycleFlags'
  OBVIOUS
<1> USE DEF CycleInv, CycleTyped, Streams, Ends, SingleCycleConns, Conns,
            Connecting, Waiting, Accounted, CycleFlags
<1>1. /\ there' = WriterReset(there) /\ back' = ReaderReset(back) /\ conn' = conn
      /\ questions' = questions
  BY DEF Fail
<1>2. /\ ~client'.listening /\ (client'.alive <=> client.alive)
      /\ client'.responses = client.responses
      /\ client'.fails > 0 /\ client'.fails \in Nat
  BY DEF Fail, Answers
<1>3. there.writer # "none"
  BY DEF NoStream
<1>4. /\ there'.writer = "reset" /\ there'.reader = there.reader
      /\ (there'.reading <=> there.reading) /\ (there'.eof <=> there.eof)
      /\ ~there'.writing /\ ~there'.shutting
  BY <1>1, <1>3 DEF WriterReset
<1>5. /\ back'.reader = IF back.reader = "none" THEN "none" ELSE "reset"
      /\ back'.writer = back.writer /\ (back'.writing <=> back.writing)
      /\ (back'.shutting <=> back.shutting) /\ (back'.eof <=> back.eof)
      /\ ~back'.reading
  BY <1>1 DEF ReaderReset
<1>6. client.responses = 0
  OBVIOUS
<1>7. Connecting'
  BY <1>1, <1>2, <1>3, <1>4, <1>5
<1>8. Waiting'
  BY <1>2, <1>4, <1>5, <1>6
<1>9. Accounted'
  BY <1>1, <1>4, <1>5
<1> QED BY <1>7, <1>8, <1>9

\* One callback is pending when the connection deletes itself.
LEMMA DeleteFlags ==
    CycleInv /\ (there.reading \/ back.writing \/ back.shutting) /\ Delete
    /\ (questions' = <<>> => questions = <<>>)
    /\ (questions' # <<>> => questions # <<>> \/ there.eof)
    => CycleFlags'
<1> SUFFICES ASSUME CycleInv, there.reading \/ back.writing \/ back.shutting, Delete,
                    questions' = <<>> => questions = <<>>,
                    questions' # <<>> => questions # <<>> \/ there.eof
             PROVE  CycleFlags'
  OBVIOUS
<1> USE DEF CycleInv, CycleTyped, Streams, Ends, SingleCycleConns, Conns,
            Connecting, Waiting, Accounted, CycleFlags
<1>1. /\ there' = ReaderReset(there) /\ back' = WriterReset(back) /\ client' = client
      /\ ~conn'.exists /\ (conn'.sendReady <=> conn.sendReady)
      /\ conn'.deletes = conn.deletes + Answers(there.reading)
                          + Answers(back.writing) + Answers(back.shutting)
  BY DEF Delete
<1>2. there.reader # "none" /\ there.writer # "none"
  BY DEF NoStream
<1>3. /\ there'.reader = "reset" /\ there'.writer = there.writer
      /\ (there'.writing <=> there.writing) /\ (there'.eof <=> there.eof)
      /\ (there'.shutting <=> there.shutting) /\ ~there'.reading
  BY <1>1, <1>2 DEF ReaderReset
<1>4. /\ back'.writer = IF back.writer = "none" THEN "none" ELSE "reset"
      /\ back'.reader = back.reader /\ (back'.reading <=> back.reading)
      /\ (back'.eof <=> back.eof)
      /\ ~back'.writing /\ ~back'.shutting
  BY <1>1 DEF WriterReset
<1>5. conn'.deletes = 1
  BY <1>1 DEF Answers
<1>7. Connecting'
  BY <1>1, <1>2, <1>3, <1>4
<1>8. Waiting'
  BY <1>1, <1>3, <1>4
<1>9. Accounted'
  BY <1>1, <1>3, <1>4, <1>5
<1> QED BY <1>7, <1>8, <1>9

LEMMA ConstructFlags == CycleInv /\ construct => CycleFlags'
<1> SUFFICES ASSUME CycleInv, construct PROVE CycleFlags'
  OBVIOUS
<1> USE DEF CycleInv, CycleTyped, Streams, Ends, SingleCycleConns, Conns,
            Connecting, Waiting, Accounted, CycleFlags
<1>1. /\ there'.writer = "open" /\ there'.reader = "none" /\ there'.writing
      /\ ~there'.eof /\ ~there'.reading /\ ~there'.shutting
  BY DEF construct, NoStream, Connected, Written
<1>2. /\ back' = back /\ conn' = conn /\ questions' = questions
      /\ client'.alive /\ client'.listening
      /\ client'.responses = client.responses /\ client'.fails = client.fails
  BY DEF construct
<1>3. /\ there.writer = "none" /\ there.reader = "none" /\ ~there.eof
      /\ back.writer = "none" /\ back.reader = "none"
  BY DEF construct, NoStream
<1>4. client.fails = 0 /\ client.responses = 0
  BY <1>3 DEF construct
<1>7. Connecting'
  BY <1>1, <1>2, <1>3, <1>4
<1>8. Waiting'
  BY <1>1, <1>2, <1>3, <1>4
<1>9. Accounted'
  BY <1>1, <1>2, <1>3, <1>4
<1> QED BY <1>7, <1>8, <1>9

LEMMA ClientReadyFlags == CycleInv /\ clientReady => CycleFlags'
<1> SUFFICES ASSUME CycleInv, clientReady PROVE CycleFlags'
  OBVIOUS
<1> USE DEF CycleInv, CycleTyped, Streams, Ends, SingleCycleConns, Conns,
            Connecting, Waiting, Accounted, CycleFlags
<1>1. /\ there'.writer = there.writer /\ there'.reader = there.reader
      /\ (there'.reading <=> there.reading)
      /\ there'.writing <=> ~there'.eof
      /\ there.eof => there'.eof
      /\ there'.shutting => there'.eof
  BY DEF clientReady, Written, Shut
<1>2. /\ back' = back /\ conn' = conn /\ questions' = questions
      /\ (client'.alive <=> client.alive) /\ (client'.listening <=> client.listening)
      /\ client'.responses = client.responses /\ client'.fails = client.fails
  BY DEF clientReady
<1>3. there.writing /\ there.writer # "none"
  BY DEF clientReady, NoStream
<1>7. Connecting'
  BY <1>1, <1>2, <1>3
<1>8. Waiting'
  BY <1>1, <1>2, <1>3
<1>9. Accounted'
  BY <1>1, <1>2, <1>3
<1> QED BY <1>7, <1>8, <1>9

LEMMA ClientConnectFlags == CycleInv /\ clientConnect => CycleFlags'
<1> SUFFICES ASSUME CycleInv, clientConnect PROVE CycleFlags'
  OBVIOUS
<1> USE DEF CycleInv, CycleTyped, Streams, Ends, SingleCycleConns, Conns,
            Connecting, Waiting, Accounted, CycleFlags
<1>1. /\ back'.writer = back.writer /\ (back'.writing <=> back.writing)
      /\ (back'.shutting <=> back.shutting) /\ (back'.eof <=> back.eof)
      /\ client.listening => back'.reader = "open" /\ back'.reading
      /\ ~client.listening => back'.reader = "reset" /\ ~back'.reading
  <2>1. CASE client.listening
    <3>1. back' = [back EXCEPT !.reader = "open", !.reading = TRUE]
      BY <2>1 DEF clientConnect, Accepted
    <3> QED BY <2>1, <3>1
  <2>2. CASE ~client.listening
    BY <2>2 DEF clientConnect
  <2> QED BY <2>1, <2>2
<1>2. /\ there' = there /\ conn' = conn /\ questions' = questions
      /\ (client'.alive <=> client.alive) /\ ~client'.listening
      /\ client'.responses = client.responses /\ client'.fails = client.fails
  BY DEF clientConnect
<1>3. back.reader = "none" /\ back.writer # "none"
  BY DEF clientConnect
<1>7. Connecting'
  BY <1>1, <1>2, <1>3
<1>8. Waiting'
  BY <1>1, <1>2, <1>3
<1>9. Accounted'
  BY <1>1, <1>2, <1>3
<1> QED BY <1>7, <1>8, <1>9

\* The connection is asked when it has read the service and the whole request.
LEMMA WholeRequest ==
    ASSUME CycleInv, serverShutdown
    PROVE  /\ back.writer # "none" /\ conn.sendReady
           /\ conn.request = client.request /\ questions = <<>>
<1>1. /\ there.reading /\ there.data = <<>> /\ there.eof
  BY DEF serverShutdown
<1>2. there.reader = "open" /\ there.writer # "none" /\ questions = <<>>
  BY <1>1 DEF CycleInv, Accounted, Connecting, NoStream
<1>3. /\ client.requestStr = <<>>
      /\ conn.request \in Seq(Bytes) /\ client.request \in Seq(Bytes)
  BY <1>1, StringsTyped
     DEF CycleInv, CycleTyped, SingleCycleConns, Conns, SentIsRead, RequestRead, ResponseRead
<1>4. <<>> \o <<>> = <<>> /\ conn.request \o <<>> = conn.request
  BY <1>3, StringsTyped, PutBehind
<1>5. conn.request = IF back.writer = "none" THEN Service \o client.request
                     ELSE client.request
  BY <1>1, <1>2, <1>3, <1>4 DEF CycleInv, SentIsRead, RequestRead, ResponseRead
<1>6. Service \o client.request # <<>>
  <2>1. Service \o client.request = <<>> => Service = <<>>
    BY <1>3, StringsTyped, ConcatEqualIffEmpty
  <2> QED BY <2>1 DEF Service
<1>7. back.writer # "none"
  BY <1>5, <1>6 DEF CycleInv, SentIsRead, RequestRead, ResponseRead
<1> QED BY <1>2, <1>5, <1>7 DEF CycleInv, Connecting

LEMMA ServerReceiveFlags == CycleInv /\ serverReceive => CycleFlags'
<1> SUFFICES ASSUME CycleInv, serverReceive PROVE CycleFlags'
  OBVIOUS
<1> USE DEF CycleInv, CycleTyped, Streams, Ends, SingleCycleConns, Conns,
            Connecting, Waiting, Accounted, CycleFlags
<1>1. /\ there'.writer = there.writer /\ there'.reader = there.reader
      /\ (there'.reading <=> there.reading) /\ (there'.eof <=> there.eof)
      /\ (there'.writing <=> there.writing) /\ (there'.shutting <=> there.shutting)
  BY DEF serverReceive
<1>2. /\ client' = client /\ questions' = questions /\ there.reading
  BY DEF serverReceive
<1>3. there.reader # "none" /\ there.writer # "none"
  BY <1>2 DEF NoStream
<1>4. /\ (conn'.exists <=> conn.exists) /\ conn'.deletes = conn.deletes
      /\ conn'.sendReady
      /\ back'.writer # "none" /\ back'.reader = back.reader
      /\ (back'.reading <=> back.reading) /\ (back'.writing <=> back.writing)
      /\ (back'.shutting <=> back.shutting) /\ (back'.eof <=> back.eof)
  <2>1. CASE back.writer = "none"
    <3>1. PICK n \in 1 .. Len(there.data) :
             /\ back' = [back EXCEPT !.writer = "open"]
             /\ conn' = [conn EXCEPT !.sendReady = TRUE,
                        !.request = @ \o Tail(Tail(SubSeq(there.data, 1, n)))]
      BY <2>1 DEF serverReceive, Connected
    <3>2. /\ back'.writer # "none" /\ back'.reader = back.reader
          /\ (back'.reading <=> back.reading) /\ (back'.writing <=> back.writing)
          /\ (back'.shutting <=> back.shutting) /\ (back'.eof <=> back.eof)
      BY <3>1
    <3>3. /\ (conn'.exists <=> conn.exists) /\ conn'.deletes = conn.deletes
          /\ conn'.sendReady
      BY <3>1
    <3> QED BY <3>2, <3>3
  <2>2. CASE back.writer # "none"
    <3>1. back' = back
      BY <2>2 DEF serverReceive
    <3>2. /\ (conn'.exists <=> conn.exists) /\ conn'.deletes = conn.deletes
          /\ (conn'.sendReady <=> conn.sendReady)
      BY <2>2 DEF serverReceive
    <3> QED BY <2>2, <3>1, <3>2
  <2> QED BY <2>1, <2>2
<1>7. Connecting'
  BY <1>1, <1>2, <1>3, <1>4
<1>8. Waiting'
  BY <1>1, <1>2, <1>3, <1>4
<1>9. Accounted'
  BY <1>1, <1>2, <1>3, <1>4
<1> QED BY <1>7, <1>8, <1>9

LEMMA ServerShutdownFlags == CycleInv /\ serverShutdown => CycleFlags'
<1> SUFFICES ASSUME CycleInv, serverShutdown PROVE CycleFlags'
  OBVIOUS
<1> USE DEF CycleInv, CycleTyped, Streams, Ends, SingleCycleConns, Conns,
            Connecting, Waiting, Accounted, CycleFlags
<1>1. /\ there.reading /\ there.eof
      /\ questions' = Append(questions, conn.request)
  BY DEF serverShutdown
<1>2. questions' # <<>>
  <2>1. Len(Append(questions, conn.request)) = Len(questions) + 1 /\ Len(questions) \in Nat
    BY PutBehind
  <2>2. Len(<<>>) = 0
    BY EmptySeq
  <2>3. Len(Append(questions, conn.request)) # 0
    BY <2>1
  <2> QED BY <1>1, <2>2, <2>3, Zenon
<1>3. CASE back.writer = "reset" /\ Delete
  BY <1>1, <1>2, <1>3, DeleteFlags
<1>4. CASE /\ back.writer # "reset"
           /\ there' = [there EXCEPT !.reading = FALSE]
           /\ \E r \in Strings :
                 /\ back' = Respond(back, r)
                 /\ conn' = [conn EXCEPT !.response = r,
                                         !.sendReady = @ \/ r = <<>>]
           /\ UNCHANGED client
  <2>0. back.writer # "none" /\ conn.sendReady
    BY WholeRequest
  <2>1. PICK r \in Strings :
           /\ back' = Respond(back, r)
           /\ conn' = [conn EXCEPT !.response = r, !.sendReady = @ \/ r = <<>>]
    BY <1>4
  <2>2. /\ there'.writer = there.writer /\ there'.reader = there.reader
        /\ ~there'.reading /\ (there'.eof <=> there.eof)
        /\ (there'.writing <=> there.writing) /\ (there'.shutting <=> there.shutting)
    BY <1>4
  <2>3. /\ (conn'.exists <=> conn.exists) /\ conn'.deletes = conn.deletes
        /\ conn'.sendReady
    BY <2>0, <2>1
  <2>4. /\ back'.writer = back.writer /\ back'.reader = back.reader
        /\ (back'.reading <=> back.reading)
        /\ (back'.writing <=> ~back'.shutting)
        /\ (back.eof => back'.eof)
    <3>1. CASE r = <<>>
      <4>1. back' = [back EXCEPT !.eof = TRUE, !.shutting = TRUE, !.writing = FALSE]
        BY <2>0, <2>1, <3>1 DEF Respond, Shut
      <4> QED BY <4>1
    <3>2. CASE r # <<>>
      <4>1. back' = [back EXCEPT !.data = @ \o r, !.writing = TRUE] /\ ~back.shutting
        BY <1>1, <2>0, <2>1, <3>2 DEF Respond, Written
      <4> QED BY <4>1
    <3> QED BY <3>1, <3>2
  <2>7. Connecting'
    BY <1>1, <1>2, <1>4, <2>0, <2>2, <2>3, <2>4 DEF NoStream
  <2>8. Waiting'
    BY <1>1, <1>2, <1>4, <2>2, <2>3, <2>4
  <2>9. Accounted'
    BY <1>1, <1>2, <1>4, <2>2, <2>3, <2>4
  <2> QED BY <2>7, <2>8, <2>9
<1> QED BY <1>3, <1>4 DEF serverShutdown

LEMMA ResetFlags == CycleInv /\ (clientReset \/ serverReset) => CycleFlags'
<1> SUFFICES ASSUME CycleInv, (clientReset \/ serverReset) PROVE CycleFlags'
  OBVIOUS
<1> USE DEF CycleInv, CycleTyped, Streams, Ends, SingleCycleConns, Conns,
            Connecting, Waiting, Accounted, CycleFlags
<1>1. CASE (there.writing \/ back.reading) /\ Fail
  BY <1>1, FailFlags
<1>2. CASE /\ there.reading \/ back.writing \/ back.shutting
           /\ Delete /\ questions' = questions
  BY <1>2, DeleteFlags
<1>3. CASE /\ there.shutting /\ there' = WriterReset(there)
           /\ UNCHANGED <<back, client, conn, questions>>
  <2>1. there.writer # "none"
    BY <1>3 DEF NoStream
  <2>2. /\ there'.writer = "reset" /\ there'.reader = there.reader
        /\ (there'.reading <=> there.reading) /\ (there'.eof <=> there.eof)
        /\ ~there'.writing
    BY <1>3, <2>1 DEF WriterReset
  <2>7. Connecting'
    BY <1>3, <2>1, <2>2
  <2>8. Waiting'
    BY <1>3, <2>2
  <2>9. Accounted'
    BY <1>3, <2>2
  <2> QED BY <2>7, <2>8, <2>9
<1>4. CASE /\ back.writer = "open" /\ ~back.writing /\ ~back.shutting
           /\ back' = WriterReset(back)
           /\ UNCHANGED <<there, client, conn, questions>>
  <2>2. /\ back'.writer = "reset" /\ back'.reader = back.reader
        /\ (back'.reading <=> back.reading) /\ (back'.eof <=> back.eof)
        /\ ~back'.writing /\ ~back'.shutting
    BY <1>4 DEF WriterReset
  <2>7. Connecting'
    BY <1>4, <2>2
  <2>8. Waiting'
    BY <1>4, <2>2
  <2>9. Accounted'
    BY <1>4, <2>2
  <2> QED BY <2>7, <2>8, <2>9
<1> QED BY <1>1, <1>2, <1>3, <1>4 DEF clientReset, serverReset

LEMMA FlagsStep == CycleInv /\ CycleNext => CycleFlags'
<1> SUFFICES ASSUME CycleInv, CycleNext PROVE CycleFlags'
  OBVIOUS
<1> USE DEF CycleInv, CycleTyped, Streams, Ends, SingleCycleConns, Conns,
            Connecting, Waiting, Accounted, CycleFlags
<1>1. CASE clientReceive
  <2>1. Connecting'
    BY <1>1 DEF clientReceive
  <2>2. Waiting'
    BY <1>1 DEF clientReceive
  <2>3. Accounted'
    BY <1>1 DEF clientReceive
  <2> QED BY <2>1, <2>2, <2>3
<1>2. CASE clientShutdown
  <2>1. Connecting'
    BY <1>2 DEF clientShutdown
  <2>2. Waiting'
    BY <1>2 DEF clientShutdown
  <2>3. Accounted'
    BY <1>2 DEF clientShutdown
  <2> QED BY <2>1, <2>2, <2>3
<1>3. CASE clientShutdownReady
  <2>1. Connecting'
    BY <1>3 DEF clientShutdownReady, NoStream
  <2>2. Waiting'
    BY <1>3 DEF clientShutdownReady, NoStream
  <2>3. Accounted'
    BY <1>3 DEF clientShutdownReady, NoStream
  <2> QED BY <2>1, <2>2, <2>3
<1>4. CASE destroy
  <2>1. Connecting'
    BY <1>4 DEF destroy, NoStream, WriterReset, ReaderReset, Answers
  <2>2. Waiting'
    BY <1>4 DEF destroy, NoStream, WriterReset, ReaderReset, Answers
  <2>3. Accounted'
    BY <1>4 DEF destroy, NoStream, WriterReset, ReaderReset, Answers
  <2> QED BY <2>1, <2>2, <2>3
<1>5. CASE serverConnect
  <2>1. Connecting'
    BY <1>5 DEF serverConnect, NoStream, Accepted
  <2>2. Waiting'
    BY <1>5 DEF serverConnect, NoStream, Accepted
  <2>3. Accounted'
    BY <1>5 DEF serverConnect, NoStream, Accepted
  <2> QED BY <2>1, <2>2, <2>3
<1>6. CASE serverReady
  <2>1. Connecting'
    BY <1>6 DEF serverReady, NoStream, Shut
  <2>2. Waiting'
    BY <1>6 DEF serverReady, NoStream, Shut
  <2>3. Accounted'
    BY <1>6 DEF serverReady, NoStream, Shut
  <2> QED BY <2>1, <2>2, <2>3
<1>7. CASE serverShutdownReady
  BY <1>7, DeleteFlags DEF serverShutdownReady
<1>8. CASE serverAborts
  <2>1. /\ (conn'.exists <=> conn.exists) /\ (conn'.sendReady <=> conn.sendReady)
        /\ conn'.deletes = conn.deletes /\ UNCHANGED <<there, back, client, questions>>
    BY <1>8 DEF serverAborts
  <2>2. Connecting'
    BY <2>1
  <2>3. Waiting'
    BY <2>1
  <2>4. Accounted'
    BY <2>1
  <2> QED BY <2>2, <2>3, <2>4
<1> QED BY <1>1, <1>2, <1>3, <1>4, <1>5, <1>6, <1>7, <1>8,
          ConstructFlags, ClientReadyFlags, ClientConnectFlags, ServerReceiveFlags,
          ServerShutdownFlags, ResetFlags DEF CycleNext

LEMMA TypedStep == CycleInv /\ CycleNext => CycleTyped'
<1> SUFFICES ASSUME CycleInv, CycleNext PROVE CycleTyped'
  OBVIOUS
<1>0. /\ there \in Streams /\ back \in Streams /\ client \in SingleCycleConns
      /\ conn \in Conns /\ questions \in Seq(Seq(Bytes))
  BY DEF CycleInv, CycleTyped
<1> DEFINE E == /\ there' \in Streams /\ back' \in Streams
           C == client' \in SingleCycleConns
           S == conn' \in Conns
<1>1. CASE construct
  <2>1. E
    BY <1>0, <1>1, EndsTyped, StringsTyped DEF construct
  <2>2. C
    BY <1>0, <1>1 DEF construct, SingleCycleConns
  <2> QED BY <1>0, <1>1, <2>1, <2>2 DEF CycleTyped, construct
<1>2. CASE clientReady
  <2>1. client.requestStr \in Seq(Bytes)
    BY <1>0 DEF SingleCycleConns
  <2>2. E
    BY <1>0, <1>2, <2>1, EndsTyped DEF clientReady
  <2>3. C
    BY <1>0, <1>2, StringsTyped DEF clientReady, SingleCycleConns
  <2> QED BY <1>0, <1>2, <2>2, <2>3 DEF CycleTyped, clientReady
<1>3. CASE clientConnect
  <2>1. E
    BY <1>0, <1>3, EndsTyped DEF clientConnect
  <2>2. C
    BY <1>0, <1>3 DEF clientConnect, SingleCycleConns
  <2> QED BY <1>0, <1>3, <2>1, <2>2 DEF CycleTyped, clientConnect
<1>4. CASE clientReceive
  <2>1. back.data \in Seq(Bytes) /\ client.responseStr \in Seq(Bytes)
    BY <1>0 DEF Streams, SingleCycleConns
  <2>2. PICK n \in 1 .. Len(back.data) :
           /\ back' = [back EXCEPT !.data = SubSeq(@, n + 1, Len(@))]
           /\ client' = [client EXCEPT !.responseStr = @ \o SubSeq(back.data, 1, n)]
    BY <1>4 DEF clientReceive
  <2>3. /\ SubSeq(back.data, 1, n) \in Seq(Bytes)
        /\ SubSeq(back.data, n + 1, Len(back.data)) \in Seq(Bytes)
    BY <2>1, Split
  <2>4. back' \in Streams
    BY <1>0, <2>2, <2>3, EndsTyped
  <2>5. client.responseStr \o SubSeq(back.data, 1, n) \in Seq(Bytes)
    BY <2>1, <2>3, PutBehind
  <2>6. C
    BY <1>0, <2>2, <2>5 DEF SingleCycleConns
  <2> QED BY <1>0, <1>4, <2>4, <2>6 DEF CycleTyped, clientReceive
<1>5. CASE clientShutdown
  <2>1. E
    BY <1>0, <1>5, EndsTyped DEF clientShutdown
  <2>2. C
    <3>1. client.responses + 1 \in Nat
      BY <1>0 DEF SingleCycleConns
    <3>2. client' = [client EXCEPT !.responses = client.responses + 1]
      BY <1>5 DEF clientShutdown
    <3> QED BY <1>0, <3>1, <3>2 DEF SingleCycleConns
  <2> QED BY <1>0, <1>5, <2>1, <2>2 DEF CycleTyped, clientShutdown
<1>6. CASE clientShutdownReady
  <2>1. E
    BY <1>0, <1>6, EndsTyped DEF clientShutdownReady
  <2> QED BY <1>0, <1>6, <2>1 DEF CycleTyped, clientShutdownReady
<1>b. ASSUME Fail PROVE CycleTyped'
  <2>1. E
    BY <1>0, <1>b, EndsTyped DEF Fail
  <2>2. Answers(there.writing) \in Nat /\ Answers(back.reading) \in Nat
    BY DEF Answers
  <2>3. C
    <3>1. client.fails + Answers(there.writing) + Answers(back.reading) \in Nat
      BY <1>0, <2>2 DEF SingleCycleConns
    <3>2. client' = [client EXCEPT !.listening = FALSE,
                        !.fails = client.fails + Answers(there.writing)
                                    + Answers(back.reading)]
      BY <1>b DEF Fail
    <3> QED BY <1>0, <3>1, <3>2 DEF SingleCycleConns
  <2> QED BY <1>0, <1>b, <2>1, <2>3 DEF CycleTyped, Fail
<1>7. CASE clientReset
  <2>1. CASE there' = WriterReset(there) /\ UNCHANGED <<back, client, conn, questions>>
    BY <1>0, <2>1, EndsTyped DEF CycleTyped
  <2> QED BY <1>b, <1>7, <2>1 DEF clientReset
<1>8. CASE destroy
  <2>1. E
    BY <1>0, <1>8, EndsTyped DEF destroy
  <2>2. Answers(there.writing) \in Nat /\ Answers(back.reading) \in Nat
    BY DEF Answers
  <2>3. C
    <3>1. client.fails + Answers(there.writing) + Answers(back.reading) \in Nat
      BY <1>0, <2>2 DEF SingleCycleConns
    <3>2. client' = [client EXCEPT !.listening = FALSE, !.alive = FALSE,
                        !.fails = client.fails + Answers(there.writing)
                                    + Answers(back.reading)]
      BY <1>8 DEF destroy
    <3> QED BY <1>0, <3>1, <3>2 DEF SingleCycleConns
  <2> QED BY <1>0, <1>8, <2>1, <2>3 DEF CycleTyped, destroy
<1>9. CASE serverConnect
  <2>1. E
    BY <1>0, <1>9, EndsTyped DEF serverConnect
  <2>2. S
    BY <1>0, <1>9 DEF serverConnect, Conns
  <2> QED BY <1>0, <1>9, <2>1, <2>2 DEF CycleTyped, serverConnect
<1>10. CASE serverReceive
  <2>1. there.data \in Seq(Bytes) /\ conn.request \in Seq(Bytes)
    BY <1>0 DEF Streams, Conns
  <2>2. PICK n \in 1 .. Len(there.data) :
           LET x == SubSeq(there.data, 1, n) IN
           /\ there' = [there EXCEPT !.data = SubSeq(@, n + 1, Len(@))]
           /\ \/ conn' = [conn EXCEPT !.request = @ \o x] /\ UNCHANGED back
              \/ /\ back' = Connected(back) /\ n >= 2
                 /\ conn' = [conn EXCEPT !.sendReady = TRUE,
                                         !.request = @ \o Tail(Tail(x))]
    <3>1. Len(Service) = 2
      BY DEF Service
    <3> QED BY <1>10, <3>1 DEF serverReceive
  <2>3. /\ SubSeq(there.data, 1, n) \in Seq(Bytes)
        /\ Len(SubSeq(there.data, 1, n)) = n
        /\ SubSeq(there.data, n + 1, Len(there.data)) \in Seq(Bytes)
    BY <2>1, Split
  <2>4. there' \in Streams
    BY <1>0, <2>2, <2>3, EndsTyped
  <2>5. back' \in Streams
    BY <1>0, <2>2, EndsTyped
  <2>6. /\ conn.request \o SubSeq(there.data, 1, n) \in Seq(Bytes)
        /\ n >= 2 => conn.request \o Tail(Tail(SubSeq(there.data, 1, n))) \in Seq(Bytes)
    <3>1. PICK x \in Seq(Bytes) : x = SubSeq(there.data, 1, n)
      BY <2>3
    <3>2. n >= 2 => Tail(Tail(x)) \in Seq(Bytes)
      BY <2>1, <2>3, <3>1, BehindId
    <3> QED BY <2>1, <3>1, <3>2, PutBehind
  <2>7. S
    BY <1>0, <2>2, <2>6 DEF Conns
  <2> QED BY <1>0, <1>10, <2>4, <2>5, <2>7 DEF CycleTyped, serverReceive
<1>c. ASSUME Delete, questions' \in Seq(Seq(Bytes)) PROVE CycleTyped'
  <2>1. E
    BY <1>0, <1>c, EndsTyped DEF Delete
  <2>2. /\ Answers(there.reading) \in Nat /\ Answers(back.writing) \in Nat
        /\ Answers(back.shutting) \in Nat
    BY DEF Answers
  <2>3. S
    <3>1. conn.deletes + Answers(there.reading) + Answers(back.writing)
             + Answers(back.shutting) \in Nat
      BY <1>0, <2>2 DEF Conns
    <3>2. conn' = [conn EXCEPT !.exists = FALSE,
                      !.deletes = conn.deletes + Answers(there.reading)
                                    + Answers(back.writing)
                                    + Answers(back.shutting)]
      BY <1>c DEF Delete
    <3> QED BY <1>0, <3>1, <3>2 DEF Conns
  <2> QED BY <1>0, <1>c, <2>1, <2>3 DEF CycleTyped, Delete
<1>11. CASE serverShutdown
  <2>1. questions' \in Seq(Seq(Bytes))
    <3>1. conn.request \in Seq(Bytes)
      BY <1>0 DEF Conns
    <3> QED BY <1>0, <1>11, <3>1, PutBehind DEF serverShutdown
  <2>2. CASE Delete
    BY <1>c, <2>1, <2>2
  <2>3. CASE /\ there' = [there EXCEPT !.reading = FALSE]
             /\ \E r \in Strings :
                   /\ back' = Respond(back, r)
                   /\ conn' = [conn EXCEPT !.response = r,
                                           !.sendReady = @ \/ r = <<>>]
             /\ UNCHANGED client
    <3>1. PICK r \in Strings :
             /\ back' = Respond(back, r)
             /\ conn' = [conn EXCEPT !.response = r, !.sendReady = @ \/ r = <<>>]
      BY <2>3
    <3>2. r \in Seq(Bytes)
      BY StringsTyped
    <3>3. E
      BY <1>0, <2>3, <3>1, <3>2, EndsTyped DEF Respond
    <3>4. S
      BY <1>0, <3>1, <3>2 DEF Conns
    <3> QED BY <1>0, <2>1, <2>3, <3>3, <3>4 DEF CycleTyped
  <2> QED BY <1>11, <2>2, <2>3 DEF serverShutdown
<1>12. CASE serverReady
  <2>1. E
    BY <1>0, <1>12, EndsTyped DEF serverReady
  <2> QED BY <1>0, <1>12, <2>1 DEF CycleTyped, serverReady
<1>13. CASE serverShutdownReady
  BY <1>0, <1>c, <1>13 DEF serverShutdownReady
<1>14. CASE serverReset
  <2>1. CASE back' = WriterReset(back) /\ UNCHANGED <<there, client, conn, questions>>
    BY <1>0, <2>1, EndsTyped DEF CycleTyped
  <2> QED BY <1>0, <1>c, <1>14, <2>1 DEF serverReset
<1>15. CASE serverAborts
  <2>1. S
    BY <1>0, <1>15 DEF serverAborts, Conns
  <2> QED BY <1>0, <1>15, <2>1 DEF CycleTyped, serverAborts
<1> QED BY <1>1, <1>2, <1>3, <1>4, <1>5, <1>6, <1>7, <1>8, <1>9, <1>10, <1>11,
           <1>12, <1>13, <1>14, <1>15 DEF CycleNext

\* A step by which nothing is sent, read or asked.
Undisturbed ==
    /\ client'.request = client.request /\ client'.requestStr = client.requestStr
    /\ client'.responseStr = client.responseStr
    /\ client'.responses = client.responses
    /\ conn'.request = conn.request /\ conn'.response = conn.response
    /\ questions' = questions
    /\ there.writer # "none" /\ there'.writer # "none"
    /\ there'.eof => there.eof
    /\ there'.reader # "reset" => there.reader # "reset" /\ there'.data = there.data
    /\ back'.reader # "reset" => back.reader # "reset"
    /\ \/ back'.data = back.data
       \/ back'.reader = "reset" /\ back'.data = <<>>
    /\ back'.writer = "none" <=> back.writer = "none"

LEMMA UndisturbedSent == CycleInv /\ Undisturbed => SentIsRead'
<1> SUFFICES ASSUME CycleInv, Undisturbed PROVE SentIsRead'
  OBVIOUS
<1>1. SentIsRead
  BY DEF CycleInv
<1> QED BY <1>1 DEF Undisturbed, SentIsRead, RequestRead, ResponseRead

LEMMA SentStep == CycleInv /\ CycleNext => SentIsRead'
<1> SUFFICES ASSUME CycleInv, CycleNext PROVE SentIsRead'
  OBVIOUS
<1>a. /\ there \in Streams /\ back \in Streams /\ client \in SingleCycleConns
      /\ conn \in Conns /\ questions \in Seq(Seq(Bytes))
      /\ there.data \in Seq(Bytes) /\ back.data \in Seq(Bytes)
      /\ client.request \in Seq(Bytes) /\ client.requestStr \in Seq(Bytes)
      /\ client.responseStr \in Seq(Bytes)
      /\ conn.request \in Seq(Bytes) /\ conn.response \in Seq(Bytes)
  BY StringsTyped DEF CycleInv, CycleTyped, Streams, SingleCycleConns, Conns
<1>b. ASSUME NEW t \in Seq(Bytes) PROVE t \o <<>> = t /\ <<>> \o t = t
  BY ConcatEmptySeq
<1>c. there.writing \/ there.shutting \/ there.reading \/ back.reading \/ back.writing
      \/ back.shutting \/ client.alive \/ there.writer # "none" \/ back.writer # "none"
      => there.writer # "none"
  BY DEF CycleInv, Connecting, Waiting, Accounted, NoStream
<1>g. ASSUME NEW t \in Seq(Bytes), NEW u \in Seq(Bytes), NEW v \in Seq(Bytes)
      PROVE  (t \o u) \o v = t \o (u \o v)
  BY ConcatAssociative
<1>1. CASE construct
  <2>1. /\ there' = [NoStream EXCEPT !.data = <<>> \o Service, !.writer = "open",
                                     !.writing = TRUE]
        /\ client'.request = client.request /\ client'.requestStr = client.requestStr
        /\ client'.responseStr = client.responseStr
        /\ client'.responses = client.responses
        /\ back' = back /\ conn' = conn /\ questions' = questions
    BY <1>a, <1>1 DEF construct, Written, Connected, NoStream, SingleCycleConns
  <2>2. /\ there'.data = Service /\ ~there'.eof /\ there'.writer = "open"
    BY <1>b, <2>1, StringsTyped DEF NoStream
  <2>3. /\ back.writer = "none" /\ conn.request = <<>>
        /\ client.requestStr = client.request
    BY <1>1
       DEF construct, CycleInv, Connecting, SentIsRead, RequestRead, ResponseRead, NoStream
  <2>4. Service \o client.request \in Seq(Bytes)
    BY <1>a, StringsTyped, PutBehind
  <2>5. <<>> \o (Service \o client.request) = Service \o client.request
    BY <1>b, <2>4
  <2>6. SentIsRead
    BY DEF CycleInv
  <2> QED BY <2>1, <2>2, <2>3, <2>5, <2>6
             DEF SentIsRead, RequestRead, ResponseRead
<1>2. CASE clientReady
  <2>1. /\ client'.request = client.request
        /\ client'.responseStr = client.responseStr
        /\ client'.responses = client.responses /\ client'.requestStr = <<>>
        /\ back' = back /\ conn' = conn /\ questions' = questions
    BY <1>a, <1>2 DEF clientReady, SingleCycleConns
  <2>2. /\ there'.writer = there.writer /\ there'.reader = there.reader
        /\ there.writer # "none"
        /\ there'.data = there.data \o client.requestStr
    <3>1. CASE client.requestStr # <<>>
      BY <1>a, <1>c, <1>2, <3>1 DEF clientReady, Written, Streams
    <3>2. CASE client.requestStr = <<>>
      BY <1>a, <1>b, <1>c, <1>2, <3>2 DEF clientReady, Shut, Streams
    <3> QED BY <3>1, <3>2
  <2>3. (there.data \o client.requestStr) \o <<>> = there.data \o client.requestStr
    <3>1. there.data \o client.requestStr \in Seq(Bytes)
      BY <1>a, PutBehind
    <3> QED BY <1>b, <3>1
  <2>4. SentIsRead
    BY DEF CycleInv
  <2> QED BY <2>1, <2>2, <2>3, <2>4 DEF SentIsRead, RequestRead, ResponseRead
<1>3. CASE clientConnect
  <2>1. Undisturbed
    BY <1>a, <1>c, <1>3
       DEF clientConnect, Undisturbed, Accepted, Streams, SingleCycleConns
  <2> QED BY <2>1, UndisturbedSent
<1>4. CASE clientReceive
  <2>1. PICK n \in 1 .. Len(back.data) :
           /\ back' = [back EXCEPT !.data = SubSeq(@, n + 1, Len(@))]
           /\ client' = [client EXCEPT !.responseStr = @ \o SubSeq(back.data, 1, n)]
    BY <1>4 DEF clientReceive
  <2>2. PICK x \in Seq(Bytes), y \in Seq(Bytes) :
           /\ x = SubSeq(back.data, 1, n) /\ y = SubSeq(back.data, n + 1, Len(back.data))
           /\ x \o y = back.data
    <3>1. back.data \in Seq(Bytes)
      BY <1>a
    <3>2. /\ SubSeq(back.data, 1, n) \in Seq(Bytes)
          /\ SubSeq(back.data, n + 1, Len(back.data)) \in Seq(Bytes)
          /\ SubSeq(back.data, 1, n) \o SubSeq(back.data, n + 1, Len(back.data)) = back.data
      BY <3>1, Split
    <3> QED BY <3>2, Zenon
  <2>3. /\ back'.data = y /\ back'.writer = back.writer /\ back'.reader = back.reader
        /\ client'.responseStr = client.responseStr \o x
        /\ client'.request = client.request /\ client'.requestStr = client.requestStr
        /\ client'.responses = client.responses
        /\ UNCHANGED <<there, conn, questions>>
    BY <1>a, <1>4, <2>1, <2>2 DEF clientReceive, Streams, SingleCycleConns
  <2>4. (client.responseStr \o x) \o y = client.responseStr \o back.data
    <3>1. PICK c \in Seq(Bytes) : c = client.responseStr
      BY <1>a
    <3>2. (c \o x) \o y = c \o (x \o y)
      BY <1>g
    <3> QED BY <2>2, <3>1, <3>2
  <2>5. client.responses = 0
    BY <1>4 DEF clientReceive, CycleInv, Waiting
  <2>6. questions # <<>>
    <3>1. back.data # <<>>
      <4>1. Len(back.data) \in Nat /\ Len(<<>>) = 0
        BY <1>a, PutBehind, EmptySeq
      <4> QED BY <2>1, <4>1
    <3> QED BY <3>1 DEF CycleInv, SentIsRead, RequestRead, ResponseRead
  <2>7. SentIsRead
    BY DEF CycleInv
  <2>8. client'.responseStr \o back'.data = client.responseStr \o back.data
    BY <2>3, <2>4
  <2>9. /\ back'.writer = back.writer /\ back'.reader = back.reader
        /\ client'.request = client.request /\ client'.requestStr = client.requestStr
        /\ client'.responses = client.responses
        /\ UNCHANGED <<there, conn, questions>>
    BY <2>3
  <2>10. RequestRead'
    BY <2>7, <2>9 DEF SentIsRead, RequestRead
  <2>11. ResponseRead'
    <3>1. questions' # <<>> /\ client'.responses # 1
      BY <2>5, <2>6, <2>9
    <3>2. ASSUME back'.reader # "reset"
          PROVE  client'.responseStr \o back'.data = conn'.response
      <4>1. client.responseStr \o back.data = conn.response
        BY <2>7, <2>9, <3>2 DEF SentIsRead, ResponseRead
      <4> QED BY <2>8, <2>9, <4>1
    <3> QED BY <3>1, <3>2 DEF ResponseRead
  <2> QED BY <2>10, <2>11 DEF SentIsRead
<1>5. CASE clientShutdown
  <2>1. /\ back.data = <<>> /\ back.reader = "open" /\ back'.data = back.data
        /\ back'.writer = back.writer /\ back'.reader = back.reader
        /\ client'.responseStr = client.responseStr
        /\ client'.request = client.request /\ client'.requestStr = client.requestStr
        /\ UNCHANGED <<there, conn, questions>>
    BY <1>a, <1>5 DEF clientShutdown, CycleInv, Waiting, Streams, SingleCycleConns
  <2>2. client.responseStr = conn.response
    BY <1>a, <1>b, <2>1 DEF CycleInv, SentIsRead, RequestRead, ResponseRead
  <2>3. SentIsRead
    BY DEF CycleInv
  <2> QED BY <2>1, <2>2, <2>3 DEF SentIsRead, RequestRead, ResponseRead
<1>6. CASE clientShutdownReady
  <2>1. Undisturbed
    BY <1>a, <1>c, <1>6 DEF clientShutdownReady, Undisturbed, Streams
  <2> QED BY <2>1, UndisturbedSent
<1>d. ASSUME there' = WriterReset(there), back' = back \/ back' = ReaderReset(back),
             there.writer # "none",
             client'.request = client.request, client'.requestStr = client.requestStr,
             client'.responseStr = client.responseStr,
             client'.responses = client.responses, UNCHANGED <<conn, questions>>
      PROVE  SentIsRead'
  <2>1. /\ there'.writer # "none" /\ there'.reader = there.reader
        /\ there'.data = there.data /\ (there'.eof <=> there.eof)
    BY <1>a, <1>d DEF WriterReset, Streams
  <2>2. /\ back'.writer = back.writer /\ (back'.reader # "reset" => back.reader # "reset")
        /\ \/ back'.data = back.data
           \/ back'.reader = "reset" /\ back'.data = <<>>
    <3>1. CASE back' = back
      BY <3>1
    <3>2. CASE back' = ReaderReset(back)
      BY <1>a, <3>2 DEF ReaderReset, Streams
    <3> QED BY <1>d, <3>1, <3>2
  <2>3. Undisturbed
    BY <1>d, <2>1, <2>2 DEF Undisturbed
  <2> QED BY <2>3, UndisturbedSent
<1>e. ASSUME there.writing \/ back.reading, Fail PROVE SentIsRead'
  <2>1. /\ client'.request = client.request /\ client'.requestStr = client.requestStr
        /\ client'.responseStr = client.responseStr
        /\ client'.responses = client.responses
    BY <1>a, <1>e DEF Fail, SingleCycleConns
  <2> QED BY <1>c, <1>d, <1>e, <2>1 DEF Fail
<1>7. CASE clientReset
  <2>1. CASE /\ there.shutting /\ there' = WriterReset(there)
             /\ UNCHANGED <<back, client, conn, questions>>
    BY <1>c, <1>d, <2>1
  <2> QED BY <1>e, <1>7, <2>1 DEF clientReset
<1>8. CASE destroy
  <2>1. /\ client'.request = client.request /\ client'.requestStr = client.requestStr
        /\ client'.responseStr = client.responseStr
        /\ client'.responses = client.responses
    BY <1>a, <1>8 DEF destroy, SingleCycleConns
  <2> QED BY <1>c, <1>d, <1>8, <2>1 DEF destroy
<1>9. CASE serverConnect
  <2>1. Undisturbed
    BY <1>a, <1>c, <1>9 DEF serverConnect, Undisturbed, Accepted, Streams, Conns
  <2> QED BY <2>1, UndisturbedSent
<1>10. CASE serverReceive
  <2>1. PICK n \in 1 .. Len(there.data) :
           LET x == SubSeq(there.data, 1, n) IN
           /\ there' = [there EXCEPT !.data = SubSeq(@, n + 1, Len(@))]
           /\ \/ /\ back.writer # "none"
                 /\ conn' = [conn EXCEPT !.request = @ \o x] /\ UNCHANGED back
              \/ /\ back.writer = "none" /\ back' = Connected(back) /\ n >= 2
                 /\ conn' = [conn EXCEPT !.sendReady = TRUE,
                                         !.request = @ \o Tail(Tail(x))]
    <3>1. Len(Service) = 2
      BY DEF Service
    <3> QED BY <1>10, <3>1 DEF serverReceive
  <2>2. PICK x \in Seq(Bytes), y \in Seq(Bytes) :
           /\ x = SubSeq(there.data, 1, n)
           /\ y = SubSeq(there.data, n + 1, Len(there.data))
           /\ x \o y = there.data /\ Len(x) = n
    <3>1. there.data \in Seq(Bytes)
      BY <1>a
    <3> DEFINE d == there.data
               a == SubSeq(d, 1, n)
               b == SubSeq(d, n + 1, Len(d))
    <3>2. a \in Seq(Bytes) /\ b \in Seq(Bytes) /\ a \o b = d /\ Len(a) = n
      BY <3>1, Split
    <3> QED BY <3>2, Zenon
  <2>8. PICK rq \in Seq(Bytes) : rq = client.requestStr
    BY <1>a
  <2>3. /\ there.reader = "open" /\ there.writer # "none" /\ UNCHANGED <<client, questions>>
    BY <1>10 DEF serverReceive, CycleInv, Connecting, Accounted, NoStream
  <2>4. /\ there'.data = y /\ there'.writer = there.writer
        /\ there'.reader = there.reader /\ (there'.eof <=> there.eof)
    BY <1>a, <2>1, <2>2 DEF Streams
  <2>5. SentIsRead
    BY DEF CycleInv
  <2>6. CASE back.writer # "none"
    <3>1. /\ conn'.request = conn.request \o x /\ conn'.response = conn.response
          /\ back' = back
      BY <1>a, <2>1, <2>2, <2>6 DEF Conns
    <3>2. (conn.request \o x) \o (y \o rq) = conn.request \o (there.data \o rq)
      <4>1. y \o rq \in Seq(Bytes)
        BY <1>a, <2>2, PutBehind
      <4>2. (conn.request \o x) \o (y \o rq) = conn.request \o (x \o (y \o rq))
        <5>1. PICK c \in Seq(Bytes), z \in Seq(Bytes) : c = conn.request /\ z = y \o rq
          BY <1>a, <4>1
        <5>2. (c \o x) \o z = c \o (x \o z)
          BY <1>g
        <5> QED BY <5>1, <5>2
      <4>3. x \o (y \o rq) = (x \o y) \o rq
        <5>1. (x \o y) \o rq = x \o (y \o rq)
          BY <1>g
        <5> QED BY <5>1
      <4> QED BY <2>2, <4>2, <4>3
    <3> QED BY <2>3, <2>4, <2>5, <2>6, <2>8, <3>1, <3>2
               DEF SentIsRead, RequestRead, ResponseRead
  <2>7. CASE back.writer = "none"
    <3>1. /\ n >= 2 /\ conn'.request = conn.request \o Tail(Tail(x))
          /\ conn'.response = conn.response
          /\ back'.writer # "none" /\ back'.reader = back.reader
          /\ back'.data = back.data
      BY <1>a, <2>1, <2>2, <2>7 DEF Conns, Streams, Connected
    <3>2. conn.request = <<>>
      BY <2>5, <2>7 DEF SentIsRead, RequestRead
    <3>3. PICK z \in Seq(Bytes) : z = Tail(Tail(x))
      BY <2>2, <3>1, BehindId
    <3>4. conn'.request = z
      BY <1>b, <3>1, <3>2, <3>3
    <3>5. PICK v \in Seq(Bytes) : v = y \o rq
      BY <2>2, PutBehind
    <3>6. x \o v = Service \o client.request
      <4>1. (x \o y) \o rq = x \o (y \o rq)
        BY <1>g
      <4>2. there.data \o rq \in Seq(Bytes)
        BY <1>a, PutBehind
      <4>3. <<>> \o (there.data \o rq) = there.data \o rq
        BY <1>b, <4>2
      <4>4. there.data \o rq = Service \o client.request
        BY <2>3, <2>5, <2>7, <2>8, <3>2, <4>3 DEF SentIsRead, RequestRead
      <4> QED BY <2>2, <3>5, <4>1, <4>4
    <3>7. z \o v = client.request
      <4>1. Tail(Tail(x \o v)) = z \o v
        BY <2>2, <3>1, <3>3, BehindId
      <4>2. Tail(Tail(Service \o client.request)) = Tail(Tail(Service)) \o client.request
        <5>1. Len(Service) >= 2
          BY DEF Service
        <5> QED BY <1>a, <5>1, StringsTyped, BehindId
      <4>3. Tail(Tail(Service)) = <<>>
        BY DEF Service
      <4> QED BY <1>a, <1>b, <3>6, <4>1, <4>2, <4>3
    <3> QED BY <2>3, <2>4, <2>5, <2>7, <2>8, <3>1, <3>4, <3>5, <3>7
               DEF SentIsRead, RequestRead, ResponseRead
  <2> QED BY <2>6, <2>7
<1>f. ASSUME Delete, there.reading \/ back.writing \/ back.shutting,
             \/ questions' = questions
             \/ questions' = <<client.request>> /\ there.eof
      PROVE  SentIsRead'
  <2>1. /\ there'.reader = "reset" /\ there'.writer = there.writer
        /\ (there'.eof <=> there.eof) /\ there.reader # "none"
    <3>1. there.reader # "none"
      BY <1>f DEF CycleInv, Connecting, Accounted
    <3> QED BY <1>a, <1>f, <3>1 DEF Delete, ReaderReset, Streams
  <2>2. /\ back'.reader = back.reader /\ back'.data = back.data
        /\ (back'.writer = "none" <=> back.writer = "none")
    BY <1>a, <1>f DEF Delete, WriterReset, Streams
  <2>3. /\ conn'.request = conn.request /\ conn'.response = conn.response
        /\ client' = client
    BY <1>a, <1>f DEF Delete, Conns
  <2>4. there.writer # "none"
    BY <1>c, <1>f
  <2>5. SentIsRead
    BY DEF CycleInv
  <2>6. <<client.request>> # <<>>
    OBVIOUS
  <2> QED BY <1>f, <2>1, <2>2, <2>3, <2>4, <2>5, <2>6
             DEF SentIsRead, RequestRead, ResponseRead
<1>11. CASE serverShutdown
  <2>1. /\ back.writer # "none" /\ conn.sendReady
        /\ conn.request = client.request /\ questions = <<>>
    BY <1>11, WholeRequest
  <2>2. questions' = <<client.request>> /\ there.reading /\ there.eof
    <3>1. /\ questions' = Append(questions, conn.request)
          /\ there.reading /\ there.eof
      BY <1>11 DEF serverShutdown
    <3>2. Append(<<>>, client.request) = <<client.request>>
      OBVIOUS
    <3> QED BY <2>1, <3>1, <3>2
  <2>3. CASE Delete
    BY <1>f, <2>2, <2>3
  <2>4. CASE /\ there' = [there EXCEPT !.reading = FALSE]
             /\ \E r \in Strings :
                   /\ back' = Respond(back, r)
                   /\ conn' = [conn EXCEPT !.response = r,
                                           !.sendReady = @ \/ r = <<>>]
             /\ UNCHANGED client
    <3>1. PICK r \in Strings :
             /\ back' = Respond(back, r)
             /\ conn' = [conn EXCEPT !.response = r, !.sendReady = @ \/ r = <<>>]
      BY <2>4
    <3>2. r \in Seq(Bytes)
      BY StringsTyped
    <3>3. SentIsRead
      BY DEF CycleInv
    <3>4. back.data = <<>> /\ client.responseStr = <<>>
      BY <2>1, <3>3 DEF SentIsRead, RequestRead, ResponseRead
    <3>5. back'.writer = back.writer /\ back'.reader = back.reader /\ back'.data = r
      <4>1. CASE r = <<>>
        BY <1>a, <2>1, <3>1, <3>4, <4>1 DEF Respond, Shut, Streams
      <4>2. CASE r # <<>>
        <5>1. back' = Written(back, r)
          BY <2>1, <3>1, <4>2 DEF Respond
        <5>2. back'.data = back.data \o r /\ back'.writer = back.writer
              /\ back'.reader = back.reader
          BY <1>a, <5>1 DEF Written, Streams
        <5> QED BY <1>b, <3>2, <3>4, <5>2
      <4> QED BY <4>1, <4>2
    <3>6. conn'.request = conn.request /\ conn'.response = r
      BY <1>a, <3>1 DEF Conns
    <3>7. /\ there'.writer = there.writer /\ there'.reader = there.reader
          /\ there'.data = there.data /\ (there'.eof <=> there.eof)
      BY <1>a, <2>4 DEF Streams
    <3>8. client.responses = 0
      BY <2>1 DEF CycleInv, Waiting, Accounted
    <3>9. <<>> \o r = r /\ <<client.request>> # <<>>
      BY <1>b, <3>2
    <3>10. there.writer # "none"
      BY <1>c, <2>2
    <3>11. client' = client
      BY <2>4
    <3>12. client'.responseStr \o back'.data = conn'.response
      BY <3>4, <3>5, <3>6, <3>9, <3>11
    <3>13. /\ questions' \in {<<>>, <<client'.request>>} /\ questions' # <<>>
           /\ client'.responses = 0
      BY <2>2, <3>8, <3>9, <3>11
    <3>14. RequestRead'
      BY <2>1, <3>3, <3>5, <3>6, <3>7, <3>10, <3>11, <3>13
         DEF SentIsRead, RequestRead
    <3>15. ResponseRead'
      BY <3>12, <3>13 DEF ResponseRead
    <3> QED BY <3>14, <3>15 DEF SentIsRead
  <2> QED BY <1>11, <2>3, <2>4 DEF serverShutdown
<1>12. CASE serverReady
  <2>1. Undisturbed
    BY <1>a, <1>c, <1>12 DEF serverReady, Undisturbed, Shut, Streams
  <2> QED BY <2>1, UndisturbedSent
<1>13. CASE serverShutdownReady
  BY <1>f, <1>13 DEF serverShutdownReady
<1>14. CASE serverReset
  <2>1. CASE /\ back.writer = "open" /\ back' = WriterReset(back)
             /\ UNCHANGED <<there, client, conn, questions>>
    <3>1. Undisturbed
      BY <1>a, <1>c, <2>1 DEF Undisturbed, WriterReset, Streams
    <3> QED BY <3>1, UndisturbedSent
  <2> QED BY <1>f, <1>14, <2>1 DEF serverReset
<1>15. CASE serverAborts
  <2>1. /\ conn'.request = conn.request /\ conn'.response = conn.response
        /\ UNCHANGED <<there, back, client, questions>>
    BY <1>a, <1>15 DEF serverAborts, Conns
  <2>2. Undisturbed
    BY <1>c, <1>15, <2>1 DEF serverAborts, Undisturbed
  <2> QED BY <2>2, UndisturbedSent
<1> QED BY <1>1, <1>2, <1>3, <1>4, <1>5, <1>6, <1>7, <1>8, <1>9, <1>10, <1>11,
           <1>12, <1>13, <1>14, <1>15 DEF CycleNext

LEMMA CycleInvHolds == CycleSpec => []CycleInv
<1>1. CycleInv /\ UNCHANGED scVars => CycleInv'
  BY
     DEF CycleInv, CycleTyped, Connecting, Waiting, Accounted, SentIsRead, RequestRead,
         ResponseRead, scVars
<1>2. CycleInv /\ CycleNext => CycleInv'
  BY TypedStep, FlagsStep, SentStep DEF CycleInv, CycleFlags
<1> QED BY <1>1, <1>2, CycleInitInv, PTL DEF CycleSpec

\* Wherever the data behind the service id is split (a split of the id itself
\* ends the server's program, and what is here still holds), whichever end is
\* reset and when, and whenever the client is destroyed: the handler is asked
\* at most once, with the whole request; the client hears the whole response,
\* at most once, and never a failure too; and until then it waits for a
\* callback, but for the time that ClientWaits names, as the server's
\* connection does until it deletes itself, once.
THEOREM RequestsAlwaysEnd == CycleSpec => []RequestsEnd
<1>1. CycleInv => RequestsEnd
  <2> SUFFICES ASSUME CycleInv PROVE RequestsEnd
    OBVIOUS
  <2>1. WholeAnswer
    BY DEF CycleInv, Waiting, SentIsRead, RequestRead, ResponseRead, WholeAnswer
  <2>2. ClientWaits
    BY DEF CycleInv, Waiting, ClientWaits
  <2>3. ConnAccounted
    BY DEF CycleInv, Accounted, ConnAccounted
  <2> QED BY <2>1, <2>2, <2>3 DEF RequestsEnd
<1> QED BY <1>1, CycleInvHolds, PTL
-----------------------------------------------------------------------------
(* The machine's addresses. *)

Padded(power, n) == IF n = 0 THEN 1
                    ELSE IF n < power[n - 1] THEN power[n - 1]
                    ELSE 2 * power[n - 1]

LEMMA PadDefined ==
    ASSUME NEW x \in Nat
    PROVE  \E f : f = [k \in 0 .. x |-> Padded(f, k)]
<1>. DEFINE Exists(n) ==
                \E f : f = [k \in 0 .. n |-> Padded(f, k)]
            S == {n \in Nat : Exists(n)}
<1>1. Exists(0)
  <2>. DEFINE f == [k \in 0 .. 0 |-> 1]
  <2>1. f = [k \in 0 .. 0 |-> Padded(f, k)]
    BY DEF Padded
  <2>. HIDE DEF f
  <2>. QED BY <2>1
<1>2. ASSUME NEW n \in Nat, Exists(n) PROVE Exists(n + 1)
  <2>1. PICK f : f = [k \in 0 .. n |-> Padded(f, k)]
    BY <1>2
  <2>. DEFINE g == [k \in 0 .. n + 1 |-> IF k = n + 1 THEN Padded(f, n + 1) ELSE f[k]]
  <2>2. \A k \in 0 .. n : g[k] = f[k]
    OBVIOUS
  <2>3. ASSUME NEW k \in 0 .. n + 1
        PROVE  g[k] = Padded(g, k)
    <3>1. CASE k = n + 1
      <4>1. g[k - 1] = f[n] /\ k # 0
        BY <2>2, <3>1
      <4>. QED BY <3>1, <4>1 DEF Padded
    <3>2. CASE k \in 0 .. n
      <4>1. g[k] = f[k] /\ (k # 0 => g[k - 1] = f[k - 1])
        BY <2>2, <3>2
      <4>2. f[k] = Padded(f, k)
        BY <2>1, <3>2
      <4>. QED BY <4>1, <4>2 DEF Padded
    <3>. QED BY <3>1, <3>2
  <2>4. g = [k \in 0 .. n + 1 |-> Padded(g, k)]
    BY <2>3
  <2>. HIDE DEF g
  <2>. QED BY <2>4, Zenon
<1>. HIDE DEF Exists
<1>3. 0 \in S /\ \A n \in Nat : n \in S => n + 1 \in S
  BY <1>1, <1>2
<1>4. x \in S
  <2>. HIDE DEF S
  <2>. QED BY <1>3, SetInduction
<1>. QED BY <1>4 DEF Exists

\* There is room for one more than is asked for.
LEMMA PadAbove == \A x \in Nat : pad(x) \in Nat /\ pad(x) > x
<1> SUFFICES ASSUME NEW x \in Nat PROVE pad(x) \in Nat /\ pad(x) > x
  OBVIOUS
<1> DEFINE power == CHOOSE f : f = [k \in 0 .. x |-> Padded(f, k)]
<1>1. power = [k \in 0 .. x |-> Padded(power, k)]
  BY PadDefined
<1>2. pad(x) = power[x]
  BY DEF pad, Padded
<1> HIDE DEF power
<1> DEFINE S == {k \in Nat : k <= x => power[k] \in Nat /\ power[k] > k}
<1>3. 0 \in S
  BY <1>1 DEF Padded
<1>4. ASSUME NEW k \in Nat, k \in S PROVE k + 1 \in S
  <2>1. SUFFICES ASSUME k + 1 <= x PROVE power[k + 1] \in Nat /\ power[k + 1] > k + 1
    OBVIOUS
  <2>2. power[k] \in Nat /\ power[k] > k
    BY <1>4, <2>1
  <2>3. power[k + 1] = IF k + 1 < power[k] THEN power[k] ELSE 2 * power[k]
    BY <1>1, <2>1 DEF Padded
  <2> QED BY <2>2, <2>3
<1>5. Nat \subseteq S
  <2> HIDE DEF S
  <2> QED BY <1>3, <1>4, SetInduction
<1> QED BY <1>2, <1>5

Cached == {cached_addr[k] : k \in 1 .. cached_addrs}

\* An address that has not come or gone since the last update, if that did not
\* fail, is in the list when it is the machine's.
CacheTrue ==
    ~failed /\ cached_addrs # -1 =>
        \A a \in Addrs : since[a] < cached_update => (a \in Cached <=> a \in machine)

CacheInv ==
    /\ now \in Nat /\ cached_update \in Nat /\ cached_addrs \in Int
    /\ machine \subseteq Addrs /\ since \in [Addrs -> Nat]
    /\ answer.at \in Nat /\ answer.at <= now /\ cached_update <= now
    /\ cached_addrs = -1 /\ ~failed => cached_update = 0 /\ now > UPDATE_FREQ
    /\ WithinArray /\ AnswerFresh /\ CacheTrue

LEMMA UpdateSound ==
    ASSUME CacheInv, Update, machine' = machine
    PROVE  /\ WithinArray' /\ cached_addrs' \in Nat
           /\ ~failed' => Cached' = machine
<1>1. PICK order \in [1 .. Cardinality(machine) -> machine] :
         /\ {order[k] : k \in DOMAIN order} = machine
         /\ \E n \in 0 .. Len(order) :
               /\ cached_addr' = SubSeq(order, 1, n)
               /\ room' = pad(n) /\ cached_addrs' = n
               /\ failed' = (n < Len(order))
               /\ lastWrite' = IF n < Len(order) THEN [at |-> n, room |-> pad(n)]
                               ELSE IF n = 0 THEN lastWrite
                               ELSE [at |-> n - 1, room |-> pad(n - 1)]
  BY DEF Update
<1>2. PICK n \in 0 .. Len(order) :
         /\ cached_addr' = SubSeq(order, 1, n)
         /\ room' = pad(n) /\ cached_addrs' = n
         /\ failed' = (n < Len(order))
         /\ lastWrite' = IF n < Len(order) THEN [at |-> n, room |-> pad(n)]
                         ELSE IF n = 0 THEN lastWrite
                         ELSE [at |-> n - 1, room |-> pad(n - 1)]
  BY <1>1
<1>3. Cardinality(machine) \in Nat
  BY CacheAssumption, FS_Subset, FS_CardinalityType DEF CacheInv
<1>4. order \in Seq(machine)
  BY <1>3, SeqDef
<1>5. Len(order) \in Nat /\ DOMAIN order = 1 .. Len(order) /\ n \in Nat
  BY <1>4, LenProperties
<1>6. /\ Len(cached_addr') = n
      /\ \A k \in 1 .. n : cached_addr'[k] = order[k]
  <2>1. \A k \in 1 .. n : order[k] \in machine
    <3>1. ASSUME NEW k \in 1 .. n PROVE order[k] \in machine
      <4>1. k \in 1 .. Len(order)
        BY <1>5
      <4> QED BY <1>4, <4>1, ElementOfSeq
    <3> QED BY <3>1
  <2>2. /\ Len(SubSeq(order, 1, n)) = IF 1 <= n THEN n - 1 + 1 ELSE 0
        /\ \A k \in 1 .. n - 1 + 1 : SubSeq(order, 1, n)[k] = order[1 + k - 1]
    BY <1>5, <2>1, SubSeqProperties
  <2>3. /\ Len(SubSeq(order, 1, n)) = n
        /\ \A k \in 1 .. n : SubSeq(order, 1, n)[k] = order[k]
    BY <1>5, <2>2
  <2> QED BY <1>2, <2>3
<1>7. WithinArray'
  <2>1. lastWrite'.at < lastWrite'.room \/ lastWrite'.at = -1
    <3>1. CASE n < Len(order)
      BY <1>2, <1>5, <3>1, PadAbove
    <3>2. CASE ~(n < Len(order)) /\ n = 0
      BY <1>2, <3>2 DEF CacheInv, WithinArray
    <3>3. CASE ~(n < Len(order)) /\ n # 0
      <4>1. n - 1 \in Nat
        BY <1>5, <3>3
      <4>2. pad(n - 1) > n - 1
        BY <4>1, PadAbove
      <4> QED BY <1>2, <3>3, <4>2
    <3> QED BY <3>1, <3>2, <3>3
  <2>2. room' >= cached_addrs' /\ Len(cached_addr') = cached_addrs'
    BY <1>2, <1>5, <1>6, PadAbove
  <2> QED BY <2>1, <2>2 DEF WithinArray
<1>8. ASSUME ~failed' PROVE Cached' = machine
  <2>1. n = Len(order)
    <3>1. ~(n < Len(order))
      BY <1>2, <1>8, Zenon
    <3> QED BY <1>5, <3>1
  <2>2. Cached' = {order[k] : k \in 1 .. n}
    BY <1>2, <1>6 DEF Cached
  <2> QED BY <1>1, <1>5, <2>1, <2>2
<1> QED BY <1>2, <1>5, <1>7, <1>8

LEMMA CacheInvHolds == CacheSpec => []CacheInv
<1>1. CacheInit => CacheInv
  <2>1. Len(<<>>) = 0
    BY EmptySeq
  <2> QED BY <2>1, CacheAssumption
          DEF CacheInit, CacheInv, WithinArray, AnswerFresh, CacheTrue
<1>2. CacheInv /\ [CacheNext]_mVars => CacheInv'
  <2> SUFFICES ASSUME CacheInv, [CacheNext]_mVars PROVE CacheInv'
    OBVIOUS
  <2>1. CASE UNCHANGED mVars
    BY <2>1 DEF mVars, CacheInv, WithinArray, AnswerFresh, CacheTrue, Cached
  <2>2. CASE tick
    BY <2>2, CacheAssumption
       DEF tick, CacheInv, WithinArray, AnswerFresh, CacheTrue, Cached
  <2>3. CASE \E a \in Addrs : renumber(a)
    <3>1. PICK a \in Addrs : renumber(a)
      BY <2>3
    <3>2. /\ machine' = IF a \in machine THEN machine \ {a} ELSE machine \cup {a}
          /\ since' = [since EXCEPT ![a] = now]
          /\ UNCHANGED <<now, cached_addr, room, cached_addrs, cached_update,
                         failed, lastWrite, answer>>
      BY <3>1 DEF renumber
    <3>3. /\ since' \in [Addrs -> Nat] /\ machine' \subseteq Addrs
          /\ \A b \in Addrs : b # a => /\ since'[b] = since[b]
                                       /\ b \in machine' <=> b \in machine
          /\ since'[a] = now
      BY <3>2 DEF CacheInv
    <3>4. AnswerFresh' /\ CacheTrue'
      BY <3>2, <3>3, CacheAssumption DEF CacheInv, AnswerFresh, CacheTrue, Cached
    <3> QED BY <3>2, <3>3, <3>4 DEF CacheInv, WithinArray
  <2>4. CASE cusp_my_addresses
    <3>1. /\ answer'.at = now /\ answer'.list = Cached' /\ now' = now
          /\ machine' = machine /\ since' = since
      BY <2>4 DEF cusp_my_addresses, Cached
    <3>2. CASE cached_update + UPDATE_FREQ < now /\ Update
      <4>1. WithinArray' /\ cached_addrs' \in Nat /\ (~failed' => Cached' = machine)
        BY <3>1, <3>2, UpdateSound
      <4>2. cached_update' = now
        BY <2>4, <3>2 DEF cusp_my_addresses
      <4>3. AnswerFresh' /\ CacheTrue'
        BY <3>1, <4>1 DEF AnswerFresh, CacheTrue
      <4> QED BY <3>1, <4>1, <4>2, <4>3 DEF CacheInv
    <3>3. CASE cached_update + UPDATE_FREQ < now /\ UpdateFails
      <4>1. /\ failed' /\ cached_update' = now
            /\ UNCHANGED <<cached_addr, room, cached_addrs, lastWrite>>
        BY <2>4, <3>3 DEF cusp_my_addresses, UpdateFails
      <4> QED BY <3>1, <4>1 DEF CacheInv, WithinArray, AnswerFresh, CacheTrue
    <3>4. CASE ~(cached_update + UPDATE_FREQ < now)
      <4>1. UNCHANGED <<cached_addr, room, cached_addrs, cached_update, failed, lastWrite>>
        BY <2>4, <3>4 DEF cusp_my_addresses
      <4>2. Cached' = Cached
        BY <4>1 DEF Cached
      <4>3. CacheTrue'
        BY <3>1, <4>1, <4>2 DEF CacheInv, CacheTrue
      <4>4. ASSUME ~failed, NEW a \in Addrs, since[a] + UPDATE_FREQ < now
            PROVE  a \in Cached <=> a \in machine
        <5>1. cached_addrs # -1
          BY <3>4, <4>4, CacheAssumption DEF CacheInv
        <5>2. since[a] < cached_update
          BY <3>4, <4>4, CacheAssumption DEF CacheInv
        <5> QED BY <4>4, <5>1, <5>2 DEF CacheInv, CacheTrue
      <4>5. AnswerFresh'
        BY <3>1, <4>1, <4>2, <4>4 DEF AnswerFresh
      <4> QED BY <3>1, <4>1, <4>3, <4>5 DEF CacheInv, WithinArray
    <3> QED BY <2>4, <3>2, <3>3, <3>4 DEF cusp_my_addresses
  <2> QED BY <2>1, <2>2, <2>3, <2>4 DEF CacheNext
<1> QED BY <1>1, <1>2, PTL DEF CacheSpec

\* Whenever addresses come and go, the list is asked for, and that fails: no
\* address is written behind the array, and an answer is right about those that
\* have not come or gone for UPDATE_FREQ, unless the last update failed.
THEOREM AddressesAlwaysHold == CacheSpec => []AddressesHold
<1>1. CacheInv => AddressesHold
  BY DEF CacheInv, AddressesHold
<1> QED BY <1>1, CacheInvHolds, PTL
-----------------------------------------------------------------------------
(* The packets of IcmpPacket: checksums. *)

\* The sums of the first k words.
Sums(words) ==
    CHOOSE upTo : upTo = [k \in 0 .. Len(words) |->
                             IF k = 0 THEN 0 ELSE upTo[k - 1] + words[k]]

LEMMA SumsDefined ==
    ASSUME NEW words \in Seq(Nat)
    PROVE  Sums(words) = [k \in 0 .. Len(words) |->
                             IF k = 0 THEN 0 ELSE Sums(words)[k - 1] + words[k]]
<1>. DEFINE n == Len(words)
            Exists(m) == \E f : f = [k \in 0 .. m |->
                                        IF k = 0 THEN 0 ELSE f[k - 1] + words[k]]
            S == {m \in Nat : m <= n => Exists(m)}
<1>0. n \in Nat
  OBVIOUS
<1>1. Exists(0)
  <2>. DEFINE f == [k \in 0 .. 0 |-> 0]
  <2>1. f = [k \in 0 .. 0 |-> IF k = 0 THEN 0 ELSE f[k - 1] + words[k]]
    OBVIOUS
  <2>. HIDE DEF f
  <2>. QED BY <2>1
<1>2. ASSUME NEW m \in Nat, Exists(m) PROVE Exists(m + 1)
  <2>1. PICK f : f = [k \in 0 .. m |-> IF k = 0 THEN 0 ELSE f[k - 1] + words[k]]
    BY <1>2
  <2>. DEFINE g == [k \in 0 .. m + 1 |->
                       IF k = m + 1 THEN f[m] + words[k] ELSE f[k]]
  <2>2. \A k \in 0 .. m : g[k] = f[k]
    OBVIOUS
  <2>3. ASSUME NEW k \in 0 .. m + 1
        PROVE  g[k] = IF k = 0 THEN 0 ELSE g[k - 1] + words[k]
    <3>1. CASE k = m + 1
      <4>1. g[k - 1] = f[m] /\ k # 0
        BY <2>2, <3>1
      <4>. QED BY <3>1, <4>1
    <3>2. CASE k \in 0 .. m
      <4>1. g[k] = f[k] /\ (k # 0 => g[k - 1] = f[k - 1])
        BY <2>2, <3>2
      <4>2. f[k] = IF k = 0 THEN 0 ELSE f[k - 1] + words[k]
        BY <2>1, <3>2
      <4>. QED BY <4>1, <4>2
    <3>. QED BY <3>1, <3>2
  <2>4. g = [k \in 0 .. m + 1 |-> IF k = 0 THEN 0 ELSE g[k - 1] + words[k]]
    BY <2>3
  <2>. HIDE DEF g
  <2>. QED BY <2>4, Zenon
<1>. HIDE DEF Exists, n
<1>3. 0 \in S /\ \A m \in Nat : m \in S => m + 1 \in S
  BY <1>0, <1>1, <1>2
<1>4. Exists(n)
  <2>1. Nat \subseteq S
    <3>. HIDE DEF S
    <3>. QED BY <1>3, SetInduction
  <2>. QED BY <1>0, <2>1
<1>. QED BY <1>4, Zenon DEF Exists, n, Sums

LEMMA TotalIs ==
    ASSUME NEW words \in Seq(Nat)
    PROVE  Packet!Total(words) = Sums(words)[Len(words)]
BY DEF Packet!Total, Sums

LEMMA WordIs ==
    ASSUME NEW x \in Words
    PROVE  x \in Nat /\ x <= 65535
BY DEF Words

LEMMA WordsAre ==
    ASSUME NEW u \in Seq(Words)
    PROVE  /\ u \in Seq(Nat) /\ Len(u) \in Nat
           /\ \A k \in 1 .. Len(u) : u[k] \in Nat /\ u[k] <= 65535
<1>1. /\ Len(u) \in Nat /\ u \in [1 .. Len(u) -> Words]
      /\ \A k \in 1 .. Len(u) : u[k] \in Words
  OBVIOUS
<1>2. \A x \in Words : x \in Nat /\ x <= 65535
  BY WordIs
<1>3. u \in [1 .. Len(u) -> Nat]
  BY <1>1, <1>2
<1>. QED BY <1>1, <1>2, <1>3

\* Two rows of words that differ in one place: so do their sums, which are
\* not too large for two folds.
LEMMA TotalChanges ==
    ASSUME NEW u \in Seq(Words), NEW v \in Seq(Words), Len(u) = Len(v),
           NEW j \in 1 .. Len(u),
           \A k \in 1 .. Len(u) : k # j => v[k] = u[k]
    PROVE  /\ Packet!Total(u) \in Nat /\ Packet!Total(v) \in Nat
           /\ Packet!Total(u) <= 65535 * Len(u)
           /\ Packet!Total(v) <= 65535 * Len(u)
           /\ Packet!Total(v) = Packet!Total(u) - u[j] + v[j]
<1>. DEFINE n == Len(u)
<1>1. /\ n \in Nat /\ j \in Nat /\ 1 <= j /\ j <= n
      /\ \A k \in 1 .. n : /\ u[k] \in Nat /\ u[k] <= 65535
                           /\ v[k] \in Nat /\ v[k] <= 65535
                           /\ k # j => v[k] = u[k]
  <2>1. \A k \in 1 .. n : u[k] \in Nat /\ u[k] <= 65535
    BY WordsAre
  <2>2. \A k \in 1 .. n : v[k] \in Nat /\ v[k] <= 65535
    BY WordsAre
  <2>3. n \in Nat
    BY WordsAre
  <2>. HIDE DEF n
  <2>4. j \in Nat /\ 1 <= j /\ j <= n
    BY <2>3 DEF n
  <2>5. \A k \in 1 .. n : k # j => v[k] = u[k]
    BY DEF n
  <2>. QED BY <2>1, <2>2, <2>3, <2>4, <2>5
<1>2. PICK s : s = Sums(u)
  OBVIOUS
<1>3. PICK t : t = Sums(v)
  OBVIOUS
<1>4. u \in Seq(Nat) /\ v \in Seq(Nat)
  BY WordsAre
<1>5. /\ \A k \in 0 .. n : s[k] = IF k = 0 THEN 0 ELSE s[k - 1] + u[k]
      /\ \A k \in 0 .. n : t[k] = IF k = 0 THEN 0 ELSE t[k - 1] + v[k]
  <2>1. s = [k \in 0 .. n |-> IF k = 0 THEN 0 ELSE s[k - 1] + u[k]]
    BY <1>2, <1>4, SumsDefined
  <2>2. t = [k \in 0 .. n |-> IF k = 0 THEN 0 ELSE t[k - 1] + v[k]]
    BY <1>3, <1>4, SumsDefined
  <2>. HIDE DEF n
  <2>. QED BY <2>1, <2>2
<1>. HIDE DEF n
<1>. DEFINE S == {k \in Nat : k <= n =>
                     /\ s[k] \in Nat /\ s[k] <= 65535 * k
                     /\ t[k] \in Nat /\ t[k] <= 65535 * k
                     /\ k < j => t[k] = s[k]
                     /\ k >= j => t[k] = s[k] - u[j] + v[j]}
<1>6. 0 \in S
  BY <1>1, <1>5
<1>7. ASSUME NEW k \in Nat, k \in S PROVE k + 1 \in S
  <2>1. SUFFICES ASSUME k + 1 <= n
                 PROVE  /\ s[k + 1] \in Nat /\ s[k + 1] <= 65535 * (k + 1)
                        /\ t[k + 1] \in Nat /\ t[k + 1] <= 65535 * (k + 1)
                        /\ k + 1 < j => t[k + 1] = s[k + 1]
                        /\ k + 1 >= j => t[k + 1] = s[k + 1] - u[j] + v[j]
    OBVIOUS
  <2>2. s[k + 1] = s[k] + u[k + 1] /\ t[k + 1] = t[k] + v[k + 1]
    BY <1>1, <1>5, <2>1
  <2>3. /\ s[k] \in Nat /\ s[k] <= 65535 * k
        /\ t[k] \in Nat /\ t[k] <= 65535 * k
        /\ k < j => t[k] = s[k]
        /\ k >= j => t[k] = s[k] - u[j] + v[j]
    BY <1>1, <1>7, <2>1
  <2>4. /\ u[k + 1] \in Nat /\ u[k + 1] <= 65535
        /\ v[k + 1] \in Nat /\ v[k + 1] <= 65535
        /\ k + 1 # j => v[k + 1] = u[k + 1]
        /\ u[j] \in Nat /\ v[j] \in Nat
    BY <1>1, <2>1
  <2>5. 65535 * (k + 1) = 65535 * k + 65535
    OBVIOUS
  <2>6. /\ s[k + 1] \in Nat /\ s[k + 1] <= 65535 * (k + 1)
        /\ t[k + 1] \in Nat /\ t[k + 1] <= 65535 * (k + 1)
    <3>1. PICK c \in Nat : c = 65535 * k
      OBVIOUS
    <3>2. \A a, b \in Nat : a <= c /\ b <= 65535 =>
             a + b \in Nat /\ a + b <= c + 65535
      OBVIOUS
    <3>3. s[k] <= c /\ t[k] <= c /\ 65535 * (k + 1) = c + 65535
      BY <2>3, <2>5, <3>1
    <3>4. PICK a \in Nat, b \in Nat : a = s[k] /\ b = u[k + 1] /\ b <= 65535
      BY <2>3, <2>4
    <3>5. PICK d \in Nat, e \in Nat : d = t[k] /\ e = v[k + 1] /\ e <= 65535
      BY <2>3, <2>4
    <3>6. a <= c /\ d <= c
      BY <3>3, <3>4, <3>5
    <3>7. a + b \in Nat /\ a + b <= c + 65535
      BY <3>2, <3>4, <3>6
    <3>8. d + e \in Nat /\ d + e <= c + 65535
      BY <3>2, <3>5, <3>6
    <3>9. s[k + 1] = a + b /\ t[k + 1] = d + e
      BY <2>2, <3>4, <3>5
    <3>10. 65535 * (k + 1) = c + 65535
      BY <3>3
    <3>. QED BY <3>7, <3>8, <3>9, <3>10
  <2>7. CASE k + 1 < j
    BY <1>1, <2>2, <2>3, <2>4, <2>6, <2>7
  <2>8. CASE k + 1 = j
    <3>1. k < j /\ t[k] = s[k]
      BY <1>1, <2>3, <2>8
    <3>2. t[k + 1] = s[k + 1] - u[j] + v[j]
      BY <2>2, <2>3, <2>4, <2>8, <3>1
    <3>. QED BY <1>1, <2>6, <2>8, <3>2
  <2>9. CASE k + 1 > j
    <3>1. k >= j /\ k + 1 >= j /\ ~(k + 1 < j) /\ k + 1 # j
      BY <1>1, <2>9
    <3>2. t[k] = s[k] - u[j] + v[j] /\ v[k + 1] = u[k + 1]
      BY ONLY <2>3, <2>4, <3>1
    <3>3. \A a, b, c, d \in Nat : a - b + c + d = (a + d) - b + c
      OBVIOUS
    <3>4. t[k + 1] = s[k + 1] - u[j] + v[j]
      BY ONLY <2>2, <2>3, <2>4, <3>2, <3>3
    <3>. QED BY ONLY <2>6, <3>1, <3>4
  <2>. QED BY <1>1, <2>7, <2>8, <2>9
<1>8. n \in S
  <2>1. Nat \subseteq S
    <3>. HIDE DEF S
    <3>. QED BY <1>6, <1>7, SetInduction
  <2>. QED BY <1>1, <2>1
<1>9. Packet!Total(u) = s[n] /\ Packet!Total(v) = t[n]
  BY <1>2, <1>3, <1>4, TotalIs DEF n
<1>. QED BY <1>1, <1>8, <1>9 DEF n

\* Folding a sum twice leaves it as it is modulo 65535.
Folded(a) ==
    (a \div 65536 + (a % 65536)
        + ((a \div 65536 + (a % 65536)) \div 65536)) % 65536

LEMMA FoldedTwice ==
    ASSUME NEW a \in Nat, a <= 65535 * 65535
    PROVE  \E c \in Nat : Folded(a) = a - 65535 * c
<1>. DEFINE q == a \div 65536
            once == q + (a % 65536)
<1>1. /\ q \in Nat /\ q <= 65535 /\ (a % 65536) \in Nat
      /\ (a % 65536) <= 65535
      /\ a = 65536 * q + (a % 65536)
  OBVIOUS
<1>2. once \in Nat /\ once <= 131070 /\ a = once + 65535 * q
  <2>. HIDE DEF q
  <2>. QED BY <1>1
<1>3. Folded(a) = (once + (once \div 65536)) % 65536
  BY DEF Folded
<1>4. CASE once < 65536
  <2>1. (once + (once \div 65536)) % 65536 = once
    <3>. HIDE DEF once
    <3>. QED BY <1>2, <1>4
  <2>2. once = a - 65535 * q
    <3>. HIDE DEF once, q
    <3>. QED BY <1>1, <1>2
  <2>3. Folded(a) = a - 65535 * q
    BY <1>3, <2>1, <2>2
  <2>. HIDE DEF q, once
  <2>. QED BY <1>1, <2>3
<1>5. CASE once >= 65536
  <2>1. (once + (once \div 65536)) % 65536 = once - 65535
    <3>. HIDE DEF once
    <3>. QED BY <1>2, <1>5
  <2>2. 65535 * (q + 1) = 65535 * q + 65535 /\ q + 1 \in Nat
    <3>. HIDE DEF q
    <3>. QED BY <1>1
  <2>3. once - 65535 = a - 65535 * (q + 1)
    <3>. HIDE DEF once, q
    <3>. QED BY <1>1, <1>2, <2>2
  <2>4. Folded(a) = a - 65535 * (q + 1)
    BY <1>3, <2>1, <2>3
  <2>. HIDE DEF q, once
  <2>. QED BY <2>2, <2>4
<1>. QED BY <1>2, <1>4, <1>5

\* Unless 0 and 0xFFFF take each other's place, the checksum tells.
Apart(x, y) == /\ x # y /\ (x # 0 \/ y # 65535) /\ (x # 65535 \/ y # 0)

LEMMA ChecksumTells ==
    ASSUME NEW u \in Seq(Words), NEW v \in Seq(Words), Len(u) = Len(v),
           Len(u) <= 65535, NEW j \in 1 .. Len(u), Apart(u[j], v[j]),
           \A k \in 1 .. Len(u) : k # j => v[k] = u[k]
    PROVE  Packet!csum(v) # Packet!csum(u)
<1>1. SUFFICES ASSUME Packet!csum(v) = Packet!csum(u) PROVE FALSE
  OBVIOUS
<1>2. PICK a \in Nat : a = Packet!Total(u) /\ a <= 65535 * 65535
  BY TotalChanges
<1>3. PICK b \in Nat : /\ b = Packet!Total(v) /\ b <= 65535 * 65535
                       /\ b = a - u[j] + v[j]
  BY <1>2, TotalChanges
<1>4. PICK x \in Nat, y \in Nat : /\ x = u[j] /\ x <= 65535
                                  /\ y = v[j] /\ y <= 65535
  BY WordsAre
<1>5. PICK c \in Nat : Packet!csum(u) = 65535 - (a - 65535 * c)
  <2>1. Packet!csum(u) = 65535 - Folded(a)
    BY <1>2 DEF Packet!csum, Packet!Word, Folded
  <2>. QED BY <1>2, <2>1, FoldedTwice
<1>6. PICK d \in Nat : Packet!csum(v) = 65535 - (b - 65535 * d)
  <2>1. Packet!csum(v) = 65535 - Folded(b)
    BY <1>3 DEF Packet!csum, Packet!Word, Folded
  <2>. QED BY <1>3, <2>1, FoldedTwice
<1>7. a - 65535 * c = b - 65535 * d
  <2>1. 65535 - (a - 65535 * c) = 65535 - (b - 65535 * d)
    BY <1>1, <1>5, <1>6
  <2>2. a - 65535 * c \in Int /\ b - 65535 * d \in Int
    OBVIOUS
  <2>. QED BY <2>1, <2>2
<1>8. y - x = 65535 * (d - c)
  <2>1. PICK m \in Nat, n \in Nat : m = 65535 * c /\ n = 65535 * d
    OBVIOUS
  <2>2. 65535 * (d - c) = n - m
    BY <2>1
  <2>3. a - m = b - n
    BY <1>7, <2>1
  <2>4. b = a - x + y
    BY <1>3, <1>4
  <2>5. y - x = n - m
    BY <2>3, <2>4
  <2>. QED BY <2>2, <2>5
<1>9. PICK e \in Int : e = d - c
  OBVIOUS
<1>10. CASE e = 0
  BY <1>4, <1>8, <1>9, <1>10 DEF Apart
<1>11. CASE e > 0
  <2>1. x = 0 /\ y = 65535
    BY <1>4, <1>8, <1>9, <1>11
  <2>. QED BY <1>4, <2>1 DEF Apart
<1>12. CASE e < 0
  <2>1. y = 0 /\ x = 65535
    BY <1>4, <1>8, <1>9, <1>12
  <2>. QED BY <1>4, <2>1 DEF Apart
<1>. QED BY <1>10, <1>11, <1>12

\* Headers and packets as they are on the wire.
Headers == [len : Words, protocol : Words, source : Words, dest : Words,
            chksum : Words]
PacketsAre == [typecode : Words, inside : Headers, udp : [1 .. 4 -> Words],
               data : Seq(Octets), icmpsum : Words, len : Words,
               outside : Headers]

\* What the checksum of the ICMP message covers, word for word.
Row(p) ==
    <<p.typecode, 17664, p.inside.len, p.inside.protocol,
      p.inside.source, p.inside.dest, p.inside.chksum>>
      \o p.udp \o Packet!DataWords(p.data)

\* The number of words that hold the data.
Half(d) == (Len(d) + 1) \div 2

\* The k-th of them.
WordAt(d, k) == 256 * d[2 * k - 1] + (IF 2 * k <= Len(d) THEN d[2 * k] ELSE 0)

LEMMA DataWordsAre ==
    ASSUME NEW d \in Seq(Octets)
    PROVE  /\ Packet!DataWords(d) \in Seq(Words)
           /\ Half(d) \in Nat /\ Len(Packet!DataWords(d)) = Half(d)
           /\ \A k \in 1 .. Half(d) : Packet!DataWords(d)[k] = WordAt(d, k)
<1>1. PICK n \in Nat : n = Len(d)
  OBVIOUS
<1>2. PICK h \in Nat : h = Half(d) /\ 2 * h <= n + 1
  <2>1. Half(d) = (n + 1) \div 2
    BY <1>1 DEF Half
  <2>. QED BY <2>1
<1>3. ASSUME NEW k \in 1 .. h PROVE WordAt(d, k) \in Words
  <2>1. k \in Nat /\ 1 <= k /\ k <= h
    OBVIOUS
  <2>2. 2 * k - 1 \in 1 .. n /\ (2 * k <= n => 2 * k \in 1 .. n)
    BY <1>2, <2>1
  <2>3. \A idx \in 1 .. n : d[idx] \in Nat /\ d[idx] <= 255
    BY <1>1 DEF Octets
  <2>4. PICK x : x = d[2 * k - 1]
    OBVIOUS
  <2>5. PICK y : y = IF 2 * k <= n THEN d[2 * k] ELSE 0
    OBVIOUS
  <2>6. x \in Nat /\ x <= 255 /\ y \in Nat /\ y <= 255
    BY <2>2, <2>3, <2>4, <2>5
  <2>7. WordAt(d, k) = 256 * x + y
    BY <1>1, <2>4, <2>5 DEF WordAt
  <2>. QED BY <2>6, <2>7 DEF Words
<1>4. Packet!DataWords(d) = [k \in 1 .. h |-> WordAt(d, k)]
  BY <1>2 DEF Packet!DataWords, Half, WordAt
<1>5. [k \in 1 .. h |-> WordAt(d, k)] \in Seq(Words)
  BY <1>3
<1>6. Len([k \in 1 .. h |-> WordAt(d, k)]) = h
  OBVIOUS
<1>. QED BY <1>2, <1>4, <1>5, <1>6

LEMMA Joined ==
    ASSUME NEW a \in Seq(Words), NEW b \in Seq(Words)
    PROVE  /\ a \o b \in Seq(Words) /\ Len(a \o b) = Len(a) + Len(b)
           /\ \A k \in 1 .. Len(a) : (a \o b)[k] = a[k]
           /\ \A k \in 1 .. Len(b) : (a \o b)[Len(a) + k] = b[k]
OBVIOUS

LEMMA FourWords ==
    ASSUME NEW u \in [1 .. 4 -> Words]
    PROVE  u \in Seq(Words) /\ Len(u) = 4
<1>. DEFINE n == 4
<1>1. n \in Nat /\ u \in [1 .. n -> Words]
  OBVIOUS
<1>2. u \in Seq(Words) /\ Len(u) = n
  <2>. HIDE DEF n
  <2>. QED BY <1>1
<1>. QED BY <1>2

LEMMA SevenWords ==
    ASSUME NEW x1 \in Words, NEW x2 \in Words, NEW x3 \in Words,
           NEW x4 \in Words, NEW x5 \in Words, NEW x6 \in Words,
           NEW x7 \in Words
    PROVE  /\ <<x1, x2, x3, x4, x5, x6, x7>> \in Seq(Words)
           /\ Len(<<x1, x2, x3, x4, x5, x6, x7>>) = 7
OBVIOUS

\* The words of the data come last.
DataFollows(p) ==
    \A k \in 12 .. 11 + Half(p.data) :
       Row(p)[k] = Packet!DataWords(p.data)[k - 11]

LEMMA RowIs ==
    ASSUME NEW p \in PacketsAre
    PROVE  /\ Packet!IcmpSum(p) = Packet!csum(Row(p))
           /\ Row(p) \in Seq(Words)
           /\ Len(Row(p)) = 11 + Half(p.data)
           /\ Row(p)[1] = p.typecode
           /\ Row(p)[2] = 17664
           /\ Row(p)[3] = p.inside.len
           /\ Row(p)[4] = p.inside.protocol
           /\ Row(p)[5] = p.inside.source
           /\ Row(p)[6] = p.inside.dest
           /\ Row(p)[7] = p.inside.chksum
           /\ Row(p)[8] = p.udp[1]
           /\ Row(p)[9] = p.udp[2]
           /\ Row(p)[10] = p.udp[3]
           /\ Row(p)[11] = p.udp[4]
           /\ DataFollows(p)
<1>. DEFINE head == <<p.typecode, 17664, p.inside.len, p.inside.protocol,
                      p.inside.source, p.inside.dest, p.inside.chksum>>
<1>. HIDE DEF head
<1>1. PICK a : a = head
  OBVIOUS
<1>2. PICK b : b = p.udp
  OBVIOUS
<1>3. PICK c : c = Packet!DataWords(p.data)
  OBVIOUS
<1>4. PICK h : h = Half(p.data)
  OBVIOUS
<1>5. /\ p.typecode \in Words /\ p.inside.len \in Words
      /\ p.inside.protocol \in Words /\ p.inside.source \in Words
      /\ p.inside.dest \in Words /\ p.inside.chksum \in Words
      /\ p.udp \in [1 .. 4 -> Words] /\ p.data \in Seq(Octets)
  BY DEF PacketsAre, Headers
<1>6. 17664 \in Words
  BY DEF Words
<1>7. a \in Seq(Words) /\ Len(a) = 7
  BY <1>1, <1>5, <1>6, SevenWords DEF head
<1>8. b \in Seq(Words) /\ Len(b) = 4
  BY <1>2, <1>5, FourWords
<1>9. c \in Seq(Words) /\ Len(c) = h /\ h \in Nat
  <2>1. c \in Seq(Words) /\ Len(c) = h
    BY <1>3, <1>4, <1>5, DataWordsAre
  <2>. QED BY <2>1
<1>10. /\ a \o b \in Seq(Words) /\ Len(a \o b) = 11
       /\ \A k \in 1 .. Len(a) : (a \o b)[k] = a[k]
       /\ \A k \in 1 .. Len(b) : (a \o b)[Len(a) + k] = b[k]
  <2>1. Len(a \o b) = Len(a) + Len(b)
    BY <1>7, <1>8, Joined
  <2>2. Len(a \o b) = 11
    BY <1>7, <1>8, <2>1
  <2>. QED BY <1>7, <1>8, <2>2, Joined
<1>11. PICK ab : ab = a \o b
  OBVIOUS
<1>12. PICK r : r = ab \o c
  OBVIOUS
<1>13. /\ r \in Seq(Words) /\ Len(r) = 11 + h
       /\ \A k \in 1 .. Len(ab) : r[k] = ab[k]
       /\ \A k \in 1 .. Len(c) : r[Len(ab) + k] = c[k]
  BY <1>9, <1>10, <1>11, <1>12, Joined
<1>14. /\ r[1] = a[1] /\ r[2] = a[2] /\ r[3] = a[3] /\ r[4] = a[4]
       /\ r[5] = a[5] /\ r[6] = a[6] /\ r[7] = a[7]
  <2>1. \A k \in Nat : 1 <= k /\ k <= 7 => r[k] = a[k]
    <3>1. \A k \in Nat : 1 <= k /\ k <= 7 => k \in 1 .. Len(a) /\ k \in 1 .. Len(ab)
      BY <1>7, <1>10, <1>11
    <3>. QED BY <1>10, <1>11, <1>13, <3>1
  <2>. QED BY <2>1
<1>15. r[8] = b[1] /\ r[9] = b[2] /\ r[10] = b[3] /\ r[11] = b[4]
  <2>1. ab[8] = b[1] /\ ab[9] = b[2] /\ ab[10] = b[3] /\ ab[11] = b[4]
    BY <1>7, <1>8, <1>10, <1>11
  <2>. QED BY <1>10, <1>11, <1>13, <2>1
<1>16. \A k \in 12 .. 11 + h : r[k] = c[k - 11]
  <2>1. \A k \in 12 .. 11 + h : k - 11 \in 1 .. Len(c) /\ k = Len(ab) + (k - 11)
    BY <1>9, <1>10, <1>11
  <2>. QED BY <1>13, <2>1
<1>17. Row(p) = r /\ Packet!IcmpSum(p) = Packet!csum(Row(p))
  BY <1>1, <1>2, <1>3, <1>11, <1>12 DEF Row, Packet!IcmpSum, head
<1>18. /\ a[1] = p.typecode /\ a[2] = 17664 /\ a[3] = p.inside.len
       /\ a[4] = p.inside.protocol /\ a[5] = p.inside.source
       /\ a[6] = p.inside.dest /\ a[7] = p.inside.chksum
  BY <1>1 DEF head
<1>19. /\ r \in Seq(Words) /\ Len(r) = 11 + Half(p.data)
       /\ \A k \in 12 .. 11 + Half(p.data) :
             r[k] = Packet!DataWords(p.data)[k - 11]
  BY <1>3, <1>4, <1>13, <1>16
<1>20. /\ r[1] = p.typecode /\ r[2] = 17664 /\ r[3] = p.inside.len
       /\ r[4] = p.inside.protocol /\ r[5] = p.inside.source
       /\ r[6] = p.inside.dest /\ r[7] = p.inside.chksum
       /\ r[8] = p.udp[1] /\ r[9] = p.udp[2] /\ r[10] = p.udp[3]
       /\ r[11] = p.udp[4]
  BY <1>2, <1>14, <1>15, <1>18
<1>21. Row(p) \in Seq(Words) /\ Len(Row(p)) = 11 + Half(p.data)
  BY <1>17, <1>19
<1>22. DataFollows(p)
  BY <1>17, <1>19 DEF DataFollows
<1>23. /\ Row(p)[1] = p.typecode /\ Row(p)[2] = 17664
       /\ Row(p)[3] = p.inside.len /\ Row(p)[4] = p.inside.protocol
       /\ Row(p)[5] = p.inside.source /\ Row(p)[6] = p.inside.dest
       /\ Row(p)[7] = p.inside.chksum /\ Row(p)[8] = p.udp[1]
       /\ Row(p)[9] = p.udp[2] /\ Row(p)[10] = p.udp[3]
       /\ Row(p)[11] = p.udp[4]
  BY <1>17, <1>20
<1>24. Packet!IcmpSum(p) = Packet!csum(Row(p))
  BY <1>17
<1>. QED BY <1>21, <1>22, <1>23, <1>24

-----------------------------------------------------------------------------
(* A word of the message that changes: its checksum tells. *)

\* The data of a packet is at most 32768 words.
LEMMA HalfIs ==
    ASSUME NEW d \in Seq(Octets), Len(d) <= 65535
    PROVE  Half(d) \in Nat /\ Half(d) <= 32768
<1>1. PICK n \in Nat : n = Len(d) /\ n <= 65535
  OBVIOUS
<1>2. Half(d) = (n + 1) \div 2
  BY <1>1 DEF Half
<1>. QED BY <1>1, <1>2

LEMMA HalfSame ==
    ASSUME NEW d, NEW e, Len(e) = Len(d)
    PROVE  Half(e) = Half(d)
BY DEF Half

\* The heads of two messages are the same but for the place j of their rows,
\* and so is what follows.
HeadSame(p, q, j) ==
    /\ j = 1 \/ q.typecode = p.typecode
    /\ j = 3 \/ q.inside.len = p.inside.len
    /\ j = 4 \/ q.inside.protocol = p.inside.protocol
    /\ j = 5 \/ q.inside.source = p.inside.source
    /\ j = 6 \/ q.inside.dest = p.inside.dest
    /\ j = 7 \/ q.inside.chksum = p.inside.chksum
    /\ j = 8 \/ q.udp[1] = p.udp[1]
    /\ j = 9 \/ q.udp[2] = p.udp[2]
    /\ j = 10 \/ q.udp[3] = p.udp[3]
    /\ j = 11 \/ q.udp[4] = p.udp[4]

DataSame(p, q, j) ==
    \A k \in 12 .. 11 + Half(p.data) :
       k # j => Packet!DataWords(q.data)[k - 11] = Packet!DataWords(p.data)[k - 11]

LEMMA HeadsAgree ==
    ASSUME NEW p \in PacketsAre, NEW q \in PacketsAre, NEW j,
           HeadSame(p, q, j), NEW k \in Nat, 1 <= k, k <= 11, k # j
    PROVE  Row(q)[k] = Row(p)[k]
<1>1. /\ q.typecode = p.typecode \/ k # 1
      /\ q.inside.len = p.inside.len \/ k # 3
      /\ q.inside.protocol = p.inside.protocol \/ k # 4
      /\ q.inside.source = p.inside.source \/ k # 5
      /\ q.inside.dest = p.inside.dest \/ k # 6
      /\ q.inside.chksum = p.inside.chksum \/ k # 7
      /\ q.udp[1] = p.udp[1] \/ k # 8
      /\ q.udp[2] = p.udp[2] \/ k # 9
      /\ q.udp[3] = p.udp[3] \/ k # 10
      /\ q.udp[4] = p.udp[4] \/ k # 11
  BY DEF HeadSame
<1>2. /\ Row(p)[1] = p.typecode /\ Row(p)[2] = 17664
      /\ Row(p)[3] = p.inside.len /\ Row(p)[4] = p.inside.protocol
      /\ Row(p)[5] = p.inside.source /\ Row(p)[6] = p.inside.dest
      /\ Row(p)[7] = p.inside.chksum /\ Row(p)[8] = p.udp[1]
      /\ Row(p)[9] = p.udp[2] /\ Row(p)[10] = p.udp[3]
      /\ Row(p)[11] = p.udp[4]
  BY RowIs
<1>3. /\ Row(q)[1] = q.typecode /\ Row(q)[2] = 17664
      /\ Row(q)[3] = q.inside.len /\ Row(q)[4] = q.inside.protocol
      /\ Row(q)[5] = q.inside.source /\ Row(q)[6] = q.inside.dest
      /\ Row(q)[7] = q.inside.chksum /\ Row(q)[8] = q.udp[1]
      /\ Row(q)[9] = q.udp[2] /\ Row(q)[10] = q.udp[3]
      /\ Row(q)[11] = q.udp[4]
  BY RowIs
<1>4. CASE k = 1 \/ k = 2 \/ k = 3
  BY <1>1, <1>2, <1>3, <1>4
<1>5. CASE k = 4 \/ k = 5 \/ k = 6 \/ k = 7
  BY <1>1, <1>2, <1>3, <1>5
<1>6. CASE k = 8 \/ k = 9 \/ k = 10 \/ k = 11
  BY <1>1, <1>2, <1>3, <1>6
<1>. QED BY <1>4, <1>5, <1>6

\* Two messages that differ in one word do not have the same checksum.
LEMMA RowTells ==
    ASSUME NEW p \in PacketsAre, NEW q \in PacketsAre,
           Len(q.data) = Len(p.data), Len(p.data) <= 65535,
           NEW j \in Nat, 1 <= j, j <= 11 + Half(p.data),
           HeadSame(p, q, j), DataSame(p, q, j), Apart(Row(p)[j], Row(q)[j])
    PROVE  Packet!IcmpSum(q) # Packet!IcmpSum(p)
<1>1. PICK n \in Nat : n = Len(p.data) /\ n <= 65535
  <2>1. p.data \in Seq(Octets)
    BY DEF PacketsAre
  <2>. QED BY <2>1
<1>2. PICK h \in Nat : h = Half(p.data) /\ h = Half(q.data) /\ h <= 32768
  <2>1. p.data \in Seq(Octets)
    BY DEF PacketsAre
  <2>. QED BY <2>1, HalfIs, HalfSame
<1>3. PICK r : r = Row(p)
  OBVIOUS
<1>4. PICK s : s = Row(q)
  OBVIOUS
<1>5. /\ r \in Seq(Words) /\ s \in Seq(Words)
      /\ Len(r) = 11 + h /\ Len(s) = 11 + h
  <2>1. Row(p) \in Seq(Words) /\ Len(Row(p)) = 11 + Half(p.data)
    BY RowIs
  <2>2. Row(q) \in Seq(Words) /\ Len(Row(q)) = 11 + Half(q.data)
    BY RowIs
  <2>3. Half(p.data) = h /\ Half(q.data) = h
    BY <1>2
  <2>. QED BY <1>3, <1>4, <2>1, <2>2, <2>3
<1>6. ASSUME NEW k \in Nat, 1 <= k, k <= 11 + h, k # j
      PROVE  s[k] = r[k]
  <2>1. CASE k <= 11
    BY <1>3, <1>4, <1>6, <2>1, HeadsAgree
  <2>2. CASE k >= 12
    <3>1. k \in 12 .. 11 + Half(p.data)
      BY <1>1, <1>2, <1>6, <2>2
    <3>2. r[k] = Packet!DataWords(p.data)[k - 11]
      <4>1. DataFollows(p)
        BY RowIs
      <4>. QED BY <1>3, <3>1, <4>1 DEF DataFollows
    <3>3. s[k] = Packet!DataWords(q.data)[k - 11]
      <4>1. DataFollows(q)
        BY RowIs
      <4>2. k \in 12 .. 11 + Half(q.data)
        BY <1>2, <3>1
      <4>. QED BY <1>4, <4>1, <4>2 DEF DataFollows
    <3>. QED BY <1>6, <3>1, <3>2, <3>3 DEF DataSame
  <2>. QED BY <1>6, <2>1, <2>2
<1>7. Packet!csum(s) # Packet!csum(r)
  <2>1. j \in 1 .. Len(r) /\ Len(r) = Len(s) /\ Len(r) <= 65535
    BY <1>1, <1>2, <1>5
  <2>2. Apart(r[j], s[j])
    BY <1>3, <1>4
  <2>3. \A k \in 1 .. Len(r) : k # j => s[k] = r[k]
    BY <1>5, <1>6
  <2>. QED BY <1>5, <2>1, <2>2, <2>3, ChecksumTells
<1>8. Packet!IcmpSum(p) = Packet!csum(r) /\ Packet!IcmpSum(q) = Packet!csum(s)
  BY <1>3, <1>4, RowIs
<1>. QED BY <1>7, <1>8

\* Words and octets.
LEMMA WordIn ==
    ASSUME NEW x \in Nat, x <= 65535
    PROVE  x \in Words
BY DEF Words

LEMMA OctetIs ==
    ASSUME NEW x \in Octets
    PROVE  x \in Nat /\ x <= 255
BY DEF Octets

LEMMA ApartWhen ==
    ASSUME NEW x \in Nat, NEW y \in Nat, x # y,
           y # x + 65535, x # y + 65535
    PROVE  Apart(x, y)
BY DEF Apart

LEMMA SumIsWord ==
    ASSUME NEW u \in Seq(Words), Len(u) >= 1, Len(u) <= 65535
    PROVE  Packet!csum(u) \in Words
<1>. DEFINE a == Packet!Total(u)
            once == (a \div 65536) + (a % 65536)
            x == once + (once \div 65536)
<1>1. 1 \in 1 .. Len(u)
  BY WordsAre
<1>2. a \in Nat
  BY <1>1, TotalChanges
<1>3. x \in Nat
  BY <1>2
<1>4. Packet!csum(u) = 65535 - (x % 65536)
  BY DEF Packet!csum, Packet!Word
<1>5. 65535 - (x % 65536) \in Nat /\ 65535 - (x % 65536) <= 65535
  <2>. HIDE DEF x
  <2>. QED BY <1>3
<1>. QED BY <1>4, <1>5, WordIn

LEMMA ChangedIs ==
    ASSUME NEW x \in Words, NEW w \in Nat
    PROVE  /\ Packet!Changed(x, w) \in Words
           /\ Packet!Changed(x, w) = x \/ Apart(x, Packet!Changed(x, w))
<1>. DEFINE y == (x + w) % 65536
<1>1. x \in Nat /\ y \in Words
  <2>1. x \in Nat
    BY WordIs
  <2>2. y \in Nat /\ y <= 65535
    BY <2>1
  <2>. HIDE DEF y
  <2>. QED BY <2>1, <2>2, WordIn
<1>2. Packet!Changed(x, w) = IF {x, y} = {0, 65535} THEN x ELSE y
  BY DEF Packet!Changed, Packet!Word
<1>3. x = 0 /\ y = 65535 => {x, y} = {0, 65535}
  OBVIOUS
<1>4. x = 65535 /\ y = 0 => {x, y} = {0, 65535}
  OBVIOUS
<1>. HIDE DEF y
<1>5. CASE {x, y} = {0, 65535}
  BY <1>1, <1>2, <1>5
<1>6. CASE {x, y} # {0, 65535}
  <2>1. Packet!Changed(x, w) = y
    BY <1>2, <1>6
  <2>2. (x # 0 \/ y # 65535) /\ (x # 65535 \/ y # 0)
    BY <1>3, <1>4, <1>6
  <2>. QED BY <1>1, <2>1, <2>2 DEF Apart
<1>. QED BY <1>5, <1>6

LEMMA SwapIs ==
    ASSUME NEW w \in Words
    PROVE  Packet!Swap(w) \in Words /\ Packet!Swap(Packet!Swap(w)) = w
<1>1. w \in Nat /\ w <= 65535
  BY WordIs
<1>2. PICK a \in Nat, b \in Nat : /\ a = w \div 256 /\ b = w % 256
                                  /\ a <= 255 /\ b <= 255 /\ w = 256 * a + b
  BY <1>1
<1>3. Packet!Swap(w) = 256 * b + a
  BY <1>2 DEF Packet!Swap
<1>4. (256 * b + a) % 256 = a /\ (256 * b + a) \div 256 = b
  BY <1>2
<1>5. Packet!Swap(256 * b + a) = 256 * a + b
  BY <1>4 DEF Packet!Swap
<1>6. 256 * b + a \in Nat /\ 256 * b + a <= 65535
  BY <1>2
<1>. QED BY <1>2, <1>3, <1>5, <1>6, WordIn

\* No length is what macOS makes of it.
LEMMA SwapNot ==
    ASSUME NEW n \in Nat, n >= 20, n <= 65535
    PROVE  Packet!Swap(n - 20) # n
<1>1. PICK m \in Nat : m = n - 20 /\ m <= 65515
  OBVIOUS
<1>2. PICK a \in Nat, b \in Nat : /\ a = m \div 256 /\ b = m % 256
                                  /\ a <= 255 /\ b <= 255 /\ m = 256 * a + b
  BY <1>1
<1>3. Packet!Swap(m) = 256 * b + a
  BY <1>2 DEF Packet!Swap
<1>4. SUFFICES ASSUME 256 * b + a = 256 * a + b + 20 PROVE FALSE
  BY <1>1, <1>2, <1>3
<1>5. 255 * (b - a) = 20
  BY <1>2, <1>4
<1>6. PICK e \in Int : e = b - a
  BY <1>2
<1>. QED BY <1>5, <1>6

\* One byte of the data that changes is one word that does.
LEMMA ByteTells ==
    ASSUME NEW d \in Seq(Octets), NEW e \in Seq(Octets), Len(e) = Len(d),
           NEW k \in 1 .. Len(d), e[k] # d[k],
           \A idx \in 1 .. Len(d) : idx # k => e[idx] = d[idx]
    PROVE  LET j == (k + 1) \div 2
           IN  /\ j \in Nat /\ 1 <= j /\ j <= Half(d)
               /\ Apart(Packet!DataWords(d)[j], Packet!DataWords(e)[j])
               /\ \A idx \in 1 .. Half(d) :
                     idx # j => Packet!DataWords(e)[idx] = Packet!DataWords(d)[idx]
<1>1. PICK n \in Nat : n = Len(d)
  OBVIOUS
<1>2. PICK h \in Nat : /\ h = Half(d) /\ h = Half(e)
                       /\ 2 * h <= n + 1 /\ n <= 2 * h
  <2>1. Half(d) = (n + 1) \div 2 /\ Half(e) = (n + 1) \div 2
    BY <1>1 DEF Half
  <2>. QED BY <2>1
<1>3. k \in Nat /\ 1 <= k /\ k <= n
  BY <1>1
<1>4. PICK j \in Nat : /\ j = (k + 1) \div 2 /\ 1 <= j /\ j <= h
                       /\ (k = 2 * j - 1 \/ k = 2 * j)
  BY <1>2, <1>3
<1>5. PICK f : f = Packet!DataWords(d)
  OBVIOUS
<1>6. PICK g : g = Packet!DataWords(e)
  OBVIOUS
<1>7. \A idx \in 1 .. h : f[idx] = WordAt(d, idx) /\ g[idx] = WordAt(e, idx)
  BY <1>2, <1>5, <1>6, DataWordsAre
<1>8. ASSUME NEW idx \in Nat, 1 <= idx, idx <= n
      PROVE  d[idx] \in Nat /\ d[idx] <= 255 /\ e[idx] \in Nat /\ e[idx] <= 255
  <2>1. d[idx] \in Octets /\ e[idx] \in Octets
    BY <1>1, <1>8
  <2>. QED BY <2>1, OctetIs
<1>9. ASSUME NEW idx \in 1 .. h, idx # j PROVE g[idx] = f[idx]
  <2>1. idx \in Nat /\ 1 <= idx /\ idx <= h
    BY <1>9
  <2>2. 2 * idx - 1 \in 1 .. Len(d) /\ 2 * idx - 1 # k
    <3>1. 2 * idx - 1 \in Nat /\ 1 <= 2 * idx - 1 /\ 2 * idx - 1 <= n
      BY <1>2, <2>1
    <3>2. 2 * idx - 1 # k
      BY <1>4, <1>9, <2>1
    <3>. QED BY <1>1, <3>1, <3>2
  <2>3. e[2 * idx - 1] = d[2 * idx - 1]
    BY <2>2
  <2>4. ASSUME 2 * idx <= n PROVE e[2 * idx] = d[2 * idx]
    <3>1. 2 * idx \in Nat /\ 1 <= 2 * idx /\ 2 * idx # k
      BY <1>4, <1>9, <2>1
    <3>2. 2 * idx \in 1 .. Len(d)
      BY <1>1, <2>4, <3>1
    <3>. QED BY <3>1, <3>2
  <2>5. WordAt(e, idx) = WordAt(d, idx)
    BY <1>1, <2>3, <2>4 DEF WordAt
  <2>. QED BY <1>7, <2>5
<1>10. Apart(f[j], g[j])
  <2>1. j \in 1 .. h
    BY <1>4
  <2>2. PICK x, y, x2, y2 :
           /\ x = d[2 * j - 1] /\ y = (IF 2 * j <= n THEN d[2 * j] ELSE 0)
           /\ x2 = e[2 * j - 1] /\ y2 = (IF 2 * j <= n THEN e[2 * j] ELSE 0)
    OBVIOUS
  <2>3. f[j] = 256 * x + y /\ g[j] = 256 * x2 + y2
    BY <1>1, <1>7, <2>1, <2>2 DEF WordAt
  <2>4. 2 * j - 1 \in Nat /\ 1 <= 2 * j - 1 /\ 2 * j - 1 <= n /\ 2 * j \in Nat
    BY <1>2, <1>4
  <2>5. /\ x \in Nat /\ x <= 255 /\ y \in Nat /\ y <= 255
        /\ x2 \in Nat /\ x2 <= 255 /\ y2 \in Nat /\ y2 <= 255
    BY <1>4, <1>8, <2>2, <2>4
  <2>6. \/ x2 # x /\ y2 = y
        \/ x2 = x /\ y2 # y
    <3>1. CASE k = 2 * j - 1
      <4>1. x2 # x
        BY <2>2, <3>1
      <4>2. 2 * j <= n => e[2 * j] = d[2 * j]
        <5>1. 2 * j <= n => 2 * j \in 1 .. Len(d) /\ 2 * j # k
          BY <1>1, <1>4, <3>1
        <5>. QED BY <5>1
      <4>. QED BY <2>2, <4>1, <4>2
    <3>2. CASE k = 2 * j
      <4>1. y2 # y
        BY <1>3, <2>2, <3>2
      <4>2. x2 = x
        <5>1. 2 * j - 1 \in 1 .. Len(d) /\ 2 * j - 1 # k
          BY <1>1, <1>4, <2>4, <3>2
        <5>. QED BY <2>2, <5>1
      <4>. QED BY <4>1, <4>2
    <3>. QED BY <1>4, <3>1, <3>2
  <2>7. f[j] \in Nat /\ g[j] \in Nat /\ g[j] # f[j]
    BY <2>3, <2>5, <2>6
  <2>8. f[j] # g[j] + 65535 /\ g[j] # f[j] + 65535
    BY <2>3, <2>5, <2>6
  <2>. QED BY <2>7, <2>8, ApartWhen
<1>. QED BY <1>1, <1>2, <1>4, <1>5, <1>6, <1>9, <1>10

-----------------------------------------------------------------------------
(* The packet that cusp_icmp_send makes. *)

\* A header with these fields whose checksum is right.
HeaderOf(h, l, pr, s, d) ==
    /\ h \in Headers
    /\ h.len = l /\ h.protocol = pr /\ h.source = s /\ h.dest = d
    /\ h.chksum = Packet!IpSum(h)

LEMMA HeaderIs ==
    ASSUME NEW l \in Words, NEW pr \in Words, NEW s \in Words, NEW d \in Words
    PROVE  HeaderOf(Packet!IpHeader(l, pr, s, d), l, pr, s, d)
<1>. DEFINE h == Packet!IpHeader(l, pr, s, d)
<1>1. PICK g : g = [len |-> l, protocol |-> pr, source |-> s, dest |-> d,
                    chksum |-> 0]
  OBVIOUS
<1>2. PICK c : c = Packet!csum(<<17664, l, pr, s, d>>)
  OBVIOUS
<1>3. c \in Words
  <2>1. PICK v \in Words : v = 17664
    BY DEF Words
  <2>2. PICK u : u = <<v, l, pr, s, d>>
    OBVIOUS
  <2>3. u \in Seq(Words) /\ Len(u) >= 1 /\ Len(u) <= 65535
    BY <2>2
  <2>4. Packet!csum(u) \in Words
    BY <2>3, SumIsWord
  <2>. QED BY <1>2, <2>1, <2>2, <2>4
<1>4. Packet!IpSum(g) = c
  BY <1>1, <1>2 DEF Packet!IpSum
<1>5. h = [g EXCEPT !.chksum = c]
  BY <1>1, <1>4 DEF Packet!IpHeader
<1>6. /\ h = [len |-> l, protocol |-> pr, source |-> s, dest |-> d,
              chksum |-> c]
  BY <1>1, <1>5
<1>7. Packet!IpSum(h) = c
  BY <1>2, <1>6 DEF Packet!IpSum
<1>8. h \in Headers
  BY <1>3, <1>6 DEF Headers
<1>. QED BY <1>6, <1>7, <1>8 DEF HeaderOf

LEMMA RequestIs ==
    ASSUME NEW q \in Requests
    PROVE  /\ q \in [from : Words, fromport : Words, to : Words, toport : Words,
                     code : Words, reporter : Words, data : Seq(Octets)]
           /\ q.from \in Words /\ q.fromport \in Words /\ q.to \in Words
           /\ q.toport \in Words /\ q.code \in Words /\ q.reporter \in Words
           /\ q.data \in Seq(Octets) /\ Len(q.data) \in Nat
<1>1. q \in [from : Words, fromport : Words, to : Words, toport : Words,
             code : Words, reporter : Words, data : Seq(Octets)]
  BY PacketAssumption
<1>. QED BY <1>1

\* The data of q fits the buffer.
Fits(q) == Packet!MinLen + 2 * ((Len(q.data) + 1) \div 2) <= BufferLen

LEMMA FitsIs ==
    ASSUME NEW q \in Requests, Fits(q)
    PROVE  Len(q.data) \in Nat /\ Len(q.data) + 56 <= 65535
<1>1. PICK n \in Nat : n = Len(q.data)
  BY RequestIs
<1>2. 56 + 2 * ((n + 1) \div 2) <= BufferLen
  BY <1>1 DEF Fits, Packet!MinLen
<1>3. BufferLen \in Nat /\ BufferLen <= 65535
  BY PacketAssumption, WordIs
<1>4. n <= 2 * ((n + 1) \div 2) /\ 2 * ((n + 1) \div 2) \in Nat
  OBVIOUS
<1>5. n + 56 <= 65535
  BY <1>2, <1>3, <1>4
<1>. QED BY <1>1, <1>5

LEMMA UdpIs ==
    ASSUME NEW q \in Requests, Fits(q)
    PROVE  LET u == Packet!UdpHeader(q)
           IN  u \in [1 .. 4 -> Words] /\ u[1] = q.fromport /\ u[2] = q.toport
<1>1. PICK n \in Nat : n = Len(q.data) /\ n + 56 <= 65535
  BY FitsIs
<1>2. PICK l \in Words : l = n + 8
  BY <1>1 DEF Words
<1>3. PICK a : a = <<q.from, q.to, 17, l>>
  OBVIOUS
<1>4. PICK b : b = <<q.fromport, q.toport, l>>
  OBVIOUS
<1>5. PICK c : c = Packet!DataWords(q.data)
  OBVIOUS
<1>6. a \in Seq(Words) /\ Len(a) = 4
  <2>1. 17 \in Words
    BY DEF Words
  <2>. QED BY <1>3, <2>1, RequestIs
<1>7. b \in Seq(Words) /\ Len(b) = 3
  BY <1>4, RequestIs
<1>8. c \in Seq(Words) /\ Len(c) \in Nat /\ Len(c) <= 32768
  <2>1. q.data \in Seq(Octets)
    BY RequestIs
  <2>2. Len(q.data) <= 65535
    BY <1>1
  <2>. QED BY <1>5, <2>1, <2>2, DataWordsAre, HalfIs
<1>9. a \o b \in Seq(Words) /\ Len(a \o b) = 7
  <2>1. a \o b \in Seq(Words) /\ Len(a \o b) = Len(a) + Len(b)
    BY <1>6, <1>7, Joined
  <2>. QED BY <1>6, <1>7, <2>1
<1>10. PICK ab : ab = a \o b
  OBVIOUS
<1>11. PICK r : r = ab \o c
  OBVIOUS
<1>12. r \in Seq(Words) /\ Len(r) = 7 + Len(c)
  <2>1. r \in Seq(Words) /\ Len(r) = Len(ab) + Len(c)
    BY <1>8, <1>9, <1>10, <1>11, Joined
  <2>. QED BY <1>9, <1>10, <2>1
<1>13. PICK s \in Words : s = Packet!csum(r)
  BY <1>8, <1>12, SumIsWord
<1>14. Packet!UdpHeader(q) = Append(b, s)
  <2>1. Packet!UdpHeader(q)
           = Append(<<q.fromport, q.toport, Len(q.data) + 8>>,
                    Packet!csum(<<q.from, q.to, 17, Len(q.data) + 8>>
                                   \o <<q.fromport, q.toport, Len(q.data) + 8>>
                                   \o Packet!DataWords(q.data)))
    BY DEF Packet!UdpHeader
  <2>2. Len(q.data) + 8 = l
    BY <1>1, <1>2
  <2>3. Packet!UdpHeader(q)
           = Append(<<q.fromport, q.toport, l>>,
                    Packet!csum(<<q.from, q.to, 17, l>>
                                   \o <<q.fromport, q.toport, l>>
                                   \o Packet!DataWords(q.data)))
    BY <2>1, <2>2, Zenon
  <2>. QED BY <1>3, <1>4, <1>5, <1>10, <1>11, <1>13, <2>3, Zenon
<1>15. PICK u : u = Append(b, s)
  OBVIOUS
<1>16. u \in Seq(Words) /\ Len(u) = Len(b) + 1 /\ u[1] = b[1] /\ u[2] = b[2]
  <2>1. 1 \in 1 .. Len(b) /\ 2 \in 1 .. Len(b)
    BY <1>7
  <2>2. b \in Seq(Words)
    BY <1>7
  <2>3. /\ Append(b, s) \in Seq(Words) /\ Len(Append(b, s)) = Len(b) + 1
        /\ \A k \in 1 .. Len(b) : Append(b, s)[k] = b[k]
    BY <2>2, AppendProperties
  <2>. QED BY <1>15, <2>1, <2>3
<1>17. u \in [1 .. 4 -> Words]
  <2>1. PICK m \in Nat : m = Len(u) /\ m = 4
    BY <1>7, <1>16
  <2>2. u \in [1 .. m -> Words]
    BY <1>16, <2>1
  <2>. QED BY <2>1, <2>2
<1>18. b[1] = q.fromport /\ b[2] = q.toport
  BY <1>4
<1>. QED BY <1>14, <1>15, <1>16, <1>17, <1>18

\* The checksum of a message is a word.
LEMMA MessageSumIsWord ==
    ASSUME NEW p \in PacketsAre, Len(p.data) <= 65535
    PROVE  Packet!IcmpSum(p) \in Words
<1>1. PICK r : r = Row(p)
  OBVIOUS
<1>2. r \in Seq(Words) /\ Len(r) = 11 + Half(p.data)
  BY <1>1, RowIs
<1>3. Half(p.data) \in Nat /\ Half(p.data) <= 32768
  <2>1. p.data \in Seq(Octets)
    BY DEF PacketsAre
  <2>. QED BY <2>1, HalfIs
<1>4. PICK h \in Nat : h = Half(p.data) /\ h <= 32768
  BY <1>3
<1>5. r \in Seq(Words) /\ Len(r) >= 1 /\ Len(r) <= 65535
  BY <1>2, <1>4
<1>6. Packet!csum(r) \in Words
  BY <1>5, SumIsWord
<1>7. Packet!IcmpSum(p) = Packet!csum(r)
  BY <1>1, RowIs
<1>. QED BY <1>6, <1>7

\* The packet about q.
LEMMA MadeIs ==
    ASSUME NEW q \in Requests, Fits(q), NEW m, m = Packet!Made(q)
    PROVE  /\ m \in PacketsAre
           /\ m.typecode = q.code /\ m.data = q.data
           /\ m.inside.protocol = 273 /\ m.inside.source = q.from
           /\ m.inside.dest = q.to /\ m.inside.chksum = Packet!IpSum(m.inside)
           /\ m.udp[1] = q.fromport /\ m.udp[2] = q.toport
           /\ m.icmpsum = Packet!IcmpSum(m)
           /\ m.len = Len(q.data) + 56 /\ m.outside.len = m.len
           /\ m.outside.source = q.reporter /\ m.outside.dest = q.from
           /\ m.outside.protocol = 16385
           /\ m.outside.chksum = Packet!IpSum(m.outside)
<1>1. PICK n \in Nat : n = Len(q.data) /\ n + 56 <= 65535
  BY FitsIs
<1>2. PICK l \in Words : l = n + 56
  BY <1>1 DEF Words
<1>3. PICK k \in Words : k = l - 28
  BY <1>1, <1>2 DEF Words
<1>4. PICK a \in Words, b \in Words : a = 273 /\ b = 16385
  BY DEF Words
<1>5. PICK g : g = Packet!IpHeader(k, a, q.from, q.to)
  OBVIOUS
<1>6. PICK o : o = Packet!IpHeader(l, b, q.reporter, q.from)
  OBVIOUS
<1>7. PICK u : u = Packet!UdpHeader(q)
  OBVIOUS
<1>8. /\ g \in Headers /\ g.protocol = a /\ g.source = q.from
      /\ g.dest = q.to /\ g.chksum = Packet!IpSum(g)
  <2>1. PICK f \in Words, t \in Words : f = q.from /\ t = q.to
    BY RequestIs
  <2>2. g = Packet!IpHeader(k, a, f, t)
    BY <1>5, <2>1
  <2>3. HeaderOf(g, k, a, f, t)
    BY <2>2, HeaderIs
  <2>. QED BY <2>1, <2>3 DEF HeaderOf
<1>9. /\ o \in Headers /\ o.len = l /\ o.protocol = b
      /\ o.source = q.reporter /\ o.dest = q.from /\ o.chksum = Packet!IpSum(o)
  <2>1. PICK f \in Words, t \in Words : f = q.from /\ t = q.reporter
    BY RequestIs
  <2>2. o = Packet!IpHeader(l, b, t, f)
    BY <1>6, <2>1
  <2>3. HeaderOf(o, l, b, t, f)
    BY <2>2, HeaderIs
  <2>. QED BY <2>1, <2>3 DEF HeaderOf
<1>10. u \in [1 .. 4 -> Words] /\ u[1] = q.fromport /\ u[2] = q.toport
  BY <1>7, UdpIs
<1>11. PICK message : message = [typecode |-> q.code, inside |-> g, udp |-> u,
                                 data |-> q.data]
  OBVIOUS
<1>12. PICK s : s = Packet!IcmpSum(message)
  OBVIOUS
<1>13. m = [typecode |-> q.code, inside |-> g, udp |-> u, data |-> q.data,
            icmpsum |-> s, len |-> l, outside |-> o]
  <2>. DEFINE len == Len(q.data) + Packet!MinLen
              msg == [typecode |-> q.code,
                      inside |-> Packet!IpHeader(len - 28, 273, q.from, q.to),
                      udp |-> Packet!UdpHeader(q), data |-> q.data]
  <2>1. m = [typecode |-> msg.typecode, inside |-> msg.inside,
             udp |-> msg.udp, data |-> msg.data,
             icmpsum |-> Packet!IcmpSum(msg), len |-> len,
             outside |-> Packet!IpHeader(len, 16385, q.reporter, q.from)]
    BY DEF Packet!Made
  <2>2. len = l
    BY <1>1, <1>2 DEF Packet!MinLen
  <2>3. msg = message
    BY <1>3, <1>4, <1>5, <1>7, <1>11, <2>2
  <2>. HIDE DEF msg, len
  <2>4. m = [typecode |-> message.typecode, inside |-> message.inside,
             udp |-> message.udp, data |-> message.data,
             icmpsum |-> s, len |-> l, outside |-> o]
    BY <1>4, <1>6, <1>12, <2>1, <2>2, <2>3
  <2>. QED BY <1>11, <2>4
<1>14. PICK m0 : m0 = [typecode |-> q.code, inside |-> g, udp |-> u,
                       data |-> q.data, icmpsum |-> l, len |-> l, outside |-> o]
  OBVIOUS
<1>15. m0 \in PacketsAre /\ Len(m0.data) <= 65535
  BY <1>1, <1>8, <1>9, <1>10, <1>14, RequestIs DEF PacketsAre
<1>16. Packet!IcmpSum(m0) = s
  BY <1>11, <1>12, <1>14 DEF Packet!IcmpSum
<1>17. s \in Words
  BY <1>15, <1>16, MessageSumIsWord
<1>18. m \in PacketsAre
  BY <1>8, <1>9, <1>10, <1>13, <1>17, RequestIs DEF PacketsAre
<1>19. Packet!IcmpSum(m) = s
  BY <1>11, <1>12, <1>13 DEF Packet!IcmpSum
<1>20. /\ m.typecode = q.code /\ m.inside = g /\ m.udp = u /\ m.data = q.data
       /\ m.icmpsum = s /\ m.len = l /\ m.outside = o
  BY <1>13
<1>. QED BY <1>1, <1>2, <1>4, <1>8, <1>9, <1>10, <1>18, <1>19, <1>20

-----------------------------------------------------------------------------
(* Each field of the message that changes: its checksum tells. *)

\* The two packets agree outside the ICMP message's own fields.
Rest(p, q) ==
    /\ p \in PacketsAre /\ q \in PacketsAre
    /\ Len(p.data) <= 65535 /\ Len(q.data) = Len(p.data)

LEMMA CodeTells ==
    ASSUME NEW p, NEW q, Rest(p, q), Apart(p.typecode, q.typecode),
           q.inside = p.inside, q.udp = p.udp, q.data = p.data
    PROVE  Packet!IcmpSum(q) # Packet!IcmpSum(p)
<1>1. /\ p \in PacketsAre /\ q \in PacketsAre
      /\ Len(p.data) <= 65535 /\ Len(q.data) = Len(p.data)
  BY DEF Rest
<1>2. HeadSame(p, q, 1)
  BY DEF HeadSame
<1>3. DataSame(p, q, 1)
  BY DEF DataSame
<1>4. Apart(Row(p)[1], Row(q)[1])
  <2>1. Row(p)[1] = p.typecode
    BY <1>1, RowIs
  <2>2. Row(q)[1] = q.typecode
    BY <1>1, RowIs
  <2>. QED BY <2>1, <2>2
<1>5. 1 <= 11 + Half(p.data)
  <2>1. p.data \in Seq(Octets)
    BY <1>1 DEF PacketsAre
  <2>. QED BY <1>1, <2>1, HalfIs
<1>. QED BY <1>1, <1>2, <1>3, <1>4, <1>5, RowTells

\* One field of the two headers is apart, the others are the same.
OneField(g, h) ==
    \E f \in {"len", "protocol", "source", "dest", "chksum"} :
       /\ Apart(g[f], h[f])
       /\ f # "len" => h.len = g.len
       /\ f # "protocol" => h.protocol = g.protocol
       /\ f # "source" => h.source = g.source
       /\ f # "dest" => h.dest = g.dest
       /\ f # "chksum" => h.chksum = g.chksum

LEMMA InsideTells ==
    ASSUME NEW p, NEW q, Rest(p, q), OneField(p.inside, q.inside),
           q.typecode = p.typecode, q.udp = p.udp, q.data = p.data
    PROVE  Packet!IcmpSum(q) # Packet!IcmpSum(p)
<1>1. /\ p \in PacketsAre /\ q \in PacketsAre
      /\ Len(p.data) <= 65535 /\ Len(q.data) = Len(p.data)
  BY DEF Rest
<1>2. PICK f \in {"len", "protocol", "source", "dest", "chksum"} :
         /\ Apart(p.inside[f], q.inside[f])
         /\ f # "len" => q.inside.len = p.inside.len
         /\ f # "protocol" => q.inside.protocol = p.inside.protocol
         /\ f # "source" => q.inside.source = p.inside.source
         /\ f # "dest" => q.inside.dest = p.inside.dest
         /\ f # "chksum" => q.inside.chksum = p.inside.chksum
  BY DEF OneField
<1>3. /\ Row(p)[3] = p.inside.len /\ Row(p)[4] = p.inside.protocol
      /\ Row(p)[5] = p.inside.source /\ Row(p)[6] = p.inside.dest
      /\ Row(p)[7] = p.inside.chksum
  BY <1>1, RowIs
<1>4. /\ Row(q)[3] = q.inside.len /\ Row(q)[4] = q.inside.protocol
      /\ Row(q)[5] = q.inside.source /\ Row(q)[6] = q.inside.dest
      /\ Row(q)[7] = q.inside.chksum
  BY <1>1, RowIs
<1>5. \E j \in Nat : /\ 3 <= j /\ j <= 7
                     /\ HeadSame(p, q, j) /\ Apart(Row(p)[j], Row(q)[j])
  <2>1. CASE f = "len"
    <3>1. HeadSame(p, q, 3)
      BY <1>2, <2>1 DEF HeadSame
    <3>2. Apart(Row(p)[3], Row(q)[3])
      BY <1>2, <1>3, <1>4, <2>1
    <3>. QED BY <3>1, <3>2
  <2>2. CASE f = "protocol"
    <3>1. HeadSame(p, q, 4)
      BY <1>2, <2>2 DEF HeadSame
    <3>2. Apart(Row(p)[4], Row(q)[4])
      BY <1>2, <1>3, <1>4, <2>2
    <3>. QED BY <3>1, <3>2
  <2>3. CASE f = "source"
    <3>1. HeadSame(p, q, 5)
      BY <1>2, <2>3 DEF HeadSame
    <3>2. Apart(Row(p)[5], Row(q)[5])
      BY <1>2, <1>3, <1>4, <2>3
    <3>. QED BY <3>1, <3>2
  <2>4. CASE f = "dest"
    <3>1. HeadSame(p, q, 6)
      BY <1>2, <2>4 DEF HeadSame
    <3>2. Apart(Row(p)[6], Row(q)[6])
      BY <1>2, <1>3, <1>4, <2>4
    <3>. QED BY <3>1, <3>2
  <2>5. CASE f = "chksum"
    <3>1. HeadSame(p, q, 7)
      BY <1>2, <2>5 DEF HeadSame
    <3>2. Apart(Row(p)[7], Row(q)[7])
      BY <1>2, <1>3, <1>4, <2>5
    <3>. QED BY <3>1, <3>2
  <2>. QED BY <2>1, <2>2, <2>3, <2>4, <2>5
<1>6. PICK j \in Nat : /\ 3 <= j /\ j <= 7
                       /\ HeadSame(p, q, j) /\ Apart(Row(p)[j], Row(q)[j])
  BY <1>5
<1>7. DataSame(p, q, j)
  BY DEF DataSame
<1>8. 1 <= j /\ j <= 11 + Half(p.data)
  <2>1. p.data \in Seq(Octets)
    BY <1>1 DEF PacketsAre
  <2>. QED BY <1>1, <1>6, <2>1, HalfIs
<1>. QED BY <1>1, <1>6, <1>7, <1>8, RowTells

LEMMA UdpTells ==
    ASSUME NEW p, NEW q, Rest(p, q), NEW k \in 1 .. 4,
           Apart(p.udp[k], q.udp[k]),
           \A idx \in 1 .. 4 : idx # k => q.udp[idx] = p.udp[idx],
           q.typecode = p.typecode, q.inside = p.inside, q.data = p.data
    PROVE  Packet!IcmpSum(q) # Packet!IcmpSum(p)
<1>1. /\ p \in PacketsAre /\ q \in PacketsAre
      /\ Len(p.data) <= 65535 /\ Len(q.data) = Len(p.data)
  BY DEF Rest
<1>2. PICK j \in Nat : j = 7 + k
  OBVIOUS
<1>3. HeadSame(p, q, j)
  BY <1>2 DEF HeadSame
<1>4. /\ Row(p)[8] = p.udp[1] /\ Row(p)[9] = p.udp[2]
      /\ Row(p)[10] = p.udp[3] /\ Row(p)[11] = p.udp[4]
  BY <1>1, RowIs
<1>5. /\ Row(q)[8] = q.udp[1] /\ Row(q)[9] = q.udp[2]
      /\ Row(q)[10] = q.udp[3] /\ Row(q)[11] = q.udp[4]
  BY <1>1, RowIs
<1>6. Apart(Row(p)[j], Row(q)[j])
  BY <1>2, <1>4, <1>5
<1>7. DataSame(p, q, j)
  BY DEF DataSame
<1>8. 1 <= j /\ j <= 11 + Half(p.data)
  <2>1. p.data \in Seq(Octets)
    BY <1>1 DEF PacketsAre
  <2>. QED BY <1>1, <1>2, <2>1, HalfIs
<1>. QED BY <1>1, <1>3, <1>6, <1>7, <1>8, RowTells

LEMMA DataTells ==
    ASSUME NEW p, NEW q, Rest(p, q), NEW k \in 1 .. Len(p.data),
           p.data[k] # q.data[k],
           \A idx \in 1 .. Len(p.data) : idx # k => q.data[idx] = p.data[idx],
           q.typecode = p.typecode, q.inside = p.inside, q.udp = p.udp
    PROVE  Packet!IcmpSum(q) # Packet!IcmpSum(p)
<1>1. /\ p \in PacketsAre /\ q \in PacketsAre
      /\ Len(p.data) <= 65535 /\ Len(q.data) = Len(p.data)
  BY DEF Rest
<1>2. PICK d : d = p.data
  OBVIOUS
<1>3. PICK e : e = q.data
  OBVIOUS
<1>4. /\ d \in Seq(Octets) /\ e \in Seq(Octets) /\ Len(e) = Len(d)
      /\ k \in 1 .. Len(d) /\ e[k] # d[k]
      /\ \A idx \in 1 .. Len(d) : idx # k => e[idx] = d[idx]
  BY <1>1, <1>2, <1>3 DEF PacketsAre
<1>5. PICK w \in Nat :
         /\ 1 <= w /\ w <= Half(d)
         /\ Apart(Packet!DataWords(d)[w], Packet!DataWords(e)[w])
         /\ \A idx \in 1 .. Half(d) :
               idx # w => Packet!DataWords(e)[idx] = Packet!DataWords(d)[idx]
  BY <1>4, ByteTells
<1>6. PICK h \in Nat : h = Half(d) /\ h = Half(e)
  <2>1. Half(d) \in Nat
    BY <1>4, DataWordsAre
  <2>2. Half(e) = Half(d)
    BY <1>4, HalfSame
  <2>. QED BY <2>1, <2>2
<1>7. PICK j \in Nat : j = 11 + w
  OBVIOUS
<1>8. HeadSame(p, q, j)
  BY <1>5, <1>7 DEF HeadSame
<1>9. DataSame(p, q, j)
  <2>1. SUFFICES ASSUME NEW idx \in 12 .. 11 + h, idx # j
                 PROVE  Packet!DataWords(e)[idx - 11] = Packet!DataWords(d)[idx - 11]
    <3>1. p.data = d /\ q.data = e /\ Half(d) = h
      BY <1>2, <1>3, <1>6
    <3>. QED BY <3>1 DEF DataSame
  <2>2. idx - 11 \in 1 .. Half(d) /\ idx - 11 # w
    BY <1>6, <1>7, <2>1
  <2>. QED BY <1>5, <2>2
<1>10. Apart(Row(p)[j], Row(q)[j])
  <2>1. j \in 12 .. 11 + h /\ j - 11 = w
    BY <1>5, <1>6, <1>7
  <2>2. DataFollows(p) /\ DataFollows(q)
    BY <1>1, RowIs
  <2>3. Row(p)[j] = Packet!DataWords(d)[w]
    BY <1>2, <1>6, <2>1, <2>2 DEF DataFollows
  <2>4. Row(q)[j] = Packet!DataWords(e)[w]
    BY <1>3, <1>6, <2>1, <2>2 DEF DataFollows
  <2>. QED BY <1>5, <2>3, <2>4
<1>11. 1 <= j /\ j <= 11 + Half(p.data)
  BY <1>2, <1>5, <1>6, <1>7
<1>. QED BY <1>1, <1>8, <1>9, <1>10, <1>11, RowTells

-----------------------------------------------------------------------------
(* The packet on its way, and the inductive invariant. *)

\* The packet p as macOS leaves it.
Mac(p) == [p EXCEPT !.outside.len = Packet!Swap(@ - 20),
                    !.inside.len = Packet!Swap(@)]

\* The ICMP message of u is the one that was made.
Carried(u) ==
    /\ u.typecode = request.code /\ u.data = request.data
    /\ u.inside = Packet!Made(request).inside
    /\ u.udp = Packet!Made(request).udp
    /\ u.icmpsum = Packet!IcmpSum(u)

\* What u says of the reporter is right, or the outside header is wrong, or
\* has no checksum.
ReporterKept(u) ==
    \/ u.outside.source = request.reporter
    \/ u.outside.chksum = 0
    \/ u.outside.len = u.len /\ u.outside.chksum # Packet!IpSum(u.outside)

\* u is what was made; Windows may have cleared the outside checksum.
Whole(u) ==
    /\ Carried(u) /\ u.outside.len = u.len
    /\ u.outside.source = request.reporter
    /\ u.outside.protocol = 16385 /\ u.outside.dest = request.from
    /\ u.outside.chksum \in {0, Packet!IpSum(u.outside)}

\* u was damaged: its checksum tells, or the message is what was made.
Spoilt(u) ==
    \/ u.outside.len = u.len /\ u.icmpsum # Packet!IcmpSum(u)
    \/ Carried(u) /\ ReporterKept(u)

\* u is a packet as long as the request says.
Sized(u) ==
    /\ u \in PacketsAre /\ u.len = Len(request.data) + 56
    /\ Len(u.data) = Len(request.data)

\* The packet is u, as it was or as macOS leaves it.
Travels(u) ==
    /\ Sized(u)
    /\ packet = u \/ (u.outside.len = u.len /\ packet = Mac(u))
    /\ IF damaged THEN Spoilt(u) ELSE Whole(u)

\* The inductive invariant.
PacketInv ==
    /\ request \in Requests
    /\ state \in {"new", "sent", "refused", "read"} /\ damaged \in BOOLEAN
    /\ state = "new" => ~damaged
    /\ state = "sent" => Fits(request) /\ \E u : Travels(u)
    /\ Packet!ErrorArrives

\* What one field that changes leaves alone.
LEMMA CodeChanged ==
    ASSUME NEW p \in PacketsAre, NEW c \in Words, NEW q,
           q = [p EXCEPT !.typecode = c]
    PROVE  /\ q \in PacketsAre /\ q.typecode = c /\ q.inside = p.inside
           /\ q.udp = p.udp /\ q.data = p.data /\ q.icmpsum = p.icmpsum
           /\ q.len = p.len /\ q.outside = p.outside
BY DEF PacketsAre

LEMMA SumChanged ==
    ASSUME NEW p \in PacketsAre, NEW c \in Words, NEW q,
           q = [p EXCEPT !.icmpsum = c]
    PROVE  /\ q \in PacketsAre /\ q.typecode = p.typecode
           /\ q.inside = p.inside /\ q.udp = p.udp /\ q.data = p.data
           /\ q.icmpsum = c /\ q.len = p.len /\ q.outside = p.outside
BY DEF PacketsAre

\* p with one field changed.
PutInside(p, f, c) == [p EXCEPT !.inside[f] = c]

LEMMA InsideChanged ==
    ASSUME NEW p \in PacketsAre, NEW f \in DOMAIN p.inside, NEW c \in Words,
           NEW q, q = PutInside(p, f, c)
    PROVE  /\ q \in PacketsAre /\ q.inside = [p.inside EXCEPT ![f] = c]
           /\ q.typecode = p.typecode /\ q.udp = p.udp /\ q.data = p.data
           /\ q.icmpsum = p.icmpsum /\ q.len = p.len /\ q.outside = p.outside
<1>. DEFINE g == [p.inside EXCEPT ![f] = c]
<1>1. q = [p EXCEPT !.inside = g]
  BY DEF PutInside
<1>2. g \in Headers
  BY DEF PacketsAre, Headers
<1>. HIDE DEF g
<1>3. /\ q.inside = g
      /\ q.typecode = p.typecode /\ q.udp = p.udp /\ q.data = p.data
      /\ q.icmpsum = p.icmpsum /\ q.len = p.len /\ q.outside = p.outside
  BY <1>1 DEF PacketsAre
<1>4. q \in PacketsAre
  BY <1>1, <1>2 DEF PacketsAre
<1>. QED BY <1>3, <1>4 DEF g

PutOutside(p, f, c) == [p EXCEPT !.outside[f] = c]

LEMMA OutsideChanged ==
    ASSUME NEW p \in PacketsAre, NEW f \in DOMAIN p.inside, NEW c \in Words,
           NEW q, q = PutOutside(p, f, c)
    PROVE  /\ q \in PacketsAre /\ q.outside = [p.outside EXCEPT ![f] = c]
           /\ q.typecode = p.typecode /\ q.inside = p.inside /\ q.udp = p.udp
           /\ q.data = p.data /\ q.icmpsum = p.icmpsum /\ q.len = p.len
<1>. DEFINE g == [p.outside EXCEPT ![f] = c]
<1>1. q = [p EXCEPT !.outside = g]
  BY DEF PutOutside
<1>2. g \in Headers
  BY DEF PacketsAre, Headers
<1>. HIDE DEF g
<1>3. /\ q.outside = g
      /\ q.typecode = p.typecode /\ q.inside = p.inside /\ q.udp = p.udp
      /\ q.data = p.data /\ q.icmpsum = p.icmpsum /\ q.len = p.len
  BY <1>1 DEF PacketsAre
<1>4. q \in PacketsAre
  BY <1>1, <1>2 DEF PacketsAre
<1>. QED BY <1>3, <1>4 DEF g

PutUdp(p, k, c) == [p EXCEPT !.udp[k] = c]

LEMMA UdpChanged ==
    ASSUME NEW p \in PacketsAre, NEW k \in DOMAIN p.udp, NEW c \in Words,
           NEW q, q = PutUdp(p, k, c)
    PROVE  /\ q \in PacketsAre /\ q.udp = [p.udp EXCEPT ![k] = c]
           /\ q.typecode = p.typecode /\ q.inside = p.inside /\ q.data = p.data
           /\ q.icmpsum = p.icmpsum /\ q.len = p.len /\ q.outside = p.outside
<1>. DEFINE g == [p.udp EXCEPT ![k] = c]
<1>1. q = [p EXCEPT !.udp = g]
  BY DEF PutUdp
<1>2. g \in [1 .. 4 -> Words]
  BY DEF PacketsAre
<1>. HIDE DEF g
<1>3. /\ q.udp = g
      /\ q.typecode = p.typecode /\ q.inside = p.inside /\ q.data = p.data
      /\ q.icmpsum = p.icmpsum /\ q.len = p.len /\ q.outside = p.outside
  BY <1>1 DEF PacketsAre
<1>4. q \in PacketsAre
  BY <1>1, <1>2 DEF PacketsAre
<1>. QED BY <1>3, <1>4 DEF g

PutData(p, k, c) == [p EXCEPT !.data[k] = c]

LEMMA DataChanged ==
    ASSUME NEW p \in PacketsAre, NEW k \in DOMAIN p.data, NEW c \in Octets,
           NEW q, q = PutData(p, k, c)
    PROVE  /\ q \in PacketsAre /\ q.data = [p.data EXCEPT ![k] = c]
           /\ q.typecode = p.typecode /\ q.inside = p.inside /\ q.udp = p.udp
           /\ q.icmpsum = p.icmpsum /\ q.len = p.len /\ q.outside = p.outside
<1>. DEFINE g == [p.data EXCEPT ![k] = c]
<1>1. q = [p EXCEPT !.data = g]
  BY DEF PutData
<1>2. g \in Seq(Octets)
  BY DEF PacketsAre
<1>. HIDE DEF g
<1>3. /\ q.data = g
      /\ q.typecode = p.typecode /\ q.inside = p.inside /\ q.udp = p.udp
      /\ q.icmpsum = p.icmpsum /\ q.len = p.len /\ q.outside = p.outside
  BY <1>1 DEF PacketsAre
<1>4. q \in PacketsAre
  BY <1>1, <1>2 DEF PacketsAre
<1>. QED BY <1>3, <1>4 DEF g

\* One field of a header that changes.
LEMMA FieldChanged ==
    ASSUME NEW g \in Headers, NEW f \in DOMAIN g, NEW c \in Words,
           NEW h, h = [g EXCEPT ![f] = c]
    PROVE  /\ h \in Headers
           /\ Apart(g[f], c) => OneField(g, h)
           /\ f # "len" => h.len = g.len
           /\ f # "source" => h.source = g.source
           /\ f # "chksum" => h.chksum = g.chksum
           /\ f = "source" => h.source = c
<1>1. f \in {"len", "protocol", "source", "dest", "chksum"}
  BY DEF Headers
<1>2. h \in Headers
  BY <1>1 DEF Headers
<1>3. /\ h[f] = c
      /\ f # "len" => h.len = g.len
      /\ f # "protocol" => h.protocol = g.protocol
      /\ f # "source" => h.source = g.source
      /\ f # "dest" => h.dest = g.dest
      /\ f # "chksum" => h.chksum = g.chksum
  BY <1>1 DEF Headers
<1>4. ASSUME Apart(g[f], c) PROVE OneField(g, h)
  <2>1. Apart(g[f], h[f])
    BY <1>3, <1>4
  <2>. QED BY ONLY <1>1, <1>3, <2>1 DEF OneField
<1>. QED BY <1>2, <1>3, <1>4

\* The outside checksum tells of another reporter.
LEMMA SourceTells ==
    ASSUME NEW g \in Headers, NEW h \in Headers, Apart(g.source, h.source),
           h.len = g.len, h.protocol = g.protocol, h.dest = g.dest
    PROVE  Packet!IpSum(h) # Packet!IpSum(g)
<1>1. PICK v \in Words : v = 17664
  BY DEF Words
<1>2. PICK u : u = <<v, g.len, g.protocol, g.source, g.dest>>
  OBVIOUS
<1>3. PICK w : w = <<v, h.len, h.protocol, h.source, h.dest>>
  OBVIOUS
<1>4. /\ g.len \in Words /\ g.protocol \in Words /\ g.source \in Words
      /\ g.dest \in Words
      /\ h.len \in Words /\ h.protocol \in Words /\ h.source \in Words
      /\ h.dest \in Words
  BY DEF Headers
<1>5. u \in Seq(Words) /\ w \in Seq(Words)
  BY <1>2, <1>3, <1>4
<1>6. PICK n \in Nat : n = 5
  OBVIOUS
<1>7. Len(u) = n /\ Len(w) = n
  BY <1>2, <1>3, <1>6
<1>8. /\ u[1] = v /\ u[2] = g.len /\ u[3] = g.protocol
      /\ u[4] = g.source /\ u[5] = g.dest
      /\ w[1] = v /\ w[2] = h.len /\ w[3] = h.protocol
      /\ w[4] = h.source /\ w[5] = h.dest
  BY <1>2, <1>3
<1>9. Apart(u[4], w[4])
  BY <1>8
<1>10. \A k \in Nat : 1 <= k /\ k <= 5 /\ k # 4 => w[k] = u[k]
  BY <1>8
<1>11. /\ 4 \in 1 .. Len(u) /\ Len(u) = Len(w) /\ Len(u) <= 65535
       /\ \A k \in 1 .. Len(u) : k # 4 => w[k] = u[k]
  BY <1>6, <1>7, <1>10
<1>12. Packet!csum(w) # Packet!csum(u)
  BY <1>5, <1>9, <1>11, ChecksumTells
<1>. QED BY <1>1, <1>2, <1>3, <1>12 DEF Packet!IpSum

\* q is p but for the ICMP message, which the checksum of q does not fit.
LEMMA SpoiltSum ==
    ASSUME NEW p, NEW q, Whole(p), q.outside = p.outside, q.len = p.len,
           q.icmpsum = p.icmpsum, Packet!IcmpSum(q) # Packet!IcmpSum(p)
    PROVE  Spoilt(q)
BY DEF Spoilt, Whole, Carried

\* q carries the message of p, and what it says of the reporter is kept.
LEMMA SpoiltSame ==
    ASSUME NEW p, NEW q, Whole(p), q.typecode = p.typecode,
           q.inside = p.inside, q.udp = p.udp, q.data = p.data,
           q.icmpsum = p.icmpsum, ReporterKept(q)
    PROVE  Spoilt(q)
<1>1. Packet!IcmpSum(q) = Packet!IcmpSum(p)
  BY DEF Packet!IcmpSum
<1>. QED BY <1>1 DEF Spoilt, Whole, Carried

LEMMA WholeKept ==
    ASSUME NEW p, NEW q, Whole(p), q.outside = p.outside, q.len = p.len
    PROVE  ReporterKept(q)
BY DEF Whole, ReporterKept

LEMMA SizedStays ==
    ASSUME NEW p, NEW q, Sized(p), q \in PacketsAre, q.len = p.len,
           Len(q.data) = Len(p.data)
    PROVE  Sized(q) /\ p \in PacketsAre
BY DEF Sized

LEMMA CodeSpoils ==
    ASSUME NEW p \in PacketsAre, NEW q, NEW w \in Nat, Sized(p), Whole(p),
           Len(p.data) <= 65535,
           q = [p EXCEPT !.typecode = Packet!Changed(p.typecode, w)]
    PROVE  Sized(q) /\ Spoilt(q)
<1>1. PICK c : c = Packet!Changed(p.typecode, w)
  OBVIOUS
<1>2. p.typecode \in Words
  BY DEF PacketsAre
<1>3. c \in Words /\ (c = p.typecode \/ Apart(p.typecode, c))
  BY ONLY <1>1, <1>2, w \in Nat, ChangedIs
<1>4. q = [p EXCEPT !.typecode = c]
  BY <1>1
<1>5. /\ q \in PacketsAre /\ q.typecode = c /\ q.inside = p.inside
      /\ q.udp = p.udp /\ q.data = p.data /\ q.icmpsum = p.icmpsum
      /\ q.len = p.len /\ q.outside = p.outside
  BY ONLY <1>3, <1>4, p \in PacketsAre, CodeChanged
<1>6. Sized(q)
  BY ONLY <1>5, Sized(p), SizedStays
<1>7. CASE c = p.typecode
  <2>1. ReporterKept(q)
    BY ONLY <1>5, Whole(p), WholeKept
  <2>2. q.typecode = p.typecode
    BY ONLY <1>5, <1>7
  <2>. QED BY ONLY <1>5, <1>6, <2>1, <2>2, Whole(p), SpoiltSame
<1>8. CASE Apart(p.typecode, c)
  <2>1. Rest(p, q)
    BY ONLY <1>5, p \in PacketsAre, Len(p.data) <= 65535 DEF Rest
  <2>2. Apart(p.typecode, q.typecode)
    BY ONLY <1>5, <1>8
  <2>3. Packet!IcmpSum(q) # Packet!IcmpSum(p)
    BY ONLY <1>5, <2>1, <2>2, CodeTells
  <2>. QED BY ONLY <1>5, <1>6, <2>3, Whole(p), SpoiltSum
<1>. QED BY ONLY <1>3, <1>7, <1>8

LEMMA SumSpoils ==
    ASSUME NEW p \in PacketsAre, NEW q, NEW w \in Nat, Sized(p), Whole(p),
           q = [p EXCEPT !.icmpsum = Packet!Changed(p.icmpsum, w)]
    PROVE  Sized(q) /\ Spoilt(q)
<1>1. PICK c : c = Packet!Changed(p.icmpsum, w)
  OBVIOUS
<1>2. p.icmpsum \in Words
  BY DEF PacketsAre
<1>3. c \in Words
  BY ONLY <1>1, <1>2, w \in Nat, ChangedIs
<1>4. q = [p EXCEPT !.icmpsum = c]
  BY <1>1
<1>5. /\ q \in PacketsAre /\ q.typecode = p.typecode
      /\ q.inside = p.inside /\ q.udp = p.udp /\ q.data = p.data
      /\ q.icmpsum = c /\ q.len = p.len /\ q.outside = p.outside
  BY ONLY <1>3, <1>4, p \in PacketsAre, SumChanged
<1>6. Sized(q)
  BY ONLY <1>5, Sized(p), SizedStays
<1>7. ReporterKept(q)
  BY ONLY <1>5, Whole(p), WholeKept
<1>8. CASE c = p.icmpsum
  <2>1. q.icmpsum = p.icmpsum
    BY ONLY <1>5, <1>8
  <2>. QED BY ONLY <1>5, <1>6, <1>7, <2>1, Whole(p), SpoiltSame
<1>9. CASE c # p.icmpsum
  <2>1. Packet!IcmpSum(q) = Packet!IcmpSum(p)
    BY ONLY <1>5 DEF Packet!IcmpSum
  <2>2. q.icmpsum # Packet!IcmpSum(q)
    BY ONLY <1>5, <1>9, <2>1, Whole(p) DEF Whole, Carried
  <2>3. q.outside.len = q.len
    BY ONLY <1>5, Whole(p) DEF Whole
  <2>. QED BY ONLY <1>6, <2>2, <2>3 DEF Spoilt
<1>. QED BY ONLY <1>8, <1>9

\* So with each of the other fields.
LEMMA InsideSpoils ==
    ASSUME NEW p \in PacketsAre, NEW q, NEW w \in Nat, Sized(p), Whole(p),
           Len(p.data) <= 65535, NEW f \in DOMAIN p.inside,
           q = PutInside(p, f, Packet!Changed(p.inside[f], w))
    PROVE  Sized(q) /\ Spoilt(q)
<1>1. PICK c : c = Packet!Changed(p.inside[f], w)
  OBVIOUS
<1>2. p.inside \in Headers /\ p.inside[f] \in Words
  BY ONLY p \in PacketsAre, f \in DOMAIN p.inside DEF PacketsAre, Headers
<1>3. c \in Words /\ (c = p.inside[f] \/ Apart(p.inside[f], c))
  BY ONLY <1>1, <1>2, w \in Nat, ChangedIs
<1>4. q = PutInside(p, f, c)
  BY <1>1
<1>5. /\ q \in PacketsAre /\ q.inside = [p.inside EXCEPT ![f] = c]
      /\ q.typecode = p.typecode /\ q.udp = p.udp /\ q.data = p.data
      /\ q.icmpsum = p.icmpsum /\ q.len = p.len /\ q.outside = p.outside
  BY ONLY <1>3, <1>4, p \in PacketsAre, f \in DOMAIN p.inside, InsideChanged
<1>6. Sized(q)
  BY ONLY <1>5, Sized(p), SizedStays
<1>7. CASE c = p.inside[f]
  <2>1. ReporterKept(q)
    BY ONLY <1>5, Whole(p), WholeKept
  <2>2. q.inside = p.inside
    BY ONLY <1>2, <1>5, <1>7 DEF Headers
  <2>. QED BY ONLY <1>5, <1>6, <2>1, <2>2, Whole(p), SpoiltSame
<1>8. CASE Apart(p.inside[f], c)
  <2>1. Rest(p, q)
    BY ONLY <1>5, p \in PacketsAre, Len(p.data) <= 65535 DEF Rest
  <2>2. OneField(p.inside, q.inside)
    BY ONLY <1>2, <1>3, <1>5, <1>8, f \in DOMAIN p.inside, FieldChanged
  <2>3. Packet!IcmpSum(q) # Packet!IcmpSum(p)
    BY ONLY <1>5, <2>1, <2>2, InsideTells
  <2>. QED BY ONLY <1>5, <1>6, <2>3, Whole(p), SpoiltSum
<1>. QED BY ONLY <1>3, <1>7, <1>8

LEMMA OutsideSpoils ==
    ASSUME NEW p \in PacketsAre, NEW q, NEW w \in Nat, Sized(p), Whole(p),
           NEW f \in DOMAIN p.inside,
           q = PutOutside(p, f, Packet!Changed(p.outside[f], w))
    PROVE  Sized(q) /\ Spoilt(q)
<1>1. PICK c : c = Packet!Changed(p.outside[f], w)
  OBVIOUS
<1>2. /\ p.outside \in Headers /\ p.outside[f] \in Words
      /\ f \in DOMAIN p.outside
      /\ f \in {"len", "protocol", "source", "dest", "chksum"}
  BY ONLY p \in PacketsAre, f \in DOMAIN p.inside DEF PacketsAre, Headers
<1>3. c \in Words /\ (c = p.outside[f] \/ Apart(p.outside[f], c))
  BY ONLY <1>1, <1>2, w \in Nat, ChangedIs
<1>4. q = PutOutside(p, f, c)
  BY <1>1
<1>5. /\ q \in PacketsAre /\ q.outside = [p.outside EXCEPT ![f] = c]
      /\ q.typecode = p.typecode /\ q.inside = p.inside /\ q.udp = p.udp
      /\ q.data = p.data /\ q.icmpsum = p.icmpsum /\ q.len = p.len
  BY ONLY <1>3, <1>4, p \in PacketsAre, f \in DOMAIN p.inside, OutsideChanged
<1>6. Sized(q)
  BY ONLY <1>5, Sized(p), SizedStays
<1>7. CASE c = p.outside[f]
  <2>1. q.outside = p.outside
    BY ONLY <1>2, <1>5, <1>7 DEF Headers
  <2>2. ReporterKept(q)
    BY ONLY <1>5, <2>1, Whole(p), WholeKept
  <2>. QED BY ONLY <1>5, <1>6, <2>2, Whole(p), SpoiltSame
<1>8. CASE f # "source"
  <2>1. q.outside.source = p.outside.source
    BY ONLY <1>2, <1>3, <1>5, <1>8, FieldChanged
  <2>2. ReporterKept(q)
    BY ONLY <2>1, Whole(p) DEF Whole, ReporterKept
  <2>. QED BY ONLY <1>5, <1>6, <2>2, Whole(p), SpoiltSame
<1>9. CASE f = "source" /\ Apart(p.outside[f], c)
  <2>1. PICK g : g = p.outside
    OBVIOUS
  <2>2. PICK h : h = q.outside
    OBVIOUS
  <2>3. h = [g EXCEPT !["source"] = c] /\ g \in Headers
    BY ONLY <1>2, <1>5, <1>9, <2>1, <2>2
  <2>4. /\ h \in Headers /\ h.source = c /\ h.len = g.len
        /\ h.protocol = g.protocol /\ h.dest = g.dest /\ h.chksum = g.chksum
    BY ONLY <1>3, <2>3 DEF Headers
  <2>5. Apart(g.source, h.source)
    BY ONLY <1>9, <2>1, <2>4
  <2>6. Packet!IpSum(h) # Packet!IpSum(g)
    BY ONLY <2>3, <2>4, <2>5, SourceTells
  <2>7. g.chksum \in {0, Packet!IpSum(g)} /\ g.len = p.len
    BY ONLY <2>1, Whole(p) DEF Whole
  <2>8. ReporterKept(q)
    BY ONLY <1>5, <2>2, <2>4, <2>6, <2>7 DEF ReporterKept
  <2>. QED BY ONLY <1>5, <1>6, <2>8, Whole(p), SpoiltSame
<1>. QED BY ONLY <1>3, <1>7, <1>8, <1>9

LEMMA UdpSpoils ==
    ASSUME NEW p \in PacketsAre, NEW q, NEW w \in Nat, Sized(p), Whole(p),
           Len(p.data) <= 65535, NEW k \in 1 .. 4, NEW c,
           c = Packet!Changed(p.udp[k], w), q = PutUdp(p, k, c)
    PROVE  Sized(q) /\ Spoilt(q)
<1>1. c = Packet!Changed(p.udp[k], w)
  OBVIOUS
<1>2. p.udp \in [1 .. 4 -> Words] /\ k \in DOMAIN p.udp /\ p.udp[k] \in Words
  BY ONLY p \in PacketsAre, k \in 1 .. 4 DEF PacketsAre
<1>3. c \in Words /\ (c = p.udp[k] \/ Apart(p.udp[k], c))
  BY ONLY <1>1, <1>2, w \in Nat, ChangedIs
<1>4. q = PutUdp(p, k, c)
  OBVIOUS
<1>5. /\ q \in PacketsAre /\ q.udp = [p.udp EXCEPT ![k] = c]
      /\ q.typecode = p.typecode /\ q.inside = p.inside /\ q.data = p.data
      /\ q.icmpsum = p.icmpsum /\ q.len = p.len /\ q.outside = p.outside
  BY ONLY <1>2, <1>3, <1>4, p \in PacketsAre, UdpChanged
<1>6. Sized(q)
  BY ONLY <1>5, Sized(p), SizedStays
<1>7. CASE c = p.udp[k]
  <2>1. ReporterKept(q)
    BY ONLY <1>5, Whole(p), WholeKept
  <2>2. q.udp = p.udp
    BY ONLY <1>2, <1>5, <1>7
  <2>. QED BY ONLY <1>5, <1>6, <2>1, <2>2, Whole(p), SpoiltSame
<1>8. CASE Apart(p.udp[k], c)
  <2>1. Rest(p, q)
    BY ONLY <1>5, p \in PacketsAre, Len(p.data) <= 65535 DEF Rest
  <2>2. Apart(p.udp[k], q.udp[k]) /\ \A idx \in 1 .. 4 : idx # k => q.udp[idx] = p.udp[idx]
    BY ONLY <1>2, <1>5, <1>8
  <2>3. Packet!IcmpSum(q) # Packet!IcmpSum(p)
    BY ONLY <1>2, <1>5, <2>1, <2>2, UdpTells
  <2>. QED BY ONLY <1>5, <1>6, <2>3, Whole(p), SpoiltSum
<1>. QED BY ONLY <1>3, <1>7, <1>8

LEMMA OctetChanged ==
    ASSUME NEW d \in Seq(Octets), NEW k \in 1 .. Len(d), NEW c, NEW e,
           e = [d EXCEPT ![k] = c]
    PROVE  /\ Len(e) = Len(d) /\ e[k] = c
           /\ \A idx \in 1 .. Len(d) : idx # k => e[idx] = d[idx]
OBVIOUS

LEMMA DataSpoils ==
    ASSUME NEW p \in PacketsAre, NEW q, NEW w \in Nat, Sized(p), Whole(p),
           Len(p.data) <= 65535, NEW k \in DOMAIN p.data, NEW c,
           c = (p.data[k] + w) % 256, q = PutData(p, k, c)
    PROVE  Sized(q) /\ Spoilt(q)
<1>1. c = (p.data[k] + w) % 256
  OBVIOUS
<1>2. p.data \in Seq(Octets) /\ k \in 1 .. Len(p.data) /\ p.data[k] \in Octets
  BY ONLY p \in PacketsAre, k \in DOMAIN p.data DEF PacketsAre
<1>3. c \in Octets
  <2>1. PICK x \in Nat : x = p.data[k]
    BY ONLY <1>2, OctetIs
  <2>2. (x + w) % 256 \in Nat /\ (x + w) % 256 < 256
    BY ONLY <2>1, w \in Nat
  <2>. QED BY ONLY <1>1, <2>1, <2>2 DEF Octets
<1>4. q = PutData(p, k, c)
  OBVIOUS
<1>5. /\ q \in PacketsAre /\ q.data = [p.data EXCEPT ![k] = c]
      /\ q.typecode = p.typecode /\ q.inside = p.inside /\ q.udp = p.udp
      /\ q.icmpsum = p.icmpsum /\ q.len = p.len /\ q.outside = p.outside
  BY ONLY <1>3, <1>4, p \in PacketsAre, k \in DOMAIN p.data, DataChanged
<1>6. /\ Len(q.data) = Len(p.data) /\ q.data[k] = c
      /\ \A idx \in 1 .. Len(p.data) : idx # k => q.data[idx] = p.data[idx]
  BY ONLY <1>2, <1>5, OctetChanged
<1>7. Sized(q)
  BY ONLY <1>5, <1>6, Sized(p), SizedStays
<1>8. CASE c = p.data[k]
  <2>1. ReporterKept(q)
    BY ONLY <1>5, Whole(p), WholeKept
  <2>2. q.data = p.data
    BY ONLY <1>2, <1>5, <1>8
  <2>. QED BY ONLY <1>5, <1>7, <2>1, <2>2, Whole(p), SpoiltSame
<1>9. CASE c # p.data[k]
  <2>1. Rest(p, q)
    BY ONLY <1>5, <1>6, p \in PacketsAre, Len(p.data) <= 65535 DEF Rest
  <2>2. p.data[k] # q.data[k]
    BY ONLY <1>6, <1>9
  <2>3. Packet!IcmpSum(q) # Packet!IcmpSum(p)
    BY ONLY <1>2, <1>5, <1>6, <2>1, <2>2, DataTells
  <2>. QED BY ONLY <1>5, <1>7, <2>3, Whole(p), SpoiltSum
<1>. QED BY ONLY <1>8, <1>9

-----------------------------------------------------------------------------
(* What cusp_icmp_recv reads. *)

\* What is read from a packet that carries the message of the request.
WasOf(u) ==
    [from |-> u.inside.source, fromport |-> u.udp[1], to |-> u.inside.dest,
     toport |-> u.udp[2], code |-> u.typecode, data |-> u.data,
     reporter |-> u.outside.source]

LEMMA WasIs ==
    ASSUME NEW u, Carried(u), request \in Requests, Fits(request)
    PROVE  /\ WasOf(u) = [request EXCEPT !.reporter = u.outside.source]
           /\ u.outside.source = request.reporter => WasOf(u) = request
<1>1. PICK q : q = request
  OBVIOUS
<1>2. PICK m : m = Packet!Made(q)
  OBVIOUS
<1>3. q \in Requests /\ Fits(q)
  BY <1>1
<1>4. /\ m.inside.source = q.from /\ m.inside.dest = q.to
      /\ m.udp[1] = q.fromport /\ m.udp[2] = q.toport
  BY ONLY <1>2, <1>3, MadeIs
<1>5. /\ u.typecode = q.code /\ u.data = q.data
      /\ u.inside = m.inside /\ u.udp = m.udp
  BY <1>1, <1>2 DEF Carried
<1>6. PICK s : s = u.outside.source
  OBVIOUS
<1>7. WasOf(u) = [from |-> q.from, fromport |-> q.fromport, to |-> q.to,
                  toport |-> q.toport, code |-> q.code, data |-> q.data,
                  reporter |-> s]
  BY ONLY <1>4, <1>5, <1>6 DEF WasOf
<1>8. q \in [from : Words, fromport : Words, to : Words, toport : Words,
             code : Words, reporter : Words, data : Seq(Octets)]
  BY ONLY <1>3, RequestIs
<1>9. WasOf(u) = [q EXCEPT !.reporter = s]
  BY ONLY <1>7, <1>8
<1>10. s = q.reporter => WasOf(u) = q
  BY ONLY <1>8, <1>9
<1>. QED BY ONLY <1>1, <1>6, <1>9, <1>10

\* The packet k with the lengths that macOS left put right.
Mended(k) == [k EXCEPT !.outside.len = k.len, !.inside.len = Packet!Swap(@)]

LEMMA RepairsWhen ==
    ASSUME NEW k, k.outside.len # k.len,
           Packet!Swap(k.outside.len) + 20 = k.len
    PROVE  Packet!Repaired(k) = Mended(k)
BY DEF Packet!Repaired, Packet!IpLen, Mended

LEMMA LenPutBack ==
    ASSUME NEW g \in Headers, NEW c, NEW h, h = [g EXCEPT !.len = c]
    PROVE  [h EXCEPT !.len = g.len] = g
BY DEF Headers

\* The packet that cusp_icmp_recv finds, whether macOS had it or not.
LEMMA RepairedIs ==
    ASSUME NEW u \in PacketsAre, u.len >= 20, NEW k,
           k = u \/ (u.outside.len = u.len /\ k = Mac(u)),
           NEW v, v = Packet!Repaired(k)
    PROVE  /\ u.outside.len = u.len => v = u
           /\ u.outside.len # u.len => WasOf(v) = WasOf(u)
           /\ k.outside.chksum = u.outside.chksum
           /\ k.outside.source = u.outside.source
<1>1. /\ u.len \in Words /\ u.inside.len \in Words /\ u.outside.len \in Words
      /\ u.inside \in Headers /\ u.outside \in Headers
  BY DEF PacketsAre, Headers
<1>2. PICK n \in Nat : n = u.len /\ n >= 20 /\ n <= 65535
  BY <1>1, WordIs
<1>3. CASE k = u /\ u.outside.len = u.len
  BY <1>3 DEF Packet!Repaired
<1>4. CASE k = u /\ u.outside.len # u.len
  <2>1. CASE v = u
    BY <1>4, <2>1
  <2>2. CASE v = [u EXCEPT !.outside.len = u.len, !.inside.len = Packet!Swap(@)]
    BY <1>1, <1>4, <2>2 DEF WasOf, PacketsAre, Headers
  <2>. QED BY <1>4, <2>1, <2>2 DEF Packet!Repaired
<1>5. CASE u.outside.len = u.len /\ k = Mac(u)
  <2>1. PICK g : g = [u.inside EXCEPT !.len = Packet!Swap(@)]
    OBVIOUS
  <2>2. PICK o : o = [u.outside EXCEPT !.len = Packet!Swap(n - 20)]
    OBVIOUS
  <2>3. k = [u EXCEPT !.outside = o, !.inside = g]
    BY <1>2, <1>5, <2>1, <2>2 DEF Mac
  <2>4. /\ k.outside = o /\ k.inside = g /\ k.len = n
        /\ o.len = Packet!Swap(n - 20) /\ g.len = Packet!Swap(u.inside.len)
    BY <1>1, <1>2, <2>1, <2>2, <2>3 DEF PacketsAre, Headers
  <2>5. o.len # n
    BY ONLY <1>2, <2>4, n \in Nat, SwapNot
  <2>6. Packet!Swap(o.len) + 20 = n
    <3>1. n - 20 \in Words
      BY ONLY <1>2, n \in Nat, WordIn
    <3>. QED BY ONLY <1>2, <2>4, <3>1, SwapIs
  <2>7. Packet!Swap(g.len) = u.inside.len
    BY ONLY <1>1, <2>4, SwapIs
  <2>8. v = Mended(k)
    <3>1. k.outside.len # k.len /\ Packet!Swap(k.outside.len) + 20 = k.len
      BY ONLY <2>4, <2>5, <2>6
    <3>2. v = Packet!Repaired(k)
      OBVIOUS
    <3>. QED BY ONLY <3>1, <3>2, RepairsWhen
  <2>9. [o EXCEPT !.len = n] = u.outside
    <3>1. u.outside.len = n
      BY ONLY <1>2, <1>5
    <3>. QED BY ONLY <1>1, <2>2, <3>1, LenPutBack
  <2>10. [g EXCEPT !.len = Packet!Swap(@)] = u.inside
    BY <1>1, <2>1, <2>4, <2>7 DEF Headers
  <2>11. v = [k EXCEPT !.outside = u.outside, !.inside = u.inside]
    BY <2>4, <2>8, <2>9, <2>10 DEF Mended
  <2>12. v = u
    BY <2>3, <2>11 DEF PacketsAre
  <2>13. o.chksum = u.outside.chksum /\ o.source = u.outside.source
    BY <1>1, <2>2 DEF Headers
  <2>. QED BY <1>5, <2>4, <2>12, <2>13
<1>. QED BY <1>3, <1>4, <1>5

-----------------------------------------------------------------------------
(* One lemma for each action. *)

\* What is said of a packet depends on the request alone.
LEMMA RequestKept ==
    ASSUME NEW u, request' = request
    PROVE  /\ Sized(u)' <=> Sized(u)
           /\ Whole(u)' <=> Whole(u)
           /\ Spoilt(u)' <=> Spoilt(u)
           /\ Fits(request)' <=> Fits(request)
           /\ (request \in Requests)' <=> request \in Requests
<1>1. Sized(u)' <=> Sized(u)
  BY DEF Sized
<1>2. Carried(u)' <=> Carried(u)
  BY DEF Carried
<1>3. Whole(u)' <=> Whole(u)
  BY <1>2 DEF Whole
<1>4. Spoilt(u)' <=> Spoilt(u)
  BY <1>2 DEF Spoilt, ReporterKept
<1>5. Fits(request)' <=> Fits(request)
  BY DEF Fits
<1>. QED BY <1>1, <1>3, <1>4, <1>5

LEMMA SentSized ==
    ASSUME NEW u, Sized(u), request \in Requests, Fits(request)
    PROVE  /\ u \in PacketsAre /\ u.len \in Nat /\ u.len >= 56
           /\ u.len <= 65535 /\ Len(u.data) <= 65535
<1>1. PICK n \in Nat : n = Len(request.data) /\ n + 56 <= 65535
  BY FitsIs
<1>2. u \in PacketsAre /\ u.len = n + 56 /\ Len(u.data) = n
  BY <1>1 DEF Sized
<1>3. n + 56 >= 56 /\ n <= 65535 /\ n + 56 \in Nat
  BY <1>1
<1>. QED BY ONLY <1>1, <1>2, <1>3

\* A packet that is on the way.
LEMMA StillTravels ==
    ASSUME NEW u, request' = request, request \in Requests, Fits(request),
           state' \in {"new", "sent", "refused", "read"},
           state' = "sent", Sized(u),
           packet' = u \/ (u.outside.len = u.len /\ packet' = Mac(u)),
           damaged' \in BOOLEAN, IF damaged' THEN Spoilt(u) ELSE Whole(u)
    PROVE  PacketInv'
<1>1. Travels(u)'
  BY RequestKept DEF Travels
<1>2. Packet!ErrorArrives'
  BY DEF Packet!ErrorArrives
<1>3. (request \in Requests)' /\ Fits(request)'
  BY RequestKept
<1>. QED BY <1>1, <1>2, <1>3 DEF PacketInv

LEMMA MadeTravels ==
    ASSUME PacketInv, Packet!cusp_icmp_send
    PROVE  PacketInv'
<1>1. PICK q : q = request
  OBVIOUS
<1>2. PICK m : m = Packet!Made(q)
  OBVIOUS
<1>3. /\ q \in Requests /\ ~damaged
  BY <1>1 DEF PacketInv, Packet!cusp_icmp_send
<1>4. Fits(q)
  BY <1>1 DEF Packet!cusp_icmp_send, Fits
<1>5. /\ m \in PacketsAre
      /\ m.typecode = q.code /\ m.data = q.data
      /\ m.icmpsum = Packet!IcmpSum(m)
      /\ m.len = Len(q.data) + 56 /\ m.outside.len = m.len
      /\ m.outside.source = q.reporter /\ m.outside.dest = q.from
      /\ m.outside.protocol = 16385
      /\ m.outside.chksum = Packet!IpSum(m.outside)
  BY ONLY <1>2, <1>3, <1>4, MadeIs
<1>6. Sized(m)
  BY <1>1, <1>5 DEF Sized
<1>7. Whole(m)
  BY <1>1, <1>2, <1>5 DEF Whole, Carried
<1>8. /\ request' = request /\ state' = "sent" /\ packet' = m
      /\ damaged' = FALSE
  BY <1>1, <1>2, <1>3 DEF Packet!cusp_icmp_send, PacketInv
<1>9. request \in Requests /\ Fits(request)
  BY <1>1, <1>3, <1>4
<1>. QED BY ONLY <1>6, <1>7, <1>8, <1>9, StillTravels

LEMMA TooLongKeeps ==
    ASSUME PacketInv, Packet!tooLong
    PROVE  PacketInv'
BY DEF PacketInv, Packet!tooLong, Packet!ErrorArrives

\* Windows and macOS have a packet that is whole, or that was spoilt.
LEMMA WindowsKeeps ==
    ASSUME PacketInv, Packet!Windows
    PROVE  PacketInv'
<1>1. PICK u : Travels(u)
  BY DEF PacketInv, Packet!Windows
<1>2. PICK z : z = [u EXCEPT !.outside.chksum = 0]
  OBVIOUS
<1>3. PICK p : p = packet
  OBVIOUS
<1>4. /\ request' = request /\ state' = "sent" /\ damaged' = FALSE /\ ~damaged
      /\ request \in Requests /\ Fits(request)
      /\ packet' = [p EXCEPT !.outside.chksum = 0]
  BY <1>3 DEF PacketInv, Packet!Windows
<1>5. Sized(u) /\ Whole(u) /\ (p = u \/ p = Mac(u)) /\ u.outside.len = u.len
  BY <1>1, <1>3, <1>4 DEF Travels, Whole
<1>6. u \in PacketsAre /\ 0 \in Words
  BY <1>5 DEF Sized, Words
<1>7. /\ z \in PacketsAre /\ z.typecode = u.typecode /\ z.inside = u.inside
      /\ z.udp = u.udp /\ z.data = u.data /\ z.icmpsum = u.icmpsum
      /\ z.len = u.len /\ z.outside = [u.outside EXCEPT !.chksum = 0]
  BY ONLY <1>2, <1>6 DEF PacketsAre, Headers
<1>8. /\ z.outside.chksum = 0 /\ z.outside.len = u.outside.len
      /\ z.outside.source = u.outside.source
      /\ z.outside.dest = u.outside.dest
      /\ z.outside.protocol = u.outside.protocol
  BY ONLY <1>6, <1>7 DEF PacketsAre, Headers
<1>9. Sized(z)
  BY <1>5, <1>7 DEF Sized
<1>10. Whole(z)
  <2>1. Packet!IcmpSum(z) = Packet!IcmpSum(u)
    BY ONLY <1>7 DEF Packet!IcmpSum
  <2>. QED BY ONLY <1>5, <1>7, <1>8, <2>1 DEF Whole, Carried
<1>11. packet' = z \/ packet' = Mac(z)
  <2>1. CASE p = u
    BY ONLY <1>2, <1>4, <2>1
  <2>2. CASE p = Mac(u)
    <3>1. packet' = Mac(z)
      BY ONLY <1>2, <1>4, <1>6, <2>2 DEF Mac, PacketsAre, Headers
    <3>. QED BY <3>1
  <2>. QED BY <1>5, <2>1, <2>2
<1>12. z.outside.len = z.len
  BY ONLY <1>5, <1>7, <1>8
<1>. QED BY ONLY <1>4, <1>9, <1>10, <1>11, <1>12, StillTravels

\* macOS has a packet once: its lengths do not fit then.
LEMMA MacOnce ==
    ASSUME NEW u, NEW p, Sized(u), request \in Requests, Fits(request),
           p = u \/ (u.outside.len = u.len /\ p = Mac(u)),
           p.outside.len = p.len
    PROVE  p = u
<1>1. SUFFICES ASSUME u.outside.len = u.len, p = Mac(u) PROVE FALSE
  OBVIOUS
<1>2. u \in PacketsAre /\ u.len \in Nat /\ u.len >= 56 /\ u.len <= 65535
  BY SentSized
<1>3. PICK n \in Nat : n = u.len /\ n >= 20 /\ n <= 65535
  BY ONLY <1>2
<1>4. p.len = n /\ p.outside.len = Packet!Swap(u.outside.len - 20)
  BY ONLY <1>1, <1>2, <1>3 DEF Mac, PacketsAre, Headers
<1>5. Packet!Swap(n - 20) # n
  BY ONLY <1>3, n \in Nat, SwapNot
<1>6. u.outside.len = n
  BY <1>1, <1>3
<1>7. p.outside.len = p.len
  OBVIOUS
<1>. QED BY ONLY <1>4, <1>5, <1>6, <1>7

LEMMA MacOSKeeps ==
    ASSUME PacketInv, Packet!MacOS
    PROVE  PacketInv'
<1>1. PICK u : Travels(u)
  BY DEF PacketInv, Packet!MacOS
<1>2. PICK p : p = packet
  OBVIOUS
<1>3. /\ request' = request /\ state' = "sent" /\ damaged' = damaged
      /\ damaged \in BOOLEAN /\ request \in Requests /\ Fits(request)
      /\ packet' = Mac(p) /\ p.outside.len = p.len
  BY <1>2 DEF PacketInv, Packet!MacOS, Packet!IpLen, Mac
<1>4. /\ Sized(u) /\ (p = u \/ (u.outside.len = u.len /\ p = Mac(u)))
      /\ IF damaged THEN Spoilt(u) ELSE Whole(u)
  BY <1>1, <1>2 DEF Travels
<1>5. p = u
  BY ONLY <1>3, <1>4, MacOnce
<1>6. u.outside.len = u.len /\ packet' = Mac(u)
  BY ONLY <1>3, <1>5
<1>. QED BY ONLY <1>3, <1>4, <1>6, StillTravels

\* What Damage may make of p.
DamagedOne(p, q, w) ==
    \/ q = [p EXCEPT !.typecode = Packet!Changed(p.typecode, w)]
    \/ q = [p EXCEPT !.icmpsum = Packet!Changed(p.icmpsum, w)]
    \/ \E f \in DOMAIN p.inside :
          \/ q = [p EXCEPT !.inside[f] = Packet!Changed(p.inside[f], w)]
          \/ q = [p EXCEPT !.outside[f] = Packet!Changed(p.outside[f], w)]
    \/ \E k \in DOMAIN p.udp :
          q = [p EXCEPT !.udp[k] = Packet!Changed(p.udp[k], w)]
    \/ \E k \in DOMAIN p.data :
          q = [p EXCEPT !.data[k] = (p.data[k] + w) % 256]

\* A packet that was whole and is damaged is spoilt.
LEMMA Spoils ==
    ASSUME NEW p \in PacketsAre, NEW q, NEW w \in Nat, Sized(p), Whole(p),
           Len(p.data) <= 65535, DamagedOne(p, q, w)
    PROVE  Sized(q) /\ Spoilt(q)
<1>1. CASE q = [p EXCEPT !.typecode = Packet!Changed(p.typecode, w)]
  BY <1>1, CodeSpoils
<1>2. CASE q = [p EXCEPT !.icmpsum = Packet!Changed(p.icmpsum, w)]
  BY <1>2, SumSpoils
<1>3. ASSUME NEW f \in DOMAIN p.inside,
             q = [p EXCEPT !.inside[f] = Packet!Changed(p.inside[f], w)]
      PROVE  Sized(q) /\ Spoilt(q)
  <2>1. q = PutInside(p, f, Packet!Changed(p.inside[f], w))
    BY ONLY <1>3 DEF PutInside
  <2>. QED BY <2>1, InsideSpoils
<1>4. ASSUME NEW f \in DOMAIN p.inside,
             q = [p EXCEPT !.outside[f] = Packet!Changed(p.outside[f], w)]
      PROVE  Sized(q) /\ Spoilt(q)
  <2>1. q = PutOutside(p, f, Packet!Changed(p.outside[f], w))
    BY ONLY <1>4 DEF PutOutside
  <2>. QED BY <2>1, OutsideSpoils
<1>5. ASSUME NEW k \in DOMAIN p.udp,
             q = [p EXCEPT !.udp[k] = Packet!Changed(p.udp[k], w)]
      PROVE  Sized(q) /\ Spoilt(q)
  <2>1. PICK c : c = Packet!Changed(p.udp[k], w)
    OBVIOUS
  <2>2. q = PutUdp(p, k, c)
    BY ONLY <1>5, <2>1 DEF PutUdp
  <2>3. k \in 1 .. 4
    BY DEF PacketsAre
  <2>. QED BY <2>1, <2>2, <2>3, UdpSpoils
<1>6. ASSUME NEW k \in DOMAIN p.data,
             q = [p EXCEPT !.data[k] = (p.data[k] + w) % 256]
      PROVE  Sized(q) /\ Spoilt(q)
  <2>1. PICK c : c = (p.data[k] + w) % 256
    OBVIOUS
  <2>2. q = PutData(p, k, c)
    BY ONLY <1>6, <2>1 DEF PutData
  <2>. QED BY <2>1, <2>2, DataSpoils
<1>. QED BY <1>1, <1>2, <1>3, <1>4, <1>5, <1>6 DEF DamagedOne

LEMMA DamageKeeps ==
    ASSUME PacketInv, NEW w \in Damages, Packet!Damage(w)
    PROVE  PacketInv'
<1>1. PICK u : Travels(u)
  BY DEF PacketInv, Packet!Damage
<1>2. PICK p : p = packet
  OBVIOUS
<1>3. PICK q : q = packet'
  OBVIOUS
<1>4. /\ request' = request /\ state' = "sent" /\ ~damaged
      /\ damaged' = (q # p) /\ request \in Requests /\ Fits(request)
      /\ p.outside.len = p.len
  BY <1>2, <1>3 DEF PacketInv, Packet!Damage
<1>5. /\ Sized(u) /\ (p = u \/ (u.outside.len = u.len /\ p = Mac(u)))
      /\ Whole(u)
  BY <1>1, <1>2, <1>4 DEF Travels
<1>6. p = u
  BY ONLY <1>4, <1>5, MacOnce
<1>7. DamagedOne(p, q, w)
  BY <1>2, <1>3 DEF Packet!Damage, DamagedOne
<1>8. Sized(p) /\ Whole(p) /\ w \in Nat
  BY <1>5, <1>6, PacketAssumption
<1>9. p \in PacketsAre /\ Len(p.data) <= 65535 /\ p.outside.len = p.len
  BY ONLY <1>4, <1>8, SentSized
<1>10. Sized(q) /\ Spoilt(q)
  BY ONLY <1>7, <1>8, <1>9, Spoils
<1>11. damaged' \in BOOLEAN /\ (IF damaged' THEN Spoilt(q) ELSE Whole(q))
  BY ONLY <1>4, <1>8, <1>10
<1>. QED BY ONLY <1>3, <1>4, <1>10, <1>11, StillTravels

\* What cusp_icmp_recv finds in a packet that was made.
LEMMA WholeIsAccepted ==
    ASSUME NEW u, Whole(u), request \in Requests, Fits(request),
           Packet!KnownCode(request.code)
    PROVE  Packet!Accepted(u)
<1>1. PICK m : m = Packet!Made(request)
  OBVIOUS
<1>2. /\ m.inside.protocol = 273 /\ m.inside.source = request.from
      /\ m.inside.chksum = Packet!IpSum(m.inside)
  BY ONLY <1>1, request \in Requests, Fits(request), MadeIs
<1>3. /\ u.typecode = request.code /\ u.inside = m.inside
      /\ u.icmpsum = Packet!IcmpSum(u)
      /\ u.outside.len = u.len /\ u.outside.protocol = 16385
      /\ u.outside.dest = request.from
      /\ u.outside.chksum \in {0, Packet!IpSum(u.outside)}
  BY <1>1 DEF Whole, Carried
<1>4. 273 % 256 = 17 /\ 16385 % 256 = 1
  OBVIOUS
<1>. QED BY <1>2, <1>3, <1>4 DEF Packet!Accepted

LEMMA RecvKeeps ==
    ASSUME PacketInv, Packet!cusp_icmp_recv
    PROVE  PacketInv'
<1>1. PICK u : Travels(u)
  BY DEF PacketInv, Packet!cusp_icmp_recv
<1>2. PICK k : k = packet
  OBVIOUS
<1>3. PICK v : v = Packet!Repaired(k)
  OBVIOUS
<1>4. /\ request' = request /\ packet' = k /\ damaged' = damaged
      /\ state' = "read" /\ request \in Requests /\ Fits(request)
      /\ damaged \in BOOLEAN
  BY <1>2 DEF PacketInv, Packet!cusp_icmp_recv
<1>5. found' = IF Packet!Accepted(v) THEN [ok |-> TRUE, was |-> WasOf(v)]
               ELSE Packet!None
  BY <1>2, <1>3 DEF Packet!cusp_icmp_recv, WasOf
<1>6. /\ Sized(u) /\ (k = u \/ (u.outside.len = u.len /\ k = Mac(u)))
      /\ (IF damaged THEN Spoilt(u) ELSE Whole(u))
  BY <1>1, <1>2 DEF Travels
<1>7. u \in PacketsAre /\ u.len >= 20
  <2>1. u \in PacketsAre /\ u.len \in Nat /\ u.len >= 56
    BY ONLY <1>4, <1>6, SentSized
  <2>. QED BY ONLY <2>1
<1>8. /\ u.outside.len = u.len => v = u
      /\ u.outside.len # u.len => WasOf(v) = WasOf(u)
      /\ k.outside.chksum = u.outside.chksum
      /\ k.outside.source = u.outside.source
  BY ONLY <1>3, <1>6, <1>7, RepairedIs
<1>9. ~damaged /\ Packet!KnownCode(request.code) => found'.ok
  <2>1. SUFFICES ASSUME ~damaged, Packet!KnownCode(request.code)
                 PROVE  found'.ok
    OBVIOUS
  <2>2. Whole(u) /\ v = u
    BY ONLY <1>6, <1>8, <2>1 DEF Whole
  <2>3. Packet!Accepted(v)
    BY ONLY <1>4, <2>1, <2>2, WholeIsAccepted
  <2>. QED BY ONLY <1>5, <2>3
<1>10. ASSUME Packet!Accepted(v)
       PROVE  /\ WasOf(v) = WasOf(u) /\ Carried(u)
              /\ u.outside.source = request.reporter \/ u.outside.chksum = 0
  <2>1. CASE u.outside.len = u.len
    <3>1. v = u
      BY <1>8, <2>1
    <3>2. /\ u.icmpsum = Packet!IcmpSum(u)
          /\ u.outside.chksum \in {0, Packet!IpSum(u.outside)}
      BY ONLY <1>10, <3>1 DEF Packet!Accepted
    <3>. QED BY ONLY <1>6, <3>1, <3>2 DEF Whole, Spoilt, ReporterKept
  <2>2. CASE u.outside.len # u.len
    BY ONLY <1>6, <1>8, <2>2 DEF Whole, Spoilt, ReporterKept
  <2>. QED BY ONLY <2>1, <2>2
<1>11. ASSUME found'.ok
       PROVE  \/ found'.was = request
              \/ /\ k.outside.chksum = 0
                 /\ found'.was = [request EXCEPT !.reporter = k.outside.source]
  <2>1. Packet!Accepted(v) /\ found'.was = WasOf(v)
    BY ONLY <1>5, <1>11 DEF Packet!None
  <2>2. /\ found'.was = WasOf(u) /\ Carried(u)
        /\ u.outside.source = request.reporter \/ u.outside.chksum = 0
    BY ONLY <1>10, <2>1
  <2>3. /\ WasOf(u) = [request EXCEPT !.reporter = u.outside.source]
        /\ u.outside.source = request.reporter => WasOf(u) = request
    BY ONLY <1>4, <2>2, WasIs
  <2>. QED BY ONLY <1>8, <2>2, <2>3
<1>12. Packet!ErrorArrives'
  BY <1>4, <1>9, <1>11 DEF Packet!ErrorArrives, Packet!KnownCode
<1>. QED BY <1>4, <1>12 DEF PacketInv

\* PacketInv is inductive.
LEMMA PacketStep ==
    ASSUME PacketInv, [Packet!Next]_(Packet!pVars)
    PROVE  PacketInv'
<1>1. CASE Packet!cusp_icmp_send
  BY <1>1, MadeTravels
<1>2. CASE Packet!tooLong
  BY <1>2, TooLongKeeps
<1>3. CASE Packet!Windows
  BY <1>3, WindowsKeeps
<1>4. CASE Packet!MacOS
  BY <1>4, MacOSKeeps
<1>5. ASSUME NEW w \in Damages, Packet!Damage(w) PROVE PacketInv'
  BY <1>5, DamageKeeps
<1>6. CASE Packet!cusp_icmp_recv
  BY <1>6, RecvKeeps
<1>7. CASE UNCHANGED Packet!pVars
  <2>1. /\ request' = request /\ state' = state /\ packet' = packet
        /\ found' = found /\ damaged' = damaged
    BY <1>7 DEF Packet!pVars
  <2>2. \A u : Travels(u)' <=> Travels(u)
    BY <2>1, RequestKept DEF Travels
  <2>3. Fits(request)' <=> Fits(request)
    BY <2>1, RequestKept
  <2>4. Packet!ErrorArrives'
    BY <2>1 DEF PacketInv, Packet!ErrorArrives
  <2>. QED BY <2>1, <2>2, <2>3, <2>4 DEF PacketInv
<1>. QED BY <1>1, <1>2, <1>3, <1>4, <1>5, <1>6, <1>7 DEF Packet!Next

(***************************************************************************)
(* What cusp_icmp_send makes up is read by cusp_icmp_recv as it was meant, *)
(* for every request that fits the buffer, whichever system has the packet *)
(* in between; and a packet one word of which was damaged is refused, or   *)
(* says what was meant (but for the reporter, where no checksum covers     *)
(* it).                                                                    *)
(***************************************************************************)
THEOREM ErrorsAlwaysArrive == Packet!Spec => []ErrorArrives
<1>1. Packet!Init => PacketInv
  BY DEF Packet!Init, PacketInv, Packet!ErrorArrives
<1>2. PacketInv /\ [Packet!Next]_(Packet!pVars) => PacketInv'
  BY PacketStep
<1>3. PacketInv => ErrorArrives
  BY DEF PacketInv, ErrorArrives
<1>. QED BY <1>1, <1>2, <1>3, PTL DEF Packet!Spec
=============================================================================
