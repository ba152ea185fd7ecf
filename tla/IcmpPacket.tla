----------------------------- MODULE IcmpPacket -----------------------------
(***************************************************************************)
(* csupport/cusp/icmp-packet.c: the ICMP error that cusp_icmp_send makes   *)
(* up about a UDP packet that was never sent, and what cusp_icmp_recv      *)
(* reads from the error that arrives.  Numbers are 16-bit words as they    *)
(* are on the wire; an address is one word, and words that are always 0    *)
(* are left out.                                                           *)
(***************************************************************************)
EXTENDS Integers, Sequences

CONSTANTS Requests,              \* what is to be sent
          BufferLen,             \* IP_PACKET_LEN: 576 bytes
          Damages                \* what may be added to a word on the way

VARIABLES request,               \* [from, fromport, to, toport, code, data,
                                 \*  reporter]
          state,                 \* "new", "sent", "refused" or "read"
          packet, found, damaged

pVars == <<request, state, packet, found, damaged>>

Word == 65536
MinLen == 56                     \* two IP headers, an ICMP and a UDP header
IpLen == 20
None == [ok |-> FALSE]

Total(words) ==
    LET upTo[k \in 0 .. Len(words)] ==
            IF k = 0 THEN 0 ELSE upTo[k - 1] + words[k]
    IN  upTo[Len(words)]

\* One's complement of the one's complement sum, which is folded twice.
csum(words) ==
    LET sum == Total(words)
        once == (sum \div Word) + (sum % Word)
    IN  Word - 1 - ((once + (once \div Word)) % Word)

Swap(w) == 256 * (w % 256) + (w \div 256)

\* A slip: an odd last byte is left out.
DataWords_Even(d) ==
    [k \in 1 .. Len(d) \div 2 |-> 256 * d[2 * k - 1] + d[2 * k]]

\* Bytes as words, the last filled up with a zero byte.
DataWords(d) ==
    [k \in 1 .. (Len(d) + 1) \div 2 |->
        256 * d[2 * k - 1] + (IF 2 * k <= Len(d) THEN d[2 * k] ELSE 0)]

\* An IP header without options: the version and the length are 0x45.
IpSum(h) == csum(<<17664, h.len, h.protocol, h.source, h.dest>>)
IpHeader(len, protocol, source, dest) ==
    LET h == [len |-> len, protocol |-> protocol, source |-> source,
              dest |-> dest, chksum |-> 0]
    IN  [h EXCEPT !.chksum = IpSum(h)]

\* The checksum of the ICMP message behind the outside header.
IcmpSum(p) ==
    csum(<<p.typecode, 17664, p.inside.len, p.inside.protocol,
           p.inside.source, p.inside.dest, p.inside.chksum>>
         \o p.udp \o DataWords(p.data))

\* The UDP header: ports, length, and a checksum that covers a pseudo header.
UdpHeader(q) ==
    LET len == Len(q.data) + 8
        head == <<q.fromport, q.toport, len>>
    IN  Append(head, csum(<<q.from, q.to, 17, len>> \o head \o DataWords(q.data)))

\* The packet about q.
Made(q) ==
    LET len == Len(q.data) + MinLen
        message == [typecode |-> q.code,
                    inside |-> IpHeader(len - 28, 273, q.from, q.to),
                    udp |-> UdpHeader(q), data |-> q.data]
    IN  [typecode |-> message.typecode, inside |-> message.inside,
         udp |-> message.udp, data |-> message.data,
         icmpsum |-> IcmpSum(message), len |-> len,
         outside |-> IpHeader(len, 16385, q.reporter, q.from)]

Init ==
    /\ request \in Requests
    /\ state = "new" /\ packet = None /\ found = None /\ damaged = FALSE
-----------------------------------------------------------------------------
\* cusp_icmp_send; the outside header is replaced by the system's, with the
\* same fields but the reporter's address.
cusp_icmp_send ==
    /\ state = "new"
    /\ MinLen + 2 * ((Len(request.data) + 1) \div 2) <= BufferLen
    /\ state' = "sent"
    /\ packet' = Made(request)
    /\ UNCHANGED <<request, found, damaged>>

tooLong ==
    /\ state = "new"
    /\ MinLen + 2 * ((Len(request.data) + 1) \div 2) > BufferLen
    /\ state' = "refused"
    /\ UNCHANGED <<request, packet, found, damaged>>

\* A receiving system may change the packet: Windows 7 clears the outside
\* checksum, macOS takes the length of the header off the outside length and
\* leaves the lengths in its own byte order.
Windows ==
    /\ state = "sent" /\ ~damaged /\ packet.outside.chksum # 0
    /\ packet' = [packet EXCEPT !.outside.chksum = 0]
    /\ UNCHANGED <<request, state, found, damaged>>
MacOS ==
    /\ state = "sent" /\ packet.outside.len = packet.len
    /\ packet' = [packet EXCEPT !.outside.len = Swap(@ - IpLen),
                                !.inside.len = Swap(@)]
    /\ UNCHANGED <<request, state, found, damaged>>

\* One word changes on the way, unless 0 and 0xFFFF take each other's place:
\* a one's complement sum does not tell them apart.
Changed(w, w2) ==
    LET x == (w + w2) % Word IN IF {w, x} = {0, Word - 1} THEN w ELSE x
Damage(w) ==
    /\ state = "sent" /\ ~damaged
    /\ packet.outside.len = packet.len
    /\ \/ packet' = [packet EXCEPT !.typecode = Changed(@, w)]
       \/ packet' = [packet EXCEPT !.icmpsum = Changed(@, w)]
       \/ \E f \in DOMAIN packet.inside :
             \/ packet' = [packet EXCEPT !.inside[f] = Changed(@, w)]
             \/ packet' = [packet EXCEPT !.outside[f] = Changed(@, w)]
       \/ \E k \in DOMAIN packet.udp :
             packet' = [packet EXCEPT !.udp[k] = Changed(@, w)]
       \/ \E k \in DOMAIN packet.data :
             packet' = [packet EXCEPT !.data[k] = (@ + w) % 256]
    /\ damaged' = (packet' # packet)
    /\ UNCHANGED <<request, state, found>>
-----------------------------------------------------------------------------
KnownCode(code) == code \in 768 .. 780 \cup {2816, 2817}

\* A slip: the lengths of the inside header stay as macOS left them.
Repaired_Outside(p) ==
    IF p.outside.len # p.len /\ Swap(p.outside.len) + IpLen = p.len
    THEN [p EXCEPT !.outside.len = p.len] ELSE p

\* The packet with the lengths that macOS broke put right.
Repaired(p) ==
    IF p.outside.len # p.len /\ Swap(p.outside.len) + IpLen = p.len
    THEN [p EXCEPT !.outside.len = p.len, !.inside.len = Swap(@)] ELSE p

Accepted(p) ==
    /\ p.outside.protocol % 256 = 1
    /\ p.outside.len = p.len
    /\ p.outside.chksum \in {0, IpSum(p.outside)}
    /\ KnownCode(p.typecode)
    /\ p.icmpsum = IcmpSum(p)
    /\ p.inside.protocol % 256 = 17
    /\ p.inside.chksum = IpSum(p.inside)
    /\ p.outside.dest = p.inside.source

cusp_icmp_recv ==
    /\ state = "sent"
    /\ state' = "read"
    /\ LET p == Repaired(packet) IN
       found' = IF Accepted(p)
                THEN [ok |-> TRUE,
                      was |-> [from |-> p.inside.source, fromport |-> p.udp[1],
                               to |-> p.inside.dest, toport |-> p.udp[2],
                               code |-> p.typecode, data |-> p.data,
                               reporter |-> p.outside.source]]
                ELSE None
    /\ UNCHANGED <<request, packet, damaged>>

Next ==
    \/ cusp_icmp_send
    \/ tooLong
    \/ Windows
    \/ MacOS
    \/ \E w \in Damages : Damage(w)
    \/ cusp_icmp_recv

Spec == Init /\ [][Next]_pVars
-----------------------------------------------------------------------------
(***************************************************************************)
(* An error that fits and has a known code arrives as it was sent, on each *)
(* system and for data of even and of odd length; and one that was damaged *)
(* on the way is not taken for another.  (Where Windows clears the outside *)
(* checksum, nothing protects the reporter's address.)                     *)
(***************************************************************************)
ErrorArrives ==
    state = "read" =>
        /\ ~damaged /\ KnownCode(request.code) => found.ok
        /\ found.ok =>
              \/ found.was = request
              \/ /\ packet.outside.chksum = 0
                 /\ found.was = [request EXCEPT !.reporter = packet.outside.source]
=============================================================================
