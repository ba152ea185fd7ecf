----------------------------- MODULE MCHelpers -----------------------------
(***************************************************************************)
(* What the bindings and the ICMP code add around the ML side, side by     *)
(* side: a request and its answer (SingleCycle), writes before a stream is *)
(* ready (BufferedOut), a message (SingleMessage), the service that sends  *)
(* ICMP (IcmpService), its packets (IcmpPacket) and the machine's          *)
(* addresses (AddressCache).  They share no state; which of them a         *)
(* behaviour belongs to is chosen at the start.                            *)
(***************************************************************************)
EXTENDS SingleCycle, BufferedOut, SingleMessage, IcmpService, AddressCache, TLC

CONSTANTS Requests, BufferLen, Damages        \* IcmpPacket

VARIABLES which, request, state, packet, found, damaged

\* Requests and responses: none, one that cannot be split, and one that can.
Texts == {<<>>, <<"a">>, <<"a", "b">>}

\* Packets: data of even and odd length, with the highest byte, and too long
\* for the buffer; two ports and hosts; two codes that are known and one that
\* is not.
Packets ==
    [from : {2561}, fromport : {1, 65535}, to : {3000, 0}, toport : {8585},
     code : {771, 1024, 2816}, reporter : {7},
     data : {<<>>, <<255>>, <<0, 255>>, <<255, 255, 1>>, <<1, 2, 3, 4>>,
             <<1, 2, 3, 4, 5>>}]

Packet == INSTANCE IcmpPacket

\* Addresses, ports and codes are words, data is octets.
Words == {w \in Nat : w < 65536}
Octets == {b \in Nat : b < 256}
ASSUME PacketAssumption ==
    /\ \A q \in Requests :
          q \in [from : Words, fromport : Words, to : Words, toport : Words,
                code : Words, reporter : Words, data : Seq(Octets)]
    /\ BufferLen \in Words
    /\ Damages \subseteq Nat

packetVars == <<request, state, packet, found, damaged>>
AllVars == <<which, scVars, boVars, smVars, iVars, packetVars, mVars>>

UnionInit ==
    /\ which \in {"cycle", "buffered", "message", "service", "packet", "cache"}
    /\ CycleInit /\ BufferedInit /\ MessageInit
    /\ ServiceInit /\ Packet!Init /\ CacheInit
    /\ which = "cycle" \/ client.request = <<>>
    /\ which = "message" \/ size = 0
    /\ which = "service" \/ present = {}
    /\ which = "packet" \/ request = CHOOSE r \in Requests : TRUE
    /\ which = "cache" \/ machine = {}

UnionNext ==
    \/ /\ which = "cycle" /\ CycleNext
       /\ UNCHANGED <<which, boVars, smVars, iVars, packetVars, mVars>>
    \/ /\ which = "buffered" /\ BufferedNext
       /\ UNCHANGED <<which, scVars, smVars, iVars, packetVars, mVars>>
    \/ /\ which = "message" /\ MessageNext
       /\ UNCHANGED <<which, scVars, boVars, iVars, packetVars, mVars>>
    \/ /\ which = "service" /\ ServiceNext
       /\ UNCHANGED <<which, scVars, boVars, smVars, packetVars, mVars>>
    \/ /\ which = "packet" /\ Packet!Next
       /\ UNCHANGED <<which, scVars, boVars, smVars, iVars, mVars>>
    \/ /\ which = "cache" /\ CacheNext
       /\ UNCHANGED <<which, scVars, boVars, smVars, iVars, packetVars>>

UnionSpec == UnionInit /\ [][UnionNext]_AllVars

Alike == Permutations(Socks) \cup Permutations(IfAddrs)
-----------------------------------------------------------------------------
(* The properties that are not of one of the modules above. *)

\* What is written before the stream is ready goes out in order, and the
\* shutdown behind it; who asked for it, or for a message, hears what became
\* of it, of a message exactly once.
WritesKept == InOrder /\ ShutdownHeard /\ ToldOnce

\* An ICMP error arrives as it was sent or not at all.
ErrorArrives == Packet!ErrorArrives
=============================================================================
