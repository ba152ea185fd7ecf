--------------------------- MODULE SegmentFormat ---------------------------
(***************************************************************************)
(* What the two halves of a CUSP stream say to each other                  *)
(* (cusp/stream/packet-format.sml), and the constants of the flow control  *)
(* they share.                                                             *)
(*                                                                         *)
(* A stream is a sequence of bytes; a byte is known by its offset, so a    *)
(* run of bytes is an interval of offsets and a bag of disjoint segments   *)
(* is a set of offsets.  One model byte stands for a block of real bytes.  *)
(***************************************************************************)
EXTENDS Integers, FiniteSets

CONSTANTS
    MaxOffset,        \* bound: bytes one stream carries in its life
    PacketMax,        \* room for stream data in one packet (an MTU)
    MinimumWindow,    \* minimumWindow, 21568 bytes in the code
    BarrierIncrement, \* minimumWindow div 4: when a new barrier is announced
    SillyWindow,      \* the 2048 bytes of OutStreamQueue.amRTS
    MaxWindow         \* 0x7fffffff - safetyMargin: the largest window

\* The relations between the code's literals 21568, 5392, 2048, 4092 and 2^31.
ASSUME ParametersAssumption ==
    /\ MaxOffset \in Nat
    /\ PacketMax \in Nat \ {0}
    /\ SillyWindow \in Nat
    /\ BarrierIncrement \in Nat \ {0}
    /\ MinimumWindow \in Nat
    /\ MaxWindow \in Nat
    /\ BarrierIncrement <= MinimumWindow
    /\ SillyWindow < MinimumWindow
    /\ MinimumWindow <= MaxWindow

Offsets == 0 .. MaxOffset
Bytes == 0 .. (MaxOffset - 1)

\* The bytes of a run that starts at a and ends before b.
Run(a, b) == a .. (b - 1)

Max2(a, b) == IF a >= b THEN a ELSE b
Min2(a, b) == IF a <= b THEN a ELSE b

\* READER messages: what a writer sends to the remote reader.
DataMsg(a, b, eof) == [type |-> "DATA", off |-> a, end |-> b, eof |-> eof]
WriterResets == [type |-> "WRITER_RESETS", off |-> 0, end |-> 0, eof |-> FALSE]
NoData == [type |-> "NONE", off |-> 0, end |-> 0, eof |-> FALSE]
ReaderMsgs == [type : {"DATA", "WRITER_RESETS", "NONE"},
               off : Offsets, end : Offsets, eof : BOOLEAN]

\* WRITER messages: what a reader sends to the remote writer.
BarrierMsg(b) == [type |-> "READER_BARRIER", barrier |-> b]
ReaderResets == [type |-> "READER_RESETS", barrier |-> 0]
NoCtl == [type |-> "NONE", barrier |-> 0]
WriterMsgs == [type : {"READER_BARRIER", "READER_RESETS", "NONE"},
               barrier : Nat]

\* The bytes a message carries.
Payload(m) == Run(m.off, m.end)
=============================================================================
