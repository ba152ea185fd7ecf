---------------------------- MODULE MCCreateLost ----------------------------
(***************************************************************************)
(* HostDispatch with streams of one end only.                              *)
(***************************************************************************)
EXTENDS HostDispatch, TLC

CONSTANTS LongStreams, ShortStreams, LastA, LastB

Every == LongStreams \cup ShortStreams
Writer == [s \in Every |-> "a"]
Lengths == [s \in Every |-> IF s \in LongStreams THEN 2 ELSE 1]
LastOf == [e \in {"a", "b"} |-> IF e = "a" THEN LastA ELSE LastB]
Alike == Permutations(LongStreams) \cup Permutations(ShortStreams)
=============================================================================
