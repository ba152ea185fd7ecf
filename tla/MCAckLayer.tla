------------------------------ MODULE MCAckLayer ------------------------------
(***************************************************************************)
(* AckLayer with one end that sends more than the other.                   *)
(***************************************************************************)
EXTENDS AckLayer

CONSTANTS LastA, LastB

Last == [e \in Ends |-> IF e = "a" THEN LastA ELSE LastB]
=============================================================================
