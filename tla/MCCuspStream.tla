---------------------------- MODULE MCCuspStream ----------------------------
(***************************************************************************)
(* CuspStream for TLC: packets are model values, interchangeable where no  *)
(* liveness is checked; and the behaviours in which nobody resets the      *)
(* stream, which suffice to see flow control at work.                      *)
(***************************************************************************)
EXTENDS CuspStreamRefinement, TLC

Symmetry == Permutations(WSlots) \cup Permutations(RSlots)

\* Neither user resets the stream, and the service has a listener.
CalmNext == Next /\ wState' # "RESET" /\ ~ IsReset(rState')

CalmSpec == Init /\ [][CalmNext]_vars /\ FairChannel /\ FairReader
=============================================================================
