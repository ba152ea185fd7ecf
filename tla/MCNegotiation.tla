--------------------------- MODULE MCNegotiation ---------------------------
(***************************************************************************)
(* Negotiation for TLC.  The two ends are alike but for their offers, of   *)
(* which there are those with one suite in common, that is the cheapest of *)
(* one end only, and those with none.                                      *)
(***************************************************************************)
EXTENDS Negotiation, TLC

Pair(s, t) == {[e \in Ends |-> IF e = x THEN s ELSE t] : x \in Ends}

OffersSmall == Pair({1, 2}, {2, 3}) \cup Pair({1}, {2})

Symmetry == Permutations(Ends)
=============================================================================
