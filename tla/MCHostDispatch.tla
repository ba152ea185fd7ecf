---------------------------- MODULE MCHostDispatch ----------------------------
(***************************************************************************)
(* HostDispatch, of which a behaviour sees one part.  Reuse: a long stream *)
(* and two short ones, of which the last gets the id of the first, on one  *)
(* channel, whose packets of the first may still be accepted.  Growth:     *)
(* tables that grow under short streams, and a second channel, resumed or  *)
(* not.                                                                    *)
(***************************************************************************)
EXTENDS HostDispatch, TLC

CONSTANTS Long, Trio                        \* the streams: one, and short ones

VARIABLE which

AllStreams == Long \cup Trio

\* All streams are those of one end, which sends that many packets.
FromA == [s \in AllStreams |-> "a"]
Lengths == [s \in AllStreams |-> IF s \in Long THEN 2 ELSE 1]
UpTo(a, b) == [e \in {"a", "b"} |-> IF e = "a" THEN a ELSE b]
Limits == UpTo(4, 2)

EitherInit == Init /\ which \in {"reuse", "growth"}

\* The streams that users have connected.
Used(streams) == {s \in streams : host'["a"].outs[s].state # "unused"}

\* What the two parts do not see.  (That the streams of reuse are connected
\* before the first packet leaves out nothing: a pull takes any that is ready.)
Within ==
    /\ which = "reuse" =>
          /\ Cardinality(Used(Trio)) <= 2
          /\ tsn' # tsn => Used(Long) = Long /\ Cardinality(Used(Trio)) = 2
          /\ channels' = 0
          /\ resets' # resets => tsn["a"] <= 1 /\ \E s \in Long : ResetOut(s)
    /\ which = "growth" =>
          /\ Used(Long) = {}
          /\ \A e \in Ends : tsn'[e] <= UpTo(3, 1)[e]

EitherNext == Next /\ Within /\ UNCHANGED which

EitherSpec == EitherInit /\ [][EitherNext]_<<which, hdVars>>

Alike == Permutations(Trio)
=============================================================================
