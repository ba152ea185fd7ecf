------------------------------ MODULE SuiteSet ------------------------------
(***************************************************************************)
(* bindings/cpp/cusp: sets of encryption suites are 16-bit masks with one  *)
(* bit per suite, and an iterator hands the suites out from the lowest bit *)
(* while it clears them in its own copy.  The classes for public-key and   *)
(* for symmetric suites are the same but for their names.                  *)
(***************************************************************************)
EXTENDS Integers, Sequences, FiniteSets

CONSTANT Width                   \* 16 in the code

VARIABLES mask,                  \* the set the iterator was made from
          set,                   \* the iterator's own mask
          returned               \* what next has returned so far

sVars == <<mask, set, returned>>

\* 1, shifted to the left i times.
Shifted[i \in 0 .. Width] == IF i = 0 THEN 1 ELSE 2 * Shifted[i - 1]

Masks == 0 .. Shifted[Width] - 1
Bits == 0 .. Width - 1
Has(m, i) == (m \div Shifted[i]) % 2 = 1
BitsOf(m) == {i \in Bits : Has(m, i)}
MaskOf(bits) == CHOOSE m \in Masks : BitsOf(m) = bits

\* The operators of PublicKeySuiteSet and PublicKeySuite.
Intersect(a, b) == MaskOf(BitsOf(a) \cap BitsOf(b))
Minus(a, b) == MaskOf(BitsOf(a) \ BitsOf(b))
isEmpty(a) == a = 0
isValid(v) == v # 0 /\ Intersect(v, v - 1) = 0

Init == mask \in Masks /\ set = mask /\ returned = <<>>

hasNext == ~isEmpty(set)

LowestOf(bits) == CHOOSE i \in bits : \A j \in bits : i <= j

\* A slip: the loop stops before the highest bit.
next_Short ==
    LET ones == BitsOf(set) \ {Width - 1} IN
    \/ /\ ones # {}
       /\ set' = Minus(set, Shifted[LowestOf(ones)])
       /\ returned' = Append(returned, Shifted[LowestOf(ones)])
    \/ ones = {} /\ set' = 0 /\ UNCHANGED returned

\* next: the lowest bit is returned and cleared; of an empty set it returns
\* 0, which is not a suite.
next ==
    LET ones == BitsOf(set) IN
    \/ /\ ones # {}
       /\ set' = Minus(set, Shifted[LowestOf(ones)])
       /\ returned' = Append(returned, Shifted[LowestOf(ones)])
    \/ ones = {} /\ UNCHANGED <<set, returned>>

Next == next /\ UNCHANGED mask

Spec == Init /\ [][Next]_sVars
-----------------------------------------------------------------------------
Suites(m) == {Shifted[i] : i \in BitsOf(m)}

(***************************************************************************)
(* The iteration returns every suite of the set once, a valid suite each   *)
(* time, and at its end nothing is left out: what has been returned and    *)
(* what the iterator still holds are always the set it was made from.      *)
(***************************************************************************)
EachSuiteOnce ==
    LET out == {returned[k] : k \in DOMAIN returned} IN
    /\ out \cup Suites(set) = Suites(mask)
    /\ out \cap Suites(set) = {}
    /\ Cardinality(out) = Len(returned)
    /\ \A v \in out : isValid(v)

=============================================================================
