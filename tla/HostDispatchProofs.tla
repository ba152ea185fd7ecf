------------------------- MODULE HostDispatchProofs -------------------------
(***************************************************************************)
(* Proofs about HostDispatch, for every set of streams, size of the        *)
(* cooldown ring, window and bound: IdsPartition.                          *)
(***************************************************************************)
EXTENDS HostDispatch, NumberLemmas

-----------------------------------------------------------------------------
(* Natural numbers. *)

\* There is a power of two from id + 1 up to the double of id, or for id 0
\* one more.
LEMMA PowerAbove ==
    ASSUME NEW id \in Nat
    PROVE  /\ PowersOf2(id) \subseteq Nat
           /\ \E n \in PowersOf2(id) : id < n /\ n <= 2 * id + 1
<1>. DEFINE power == CHOOSE f : f = [k \in 0 .. id |-> IF k = 0 THEN 1 ELSE 2 * f[k - 1]]
<1>1. power = [k \in 0 .. id |-> IF k = 0 THEN 1 ELSE 2 * power[k - 1]]
  BY PowersDefined
<1>2. PowersOf2(id) = {power[k] : k \in 0 .. id}
  BY DEF PowersOf2
<1>. HIDE DEF power
<1>. DEFINE S == {k \in Nat : k <= id => power[k] \in Nat /\ power[k] > k}
            T == {k \in 0 .. id : power[k] > id}
<1>3. Nat \subseteq S
  <2>1. 0 \in S
    BY <1>1
  <2>2. ASSUME NEW k \in Nat, k \in S PROVE k + 1 \in S
    <3>1. SUFFICES ASSUME k + 1 <= id PROVE power[k + 1] \in Nat /\ power[k + 1] > k + 1
      OBVIOUS
    <3>2. power[k] \in Nat /\ power[k] > k
      BY <2>2, <3>1
    <3>3. power[k + 1] = 2 * power[k]
      BY <1>1, <3>1
    <3>. QED BY <3>2, <3>3
  <2>. HIDE DEF S
  <2>. QED BY <2>1, <2>2, SetInduction
<1>4. T # {} /\ T \in SUBSET Nat
  BY <1>3
<1>5. PICK k \in T : \A j \in T : k <= j
  <2>. HIDE DEF T
  <2>. QED BY <1>4, LeastExists
<1>6. power[k] \in Nat /\ power[k] > id /\ k \in 0 .. id
  BY <1>3
<1>7. power[k] <= 2 * id + 1
  <2>1. CASE k = 0
    BY <1>1, <2>1
  <2>2. CASE k # 0
    <3>1. k - 1 \in 0 .. id /\ k - 1 \notin T
      BY <1>5, <2>2
    <3>2. power[k - 1] \in Nat /\ power[k - 1] <= id
      BY <1>3, <3>1
    <3>3. power[k] = 2 * power[k - 1]
      BY <1>1, <2>2
    <3>. QED BY <3>2, <3>3
  <2>. QED BY <2>1, <2>2
<1>8. PowersOf2(id) \subseteq Nat
  BY <1>2, <1>3
<1>. QED BY <1>2, <1>6, <1>7, <1>8
-----------------------------------------------------------------------------
(* Lists of ids. *)

\* What the operators on lists do to the ids in them.
LEMMA Concatenation ==
    ASSUME NEW s \in Seq(Nat), NEW t \in Seq(Nat)
    PROVE  /\ s \o t \in Seq(Nat) /\ Len(s \o t) = Len(s) + Len(t)
           /\ ToSet(s \o t) = ToSet(s) \cup ToSet(t)
           /\ IsInjective(s) /\ IsInjective(t) /\ ToSet(s) \cap ToSet(t) = {}
                 => IsInjective(s \o t)
<1>1. /\ s \o t \in Seq(Nat) /\ DOMAIN (s \o t) = 1 .. Len(s) + Len(t)
      /\ Len(s \o t) = Len(s) + Len(t)
      /\ DOMAIN s = 1 .. Len(s) /\ DOMAIN t = 1 .. Len(t)
      /\ \A i \in 1 .. Len(s) : (s \o t)[i] = s[i]
      /\ \A i \in 1 .. Len(t) : (s \o t)[Len(s) + i] = t[i]
  OBVIOUS
<1>2. \A i \in 1 .. Len(s) + Len(t) :
          \/ i \in 1 .. Len(s) /\ (s \o t)[i] = s[i]
          \/ i - Len(s) \in 1 .. Len(t) /\ (s \o t)[i] = t[i - Len(s)]
  BY <1>1
<1>3. ToSet(s \o t) \subseteq ToSet(s) \cup ToSet(t)
  BY <1>1, <1>2 DEF ToSet
<1>4. ToSet(s) \subseteq ToSet(s \o t)
  BY <1>1 DEF ToSet
<1>5. ToSet(t) \subseteq ToSet(s \o t)
  <2>1. ASSUME NEW i \in 1 .. Len(t) PROVE t[i] \in ToSet(s \o t)
    <3>1. Len(s) + i \in DOMAIN (s \o t) /\ (s \o t)[Len(s) + i] = t[i]
      BY <1>1
    <3>. QED BY <3>1 DEF ToSet
  <2>. QED BY <1>1, <2>1 DEF ToSet
<1>6. ASSUME IsInjective(s), IsInjective(t), ToSet(s) \cap ToSet(t) = {}
      PROVE  IsInjective(s \o t)
  <2>1. SUFFICES ASSUME NEW i \in 1 .. Len(s) + Len(t), NEW j \in 1 .. Len(s) + Len(t),
                        (s \o t)[i] = (s \o t)[j]
                 PROVE  i = j
    BY <1>1 DEF IsInjective
  <2>2. \A k \in 1 .. Len(s), l \in 1 .. Len(t) : s[k] # t[l]
    BY <1>1, <1>6 DEF ToSet
  <2>3. \A k, l \in 1 .. Len(s) : s[k] = s[l] => k = l
    BY <1>1, <1>6 DEF IsInjective
  <2>4. \A k, l \in 1 .. Len(t) : t[k] = t[l] => k = l
    BY <1>1, <1>6 DEF IsInjective
  <2>5. CASE i \in 1 .. Len(s) /\ j \in 1 .. Len(s)
    BY <1>1, <2>1, <2>3, <2>5
  <2>6. CASE i - Len(s) \in 1 .. Len(t) /\ j - Len(s) \in 1 .. Len(t)
    <3>1. Len(s) + (i - Len(s)) = i /\ Len(s) + (j - Len(s)) = j
      OBVIOUS
    <3>2. (s \o t)[i] = t[i - Len(s)] /\ (s \o t)[j] = t[j - Len(s)]
      BY <1>1, <2>6, <3>1
    <3>3. i - Len(s) = j - Len(s)
      BY <2>1, <2>4, <2>6, <3>2
    <3>. QED BY <3>3
  <2>. QED BY <1>2, <2>1, <2>2, <2>5, <2>6
<1>. QED BY <1>1, <1>3, <1>4, <1>5, <1>6

LEMMA EmptyList ==
    <<>> \in Seq(Nat) /\ ToSet(<<>>) = {} /\ IsInjective(<<>>)
BY DEF ToSet, IsInjective

LEMMA Singleton ==
    ASSUME NEW id \in Nat
    PROVE  <<id>> \in Seq(Nat) /\ ToSet(<<id>>) = {id} /\ IsInjective(<<id>>)
BY DEF ToSet, IsInjective

LEMMA Reversed ==
    ASSUME NEW s \in Seq(Nat)
    PROVE  /\ Reverse(s) \in Seq(Nat) /\ ToSet(Reverse(s)) = ToSet(s)
           /\ IsInjective(s) => IsInjective(Reverse(s))
<1>. DEFINE r == Reverse(s)
<1>1. /\ r = [i \in 1 .. Len(s) |-> s[(Len(s) - i) + 1]]
      /\ DOMAIN r = 1 .. Len(s) /\ DOMAIN s = 1 .. Len(s)
  BY DEF Reverse
<1>2. \A i \in 1 .. Len(s) : /\ (Len(s) - i) + 1 \in 1 .. Len(s)
                            /\ r[i] = s[(Len(s) - i) + 1]
                            /\ r[(Len(s) - i) + 1] = s[i]
  BY <1>1
<1>3. r \in Seq(Nat)
  BY <1>1
<1>. HIDE DEF r
<1>4. ToSet(r) = ToSet(s)
  BY <1>1, <1>2 DEF ToSet
<1>5. ASSUME IsInjective(s) PROVE IsInjective(r)
  <2>1. SUFFICES ASSUME NEW i \in 1 .. Len(s), NEW j \in 1 .. Len(s), r[i] = r[j]
                 PROVE  i = j
    BY <1>1 DEF IsInjective
  <2>2. (Len(s) - i) + 1 = (Len(s) - j) + 1
    BY <1>1, <1>2, <1>5, <2>1 DEF IsInjective
  <2>. QED BY <2>2
<1>. QED BY <1>3, <1>4, <1>5 DEF r

LEMMA Headless ==
    ASSUME NEW s \in Seq(Nat), s # <<>>, IsInjective(s)
    PROVE  /\ Head(s) \in Nat /\ Tail(s) \in Seq(Nat)
           /\ IsInjective(Tail(s)) /\ Head(s) \notin ToSet(Tail(s))
           /\ ToSet(s) = {Head(s)} \cup ToSet(Tail(s))
<1>1. /\ Len(s) \in Nat \ {0} /\ Head(s) = s[1] /\ Head(s) \in Nat
      /\ Tail(s) \in Seq(Nat)
      /\ DOMAIN s = 1 .. Len(s) /\ DOMAIN Tail(s) = 1 .. Len(s) - 1
      /\ \A i \in 1 .. Len(s) - 1 : Tail(s)[i] = s[i + 1]
  OBVIOUS
<1>2. ASSUME NEW i \in 1 .. Len(s), i # 1
      PROVE  i - 1 \in 1 .. Len(s) - 1 /\ Tail(s)[i - 1] = s[i]
  <2>1. i - 1 \in 1 .. Len(s) - 1 /\ (i - 1) + 1 = i
    BY <1>1, <1>2
  <2>2. Tail(s)[i - 1] = s[(i - 1) + 1]
    BY <1>1, <2>1
  <2>. QED BY <2>1, <2>2
<1>3. IsInjective(Tail(s))
  <2>1. SUFFICES ASSUME NEW i \in 1 .. Len(s) - 1, NEW j \in 1 .. Len(s) - 1,
                        Tail(s)[i] = Tail(s)[j]
                 PROVE  i = j
    BY <1>1 DEF IsInjective
  <2>2. i + 1 = j + 1
    BY <1>1, <2>1 DEF IsInjective
  <2>. QED BY <2>2
<1>4. Head(s) \notin ToSet(Tail(s))
  <2>1. SUFFICES ASSUME NEW i \in 1 .. Len(s) - 1, Tail(s)[i] = s[1] PROVE FALSE
    BY <1>1 DEF ToSet
  <2>2. i + 1 = 1
    BY <1>1, <2>1 DEF IsInjective
  <2>. QED BY <2>2
<1>5. ToSet(s) \subseteq {Head(s)} \cup ToSet(Tail(s))
  <2>1. ASSUME NEW i \in 1 .. Len(s) PROVE s[i] \in {Head(s)} \cup ToSet(Tail(s))
    <3>1. CASE i = 1
      BY <1>1, <3>1
    <3>2. CASE i # 1
      BY <1>1, <1>2, <3>2 DEF ToSet
    <3>. QED BY <3>1, <3>2
  <2>. QED BY <1>1, <2>1 DEF ToSet
<1>6. ToSet(Tail(s)) \subseteq ToSet(s) /\ Head(s) \in ToSet(s)
  <2>1. ASSUME NEW i \in 1 .. Len(s) - 1 PROVE Tail(s)[i] \in ToSet(s)
    <3>1. i + 1 \in DOMAIN s /\ s[i + 1] = Tail(s)[i]
      BY <1>1
    <3>. QED BY <3>1 DEF ToSet
  <2>. QED BY <1>1, <2>1 DEF ToSet
<1>. QED BY <1>1, <1>3, <1>4, <1>5, <1>6

LEMMA Counted ==
    ASSUME NEW len \in Nat, NEW n \in Nat, NEW s,
           s = [i \in 1 .. n |-> len + i - 1]
    PROVE  s \in Seq(Nat) /\ IsInjective(s) /\ ToSet(s) = len .. len + n - 1
<1>1. s \in Seq(Nat) /\ IsInjective(s)
  BY DEF IsInjective
<1>2. ToSet(s) \subseteq len .. len + n - 1
  BY DEF ToSet
<1>3. ASSUME NEW id \in len .. len + n - 1 PROVE id \in ToSet(s)
  <2>1. id - len + 1 \in DOMAIN s /\ s[id - len + 1] = id
    OBVIOUS
  <2>. QED BY <2>1 DEF ToSet
<1>. QED BY <1>1, <1>2, <1>3
-----------------------------------------------------------------------------
(* The places of ids. *)

Cells == 0 .. Period

\* Every id below len is in one place: once in one list, or held by one stream.
Placed(len, lists, held) ==
    /\ \A id : id \in 0 .. len - 1 <=>
                  \/ \E i \in Cells : id \in ToSet(lists[i])
                  \/ \E s \in Streams : held[s] = id /\ id # nill
    /\ \A i \in Cells : IsInjective(lists[i])
    /\ \A i, j \in Cells : i # j => ToSet(lists[i]) \cap ToSet(lists[j]) = {}
    /\ \A s \in Streams, i \in Cells :
          held[s] # nill => held[s] \notin ToSet(lists[i])
    /\ \A s, t \in Streams : held[s] # nill /\ held[s] = held[t] => s = t

\* The id that a stream held goes into a list.
Cooling(lists, moved, held, now, s, i) ==
    /\ held[s] # nill /\ lists \in [Cells -> Seq(Nat)]
    /\ moved[i] = <<held[s]>> \o lists[i]
    /\ \A j \in Cells : j # i => moved[j] = lists[j]
    /\ now[s] = nill
    /\ \A t \in Streams : t # s => now[t] = held[t]

LEMMA PlacedCooling ==
    ASSUME NEW len \in Nat, NEW lists, NEW moved, NEW held, NEW now,
           NEW s \in Streams, NEW i \in Cells,
           Placed(len, lists, held), Cooling(lists, moved, held, now, s, i)
    PROVE  Placed(len, moved, now)
<1>. USE DEF Cooling
<1>. DEFINE id == held[s]
<1>1. id \in 0 .. len - 1 /\ id \in Nat /\ lists[i] \in Seq(Nat)
  BY DEF Placed
<1>2. /\ ToSet(moved[i]) = {id} \cup ToSet(lists[i])
      /\ IsInjective(moved[i])
  <2>1. <<id>> \in Seq(Nat) /\ ToSet(<<id>>) = {id} /\ IsInjective(<<id>>)
    BY <1>1, Singleton
  <2>2. id \notin ToSet(lists[i]) /\ IsInjective(lists[i])
    BY DEF Placed
  <2>. DEFINE one == <<id>>
  <2>3. moved[i] = one \o lists[i]
    OBVIOUS
  <2>. HIDE DEF one, id
  <2>4. one \in Seq(Nat) /\ ToSet(one) = {id} /\ IsInjective(one)
    BY <2>1 DEF one
  <2>5. ToSet(one) \cap ToSet(lists[i]) = {}
    BY <2>2, <2>4
  <2>. QED BY <1>1, <2>2, <2>3, <2>4, <2>5, Concatenation
<1>3. ASSUME NEW x
      PROVE  x \in 0 .. len - 1 <=>
                  \/ \E j \in Cells : x \in ToSet(moved[j])
                  \/ \E t \in Streams : now[t] = x /\ x # nill
  <2>1. (\E j \in Cells : x \in ToSet(moved[j]))
           <=> x = id \/ \E j \in Cells : x \in ToSet(lists[j])
    BY <1>2
  <2>2. x # id => ((\E t \in Streams : now[t] = x /\ x # nill)
           <=> \E t \in Streams : held[t] = x /\ x # nill)
    OBVIOUS
  <2>3. (\E t \in Streams : now[t] = x /\ x # nill)
           => \E t \in Streams : held[t] = x /\ x # nill
    OBVIOUS
  <2>. QED BY <1>1, <2>1, <2>2, <2>3 DEF Placed
<1>4. \A j \in Cells : IsInjective(moved[j])
  BY <1>2 DEF Placed
<1>5. \A j, k \in Cells : j # k => ToSet(moved[j]) \cap ToSet(moved[k]) = {}
  <2>1. ASSUME NEW j \in Cells, j # i
        PROVE  ToSet(moved[i]) \cap ToSet(moved[j]) = {}
    <3>1. ToSet(lists[i]) \cap ToSet(lists[j]) = {} /\ id \notin ToSet(lists[j])
      BY <2>1 DEF Placed
    <3>. QED BY <1>2, <2>1, <3>1
  <2>2. \A j, k \in Cells : j # k /\ j # i /\ k # i
                               => ToSet(moved[j]) \cap ToSet(moved[k]) = {}
    BY DEF Placed
  <2>. QED BY <2>1, <2>2
<1>6. \A t \in Streams, j \in Cells : now[t] # nill => now[t] \notin ToSet(moved[j])
  <2>1. SUFFICES ASSUME NEW t \in Streams, NEW j \in Cells, now[t] # nill
                 PROVE  now[t] \notin ToSet(moved[j])
    OBVIOUS
  <2>2. t # s /\ now[t] = held[t]
    BY <2>1
  <2>3. held[t] # id /\ held[t] \notin ToSet(lists[j])
    BY <2>1, <2>2 DEF Placed
  <2>4. CASE j = i
    BY <1>2, <2>2, <2>3, <2>4
  <2>5. CASE j # i
    <3>1. moved[j] = lists[j]
      BY <2>5
    <3>. QED BY <2>2, <2>3, <3>1
  <2>. QED BY <2>4, <2>5
<1>7. \A t, u \in Streams : now[t] # nill /\ now[t] = now[u] => t = u
  BY DEF Placed
<1>. QED BY <1>3, <1>4, <1>5, <1>6, <1>7 DEF Placed

\* One list is emptied into another.
LEMMA PlacedMoving ==
    ASSUME NEW len \in Nat, NEW lists, NEW moved, NEW held,
           NEW i \in Cells, NEW j \in Cells, i # j,
           lists \in [Cells -> Seq(Nat)], Placed(len, lists, held),
           moved[i] = <<>>, moved[j] = Reverse(lists[i]) \o lists[j],
           \A k \in Cells : k # i /\ k # j => moved[k] = lists[k]
    PROVE  Placed(len, moved, held)
<1>1. /\ ToSet(moved[i]) = {} /\ IsInjective(moved[i])
      /\ ToSet(moved[j]) = ToSet(lists[i]) \cup ToSet(lists[j])
      /\ IsInjective(moved[j])
  <2>1. lists[i] \in Seq(Nat) /\ lists[j] \in Seq(Nat)
    OBVIOUS
  <2>2. /\ IsInjective(lists[i]) /\ IsInjective(lists[j])
        /\ ToSet(lists[i]) \cap ToSet(lists[j]) = {}
    BY DEF Placed
  <2>3. /\ Reverse(lists[i]) \in Seq(Nat) /\ ToSet(Reverse(lists[i])) = ToSet(lists[i])
        /\ IsInjective(Reverse(lists[i]))
    BY <2>1, <2>2, Reversed
  <2>. QED BY <2>1, <2>2, <2>3, Concatenation, EmptyList
<1>2. \A x : (\E k \in Cells : x \in ToSet(moved[k]))
                <=> \E k \in Cells : x \in ToSet(lists[k])
  BY <1>1
<1>3. \A k \in Cells : IsInjective(moved[k])
  BY <1>1 DEF Placed
<1>4. \A k, l \in Cells : k # l => ToSet(moved[k]) \cap ToSet(moved[l]) = {}
  BY <1>1 DEF Placed
<1>5. \A t \in Streams, k \in Cells : held[t] # nill => held[t] \notin ToSet(moved[k])
  BY <1>1 DEF Placed
<1>. QED BY <1>2, <1>3, <1>4, <1>5 DEF Placed

\* The ids from len up to more - 1 are new in a list.
Growing(lists, moved, i, ids) ==
    /\ lists \in [Cells -> Seq(Nat)] /\ ids \in Seq(Nat) /\ IsInjective(ids)
    /\ moved[i] = ids \o lists[i]
    /\ \A j \in Cells : j # i => moved[j] = lists[j]

LEMMA PlacedGrowing ==
    ASSUME NEW len \in Nat, NEW more \in Nat, len <= more,
           NEW lists, NEW moved, NEW held, NEW i \in Cells, NEW ids,
           Placed(len, lists, held), Growing(lists, moved, i, ids),
           ToSet(ids) = len .. more - 1
    PROVE  Placed(more, moved, held)
<1>. USE DEF Growing
<1>2. \A j \in Cells : \A x \in ToSet(lists[j]) : x \in 0 .. len - 1
  BY DEF Placed
<1>3. \A t \in Streams : held[t] # nill => held[t] \in 0 .. len - 1
  BY DEF Placed
<1>4. (len .. more - 1) \cap (0 .. len - 1) = {}
  OBVIOUS
<1>5. /\ ToSet(moved[i]) = (len .. more - 1) \cup ToSet(lists[i])
      /\ IsInjective(moved[i])
  <2>1. lists[i] \in Seq(Nat) /\ IsInjective(lists[i])
    BY DEF Placed
  <2>2. ToSet(ids) \cap ToSet(lists[i]) = {}
    BY <1>2, <1>4
  <2>. QED BY <2>1, <2>2, Concatenation
<1>6. ASSUME NEW x
      PROVE  x \in 0 .. more - 1 <=>
                  \/ \E j \in Cells : x \in ToSet(moved[j])
                  \/ \E t \in Streams : held[t] = x /\ x # nill
  <2>1. (\E j \in Cells : x \in ToSet(moved[j]))
           <=> x \in len .. more - 1 \/ \E j \in Cells : x \in ToSet(lists[j])
    BY <1>5
  <2>2. x \in 0 .. more - 1 <=> x \in 0 .. len - 1 \/ x \in len .. more - 1
    OBVIOUS
  <2>. QED BY <2>1, <2>2 DEF Placed
<1>7. \A j \in Cells : IsInjective(moved[j])
  BY <1>5 DEF Placed
<1>8. \A j, k \in Cells : j # k => ToSet(moved[j]) \cap ToSet(moved[k]) = {}
  <2>1. ASSUME NEW j \in Cells, j # i
        PROVE  ToSet(moved[i]) \cap ToSet(moved[j]) = {}
    <3>1. ToSet(lists[i]) \cap ToSet(lists[j]) = {}
      BY <2>1 DEF Placed
    <3>. QED BY <1>2, <1>4, <1>5, <2>1, <3>1
  <2>2. \A j, k \in Cells : j # k /\ j # i /\ k # i
                               => ToSet(moved[j]) \cap ToSet(moved[k]) = {}
    BY DEF Placed
  <2>. QED BY <2>1, <2>2
<1>9. \A t \in Streams, j \in Cells : held[t] # nill => held[t] \notin ToSet(moved[j])
  <2>1. \A t \in Streams : held[t] # nill => held[t] \notin ToSet(moved[i])
    BY <1>3, <1>4, <1>5 DEF Placed
  <2>. QED BY <2>1 DEF Placed
<1>. QED BY <1>6, <1>7, <1>8, <1>9 DEF Placed

\* A stream takes the first id of a list.
Taking(lists, moved, held, now, s, i) ==
    /\ held[s] = nill /\ lists[i] # <<>> /\ lists \in [Cells -> Seq(Nat)]
    /\ moved[i] = Tail(lists[i])
    /\ \A j \in Cells : j # i => moved[j] = lists[j]
    /\ now[s] = Head(lists[i])
    /\ \A t \in Streams : t # s => now[t] = held[t]

LEMMA PlacedTaking ==
    ASSUME NEW len \in Nat, NEW lists, NEW moved, NEW held, NEW now,
           NEW s \in Streams, NEW i \in Cells,
           Placed(len, lists, held), Taking(lists, moved, held, now, s, i)
    PROVE  Placed(len, moved, now)
<1>. USE DEF Taking
<1>1. /\ IsInjective(moved[i]) /\ now[s] \notin ToSet(moved[i])
      /\ ToSet(lists[i]) = {now[s]} \cup ToSet(moved[i])
      /\ now[s] \in Nat /\ now[s] # nill
  <2>1. lists[i] \in Seq(Nat) /\ IsInjective(lists[i])
    BY DEF Placed
  <2>2. \A n \in Nat : n # nill
    BY DEF nill
  <2>. QED BY <2>1, <2>2, Headless
<1>2. ASSUME NEW x
      PROVE  x \in 0 .. len - 1 <=>
                  \/ \E j \in Cells : x \in ToSet(moved[j])
                  \/ \E t \in Streams : now[t] = x /\ x # nill
  <2>1. (\E j \in Cells : x \in ToSet(lists[j]))
           <=> x = now[s] \/ \E j \in Cells : x \in ToSet(moved[j])
    BY <1>1
  <2>2. (\E t \in Streams : now[t] = x /\ x # nill)
           <=> x = now[s] \/ \E t \in Streams : held[t] = x /\ x # nill
    BY <1>1
  <2>. QED BY <2>1, <2>2 DEF Placed
<1>3. \A j \in Cells : IsInjective(moved[j])
  BY <1>1 DEF Placed
<1>4. \A j, k \in Cells : j # k => ToSet(moved[j]) \cap ToSet(moved[k]) = {}
  <2>1. ASSUME NEW j \in Cells, j # i
        PROVE  ToSet(moved[i]) \cap ToSet(moved[j]) = {}
    <3>1. ToSet(lists[i]) \cap ToSet(lists[j]) = {}
      BY <2>1 DEF Placed
    <3>. QED BY <1>1, <2>1, <3>1
  <2>2. \A j, k \in Cells : j # k /\ j # i /\ k # i
                               => ToSet(moved[j]) \cap ToSet(moved[k]) = {}
    BY DEF Placed
  <2>. QED BY <2>1, <2>2
<1>5. \A t \in Streams, j \in Cells : now[t] # nill => now[t] \notin ToSet(moved[j])
  <2>1. \A j \in Cells : now[s] \notin ToSet(moved[j])
    BY <1>1 DEF Placed
  <2>2. \A j \in Cells : ToSet(moved[j]) \subseteq ToSet(lists[j])
    BY <1>1
  <2>. QED BY <2>1, <2>2 DEF Placed
<1>6. \A t, u \in Streams : now[t] # nill /\ now[t] = now[u] => t = u
  <2>1. \A t \in Streams : t # s => now[t] # now[s]
    BY <1>1 DEF Placed
  <2>. QED BY <2>1 DEF Placed
<1>. QED BY <1>2, <1>3, <1>4, <1>5, <1>6 DEF Placed
-----------------------------------------------------------------------------
(* Hosts. *)

OutStates == {"unused", "active", "reset", "complete", "lost"}
InStates == {"none", "active", "reset", "whole", "cut", "gone"}
OutRecords == [state : OutStates, id : Nat \cup {nill}, prefix : BOOLEAN,
               todo : SUBSET Nat, unacked : SUBSET Nat, obeyed : SUBSET Streams]
InRecords == [state : InStates, id : Nat \cup {nill}, got : SUBSET Nat,
              eof : BOOLEAN, resets : BOOLEAN, taken : SUBSET Streams, created : Nat]
Hosts == [len : Nat \ {0}, writeFree : Seq(Nat), cooldownIndex : 0 .. Period - 1,
          cooldowns : [0 .. Period - 1 -> Seq(Nat)],
          writerSeq : [Ids -> Nat], readerSeq : [Ids -> Nat],
          outs : [Streams -> OutRecords], ins : [Streams -> InRecords]]

\* An out-stream that has an id or something to send has not ended, and an
\* in-stream that has an id listens to its packets.
Sends(w) == w.id # nill \/ w.todo # {} => w.state \in {"active", "reset"}
Listens(r) == r.id # nill => r.state \in {"active", "reset"}
Held(h) == [s \in Streams |-> h.outs[s].id]

\* What every operator on hosts preserves.
Sound(h) ==
    /\ h \in Hosts
    /\ \A s \in Streams : Sends(h.outs[s]) /\ Listens(h.ins[s])
    /\ Placed(h.len, Lists(h), Held(h))

LEMMA ListsOf ==
    ASSUME NEW h \in Hosts
    PROVE  /\ Lists(h) \in [Cells -> Seq(Nat)] /\ Period \in Cells
           /\ Lists(h)[Period] = h.writeFree
           /\ \A i \in 0 .. Period - 1 : i \in Cells /\ i # Period
                                           /\ Lists(h)[i] = h.cooldowns[i]
           /\ \A i \in Cells : i # Period => i \in 0 .. Period - 1
BY DispatchAssumption DEF Lists, Hosts, Cells

LEMMA SoundPartition ==
    ASSUME NEW h, Sound(h)
    PROVE  Partition(h)
<1>. DEFINE lists == Lists(h)
<1>1. /\ \A s \in Streams : s \in Users(h) <=> Held(h)[s] # nill
      /\ \A s \in Streams : Held(h)[s] = h.outs[s].id
      /\ Users(h) \subseteq Streams
  BY DEF Users, Held
<1>2. Placed(h.len, lists, Held(h)) /\ Cells = 0 .. Period
  BY DEF Sound, Cells
<1>. HIDE DEF lists
<1>3. (UNION {ToSet(lists[i]) : i \in 0 .. Period}) \cup {h.outs[s].id : s \in Users(h)}
         = 0 .. h.len - 1
  <2>1. \A x : x \in {h.outs[s].id : s \in Users(h)}
                   <=> \E s \in Streams : Held(h)[s] = x /\ x # nill
    BY <1>1
  <2>2. \A x : x \in UNION {ToSet(lists[i]) : i \in 0 .. Period}
                   <=> \E i \in Cells : x \in ToSet(lists[i])
    BY <1>2
  <2>. QED BY <1>2, <2>1, <2>2 DEF Placed
<1>4. \A i \in 0 .. Period : IsInjective(lists[i])
  BY <1>2 DEF Placed
<1>5. \A i, j \in 0 .. Period : i # j => ToSet(lists[i]) \cap ToSet(lists[j]) = {}
  BY <1>2 DEF Placed
<1>6. \A s \in Users(h), i \in 0 .. Period : h.outs[s].id \notin ToSet(lists[i])
  BY <1>1, <1>2 DEF Placed
<1>7. \A s, t \in Users(h) : h.outs[s].id = h.outs[t].id => s = t
  BY <1>1, <1>2 DEF Placed
<1>. QED BY <1>3, <1>4, <1>5, <1>6, <1>7 DEF Partition, lists

LEMMA SoundSame ==
    ASSUME NEW h, Sound(h), NEW g \in Hosts,
           g.len = h.len, g.writeFree = h.writeFree, g.cooldowns = h.cooldowns,
           \A s \in Streams : g.outs[s].id = h.outs[s].id /\ Sends(g.outs[s]),
           \A s \in Streams : Listens(g.ins[s])
    PROVE  Sound(g)
<1>1. Lists(g) = Lists(h) /\ Held(g) = Held(h)
  BY DEF Lists, Held
<1>. QED BY <1>1 DEF Sound

LEMMA OutChanged ==
    ASSUME NEW h, Sound(h), NEW s \in Streams, NEW w \in OutRecords,
           w.id = h.outs[s].id, Sends(w)
    PROVE  Sound([h EXCEPT !.outs[s] = w])
<1>. DEFINE g == [h EXCEPT !.outs[s] = w]
<1>1. /\ g \in Hosts /\ g.len = h.len /\ g.writeFree = h.writeFree
      /\ g.cooldowns = h.cooldowns /\ g.ins = h.ins
      /\ \A t \in Streams : g.outs[t] = IF t = s THEN w ELSE h.outs[t]
  BY DEF Sound, Hosts
<1>. HIDE DEF g
<1>2. Sound(g)
  BY <1>1, SoundSame DEF Sound
<1>. QED BY <1>2 DEF g

LEMMA InChanged ==
    ASSUME NEW h, Sound(h), NEW s \in Streams, NEW r \in InRecords, Listens(r)
    PROVE  Sound([h EXCEPT !.ins[s] = r])
<1>. DEFINE g == [h EXCEPT !.ins[s] = r]
<1>1. /\ g \in Hosts /\ g.len = h.len /\ g.writeFree = h.writeFree
      /\ g.cooldowns = h.cooldowns /\ g.outs = h.outs
      /\ \A t \in Streams : g.ins[t] = IF t = s THEN r ELSE h.ins[t]
  BY DEF Sound, Hosts
<1>. HIDE DEF g
<1>2. Sound(g)
  BY <1>1, SoundSame DEF Sound
<1>. QED BY <1>2 DEF g

LEMMA RecordsOf ==
    ASSUME NEW h, Sound(h), NEW s \in Streams
    PROVE  /\ h.outs[s] \in OutRecords /\ h.ins[s] \in InRecords
           /\ Sends(h.outs[s]) /\ Listens(h.ins[s])
BY DEF Sound, Hosts

LEMMA OutUpdated ==
    ASSUME NEW w \in OutRecords, Sends(w)
    PROVE  /\ \A state \in {"active", "reset"}, todo \in SUBSET Nat :
                 LET v == [w EXCEPT !.state = state, !.todo = todo]
                 IN  v \in OutRecords /\ v.id = w.id /\ Sends(v)
           /\ \A todo \in SUBSET Nat :
                 LET v == [w EXCEPT !.todo = todo]
                 IN  /\ v \in OutRecords /\ v.id = w.id
                     /\ w.state \in {"active", "reset"} => Sends(v)
           /\ LET v == [w EXCEPT !.prefix = FALSE]
              IN  v \in OutRecords /\ v.id = w.id /\ Sends(v)
<1>1. \A state \in {"active", "reset"}, todo \in SUBSET Nat :
          LET v == [w EXCEPT !.state = state, !.todo = todo]
          IN  v \in OutRecords /\ v.id = w.id /\ v.state = state
  BY DEF OutRecords, OutStates
<1>2. \A todo \in SUBSET Nat :
          LET v == [w EXCEPT !.todo = todo]
          IN  v \in OutRecords /\ v.id = w.id /\ v.state = w.state
  BY DEF OutRecords
<1>3. LET v == [w EXCEPT !.prefix = FALSE]
      IN  v \in OutRecords /\ v.id = w.id /\ v.todo = w.todo /\ v.state = w.state
  BY DEF OutRecords
<1>. QED BY <1>1, <1>2, <1>3 DEF Sends

LEMMA InUpdated ==
    ASSUME NEW r \in InRecords, Listens(r), NEW b \in BOOLEAN
    PROVE  /\ [r EXCEPT !.resets = b] \in InRecords
           /\ Listens([r EXCEPT !.resets = b])
           /\ [r EXCEPT !.state = "reset", !.resets = b] \in InRecords
           /\ Listens([r EXCEPT !.state = "reset", !.resets = b])
BY DEF InRecords, InStates, Listens

LEMMA Ticked ==
    ASSUME NEW seqs \in [Ids -> Nat], NEW id
    PROVE  tick(seqs, id) \in [Ids -> Nat]
<1>1. \A n \in Nat : (n + 1) % SeqNums \in Nat
  BY DispatchAssumption
<1>. QED BY <1>1 DEF tick

LEMMA SeqChanged ==
    ASSUME NEW h, Sound(h), NEW id
    PROVE  /\ Sound([h EXCEPT !.writerSeq = tick(@, id)])
           /\ Sound([h EXCEPT !.readerSeq = tick(@, id)])
<1>. DEFINE f == [h EXCEPT !.writerSeq = tick(@, id)]
            g == [h EXCEPT !.readerSeq = tick(@, id)]
<1>1. h.writerSeq \in [Ids -> Nat] /\ h.readerSeq \in [Ids -> Nat]
  BY DEF Sound, Hosts
<1>2. tick(h.writerSeq, id) \in [Ids -> Nat] /\ tick(h.readerSeq, id) \in [Ids -> Nat]
  BY <1>1, Ticked
<1>3. /\ f \in Hosts /\ f.len = h.len /\ f.writeFree = h.writeFree
      /\ f.cooldowns = h.cooldowns /\ f.outs = h.outs /\ f.ins = h.ins
      /\ g \in Hosts /\ g.len = h.len /\ g.writeFree = h.writeFree
      /\ g.cooldowns = h.cooldowns /\ g.outs = h.outs /\ g.ins = h.ins
  BY <1>2 DEF Sound, Hosts
<1>. HIDE DEF f, g
<1>4. Sound(f) /\ Sound(g)
  BY <1>3, SoundSame DEF Sound
<1>. QED BY <1>4 DEF f, g
-----------------------------------------------------------------------------
(* The operators on hosts: ids. *)

LEMMA TickSound ==
    ASSUME NEW h, Sound(h)
    PROVE  Sound(tickCooldown(h))
<1>. DEFINE index == IF h.cooldownIndex = Period - 1 THEN 0 ELSE h.cooldownIndex + 1
            g == [h EXCEPT !.cooldownIndex = index,
                           !.writeFree = Reverse(h.cooldowns[index]) \o @,
                           !.cooldowns[index] = <<>>]
<1>1. h \in Hosts /\ h.cooldowns \in [0 .. Period - 1 -> Seq(Nat)]
      /\ h.writeFree \in Seq(Nat) /\ h.len \in Nat
  BY DEF Sound, Hosts
<1>2. index \in 0 .. Period - 1
  BY DispatchAssumption DEF Sound, Hosts
<1>. HIDE DEF index
<1>3. h.cooldowns[index] \in Seq(Nat)
  BY <1>1, <1>2
<1>4. Reverse(h.cooldowns[index]) \in Seq(Nat)
  BY <1>3, Reversed
<1>5. Reverse(h.cooldowns[index]) \o h.writeFree \in Seq(Nat)
  BY <1>1, <1>4
<1>. DEFINE free == Reverse(h.cooldowns[index]) \o h.writeFree
            ring == [h.cooldowns EXCEPT ![index] = <<>>]
<1>6. ring \in [0 .. Period - 1 -> Seq(Nat)] /\ ring[index] = <<>>
      /\ \A i \in 0 .. Period - 1 : i # index => ring[i] = h.cooldowns[i]
  <2>. HIDE DEF g, free
  <2>. QED BY <1>1, <1>2, EmptyList
<1>7. g = [h EXCEPT !.cooldownIndex = index, !.writeFree = free, !.cooldowns = ring]
  BY <1>1
<1>. HIDE DEF free, ring
<1>8. /\ g \in Hosts /\ g.len = h.len /\ g.writeFree = free /\ g.cooldowns = ring
      /\ g.outs = h.outs /\ g.ins = h.ins
  BY <1>1, <1>2, <1>5, <1>6, <1>7 DEF Hosts, free
<1>. HIDE DEF g
<1>9. /\ Lists(g)[index] = <<>> /\ index \in Cells /\ index # Period /\ Period \in Cells
      /\ Lists(g)[Period] = free /\ Lists(h)[Period] = h.writeFree
      /\ Lists(h)[index] = h.cooldowns[index]
      /\ \A i \in Cells : i # index /\ i # Period => Lists(g)[i] = Lists(h)[i]
      /\ Lists(h) \in [Cells -> Seq(Nat)]
  <2>1. g \in Hosts /\ g.writeFree = free /\ g.cooldowns = ring
    BY <1>8
  <2>. QED BY <1>1, <1>2, <1>6, <2>1, ListsOf
<1>10. Lists(g)[Period] = Reverse(Lists(h)[index]) \o Lists(h)[Period]
  BY <1>9 DEF free
<1>11. Held(g) = Held(h)
  BY <1>8 DEF Held
<1>12. Placed(h.len, Lists(g), Held(h))
  <2>1. Placed(h.len, Lists(h), Held(h))
    BY DEF Sound
  <2>. QED BY <1>1, <1>9, <1>10, <2>1, PlacedMoving
<1>13. Sound(g)
  BY <1>8, <1>11, <1>12 DEF Sound
<1>. QED BY <1>13 DEF g, tickCooldown, index

LEMMA ExpandSound ==
    ASSUME NEW h, Sound(h), NEW more \in Nat, h.len <= more
    PROVE  /\ Sound(expand(h, more))
           /\ expand(h, more).outs = h.outs /\ expand(h, more).ins = h.ins
           /\ h.len < more => expand(h, more).writeFree # <<>>
<1>. DEFINE ids == [k \in 1 .. more - h.len |-> h.len + k - 1]
            free == ids \o h.writeFree
            g == [h EXCEPT !.len = more, !.writeFree = free]
<1>1. h \in Hosts /\ h.len \in Nat \ {0} /\ h.writeFree \in Seq(Nat)
  BY DEF Sound, Hosts
<1>2. more - h.len \in Nat
  BY <1>1
<1>3. /\ ids \in Seq(Nat) /\ Len(ids) = more - h.len
      /\ IsInjective(ids) /\ ToSet(ids) = h.len .. more - 1
  <2>1. h.len + (more - h.len) = more
    BY <1>1
  <2>2. ids \in Seq(Nat) /\ Len(ids) = more - h.len
    BY <1>1, <1>2
  <2>. DEFINE n == more - h.len
  <2>3. ids = [k \in 1 .. n |-> h.len + k - 1] /\ n \in Nat /\ h.len + n = more
    BY <1>2, <2>1
  <2>. HIDE DEF n
  <2>4. IsInjective(ids) /\ ToSet(ids) = h.len .. h.len + n - 1
    <3>1. h.len \in Nat
      BY <1>1
    <3>. HIDE DEF ids
    <3>. QED BY <2>3, <3>1, Counted
  <2>. HIDE DEF ids, free, g
  <2>. QED BY <1>1, <2>2, <2>3, <2>4
<1>. HIDE DEF ids
<1>4. free \in Seq(Nat) /\ Len(free) = Len(ids) + Len(h.writeFree)
  BY <1>1, <1>3, Concatenation
<1>. HIDE DEF free
<1>5. more \in Nat \ {0}
  BY <1>1
<1>6. /\ g \in Hosts /\ g.len = more /\ g.writeFree = free /\ g.cooldowns = h.cooldowns
      /\ g.outs = h.outs /\ g.ins = h.ins
  BY <1>1, <1>4, <1>5 DEF Hosts
<1>7. expand(h, more) = g
  BY DEF expand, free, ids
<1>. HIDE DEF g
<1>8. /\ Lists(g)[Period] = free /\ Lists(h)[Period] = h.writeFree /\ Period \in Cells
      /\ \A i \in Cells : i # Period => Lists(g)[i] = Lists(h)[i]
      /\ Lists(h) \in [Cells -> Seq(Nat)]
  <2>1. g \in Hosts /\ g.writeFree = free /\ g.cooldowns = h.cooldowns
    BY <1>6
  <2>. QED BY <1>1, <2>1, ListsOf
<1>9. Lists(g)[Period] = ids \o Lists(h)[Period]
  BY <1>8 DEF free
<1>10. Held(g) = Held(h)
  BY <1>6 DEF Held
<1>11. Placed(more, Lists(g), Held(h))
  <2>. DEFINE len == h.len
              lists == Lists(h)
              moved == Lists(g)
  <2>1. Placed(len, lists, Held(h)) /\ len \in Nat /\ len <= more
    BY <1>1 DEF Sound
  <2>2. moved[Period] = ids \o lists[Period] /\ ToSet(ids) = len .. more - 1
    BY <1>3, <1>9
  <2>3. /\ Period \in Cells /\ lists \in [Cells -> Seq(Nat)]
        /\ \A i \in Cells : i # Period => moved[i] = lists[i]
    BY <1>8
  <2>. HIDE DEF len, lists, moved
  <2>4. Growing(lists, moved, Period, ids)
    BY <1>3, <2>2, <2>3 DEF Growing
  <2>5. Placed(more, moved, Held(h))
    BY <2>1, <2>2, <2>3, <2>4, PlacedGrowing
  <2>. QED BY <2>5 DEF moved
<1>12. Sound(g)
  BY <1>6, <1>10, <1>11 DEF Sound
<1>13. h.len < more => free # <<>>
  BY <1>1, <1>2, <1>3, <1>4
<1>. QED BY <1>6, <1>7, <1>12, <1>13

LEMMA HoldingSound ==
    ASSUME NEW h, Sound(h), NEW id \in Nat
    PROVE  Sound(Holding(h, id)) /\ Holding(h, id).ins = h.ins
<1>1. h.len \in Nat
  BY DEF Sound, Hosts
<1>2. CASE id < h.len
  BY <1>2 DEF Holding
<1>3. CASE ~(id < h.len)
  <2>. DEFINE n == CHOOSE n \in PowersOf2(id) : id < n /\ n <= 2 * id + 1
  <2>1. n \in PowersOf2(id) /\ id < n
    BY PowerAbove
  <2>2. n \in Nat
    BY <2>1, PowerAbove
  <2>3. Holding(h, id) = expand(h, n)
    BY <1>3 DEF Holding
  <2>. HIDE DEF n
  <2>4. h.len <= n
    BY <1>1, <1>3, <2>1, <2>2
  <2>. QED BY <2>2, <2>3, <2>4, ExpandSound
<1>. QED BY <1>2, <1>3

LEMMA AllocSound ==
    ASSUME NEW h, Sound(h), CanAlloc(h), NEW s \in Streams,
           h.outs[s].id = nill, h.outs[s].todo # {}
    PROVE  /\ Sound(allocId(h, s)) /\ allocId(h, s).outs[s].id \in Nat
           /\ allocId(h, s).outs[s].todo = h.outs[s].todo
<1>. DEFINE room == IF h.writeFree = <<>> THEN expand(h, 2 * h.len) ELSE h
            free == Tail(room.writeFree)
            id == Head(room.writeFree)
            g == [room EXCEPT !.writeFree = free, !.outs[s].id = id]
<1>1. h.len \in Nat \ {0}
  BY DEF Sound, Hosts
<1>2. Sound(room) /\ room.writeFree # <<>> /\ room.outs = h.outs
  <2>1. 2 * h.len \in Nat /\ h.len < 2 * h.len
    BY <1>1
  <2>. QED BY <1>1, <2>1, ExpandSound
<1>3. allocId(h, s) = g
  BY DEF allocId
<1>. HIDE DEF room
<1>4. room \in Hosts /\ room.writeFree \in Seq(Nat) /\ room.outs[s] \in OutRecords
      /\ room.len \in Nat
  BY <1>2 DEF Sound, Hosts
<1>5. Lists(room)[Period] = room.writeFree /\ Period \in Cells
      /\ Lists(room) \in [Cells -> Seq(Nat)]
  BY <1>4, ListsOf
<1>6. IsInjective(room.writeFree)
  BY <1>2, <1>5 DEF Sound, Placed
<1>7. free \in Seq(Nat) /\ id \in Nat
  BY <1>2, <1>4, <1>6, Headless
<1>. HIDE DEF free, id
<1>8. /\ g \in Hosts /\ g.len = room.len /\ g.writeFree = free
      /\ g.cooldowns = room.cooldowns /\ g.ins = room.ins
      /\ g.outs[s].id = id /\ g.outs[s].todo = room.outs[s].todo
      /\ g.outs[s].state = room.outs[s].state
      /\ \A t \in Streams : t # s => g.outs[t] = room.outs[t]
  BY <1>4, <1>7 DEF Hosts, OutRecords
<1>. HIDE DEF g
<1>9. /\ Lists(g)[Period] = free
      /\ \A i \in Cells : i # Period => Lists(g)[i] = Lists(room)[i]
  <2>1. /\ Lists(g)[Period] = g.writeFree
        /\ \A i \in 0 .. Period - 1 : Lists(g)[i] = g.cooldowns[i]
        /\ \A i \in Cells : i # Period => i \in 0 .. Period - 1
    BY <1>8, ListsOf
  <2>2. \A i \in 0 .. Period - 1 : Lists(room)[i] = room.cooldowns[i]
    BY <1>4, ListsOf
  <2>. QED BY <1>8, <2>1, <2>2
<1>10. /\ Held(g)[s] = Head(Lists(room)[Period]) /\ Held(room)[s] = nill
       /\ \A t \in Streams : t # s => Held(g)[t] = Held(room)[t]
       /\ Lists(g)[Period] = Tail(Lists(room)[Period])
  BY <1>2, <1>5, <1>8, <1>9 DEF Held, id, free
<1>11. Placed(room.len, Lists(g), Held(g))
  <2>1. Placed(room.len, Lists(room), Held(room))
    BY <1>2 DEF Sound
  <2>2. Lists(room)[Period] # <<>>
    BY <1>2, <1>5
  <2>. DEFINE len == room.len
              lists == Lists(room)
              moved == Lists(g)
              held == Held(room)
              now == Held(g)
  <2>3. /\ len \in Nat /\ lists \in [Cells -> Seq(Nat)] /\ Period \in Cells
        /\ \A i \in Cells : i # Period => moved[i] = lists[i]
        /\ held[s] = nill /\ now[s] = Head(lists[Period])
        /\ moved[Period] = Tail(lists[Period])
        /\ \A t \in Streams : t # s => now[t] = held[t]
    BY <1>4, <1>5, <1>9, <1>10
  <2>. HIDE DEF len, lists, moved, held, now
  <2>4. Taking(lists, moved, held, now, s, Period)
    BY <2>2, <2>3 DEF Taking, lists
  <2>5. Placed(len, lists, held)
    BY <2>1 DEF len, lists, held
  <2>6. Placed(len, moved, now)
    BY <2>3, <2>4, <2>5, PlacedTaking
  <2>. QED BY <2>6 DEF len, moved, now
<1>12. Sound(g)
  <2>1. \A t \in Streams : Sends(g.outs[t])
    <3>1. Sends(room.outs[s]) /\ room.outs[s].todo # {}
      BY <1>2, RecordsOf
    <3>2. Sends(g.outs[s])
      BY <1>8, <3>1 DEF Sends
    <3>. QED BY <1>2, <1>8, <3>2 DEF Sound
  <2>. QED BY <1>2, <1>8, <1>11, <2>1 DEF Sound
<1>. QED BY <1>2, <1>3, <1>7, <1>8, <1>12
-----------------------------------------------------------------------------
(* The operators on hosts: events and answers. *)

\* An out-stream that holds no id may end.
LEMMA CompleteSound ==
    ASSUME NEW h, Sound(h), NEW s \in Streams, NEW state \in OutStates
    PROVE  Sound(outComplete(h, s, state))
<1>. DEFINE id == h.outs[s].id
            w == [NewOut EXCEPT !.state = state, !.prefix = FALSE,
                                !.obeyed = h.outs[s].obeyed]
            ended == [h EXCEPT !.outs[s] = w]
            k == h.cooldownIndex
            ring == [h.cooldowns EXCEPT ![k] = <<id>> \o @]
            g == [h EXCEPT !.outs[s] = w, !.cooldowns = ring]
<1>1. h \in Hosts /\ k \in 0 .. Period - 1 /\ h.cooldowns \in [0 .. Period - 1 -> Seq(Nat)]
      /\ h.outs[s] \in OutRecords /\ h.len \in Nat
  BY DEF Sound, Hosts
<1>2. w \in OutRecords /\ w.id = nill /\ Sends(w)
  BY <1>1 DEF OutRecords, NewOut, Sends
<1>. HIDE DEF w
<1>3. CASE id = nill
  <2>1. outComplete(h, s, state) = ended
    BY <1>3 DEF outComplete, w
  <2>2. Sound(ended)
    BY <1>2, <1>3, OutChanged
  <2>. QED BY <2>1, <2>2
<1>4. CASE id # nill
  <2>1. id \in Nat
    BY <1>1, <1>4 DEF OutRecords
  <2>2. <<id>> \o h.cooldowns[k] \in Seq(Nat)
    <3>1. <<id>> \in Seq(Nat) /\ h.cooldowns[k] \in Seq(Nat)
      BY <1>1, <2>1, Singleton
    <3>. QED BY <3>1, Concatenation
  <2>3. /\ ring \in [0 .. Period - 1 -> Seq(Nat)] /\ ring[k] = <<id>> \o h.cooldowns[k]
        /\ \A i \in 0 .. Period - 1 : i # k => ring[i] = h.cooldowns[i]
    <3>. DEFINE list == <<id>> \o h.cooldowns[k]
    <3>1. ring = [h.cooldowns EXCEPT ![k] = list] /\ list \in Seq(Nat)
      BY <2>2
    <3>. HIDE DEF list, ring, k, id
    <3>2. /\ ring \in [0 .. Period - 1 -> Seq(Nat)] /\ ring[k] = list
          /\ \A i \in 0 .. Period - 1 : i # k => ring[i] = h.cooldowns[i]
      BY <1>1, <3>1
    <3>. QED BY <3>2 DEF list
  <2>. HIDE DEF ring
  <2>4. /\ g \in Hosts /\ g.len = h.len /\ g.writeFree = h.writeFree /\ g.cooldowns = ring
        /\ g.ins = h.ins /\ g.outs[s] = w
        /\ \A t \in Streams : t # s => g.outs[t] = h.outs[t]
    BY <1>1, <1>2, <2>3 DEF Hosts
  <2>5. outComplete(h, s, state) = [g EXCEPT !.writerSeq = tick(@, id)]
    <3>1. outComplete(h, s, state) = pushCooldown([ended EXCEPT !.writerSeq = tick(@, id)], id)
      BY <1>4 DEF outComplete, w
    <3>2. pushCooldown([ended EXCEPT !.writerSeq = tick(@, id)], id)
             = [h EXCEPT !.outs[s] = w, !.cooldowns = ring, !.writerSeq = tick(@, id)]
      BY <1>1 DEF pushCooldown, Hosts, ring
    <3>3. [g EXCEPT !.writerSeq = tick(@, id)]
             = [h EXCEPT !.outs[s] = w, !.cooldowns = ring, !.writerSeq = tick(@, id)]
      BY <1>1 DEF Hosts
    <3>. QED BY <3>1, <3>2, <3>3
  <2>. HIDE DEF g
  <2>. DEFINE lists == Lists(h)
              moved == Lists(g)
              held == Held(h)
              now == Held(g)
  <2>6. /\ lists \in [Cells -> Seq(Nat)] /\ k \in Cells
        /\ lists[k] = h.cooldowns[k] /\ moved[k] = ring[k]
        /\ \A i \in Cells : i # k => moved[i] = lists[i]
    <3>1. /\ lists \in [Cells -> Seq(Nat)] /\ lists[Period] = h.writeFree
          /\ \A i \in 0 .. Period - 1 : i \in Cells /\ lists[i] = h.cooldowns[i]
          /\ \A i \in Cells : i # Period => i \in 0 .. Period - 1
      BY <1>1, ListsOf
    <3>2. /\ moved[Period] = g.writeFree
          /\ \A i \in 0 .. Period - 1 : moved[i] = g.cooldowns[i]
      BY <2>4, ListsOf
    <3>. QED BY <1>1, <2>3, <2>4, <3>1, <3>2
  <2>7. held[s] = id /\ now[s] = nill /\ \A t \in Streams : t # s => now[t] = held[t]
    BY <1>2, <2>4 DEF Held
  <2>8. Placed(h.len, lists, held)
    BY DEF Sound
  <2>9. Placed(h.len, moved, now)
    <3>1. moved[k] = <<held[s]>> \o lists[k]
      BY <2>3, <2>6, <2>7
    <3>. HIDE DEF lists, moved, held, now, id, k
    <3>2. Cooling(lists, moved, held, now, s, k)
      BY <1>4, <2>6, <2>7, <3>1 DEF Cooling
    <3>. QED BY <1>1, <2>6, <2>8, <3>2, PlacedCooling
  <2>10. Sound(g)
    BY <1>2, <2>4, <2>9 DEF Sound
  <2>. HIDE DEF id
  <2>11. Sound([g EXCEPT !.writerSeq = tick(@, id)])
    BY <2>10, SeqChanged
  <2>. QED BY <2>5, <2>11
<1>. QED BY <1>3, <1>4

LEMMA InEndedSound ==
    ASSUME NEW h, Sound(h), NEW s \in Streams, NEW state \in InStates
    PROVE  Sound(inEnded(h, s, state))
<1>. DEFINE r == Ended(h.ins[s], state)
            ended == [h EXCEPT !.ins[s] = r]
            id == h.ins[s].id
<1>1. h.ins[s] \in InRecords
  BY DEF Sound, Hosts
<1>2. r \in InRecords /\ r.id = nill
  BY <1>1 DEF InRecords, Ended, NewIn
<1>. HIDE DEF r
<1>3. Sound(ended)
  BY <1>2, InChanged DEF Listens
<1>4. inEnded(h, s, state) = IF id = nill THEN ended
                             ELSE [ended EXCEPT !.readerSeq = tick(@, id)]
  BY DEF inEnded, r
<1>. HIDE DEF ended, id
<1>5. Sound([ended EXCEPT !.readerSeq = tick(@, id)])
  BY <1>3, SeqChanged
<1>. QED BY <1>3, <1>4, <1>5

LEMMA OutResetSound ==
    ASSUME NEW h, Sound(h), NEW s \in Streams
    PROVE  Sound(outReset(h, s))
<1>. DEFINE w == [h.outs[s] EXCEPT !.state = "reset", !.todo = {0}]
<1>1. w \in OutRecords /\ w.id = h.outs[s].id /\ Sends(w)
  <2>1. /\ h.outs[s] \in OutRecords /\ Sends(h.outs[s])
        /\ {0} \in SUBSET Nat /\ "reset" \in {"active", "reset"}
    BY RecordsOf
  <2>. QED BY <2>1, OutUpdated
<1>2. outReset(h, s) = [h EXCEPT !.outs[s] = w]
  BY DEF outReset
<1>. HIDE DEF w
<1>. QED BY <1>1, <1>2, OutChanged

LEMMA InResetSound ==
    ASSUME NEW h, Sound(h), NEW s \in Streams
    PROVE  Sound(inReset(h, s))
<1>. DEFINE r == [h.ins[s] EXCEPT !.state = "reset", !.resets = TRUE]
<1>1. r \in InRecords /\ Listens(r)
  <2>1. h.ins[s] \in InRecords /\ Listens(h.ins[s]) /\ TRUE \in BOOLEAN
    BY RecordsOf
  <2>. QED BY <2>1, InUpdated
<1>2. inReset(h, s) = IF h.ins[s].eof THEN inEnded(h, s, "cut") ELSE [h EXCEPT !.ins[s] = r]
  BY DEF inReset
<1>. HIDE DEF r
<1>3. Sound([h EXCEPT !.ins[s] = r])
  BY <1>1, InChanged
<1>4. Sound(inEnded(h, s, "cut"))
  BY InEndedSound DEF InStates
<1>. QED BY <1>2, <1>3, <1>4

\* A segment of a packet.
SegmentOK(m) ==
    /\ m.type \in {"data", "writerResets", "readerResets", "barrier"}
    /\ m.id \in Nat \cup {nill}
    /\ m.type \in {"data", "writerResets"} => m.id \in Nat
    /\ m.create \in BOOLEAN /\ m.part \in Nat /\ m.stream \in Streams

LEMMA ClearSound ==
    ASSUME NEW h, Sound(h), NEW s \in Streams
    PROVE  Sound(clearPrefix(h, s))
<1>. DEFINE w == [h.outs[s] EXCEPT !.prefix = FALSE]
<1>1. w \in OutRecords /\ w.id = h.outs[s].id /\ Sends(w)
  <2>1. h.outs[s] \in OutRecords /\ Sends(h.outs[s])
    BY RecordsOf
  <2>. QED BY <2>1, OutUpdated
<1>2. clearPrefix(h, s) = [h EXCEPT !.outs[s] = w]
  BY DEF clearPrefix
<1>. HIDE DEF w
<1>. QED BY <1>1, <1>2, OutChanged

LEMMA AckDataSound ==
    ASSUME NEW h, Sound(h), NEW s \in Streams, NEW part \in Nat, NEW x \in BOOLEAN
    PROVE  Sound(ackData(h, s, part, x))
<1>. DEFINE left == h.outs[s].unacked \ {part}
            v == [h.outs[s] EXCEPT !.unacked = left]
            w == [h.outs[s] EXCEPT !.todo = @ \cup {part}]
<1>1. /\ v \in OutRecords /\ v.id = h.outs[s].id /\ Sends(v)
      /\ w \in OutRecords /\ w.id = h.outs[s].id
      /\ h.outs[s].state = "active" => Sends(w)
  <2>1. /\ v \in OutRecords /\ v.id = h.outs[s].id /\ v.todo = h.outs[s].todo
        /\ v.state = h.outs[s].state
        /\ w \in OutRecords /\ w.id = h.outs[s].id /\ w.state = h.outs[s].state
    BY RecordsOf DEF OutRecords
  <2>2. Sends(h.outs[s])
    BY RecordsOf
  <2>. QED BY <2>1, <2>2 DEF Sends
<1>2. ackData(h, s, part, x) =
         IF h.outs[s].state # "active" THEN h
         ELSE IF ~x THEN [h EXCEPT !.outs[s] = w]
         ELSE IF left = {} THEN outComplete([h EXCEPT !.outs[s] = v], s, "complete")
         ELSE [h EXCEPT !.outs[s] = v]
  BY DEF ackData
<1>. HIDE DEF left, v, w
<1>3. /\ Sound([h EXCEPT !.outs[s] = v])
      /\ h.outs[s].state = "active" => Sound([h EXCEPT !.outs[s] = w])
  BY <1>1, OutChanged
<1>4. Sound(outComplete([h EXCEPT !.outs[s] = v], s, "complete"))
  BY <1>3, CompleteSound DEF OutStates
<1>. QED BY <1>2, <1>3, <1>4

LEMMA AckWriterResetsSound ==
    ASSUME NEW h, Sound(h), NEW s \in Streams, NEW x \in BOOLEAN
    PROVE  Sound(ackWriterResets(h, s, x))
<1>. DEFINE w == [h.outs[s] EXCEPT !.todo = {0}]
<1>1. /\ w \in OutRecords /\ w.id = h.outs[s].id
      /\ h.outs[s].state = "reset" => Sends(w)
  <2>1. w \in OutRecords /\ w.id = h.outs[s].id /\ w.state = h.outs[s].state
    BY RecordsOf DEF OutRecords
  <2>. QED BY <2>1 DEF Sends
<1>2. ackWriterResets(h, s, x) =
         IF x THEN outComplete(h, s, "lost")
         ELSE IF h.outs[s].state = "reset" THEN [h EXCEPT !.outs[s] = w] ELSE h
  BY DEF ackWriterResets
<1>. HIDE DEF w
<1>3. h.outs[s].state = "reset" => Sound([h EXCEPT !.outs[s] = w])
  BY <1>1, OutChanged
<1>4. Sound(outComplete(h, s, "lost"))
  BY CompleteSound DEF OutStates
<1>. QED BY <1>2, <1>3, <1>4

LEMMA AckReaderResetsSound ==
    ASSUME NEW h, Sound(h), NEW s \in Streams, NEW x \in BOOLEAN
    PROVE  Sound(ackReaderResets(h, s, x))
<1>. DEFINE r == [h.ins[s] EXCEPT !.resets = TRUE]
<1>1. r \in InRecords /\ Listens(r)
  <2>1. h.ins[s] \in InRecords /\ Listens(h.ins[s]) /\ TRUE \in BOOLEAN
    BY RecordsOf
  <2>. QED BY <2>1, InUpdated
<1>2. ackReaderResets(h, s, x) =
         IF h.ins[s].state # "reset" THEN h
         ELSE IF x THEN inEnded(h, s, "cut") ELSE [h EXCEPT !.ins[s] = r]
  BY DEF ackReaderResets
<1>. HIDE DEF r
<1>3. Sound([h EXCEPT !.ins[s] = r])
  BY <1>1, InChanged
<1>4. Sound(inEnded(h, s, "cut"))
  BY InEndedSound DEF InStates
<1>. QED BY <1>2, <1>3, <1>4

LEMMA AnswerSound ==
    ASSUME NEW h, Sound(h), NEW m, SegmentOK(m), NEW x \in BOOLEAN
    PROVE  Sound(answer(h, m, x))
<1>. DEFINE created == IF x /\ m.type \in {"data", "writerResets"}
                       THEN clearPrefix(h, m.stream) ELSE h
<1>1. m.stream \in Streams /\ m.part \in Nat
  BY DEF SegmentOK
<1>2. Sound(created)
  BY <1>1, ClearSound
<1>3. answer(h, m, x) =
         CASE m.type = "data" -> ackData(created, m.stream, m.part, x)
           [] m.type = "writerResets" -> ackWriterResets(created, m.stream, x)
           [] m.type = "readerResets" -> ackReaderResets(created, m.stream, x)
           [] m.type = "barrier" -> h
  BY DEF answer
<1>. HIDE DEF created
<1>4. CASE m.type = "data"
  BY <1>1, <1>2, <1>3, <1>4, AckDataSound
<1>5. CASE m.type = "writerResets"
  BY <1>1, <1>2, <1>3, <1>5, AckWriterResetsSound
<1>6. CASE m.type = "readerResets"
  BY <1>1, <1>2, <1>3, <1>6, AckReaderResetsSound
<1>7. CASE m.type = "barrier"
  BY <1>3, <1>7
<1>. QED BY <1>4, <1>5, <1>6, <1>7 DEF SegmentOK

AnswersExist(e, h, ts, yes, last) ==
    \E f : f = [t \in 0 .. last |->
                  IF t = 0 THEN h
                  ELSE IF t \in ts THEN answer(f[t - 1], Segment(e, t), t \in yes)
                  ELSE f[t - 1]]

LEMMA AnswersDefined ==
    ASSUME NEW e, NEW h, NEW ts, NEW yes, NEW last \in Nat
    PROVE  AnswersExist(e, h, ts, yes, last)
<1>. DEFINE Step(f, t) == IF t = 0 THEN h
                          ELSE IF t \in ts THEN answer(f[t - 1], Segment(e, t), t \in yes)
                          ELSE f[t - 1]
            Exists(n) == \E f : f = [t \in 0 .. n |-> Step(f, t)]
            S == {n \in Nat : Exists(n)}
<1>1. Exists(0)
  <2>. DEFINE f == [t \in 0 .. 0 |-> h]
  <2>1. f = [t \in 0 .. 0 |-> Step(f, t)]
    <3>1. \A t \in 0 .. 0 : Step(f, t) = h
      OBVIOUS
    <3>. HIDE DEF Step
    <3>. QED BY <3>1
  <2>. HIDE DEF f, Step
  <2>. QED BY <2>1
<1>2. ASSUME NEW n \in Nat, Exists(n) PROVE Exists(n + 1)
  <2>1. PICK f : f = [t \in 0 .. n |-> Step(f, t)]
    BY <1>2
  <2>. DEFINE g == [t \in 0 .. n + 1 |-> IF t = n + 1 THEN Step(f, n + 1) ELSE f[t]]
  <2>2. \A t \in 0 .. n : g[t] = f[t]
    OBVIOUS
  <2>3. \A t \in 0 .. n + 1 : Step(g, t) = Step(f, t)
    <3>1. SUFFICES ASSUME NEW t \in 0 .. n + 1, t # 0 PROVE g[t - 1] = f[t - 1]
      OBVIOUS
    <3>2. t - 1 \in 0 .. n
      BY <3>1
    <3>. HIDE DEF g
    <3>. QED BY <2>2, <3>2
  <2>4. ASSUME NEW t \in 0 .. n + 1 PROVE g[t] = Step(g, t)
    <3>1. CASE t = n + 1
      <4>1. g[t] = Step(f, n + 1)
        BY <3>1
      <4>. HIDE DEF Step, g
      <4>. QED BY <2>3, <3>1, <4>1
    <3>2. CASE t # n + 1
      <4>1. t \in 0 .. n
        BY <3>2
      <4>. HIDE DEF Step, g
      <4>2. f[t] = Step(f, t)
        BY <2>1, <4>1
      <4>. QED BY <2>2, <2>3, <4>1, <4>2
    <3>. QED BY <3>1, <3>2
  <2>. HIDE DEF Step
  <2>5. g = [t \in 0 .. n + 1 |-> Step(g, t)]
    BY <2>4
  <2>. HIDE DEF g
  <2>. QED BY <2>5, Zenon
<1>. HIDE DEF Exists
<1>3. 0 \in S /\ \A n \in Nat : n \in S => n + 1 \in S
  BY <1>1, <1>2
<1>4. last \in S
  <2>. HIDE DEF S
  <2>. QED BY <1>3, SetInduction
<1>. QED BY <1>4 DEF Exists, AnswersExist

LEMMA AnswerAllSound ==
    ASSUME NEW e, LastTsn[e] \in Nat, NEW h, Sound(h), NEW ts, NEW yes,
           \A t \in ts : SegmentOK(Segment(e, t))
    PROVE  Sound(answerAll(e, h, ts, yes))
<1>. DEFINE after == CHOOSE f : f = [t \in 0 .. LastTsn[e] |->
                          IF t = 0 THEN h
                          ELSE IF t \in ts THEN answer(f[t - 1], Segment(e, t), t \in yes)
                          ELSE f[t - 1]]
            S == {n \in Nat : n <= LastTsn[e] => Sound(after[n])}
<1>1. after = [t \in 0 .. LastTsn[e] |->
                  IF t = 0 THEN h
                  ELSE IF t \in ts THEN answer(after[t - 1], Segment(e, t), t \in yes)
                  ELSE after[t - 1]]
  <2>1. AnswersExist(e, h, ts, yes, LastTsn[e])
    BY AnswersDefined
  <2>. QED BY <2>1, Zenon DEF AnswersExist
<1>2. answerAll(e, h, ts, yes) = after[LastTsn[e]]
  BY DEF answerAll
<1>. HIDE DEF after
<1>3. 0 \in S
  <2>1. 0 \in 0 .. LastTsn[e]
    OBVIOUS
  <2>2. after[0] = h
    BY <1>1, <2>1
  <2>. QED BY <2>2
<1>4. ASSUME NEW n \in Nat, n \in S PROVE n + 1 \in S
  <2>1. SUFFICES ASSUME n + 1 <= LastTsn[e] PROVE Sound(after[n + 1])
    OBVIOUS
  <2>2. Sound(after[n])
    BY <1>4, <2>1
  <2>3. n + 1 \in 0 .. LastTsn[e] /\ n + 1 # 0 /\ (n + 1) - 1 = n
    BY <2>1
  <2>4. after[n + 1] = IF n + 1 \in ts
                       THEN answer(after[n], Segment(e, n + 1), n + 1 \in yes)
                       ELSE after[n]
    BY <1>1, <2>3
  <2>5. n + 1 \in ts => Sound(answer(after[n], Segment(e, n + 1), n + 1 \in yes))
    <3>1. SUFFICES ASSUME n + 1 \in ts
                   PROVE  Sound(answer(after[n], Segment(e, n + 1), n + 1 \in yes))
      OBVIOUS
    <3>. DEFINE x == n + 1 \in yes
                m == Segment(e, n + 1)
    <3>2. x \in BOOLEAN /\ SegmentOK(m)
      BY <3>1
    <3>. HIDE DEF x, m
    <3>3. Sound(answer(after[n], m, x))
      BY <2>2, <3>2, AnswerSound
    <3>. QED BY <3>3 DEF x, m
  <2>. QED BY <2>2, <2>4, <2>5
<1>5. Nat \subseteq S
  <2>. HIDE DEF S
  <2>. QED BY <1>3, <1>4, SetInduction
<1>. QED BY <1>2, <1>5
-----------------------------------------------------------------------------
(* The operators on hosts: segments. *)

LEMMA RecvDataSound ==
    ASSUME NEW h, Sound(h), NEW r \in Streams, h.ins[r].id # nill,
           NEW m, SegmentOK(m)
    PROVE  Sound(recvData(h, r, m))
<1>. DEFINE last == m.part = Parts[m.stream]
            in == [h.ins[r] EXCEPT !.eof = @ \/ last]
            more == [in EXCEPT !.got = @ \cup {m.part}, !.taken = @ \cup {m.stream}]
            g == [h EXCEPT !.ins[r] = in]
            took == [h EXCEPT !.ins[r] = more]
            whole == took.ins[r].eof /\ took.ins[r].got = 1 .. Parts[r]
<1>1. h.ins[r] \in InRecords /\ Listens(h.ins[r]) /\ h.ins[r].state \in {"active", "reset"}
  BY RecordsOf DEF Listens
<1>2. last \in BOOLEAN /\ m.part \in Nat /\ m.stream \in Streams
  BY DEF SegmentOK
<1>. HIDE DEF last
<1>3. in \in InRecords /\ Listens(in)
  <2>. DEFINE old == h.ins[r]
  <2>1. old \in InRecords /\ old.eof \in BOOLEAN
    BY <1>1 DEF InRecords
  <2>2. (old.eof \/ last) \in BOOLEAN
    BY <1>2
  <2>3. in = [old EXCEPT !.eof = old.eof \/ last]
    OBVIOUS
  <2>. DEFINE eof == old.eof \/ last
  <2>. HIDE DEF old, eof, in
  <2>4. in = [old EXCEPT !.eof = eof] /\ eof \in BOOLEAN
    BY <2>2, <2>3 DEF eof
  <2>5. in \in InRecords /\ in.state = old.state
    BY <2>1, <2>4 DEF InRecords
  <2>. QED BY <1>1, <2>5 DEF Listens, old
<1>. HIDE DEF in
<1>4. more \in InRecords /\ Listens(more)
  <2>1. in.got \cup {m.part} \in SUBSET Nat /\ in.taken \cup {m.stream} \in SUBSET Streams
    BY <1>2, <1>3 DEF InRecords
  <2>. DEFINE got == in.got \cup {m.part}
              taken == in.taken \cup {m.stream}
  <2>2. more = [in EXCEPT !.got = got, !.taken = taken]
    OBVIOUS
  <2>. HIDE DEF got, taken, more
  <2>3. more \in InRecords /\ more.state = in.state /\ more.id = in.id
    <3>1. got \in SUBSET Nat /\ taken \in SUBSET Streams
      BY <2>1 DEF got, taken
    <3>. QED BY <1>3, <2>2, <3>1 DEF InRecords
  <2>. QED BY <1>3, <2>3 DEF Listens
<1>5. Sound(g) /\ Sound(took)
  <2>. HIDE DEF more
  <2>. QED BY <1>3, <1>4, InChanged
<1>6. took = [g EXCEPT !.ins[r].got = @ \cup {m.part},
                       !.ins[r].taken = @ \cup {m.stream}]
  BY DEF Sound, Hosts
<1>7. recvData(h, r, m) =
         IF h.ins[r].state = "reset" THEN IF last THEN inEnded(g, r, "cut") ELSE g
         ELSE IF whole THEN inEnded(took, r, "whole") ELSE took
  <2>. DEFINE G == [h EXCEPT !.ins[r].eof = @ \/ m.part = Parts[m.stream]]
              T == [G EXCEPT !.ins[r].got = @ \cup {m.part},
                             !.ins[r].taken = @ \cup {m.stream}]
  <2>1. recvData(h, r, m) =
           CASE h.ins[r].state = "reset" ->
                   IF m.part = Parts[m.stream] THEN inEnded(G, r, "cut") ELSE G
             [] h.ins[r].state = "active" ->
                   IF T.ins[r].eof /\ T.ins[r].got = 1 .. Parts[r]
                   THEN inEnded(T, r, "whole") ELSE T
    BY DEF recvData
  <2>2. G = g
    BY DEF in, last
  <2>. HIDE DEF G, g, took
  <2>3. T = took
    BY <1>6, <2>2
  <2>. HIDE DEF T
  <2>. QED BY <1>1, <2>1, <2>2, <2>3 DEF last
<1>. HIDE DEF g, took, whole
<1>8. Sound(inEnded(g, r, "cut")) /\ Sound(inEnded(took, r, "whole"))
  BY <1>5, InEndedSound DEF InStates
<1>. QED BY <1>5, <1>7, <1>8

\* Data and WRITER_RESETS find their in-stream by an id that is not nill.
LEMMA RecvReaderSound ==
    ASSUME NEW h, Sound(h), NEW m, SegmentOK(m), m.id \in Nat
    PROVE  Sound(recvReader(h, m))
<1>1. CASE InAt(h, m.id) = {}
  BY <1>1 DEF recvReader
<1>2. CASE InAt(h, m.id) # {}
  <2>. DEFINE r == CHOOSE s \in InAt(h, m.id) : TRUE
  <2>1. r \in Streams /\ h.ins[r].id = m.id
    BY <1>2 DEF InAt
  <2>2. recvReader(h, m) =
           IF m.type = "data" THEN recvData(h, r, m)
           ELSE inEnded(h, r, IF h.ins[r].state = "reset" THEN "cut" ELSE "gone")
    BY <1>2 DEF recvReader
  <2>. HIDE DEF r
  <2>3. h.ins[r].id # nill
    BY <2>1 DEF nill
  <2>4. Sound(recvData(h, r, m))
    BY <2>1, <2>3, RecvDataSound
  <2>5. Sound(inEnded(h, r, IF h.ins[r].state = "reset" THEN "cut" ELSE "gone"))
    BY <2>1, InEndedSound DEF InStates
  <2>. QED BY <2>2, <2>4, <2>5
<1>. QED BY <1>1, <1>2

LEMMA GotConnectionSound ==
    ASSUME NEW h, Sound(h), NEW m, SegmentOK(m), NEW listening \in BOOLEAN
    PROVE  Sound(gotConnection(h, m, listening))
<1>. DEFINE r == [NewIn EXCEPT !.state = "active", !.id = m.id,
                               !.created = h.ins[m.stream].created + 1]
            made == [h EXCEPT !.ins[m.stream] = r]
<1>1. m.stream \in Streams /\ m.id \in Nat \cup {nill}
  BY DEF SegmentOK
<1>2. h.ins[m.stream].created \in Nat
  <2>1. h.ins[m.stream] \in InRecords
    BY <1>1, RecordsOf
  <2>. QED BY <2>1 DEF InRecords
<1>3. r \in InRecords /\ Listens(r)
  <2>. DEFINE id == m.id
              n == h.ins[m.stream].created + 1
  <2>1. id \in Nat \cup {nill} /\ n \in Nat
    BY <1>1, <1>2
  <2>2. r = [NewIn EXCEPT !.state = "active", !.id = id, !.created = n]
    OBVIOUS
  <2>. HIDE DEF id, n, r
  <2>3. NewIn \in InRecords
    BY DEF NewIn, InRecords, InStates
  <2>4. r \in InRecords /\ r.state = "active"
    BY <2>1, <2>2, <2>3 DEF InRecords, InStates
  <2>. QED BY <2>4 DEF Listens
<1>4. gotConnection(h, m, listening) = IF listening THEN made ELSE inReset(made, m.stream)
  BY DEF gotConnection
<1>. HIDE DEF r
<1>5. Sound(made)
  BY <1>1, <1>3, InChanged
<1>. HIDE DEF made
<1>. QED BY <1>1, <1>4, <1>5, InResetSound

LEMMA RecvCreateSound ==
    ASSUME NEW h, Sound(h), NEW m, SegmentOK(m), m.id \in Nat, NEW listening \in BOOLEAN
    PROVE  Sound(recvCreate(h, m, listening))
<1>. DEFINE room == Holding(h, m.id)
            g == IF InAt(room, m.id) = {} THEN gotConnection(room, m, listening) ELSE room
<1>1. Sound(room)
  BY HoldingSound
<1>2. recvCreate(h, m, listening) =
         IF ~Current(h.readerSeq, m) THEN h ELSE recvReader(g, m)
  BY DEF recvCreate
<1>. HIDE DEF room
<1>3. Sound(g)
  BY <1>1, GotConnectionSound
<1>. HIDE DEF g
<1>. QED BY <1>2, <1>3, RecvReaderSound

LEMMA RecvWriterSound ==
    ASSUME NEW h, Sound(h), NEW m, SegmentOK(m)
    PROVE  Sound(recvWriter(h, m))
<1>1. CASE ~Current(h.writerSeq, m) \/ OutAt(h, m.id) = {}
  BY <1>1 DEF recvWriter
<1>2. CASE Current(h.writerSeq, m) /\ OutAt(h, m.id) # {}
  <2>. DEFINE w == CHOOSE s \in OutAt(h, m.id) : TRUE
              o == [h.outs[w] EXCEPT !.obeyed = @ \cup {m.stream}]
              g == [h EXCEPT !.outs[w] = o]
  <2>1. w \in Streams
    BY <1>2 DEF OutAt
  <2>2. recvWriter(h, m) = IF m.type = "barrier" THEN g ELSE outComplete(g, w, "lost")
    BY <1>2 DEF recvWriter
  <2>. HIDE DEF w
  <2>3. o \in OutRecords /\ o.id = h.outs[w].id /\ Sends(o)
    <3>1. h.outs[w] \in OutRecords /\ Sends(h.outs[w]) /\ m.stream \in Streams
      BY <2>1, RecordsOf DEF SegmentOK
    <3>. DEFINE old == h.outs[w]
                obeyed == old.obeyed \cup {m.stream}
    <3>2. o = [old EXCEPT !.obeyed = obeyed]
      OBVIOUS
    <3>3. obeyed \in SUBSET Streams
      BY <3>1 DEF OutRecords
    <3>. HIDE DEF obeyed, o, old
    <3>4. old \in OutRecords /\ Sends(old)
      BY <3>1 DEF old
    <3>5. o \in OutRecords /\ o.id = old.id /\ o.state = old.state /\ o.todo = old.todo
      BY <3>2, <3>3, <3>4 DEF OutRecords
    <3>. QED BY <3>4, <3>5 DEF old, Sends
  <2>. HIDE DEF o
  <2>4. Sound(g)
    BY <2>1, <2>3, OutChanged
  <2>. HIDE DEF g
  <2>5. Sound(outComplete(g, w, "lost"))
    BY <2>1, <2>4, CompleteSound DEF OutStates
  <2>. QED BY <2>2, <2>4, <2>5
<1>. QED BY <1>1, <1>2

LEMMA RecvSegmentSound ==
    ASSUME NEW h, Sound(h), NEW m, m = NoSegment \/ SegmentOK(m), NEW listening \in BOOLEAN
    PROVE  Sound(recvSegment(h, m, listening))
<1>1. CASE m = NoSegment
  <2>1. m.type = "none"
    BY <1>1 DEF NoSegment
  <2>2. recvSegment(h, m, listening) = h
    BY <2>1 DEF recvSegment
  <2>. QED BY <2>2
<1>2. CASE SegmentOK(m)
  <2>1. CASE m.type \in {"barrier", "readerResets"}
    <3>1. recvSegment(h, m, listening) = recvWriter(h, m)
      BY <2>1 DEF recvSegment
    <3>. QED BY <1>2, <3>1, RecvWriterSound
  <2>2. CASE m.type \in {"data", "writerResets"}
    <3>1. recvSegment(h, m, listening) =
             IF m.create THEN recvCreate(h, m, listening) ELSE recvReader(h, m)
      BY <1>2, <2>2 DEF recvSegment, SegmentOK
    <3>2. m.id \in Nat
      BY <1>2, <2>2 DEF SegmentOK
    <3>. QED BY <1>2, <3>1, <3>2, RecvCreateSound, RecvReaderSound
  <2>. QED BY <1>2, <2>1, <2>2 DEF SegmentOK
<1>. QED BY <1>1, <1>2
-----------------------------------------------------------------------------
(* The operators on hosts: pulls, and the end of a channel. *)

LEMMA SmallestIn ==
    ASSUME NEW S \in SUBSET Nat, S # {}
    PROVE  Smallest(S) \in S
BY LeastExists DEF Smallest

LEMMA PullOutSound ==
    ASSUME NEW h, Sound(h), NEW pulled \in PullOut(h)
    PROVE  Sound(pulled.host) /\ SegmentOK(pulled.segment)
<1>1. PICK s \in Streams :
         /\ h.outs[s].todo # {} /\ (h.outs[s].id # nill \/ CanAlloc(h))
         /\ LET g == IF h.outs[s].id = nill THEN allocId(h, s) ELSE h
            IN  pulled = [host |-> [g EXCEPT !.outs[s].todo = @ \ {Smallest(@)}],
                          segment |-> outSegment(g, s)]
  BY DEF PullOut
<1>. DEFINE g == IF h.outs[s].id = nill THEN allocId(h, s) ELSE h
            left == g.outs[s].todo \ {Smallest(g.outs[s].todo)}
            w == [g.outs[s] EXCEPT !.todo = left]
<1>2. pulled.host = [g EXCEPT !.outs[s] = w] /\ pulled.segment = outSegment(g, s)
  BY <1>1
<1>3. Sound(g) /\ g.outs[s].id \in Nat /\ g.outs[s].todo = h.outs[s].todo
  <2>1. CASE h.outs[s].id = nill
    BY <1>1, <2>1, AllocSound
  <2>2. CASE h.outs[s].id # nill
    <3>1. h.outs[s] \in OutRecords
      BY RecordsOf
    <3>. QED BY <2>2, <3>1 DEF OutRecords
  <2>. QED BY <2>1, <2>2
<1>. HIDE DEF g
<1>4. /\ g.outs[s] \in OutRecords /\ g.outs[s].todo \in SUBSET Nat
      /\ g.outs[s].prefix \in BOOLEAN /\ Sends(g.outs[s])
      /\ g.outs[s].state \in {"active", "reset"}
  <2>1. g.outs[s] \in OutRecords /\ Sends(g.outs[s])
    BY <1>3, RecordsOf
  <2>2. g.outs[s].todo # {}
    BY <1>1, <1>3
  <2>. QED BY <2>1, <2>2 DEF OutRecords, Sends
<1>5. w \in OutRecords /\ w.id = g.outs[s].id /\ Sends(w)
  <2>1. left \in SUBSET Nat
    BY <1>4
  <2>. HIDE DEF left
  <2>. QED BY <1>4, <2>1, OutUpdated
<1>. HIDE DEF w
<1>6. Sound(pulled.host)
  BY <1>2, <1>3, <1>5, OutChanged
<1>7. SegmentOK(pulled.segment)
  <2>. DEFINE part == Smallest(g.outs[s].todo)
  <2>1. part \in Nat
    BY <1>1, <1>3, <1>4, SmallestIn
  <2>2. pulled.segment =
           [type |-> IF part = 0 THEN "writerResets" ELSE "data", id |-> g.outs[s].id,
            create |-> g.outs[s].prefix, seq |-> g.writerSeq[g.outs[s].id],
            part |-> part, stream |-> s]
    BY <1>2 DEF outSegment
  <2>. HIDE DEF part
  <2>. QED BY <1>3, <1>4, <2>1, <2>2 DEF SegmentOK
<1>. QED BY <1>6, <1>7

LEMMA InSegmentOK ==
    ASSUME NEW h, Sound(h), NEW s \in Streams, NEW type \in {"barrier", "readerResets"}
    PROVE  SegmentOK(inSegment(h, s, type))
<1>1. h.ins[s].id \in Nat \cup {nill}
  <2>1. h.ins[s] \in InRecords
    BY RecordsOf
  <2>. QED BY <2>1 DEF InRecords
<1>2. inSegment(h, s, type) =
         [type |-> type, id |-> h.ins[s].id, create |-> FALSE,
          seq |-> h.readerSeq[h.ins[s].id], part |-> 0, stream |-> s]
  BY DEF inSegment
<1>. QED BY <1>1, <1>2 DEF SegmentOK

LEMMA PullInSound ==
    ASSUME NEW h, Sound(h), NEW pulled \in PullIn(h)
    PROVE  Sound(pulled.host) /\ SegmentOK(pulled.segment)
<1>1. \/ \E s \in Streams : pulled = [host |-> h, segment |-> inSegment(h, s, "barrier")]
      \/ \E s \in Streams : pulled = [host |-> [h EXCEPT !.ins[s].resets = FALSE],
                                      segment |-> inSegment(h, s, "readerResets")]
  BY DEF PullIn
<1>2. ASSUME NEW s \in Streams,
             pulled = [host |-> h, segment |-> inSegment(h, s, "barrier")]
      PROVE  Sound(pulled.host) /\ SegmentOK(pulled.segment)
  <2>1. SegmentOK(inSegment(h, s, "barrier"))
    BY InSegmentOK
  <2>. QED BY <1>2, <2>1
<1>3. ASSUME NEW s \in Streams,
             pulled = [host |-> [h EXCEPT !.ins[s].resets = FALSE],
                       segment |-> inSegment(h, s, "readerResets")]
      PROVE  Sound(pulled.host) /\ SegmentOK(pulled.segment)
  <2>. DEFINE r == [h.ins[s] EXCEPT !.resets = FALSE]
  <2>1. r \in InRecords /\ Listens(r)
    <3>1. h.ins[s] \in InRecords /\ Listens(h.ins[s]) /\ FALSE \in BOOLEAN
      BY RecordsOf
    <3>. QED BY <3>1, InUpdated
  <2>2. pulled.host = [h EXCEPT !.ins[s] = r]
        /\ pulled.segment = inSegment(h, s, "readerResets")
    BY <1>3
  <2>. HIDE DEF r
  <2>3. SegmentOK(inSegment(h, s, "readerResets"))
    BY InSegmentOK
  <2>4. Sound([h EXCEPT !.ins[s] = r])
    BY <2>1, InChanged
  <2>. QED BY <2>2, <2>3, <2>4
<1>. QED BY <1>1, <1>2, <1>3

LEMMA NoTablesHost ==
    /\ NoTables \in Hosts /\ NoTables.len = 1 /\ NoTables.writeFree = <<0>>
    /\ NoTables.cooldowns = [i \in 0 .. Period - 1 |-> <<>>]
    /\ NoTables.outs = [s \in Streams |-> NewOut]
    /\ NoTables.ins = [s \in Streams |-> NewIn]
<1>. DEFINE outs == [s \in Streams |-> NewOut]
            ins == [s \in Streams |-> NewIn]
            free == <<0>>
            ring == [i \in 0 .. Period - 1 |-> <<>>]
            seqs == [id \in Ids |-> 0]
<1>1. outs \in [Streams -> OutRecords]
  BY DEF NewOut, OutRecords, OutStates
<1>2. ins \in [Streams -> InRecords]
  BY DEF NewIn, InRecords, InStates
<1>3. free \in Seq(Nat)
  BY Singleton
<1>4. ring \in [0 .. Period - 1 -> Seq(Nat)]
  BY EmptyList
<1>5. seqs \in [Ids -> Nat]
  OBVIOUS
<1>6. NoTables = [len |-> 1, writeFree |-> free, cooldownIndex |-> 0,
                  cooldowns |-> ring, writerSeq |-> seqs, readerSeq |-> seqs,
                  outs |-> outs, ins |-> ins]
  BY DEF NoTables
<1>7. 0 \in 0 .. Period - 1
  BY DispatchAssumption
<1>. HIDE DEF outs, ins, free, ring, seqs
<1>8. /\ NoTables \in Hosts /\ NoTables.len = 1 /\ NoTables.writeFree = free
      /\ NoTables.cooldowns = ring /\ NoTables.outs = outs /\ NoTables.ins = ins
  BY <1>1, <1>2, <1>3, <1>4, <1>5, <1>6, <1>7 DEF Hosts
<1>. QED BY <1>8 DEF outs, ins, free, ring

LEMMA TablesSound ==
    ASSUME NEW h \in Hosts, h.len = 1, h.writeFree = NoTables.writeFree,
           h.cooldowns = NoTables.cooldowns,
           \A s \in Streams :
               h.outs[s].id = nill /\ Sends(h.outs[s]) /\ Listens(h.ins[s])
    PROVE  Sound(h)
<1>. DEFINE free == h.writeFree
            ring == h.cooldowns
<1>2. \A i \in 0 .. Period - 1 : ring[i] = <<>>
  BY NoTablesHost
<1>3. ToSet(free) = {0} /\ IsInjective(free)
  BY NoTablesHost, Singleton
<1>6. /\ Period \in Cells /\ ToSet(Lists(h)[Period]) = {0} /\ IsInjective(Lists(h)[Period])
      /\ \A i \in Cells : i # Period => ToSet(Lists(h)[i]) = {} /\ IsInjective(Lists(h)[i])
  <2>1. /\ Lists(h)[Period] = free /\ Period \in Cells
        /\ \A i \in Cells : i # Period => Lists(h)[i] = <<>>
    BY <1>2, ListsOf
  <2>. QED BY <1>3, <2>1, EmptyList
<1>7. \A s \in Streams : Held(h)[s] = nill
  BY DEF Held
<1>8. Placed(1, Lists(h), Held(h))
  <2>. DEFINE lists == Lists(h)
              held == Held(h)
  <2>. HIDE DEF lists, held
  <2>1. /\ Period \in Cells /\ ToSet(lists[Period]) = {0} /\ IsInjective(lists[Period])
        /\ \A i \in Cells : i # Period => ToSet(lists[i]) = {} /\ IsInjective(lists[i])
        /\ \A s \in Streams : held[s] = nill
    BY <1>6, <1>7 DEF lists, held
  <2>2. \A x : x \in 0 .. 1 - 1 <=> x = 0
    OBVIOUS
  <2>3. \A x : (\E i \in Cells : x \in ToSet(lists[i])) <=> x = 0
    BY <2>1
  <2>4. \A i, j \in Cells : i # j => ToSet(lists[i]) \cap ToSet(lists[j]) = {}
    BY <2>1
  <2>5. Placed(1, lists, held)
    BY <2>1, <2>2, <2>3, <2>4 DEF Placed
  <2>. QED BY <2>5 DEF lists, held
<1>. QED BY <1>8 DEF Sound

LEMMA NoTablesSound == Sound(NoTables)
<1>1. \A s \in Streams : /\ NoTables.outs[s] = NewOut /\ NoTables.ins[s] = NewIn
  BY NoTablesHost
<1>2. NewOut.id = nill /\ NewOut.todo = {} /\ NewIn.id = nill
  BY DEF NewOut, NewIn
<1>3. \A s \in Streams : /\ NoTables.outs[s].id = nill /\ Sends(NoTables.outs[s])
                         /\ Listens(NoTables.ins[s])
  BY <1>1, <1>2 DEF Sends, Listens
<1>. QED BY <1>3, NoTablesHost, TablesSound

LEMMA WipeSound ==
    ASSUME NEW h, Sound(h)
    PROVE  Sound(wipeState(h))
<1>. DEFINE Out(w) == CASE w.state \in {"active", "reset"} ->
                              [w EXCEPT !.id = nill,
                                        !.state = IF w.prefix /\ w.state = "active"
                                                  THEN "active" ELSE "lost",
                                        !.todo = IF w.prefix /\ w.state = "active"
                                                 THEN @ ELSE {}]
                        [] OTHER -> w
            In(r) == [Ended(r, CASE r.state = "active" -> "gone"
                                 [] r.state = "reset" -> "cut"
                                 [] OTHER -> r.state) EXCEPT !.created = 0]
            outs == [s \in Streams |-> Out(h.outs[s])]
            ins == [s \in Streams |-> In(h.ins[s])]
<1>1. wipeState(h) = [NoTables EXCEPT !.outs = outs, !.ins = ins]
  BY DEF wipeState
<1>2. ASSUME NEW w \in OutRecords, Sends(w)
      PROVE  Out(w) \in OutRecords /\ Out(w).id = nill /\ Sends(Out(w))
  <2>1. CASE w.state \in {"active", "reset"}
    <3>. DEFINE state == IF w.prefix /\ w.state = "active" THEN "active" ELSE "lost"
                todo == IF w.prefix /\ w.state = "active" THEN w.todo ELSE {}
    <3>1. Out(w) = [w EXCEPT !.id = nill, !.state = state, !.todo = todo]
      BY <2>1
    <3>2. state \in OutStates /\ todo \in SUBSET Nat /\ (todo # {} => state = "active")
      BY <1>2 DEF OutRecords, OutStates
    <3>. HIDE DEF state, todo, Out
    <3>3. /\ Out(w) \in OutRecords /\ Out(w).id = nill
          /\ Out(w).state = state /\ Out(w).todo = todo
      BY <1>2, <3>1, <3>2 DEF OutRecords
    <3>. QED BY <3>2, <3>3 DEF Sends
  <2>2. CASE w.state \notin {"active", "reset"}
    BY <1>2, <2>2 DEF Sends
  <2>. QED BY <2>1, <2>2
<1>3. ASSUME NEW r \in InRecords
      PROVE  In(r) \in InRecords /\ Listens(In(r))
  <2>. DEFINE state == CASE r.state = "active" -> "gone"
                         [] r.state = "reset" -> "cut"
                         [] OTHER -> r.state
  <2>1. state \in InStates
    BY <1>3 DEF InRecords, InStates
  <2>2. In(r) = [Ended(r, state) EXCEPT !.created = 0]
    OBVIOUS
  <2>. HIDE DEF state, In
  <2>3. Ended(r, state) \in InRecords /\ Ended(r, state).id = nill
    BY <1>3, <2>1 DEF Ended, NewIn, InRecords
  <2>4. In(r) \in InRecords /\ In(r).id = nill
    BY <2>2, <2>3 DEF InRecords
  <2>. QED BY <2>4 DEF Listens
<1>4. /\ outs \in [Streams -> OutRecords] /\ ins \in [Streams -> InRecords]
      /\ \A s \in Streams : outs[s].id = nill /\ Sends(outs[s]) /\ Listens(ins[s])
  <2>. HIDE DEF Out, In
  <2>. QED BY <1>2, <1>3, RecordsOf
<1>. HIDE DEF outs, ins
<1>. DEFINE g == [NoTables EXCEPT !.outs = outs, !.ins = ins]
<1>5. /\ g \in Hosts /\ g.len = 1 /\ g.writeFree = NoTables.writeFree
      /\ g.cooldowns = NoTables.cooldowns /\ g.outs = outs /\ g.ins = ins
  BY <1>4, NoTablesHost DEF Hosts
<1>. HIDE DEF g
<1>6. Sound(g)
  BY <1>4, <1>5, TablesSound
<1>. QED BY <1>1, <1>6 DEF g
-----------------------------------------------------------------------------
(* The two ends. *)

\* Every number of the queue is that of a packet, with a segment.
Awaited(e, packets, t) ==
    /\ t <= tsn[e]
    /\ \E p \in packets : p.from = e /\ p.tsn = t
    /\ \A p \in packets : p.from = e /\ p.tsn = t => SegmentOK(p.segment)

PacketOK(p) ==
    /\ p.from \in Ends /\ p.tsn \in Nat /\ p.tsn <= tsn[p.from]
    /\ p.segment = NoSegment \/ SegmentOK(p.segment)

\* The inductive invariant.
DispatchInv ==
    /\ host \in [Ends -> Hosts] /\ tsn \in [Ends -> Nat] /\ queue \in [Ends -> SUBSET Nat]
    /\ \A e \in Ends : Sound(host[e])
    /\ \A p \in net : PacketOK(p)
    /\ \A e \in Ends : \A t \in queue[e] : Awaited(e, net, t)

LEMMA EndsKnown ==
    /\ Ends = {"a", "b"} /\ \A e \in Ends : LastTsn[e] \in Nat /\ Peer[e] \in Ends
    /\ \A s \in Streams : Owner[s] \in Ends
BY DispatchAssumption DEF Ends, Channel!Ends, Peer, Channel!Peer

LEMMA PacketFields ==
    ASSUME NEW e, NEW segment
    PROVE  /\ Packet(e, segment).segment = segment /\ Packet(e, segment).from = e
           /\ Packet(e, segment).tsn = tsn[e] + 1
BY DEF Packet, Channel!Numbered

LEMMA SegmentAwaited ==
    ASSUME DispatchInv, NEW e \in Ends, NEW t \in queue[e]
    PROVE  SegmentOK(Segment(e, t))
<1>1. Awaited(e, net, t)
  BY DEF DispatchInv
<1>. DEFINE p == CHOOSE p \in net : p.from = e /\ p.tsn = t
<1>2. p \in net /\ p.from = e /\ p.tsn = t
  BY <1>1 DEF Awaited
<1>3. Segment(e, t) = p.segment
  BY DEF Segment
<1>. HIDE DEF p
<1>. QED BY <1>1, <1>2, <1>3 DEF Awaited

LEMMA InitDispatch == Init => DispatchInv
<1>. SUFFICES ASSUME Init PROVE DispatchInv
  OBVIOUS
<1>1. \A e \in Ends : host[e] = NoTables /\ Sound(host[e])
  BY NoTablesSound DEF Init
<1>2. host \in [Ends -> Hosts]
  BY NoTablesSound DEF Init, Sound
<1>3. tsn \in [Ends -> Nat] /\ queue \in [Ends -> SUBSET Nat] /\ net = {}
      /\ \A e \in Ends : queue[e] = {}
  BY DEF Init, Fresh
<1>. QED BY <1>1, <1>2, <1>3 DEF DispatchInv

\* A step that leaves the packets alone.
LEMMA QuietStep ==
    ASSUME DispatchInv, UNCHANGED <<tsn, queue, net>>, host' \in [Ends -> Hosts],
           \A e \in Ends : Sound(host'[e])
    PROVE  DispatchInv'
<1>1. \A p : PacketOK(p)' <=> PacketOK(p)
  BY DEF PacketOK
<1>2. \A e, t : Awaited(e, net, t)' <=> Awaited(e, net, t)
  BY DEF Awaited
<1>. QED BY <1>1, <1>2 DEF DispatchInv

\* A host that is replaced by a sound one.
LEMMA HostStep ==
    ASSUME DispatchInv, NEW e \in Ends, NEW h, Sound(h), host' = [host EXCEPT ![e] = h]
    PROVE  host' \in [Ends -> Hosts] /\ \A d \in Ends : Sound(host'[d])
<1>1. h \in Hosts
  BY DEF Sound
<1>. QED BY <1>1 DEF DispatchInv

LEMMA PullDataStep ==
    ASSUME DispatchInv, NEW e \in Ends, PullData(e)
    PROVE  DispatchInv'
<1>. DEFINE h == tickCooldown(host[e])
<1>1. PICK pulled \in PullOut(h) \cup PullIn(h) :
         /\ host' = [host EXCEPT ![e] = pulled.host]
         /\ net' = net \cup {Packet(e, pulled.segment)}
  BY DEF PullData
<1>2. /\ tsn' = [tsn EXCEPT ![e] = @ + 1]
      /\ queue' = [queue EXCEPT ![e] = @ \cup {tsn[e] + 1}]
  BY DEF PullData, Pull
<1>3. Sound(h)
  BY TickSound DEF DispatchInv
<1>4. Sound(pulled.host) /\ SegmentOK(pulled.segment)
  <2>. HIDE DEF h
  <2>. QED BY <1>1, <1>3, PullOutSound, PullInSound
<1>5. host' \in [Ends -> Hosts] /\ \A d \in Ends : Sound(host'[d])
  BY <1>1, <1>4, HostStep
<1>6. PICK p, n : /\ p.segment = pulled.segment /\ p.from = e /\ p.tsn = n
                  /\ n = tsn[e] + 1 /\ net' = net \cup {p}
  BY <1>1, PacketFields
<1>7. net' = net \cup {p}
  BY <1>6
<1>8. /\ n \in Nat /\ tsn'[e] = n /\ tsn[e] < n /\ tsn[e] \in Nat
      /\ \A d \in Ends : tsn[d] <= tsn'[d] /\ tsn[d] \in Nat /\ tsn'[d] \in Nat
      /\ queue'[e] = queue[e] \cup {n}
      /\ \A d \in Ends : d # e => queue'[d] = queue[d]
  BY <1>2, <1>6 DEF DispatchInv
<1>9. \A q \in net' : PacketOK(q)'
  <2>1. ASSUME NEW q \in net PROVE PacketOK(q)'
    <3>1. PacketOK(q)
      BY DEF DispatchInv
    <3>2. tsn[q.from] <= tsn'[q.from] /\ tsn[q.from] \in Nat /\ tsn'[q.from] \in Nat
      BY <1>8, <3>1 DEF PacketOK
    <3>. QED BY <3>1, <3>2 DEF PacketOK
  <2>2. PacketOK(p)'
    BY <1>4, <1>6, <1>8 DEF PacketOK
  <2>. QED BY <1>7, <2>1, <2>2
<1>10. ASSUME NEW d \in Ends, NEW t \in queue'[d] PROVE Awaited(d, net, t)'
  <2>1. CASE d = e /\ t = n
    <3>1. \A q \in net : ~(q.from = e /\ q.tsn = n)
      <4>1. SUFFICES ASSUME NEW q \in net, q.from = e, q.tsn = n PROVE FALSE
        OBVIOUS
      <4>2. q.tsn <= tsn[q.from]
        BY DEF DispatchInv, PacketOK
      <4>. QED BY <1>8, <4>1, <4>2
    <3>. QED BY <1>4, <1>6, <1>7, <1>8, <2>1, <3>1 DEF Awaited
  <2>2. CASE ~(d = e /\ t = n)
    <3>1. t \in queue[d] /\ Awaited(d, net, t) /\ t \in Nat
      BY <1>8, <1>10, <2>2 DEF DispatchInv
    <3>2. t <= tsn'[d]
      BY <1>8, <3>1 DEF Awaited
    <3>. QED BY <1>6, <1>7, <2>2, <3>1, <3>2 DEF Awaited
  <2>. QED BY <2>1, <2>2
<1>11. tsn' \in [Ends -> Nat] /\ queue' \in [Ends -> SUBSET Nat]
  BY <1>2 DEF DispatchInv
<1>. QED BY <1>5, <1>9, <1>10, <1>11 DEF DispatchInv

\* An ack's packet has a number that nobody waits for.
LEMMA PullAckStep ==
    ASSUME DispatchInv, NEW e \in Ends, PullAck(e)
    PROVE  DispatchInv'
<1>1. /\ UNCHANGED <<host, queue>> /\ tsn' = [tsn EXCEPT ![e] = @ + 1]
  BY DEF PullAck, Pull
<1>2. PICK p, n : /\ p.segment = NoSegment /\ p.from = e /\ p.tsn = n
                  /\ n = tsn[e] + 1 /\ net' = net \cup {p}
  BY PacketFields DEF PullAck
<1>3. n \in Nat /\ tsn'[e] = n /\ tsn[e] < n /\ tsn[e] \in Nat
      /\ \A d \in Ends : tsn[d] <= tsn'[d] /\ tsn[d] \in Nat /\ tsn'[d] \in Nat
  BY <1>1, <1>2 DEF DispatchInv
<1>4. \A q \in net' : PacketOK(q)'
  <2>1. ASSUME NEW q \in net PROVE PacketOK(q)'
    <3>1. PacketOK(q)
      BY DEF DispatchInv
    <3>2. tsn[q.from] <= tsn'[q.from] /\ tsn[q.from] \in Nat /\ tsn'[q.from] \in Nat
      BY <1>3, <3>1 DEF PacketOK
    <3>. QED BY <3>1, <3>2 DEF PacketOK
  <2>2. PacketOK(p)'
    BY <1>2, <1>3 DEF PacketOK
  <2>. QED BY <1>2, <2>1, <2>2
<1>5. ASSUME NEW d \in Ends, NEW t \in queue'[d] PROVE Awaited(d, net, t)'
  <2>1. t \in queue[d] /\ Awaited(d, net, t) /\ t \in Nat
    BY <1>1, <1>5 DEF DispatchInv
  <2>2. t <= tsn'[d] /\ t <= tsn[d]
    BY <1>3, <2>1 DEF Awaited
  <2>3. ~(d = e /\ t = n)
    BY <1>3, <2>2
  <2>. QED BY <1>2, <2>1, <2>2, <2>3 DEF Awaited
<1>6. tsn' \in [Ends -> Nat] /\ queue' \in [Ends -> SUBSET Nat]
      /\ host' \in [Ends -> Hosts] /\ \A d \in Ends : Sound(host'[d])
  BY <1>1 DEF DispatchInv
<1>. QED BY <1>4, <1>5, <1>6 DEF DispatchInv

\* A step that forgets only packets nobody waits for.
LEMMA ForgettingStep ==
    ASSUME DispatchInv, UNCHANGED tsn, net' = Alive(net),
           host' \in [Ends -> Hosts], \A e \in Ends : Sound(host'[e]),
           queue' \in [Ends -> SUBSET Nat], \A e \in Ends : queue'[e] \subseteq queue[e]
    PROVE  DispatchInv'
<1>1. /\ net' \subseteq net
      /\ \A p \in net : p.tsn \in queue'[p.from] => p \in net'
  BY DEF Alive
<1>2. \A p \in net' : PacketOK(p)'
  BY <1>1 DEF DispatchInv, PacketOK
<1>3. ASSUME NEW e \in Ends, NEW t \in queue'[e] PROVE Awaited(e, net, t)'
  <2>1. Awaited(e, net, t)
    BY <1>3 DEF DispatchInv
  <2>2. PICK p \in net : p.from = e /\ p.tsn = t
    BY <2>1 DEF Awaited
  <2>3. p \in net'
    BY <1>1, <1>3, <2>2
  <2>. QED BY <1>1, <2>1, <2>2, <2>3 DEF Awaited
<1>. QED BY <1>2, <1>3 DEF DispatchInv

LEMMA RecvStep ==
    ASSUME DispatchInv, NEW e \in Ends, NEW p \in net, Recv(e, p)
    PROVE  DispatchInv'
<1>. DEFINE ts == Channel!Answered(e, p)
            yes == Channel!Acked(e, p)
            answered == answerAll(e, host[e], ts, yes)
<1>1. PICK listening \in BOOLEAN :
         host' = [host EXCEPT ![e] = recvSegment(answered, p.segment, listening)]
  BY DEF Recv
<1>2. /\ queue' = [queue EXCEPT ![e] = @ \ ts] /\ UNCHANGED tsn /\ net' = Alive(net)
  BY DEF Recv
<1>3. ts \subseteq queue[e]
  BY DEF Channel!Answered, Channel!Acked, Channel!Missing
<1>. HIDE DEF ts, yes
<1>4. \A t \in ts : SegmentOK(Segment(e, t))
  BY <1>3, SegmentAwaited
<1>5. Sound(host[e]) /\ LastTsn[e] \in Nat
  BY EndsKnown DEF DispatchInv
<1>6. Sound(answered)
  BY <1>4, <1>5, AnswerAllSound
<1>7. p.segment = NoSegment \/ SegmentOK(p.segment)
  BY DEF DispatchInv, PacketOK
<1>. HIDE DEF answered
<1>8. Sound(recvSegment(answered, p.segment, listening))
  BY <1>6, <1>7, RecvSegmentSound
<1>9. host' \in [Ends -> Hosts] /\ \A d \in Ends : Sound(host'[d])
  BY <1>1, <1>8, HostStep
<1>10. queue' \in [Ends -> SUBSET Nat] /\ \A d \in Ends : queue'[d] \subseteq queue[d]
  BY <1>2 DEF DispatchInv
<1>. QED BY <1>2, <1>9, <1>10, ForgettingStep

LEMMA TimeoutStep ==
    ASSUME DispatchInv, NEW e \in Ends, Timeout(e)
    PROVE  DispatchInv'
<1>. DEFINE t == Smallest(queue[e])
            h == answer(host[e], Segment(e, t), FALSE)
<1>1. /\ queue[e] # {} /\ queue' = [queue EXCEPT ![e] = @ \ {t}]
      /\ host' = [host EXCEPT ![e] = h] /\ UNCHANGED tsn /\ net' = Alive(net)
  BY DEF Timeout
<1>2. t \in queue[e]
  BY <1>1, SmallestIn DEF DispatchInv
<1>. HIDE DEF t
<1>3. SegmentOK(Segment(e, t)) /\ Sound(host[e])
  BY <1>2, SegmentAwaited DEF DispatchInv
<1>4. Sound(h)
  <2>1. FALSE \in BOOLEAN
    OBVIOUS
  <2>. QED BY <1>3, <2>1, AnswerSound
<1>. HIDE DEF h
<1>5. host' \in [Ends -> Hosts] /\ \A d \in Ends : Sound(host'[d])
  BY <1>1, <1>4, HostStep
<1>6. queue' \in [Ends -> SUBSET Nat] /\ \A d \in Ends : queue'[d] \subseteq queue[d]
  BY <1>1 DEF DispatchInv
<1>. QED BY <1>1, <1>5, <1>6, ForgettingStep

LEMMA ConnectStep ==
    ASSUME DispatchInv, NEW s \in Streams, connect(s)
    PROVE  DispatchInv'
<1>. DEFINE e == Owner[s]
            segments == 1 .. Parts[s]
            w == [host[e].outs[s] EXCEPT !.state = "active", !.todo = segments,
                                         !.unacked = segments]
<1>1. UNCHANGED <<tsn, queue, net>>
      /\ host' = [host EXCEPT ![e] = [host[e] EXCEPT !.outs[s] = w]]
  BY DEF connect
<1>2. e \in Ends /\ Sound(host[e])
  BY EndsKnown DEF DispatchInv
<1>. HIDE DEF e
<1>3. host[e].outs[s] \in OutRecords
  BY <1>2, RecordsOf
<1>4. w \in OutRecords /\ w.id = host[e].outs[s].id /\ Sends(w)
  <2>1. segments \in SUBSET Nat
    BY DispatchAssumption
  <2>. DEFINE old == host[e].outs[s]
  <2>. HIDE DEF segments, old, w
  <2>2. old \in OutRecords /\ w = [old EXCEPT !.state = "active", !.todo = segments,
                                             !.unacked = segments]
    BY <1>3 DEF old, w
  <2>3. w \in OutRecords /\ w.id = old.id /\ w.state = "active"
    BY <2>1, <2>2 DEF OutRecords, OutStates
  <2>. QED BY <2>3 DEF Sends, old
<1>. HIDE DEF w
<1>5. Sound([host[e] EXCEPT !.outs[s] = w])
  BY <1>2, <1>4, OutChanged
<1>6. host' \in [Ends -> Hosts] /\ \A d \in Ends : Sound(host'[d])
  <2>. DEFINE h == [host[e] EXCEPT !.outs[s] = w]
  <2>1. Sound(h) /\ host' = [host EXCEPT ![e] = h]
    BY <1>1, <1>5
  <2>. HIDE DEF h
  <2>. QED BY <1>2, <2>1, HostStep
<1>. QED BY <1>1, <1>6, QuietStep

LEMMA UserResetStep ==
    ASSUME DispatchInv, NEW s \in Streams, ResetOut(s) \/ ResetIn(s)
    PROVE  DispatchInv'
<1>1. UNCHANGED <<tsn, queue, net>>
  BY DEF ResetOut, ResetIn
<1>2. PICK e \in Ends : \/ host' = [host EXCEPT ![e] = outReset(host[e], s)]
                       \/ host' = [host EXCEPT ![e] = inReset(host[e], s)]
  BY EndsKnown DEF ResetOut, ResetIn
<1>3. Sound(outReset(host[e], s)) /\ Sound(inReset(host[e], s))
  BY OutResetSound, InResetSound DEF DispatchInv
<1>4. host' \in [Ends -> Hosts] /\ \A d \in Ends : Sound(host'[d])
  BY <1>2, <1>3, HostStep
<1>. QED BY <1>1, <1>4, QuietStep

LEMMA NewChannelStep ==
    ASSUME DispatchInv, NEW resume \in BOOLEAN, NewChannel(resume)
    PROVE  DispatchInv'
<1>. DEFINE kept(e) == IF resume THEN host[e] ELSE wipeState(host[e])
<1>1. host' = [e \in Ends |-> answerAll(e, kept(e), queue[e], {})]
  BY DEF NewChannel
<1>2. /\ tsn' = [e \in Ends |-> 0] /\ queue' = [e \in Ends |-> {}] /\ net' = {}
  BY DEF NewChannel, Fresh
<1>3. ASSUME NEW e \in Ends PROVE Sound(answerAll(e, kept(e), queue[e], {}))
  <2>1. Sound(kept(e))
    BY WipeSound DEF DispatchInv
  <2>2. \A t \in queue[e] : SegmentOK(Segment(e, t))
    BY SegmentAwaited
  <2>3. LastTsn[e] \in Nat
    BY EndsKnown
  <2>. HIDE DEF kept
  <2>. QED BY <2>1, <2>2, <2>3, AnswerAllSound
<1>. HIDE DEF kept
<1>4. host' \in [Ends -> Hosts] /\ \A e \in Ends : Sound(host'[e])
  BY <1>1, <1>3 DEF Sound
<1>5. tsn' \in [Ends -> Nat] /\ queue' \in [Ends -> SUBSET Nat]
      /\ \A e \in Ends : queue'[e] = {}
  BY <1>2
<1>. QED BY <1>2, <1>4, <1>5 DEF DispatchInv

LEMMA NextDispatch == DispatchInv /\ [Next]_hdVars => DispatchInv'
<1>. SUFFICES ASSUME DispatchInv, [Next]_hdVars PROVE DispatchInv'
  OBVIOUS
<1>1. ASSUME NEW e \in Ends, PullData(e) PROVE DispatchInv'
  BY <1>1, PullDataStep
<1>2. ASSUME NEW e \in Ends, PullAck(e) PROVE DispatchInv'
  BY <1>2, PullAckStep
<1>3. ASSUME NEW e \in Ends, Timeout(e) PROVE DispatchInv'
  BY <1>3, TimeoutStep
<1>4. ASSUME NEW e \in Ends, NEW p \in net, Recv(e, p) PROVE DispatchInv'
  BY <1>4, RecvStep
<1>5. ASSUME NEW s \in Streams, connect(s) PROVE DispatchInv'
  BY <1>5, ConnectStep
<1>6. ASSUME NEW s \in Streams, ResetOut(s) \/ ResetIn(s) PROVE DispatchInv'
  BY <1>6, UserResetStep
<1>7. ASSUME NEW resume \in BOOLEAN, NewChannel(resume) PROVE DispatchInv'
  BY <1>7, NewChannelStep
<1>8. CASE UNCHANGED hdVars
  <2>1. UNCHANGED <<tsn, queue, net, host>>
    BY <1>8 DEF hdVars
  <2>2. host' \in [Ends -> Hosts] /\ \A e \in Ends : Sound(host'[e])
    BY <2>1 DEF DispatchInv
  <2>. QED BY <2>1, <2>2, QuietStep
<1>. QED BY <1>1, <1>2, <1>3, <1>4, <1>5, <1>6, <1>7, <1>8 DEF Next

(***************************************************************************)
(* Through growth, reuse and wiping, an id is free, cools down or belongs  *)
(* to one out-stream, and no id is forgotten (pushCooldown, tickCooldown,  *)
(* expandSubReader, allocId, wipeState of host-dispatch.fun).              *)
(***************************************************************************)
THEOREM IdsStayPartitioned == Spec => []IdsPartition
<1>1. DispatchInv => IdsPartition
  BY SoundPartition DEF DispatchInv, IdsPartition
<1>. QED BY <1>1, InitDispatch, NextDispatch, PTL DEF Spec
=============================================================================
