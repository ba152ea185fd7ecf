--------------------------- MODULE BindingProofs ----------------------------
(***************************************************************************)
(* Proofs about the bindings: the handles on both sides of the border, the *)
(* sets of suites, and Java.                                               *)
(*                                                                         *)
(* IdBucket, for every set of objects, every initial size and every bound  *)
(* on growth: the types, NoRoomIsLost, FillCounts, and that the bucket     *)
(* implements HandleTable.  NoRoomIsLost is not inductive: that the head   *)
(* is Nil says nothing about the cells unless the links from the head pass *)
(* through every free cell.  So the invariant has a witness, the order     *)
(* "at" in which the list visits the free cells.                           *)
(*                                                                         *)
(* CppBindings, for every set of handles, of places for objects and of     *)
(* classes whose table is as TableAssumption says: the types, ObjectsOwn   *)
(* and AssertsHold.  No assertion fails because the parts of the objects   *)
(* that hold a handle and the live handles match one to one (Matched),     *)
(* from the first bsInit to the last bsShutdown; before, no handle is      *)
(* live, and after it no handle is valid.                                  *)
(*                                                                         *)
(* SuiteSet, for every width: EachSuiteOnce.  What clearing one bit does   *)
(* to the quotients by the others is arithmetic (NumberLemmas).            *)
(*                                                                         *)
(* Proofs about JniBridge, for every set of callback data, every bound on  *)
(* the calls within calls and every relation of who calls back within      *)
(* what: SignalsFollowSide, HeldIsLive and DataAccounted; and CallbackPins *)
(* for those in which, but for bsBubbleInstantCreate, no function that     *)
(* pins an array is called back from.                                      *)
(*                                                                         *)
(* None of them is inductive.  One saved mask serves all depths because    *)
(* the two sides take turns on the stack (Turns).  Deleting the data of a  *)
(* callback that returns is safe because that data is on the stack once    *)
(* and no longer held (OnceRunning), keeping it loses nothing because the  *)
(* ML side still has it or was told to forget it (OftenKnown); and that    *)
(* every function is of one of these kinds is read off the table of        *)
(* functions (Kinds).                                                      *)
(*                                                                         *)
(* Proofs about JniAsync, for any number of threads that hand over tasks   *)
(* and any number of main loops started and stopped: EachTaskOnce and      *)
(* WakeupPending.                                                          *)
(*                                                                         *)
(* Neither is inductive.  A task runs once because it is in the queue at   *)
(* most once, and those before `next` are the ones that have run           *)
(* (QueueInv); whether somebody is about to look into a queue with tasks   *)
(* does not depend on a main loop that runs (Pending), and has to hold     *)
(* also while there is none, for the next one that starts.                 *)
(***************************************************************************)
EXTENDS MCBindings, NumberLemmas, SequenceTheorems

(* IdBucket. *)
\* at[1], ..., at[n] are the free cells of t in the order of the list at f.
Linked(t, f, n, at) ==
    /\ at \in [1 .. n -> DOMAIN t]
    /\ \A k \in 1 .. n : t[at[k]] = FREE(IF k = n THEN Nil ELSE at[k + 1])
    /\ \A i \in DOMAIN t : t[i].tag = "FREE" => \E k \in 1 .. n : at[k] = i
    /\ \A j, k \in 1 .. n : at[j] = at[k] => j = k
    /\ f = IF n = 0 THEN Nil ELSE at[1]

FreeList == \E n \in Nat : \E at \in [1 .. n -> DOMAIN table] : Linked(table, free, n, at)

\* The domain is a range; its size is what the code calls the length.
Sized == \E m \in Nat \ {0} : DOMAIN table = 0 .. m - 1

Typed ==
    /\ \A i \in DOMAIN table : table[i] \in Cells
    /\ fill \in Int /\ result \in Int

IInv == Sized /\ Typed /\ FreeList /\ FillCounts

-----------------------------------------------------------------------------
\* The size of a range of indices.
LEMMA RangeSize ==
    ASSUME NEW m \in Nat
    PROVE  IsFiniteSet(0 .. m - 1) /\ Cardinality(0 .. m - 1) = m
BY FS_Interval

\* What the invariant says of the length.
LEMMA LengthIs ==
    ASSUME Sized
    PROVE  /\ Length \in Nat \ {0}
           /\ DOMAIN table = 0 .. Length - 1
           /\ IsFiniteSet(DOMAIN table)
BY RangeSize DEF Sized, Length

\* A fresh table is one chain of all its cells.
LEMMA EmptyLinked ==
    ASSUME NEW n \in Nat \ {0}
    PROVE  Linked([i \in 0 .. n - 1 |-> freeTail(n, i)], 0, n,
                  [k \in 1 .. n |-> k - 1])
<1> DEFINE t == [i \in 0 .. n - 1 |-> freeTail(n, i)]
           at == [k \in 1 .. n |-> k - 1]
<1>1. at \in [1 .. n -> DOMAIN t]
  OBVIOUS
<1>2. \A k \in 1 .. n : t[at[k]] = FREE(IF k = n THEN Nil ELSE at[k + 1])
  BY DEF freeTail
<1>3. \A i \in DOMAIN t : \E k \in 1 .. n : at[k] = i
  <2> SUFFICES ASSUME NEW i \in 0 .. n - 1
               PROVE  \E k \in 1 .. n : at[k] = i
    OBVIOUS
  <2>1. i + 1 \in 1 .. n /\ at[i + 1] = i
    OBVIOUS
  <2> QED BY <2>1
<1>4. \A j, k \in 1 .. n : at[j] = at[k] => j = k
  OBVIOUS
<1> QED BY <1>1, <1>2, <1>3, <1>4 DEF Linked

\* A full table that is doubled has the chain of its new half.
LEMMA GrownLinked ==
    ASSUME Sized, FreeCells = {}, \A i \in DOMAIN table : table[i] \in Cells
    PROVE  Linked(Grown, Length, Length, [k \in 1 .. Length |-> Length + k - 1])
<1> DEFINE L == Length
           at == [k \in 1 .. L |-> L + k - 1]
<1>0. L \in Nat \ {0} /\ DOMAIN table = 0 .. L - 1
  BY LengthIs
<1>a. DOMAIN Grown = 0 .. 2 * L - 1
  BY DEF Grown
<1>b. \A i \in 0 .. 2 * L - 1 :
         Grown[i] = IF i < L THEN table[i] ELSE freeTail(2 * L, i)
  BY DEF Grown
<1> HIDE DEF L
<1>1. at \in [1 .. L -> DOMAIN Grown]
  BY <1>0, <1>a
<1>2. \A k \in 1 .. L : Grown[at[k]] = FREE(IF k = L THEN Nil ELSE at[k + 1])
  BY <1>0, <1>b DEF freeTail
<1>3. ASSUME NEW i \in DOMAIN Grown, Grown[i].tag = "FREE"
      PROVE  \E k \in 1 .. L : at[k] = i
  <2>1. i >= L
    BY <1>0, <1>a, <1>b, <1>3 DEF FreeCells
  <2>2. i - L + 1 \in 1 .. L /\ at[i - L + 1] = i
    BY <1>0, <1>a, <2>1
  <2> QED BY <2>2
<1>4. \A j, k \in 1 .. L : at[j] = at[k] => j = k
  BY <1>0
<1>5. Length = IF Length = 0 THEN Nil ELSE at[1]
  BY <1>0 DEF L
<1> QED BY <1>1, <1>2, <1>3, <1>4, <1>5 DEF Linked, L

\* The listed cells are free.
LEMMA LinkedFree ==
    ASSUME NEW t, NEW f, NEW n \in Nat, NEW at, Linked(t, f, n, at)
    PROVE  \A k \in 1 .. n : at[k] \in DOMAIN t /\ t[at[k]].tag = "FREE"
<1>1. \A e : FREE(e).tag = "FREE"
  BY DEF FREE
<1>2. \A k \in 1 .. n : \E e : t[at[k]] = FREE(e)
  BY DEF Linked
<1> QED BY <1>1, <1>2 DEF Linked

\* Taking the head leaves the rest of the list.
LEMMA PopLinked ==
    ASSUME NEW t, NEW f, NEW n \in Nat \ {0}, NEW at, NEW x, Linked(t, f, n, at),
           NEW u, u = [t EXCEPT ![f] = FULL(x)]
    PROVE  /\ f \in DOMAIN t
           /\ t[f].tag = "FREE"
           /\ \E b : Linked(u, t[f].next, n - 1, b)
<1> DEFINE b == [k \in 1 .. n - 1 |-> at[k + 1]]
<1>0. f = at[1] /\ f \in DOMAIN t
  BY DEF Linked
<1>1. t[f] = FREE(IF n = 1 THEN Nil ELSE at[2])
  BY <1>0 DEF Linked
<1>2. t[f].tag = "FREE" /\ t[f].next = IF n = 1 THEN Nil ELSE at[2]
  BY <1>1 DEF FREE
<1>3. DOMAIN u = DOMAIN t /\ u[f].tag = "FULL"
  BY <1>0 DEF FULL
<1>4. \A i \in DOMAIN t : i # f => u[i] = t[i]
  OBVIOUS
<1>5. b \in [1 .. n - 1 -> DOMAIN u]
  BY <1>3 DEF Linked
<1>6. \A k \in 1 .. n - 1 : b[k] # f
  BY <1>0 DEF Linked
<1>7. ASSUME NEW k \in 1 .. n - 1
      PROVE  u[b[k]] = FREE(IF k = n - 1 THEN Nil ELSE b[k + 1])
  <2>1. u[b[k]] = t[at[k + 1]]
    BY <1>4, <1>6, <1>5, <1>3
  <2>2. t[at[k + 1]] = FREE(IF k + 1 = n THEN Nil ELSE at[k + 2])
    BY DEF Linked
  <2>3. k # n - 1 => b[k + 1] = at[k + 2]
    OBVIOUS
  <2> QED BY <2>1, <2>2, <2>3
<1>8. ASSUME NEW i \in DOMAIN u, u[i].tag = "FREE"
      PROVE  \E k \in 1 .. n - 1 : b[k] = i
  <2>1. i # f /\ t[i].tag = "FREE"
    BY <1>3, <1>4, <1>8
  <2>2. PICK k \in 1 .. n : at[k] = i
    BY <1>3, <2>1 DEF Linked
  <2>3. k # 1
    BY <1>0, <2>1, <2>2
  <2>4. k - 1 \in 1 .. n - 1 /\ b[k - 1] = i
    BY <2>2, <2>3
  <2> QED BY <2>4
<1>9. \A j, k \in 1 .. n - 1 : b[j] = b[k] => j = k
  <2>1. \A j, k \in 1 .. n - 1 : at[j + 1] = at[k + 1] => j + 1 = k + 1
    BY DEF Linked
  <2> QED BY <2>1
<1>10. t[f].next = IF n - 1 = 0 THEN Nil ELSE b[1]
  BY <1>2
<1>11. Linked(u, t[f].next, n - 1, b)
  BY <1>5, <1>7, <1>8, <1>9, <1>10 DEF Linked
<1> QED BY <1>0, <1>2, <1>11

\* Giving a full cell back puts it in front.
LEMMA PushLinked ==
    ASSUME NEW t, NEW f, NEW n \in Nat, NEW at, NEW i \in DOMAIN t,
           t[i].tag = "FULL", Linked(t, f, n, at), NEW u, u = [t EXCEPT ![i] = FREE(f)]
    PROVE  \E b : Linked(u, i, n + 1, b)
<1> DEFINE b == [k \in 1 .. n + 1 |-> IF k = 1 THEN i ELSE at[k - 1]]
<1>1. \A k \in 1 .. n : at[k] \in DOMAIN t /\ at[k] # i
  <2>1. \A k \in 1 .. n : t[at[k]].tag = "FREE"
    BY LinkedFree
  <2> QED BY <2>1 DEF Linked
<1>2. DOMAIN u = DOMAIN t /\ u[i] = FREE(f) /\ \A j \in DOMAIN t : j # i => u[j] = t[j]
  OBVIOUS
<1>3. b \in [1 .. n + 1 -> DOMAIN u]
  BY <1>1, <1>2
<1>4. ASSUME NEW k \in 1 .. n + 1
      PROVE  u[b[k]] = FREE(IF k = n + 1 THEN Nil ELSE b[k + 1])
  <2>1. CASE k = 1
    <3>1. f = IF n = 0 THEN Nil ELSE b[2]
      BY DEF Linked
    <3> QED BY <1>2, <2>1, <3>1
  <2>2. CASE k # 1
    <3>1. k - 1 \in 1 .. n /\ b[k] = at[k - 1]
      BY <2>2
    <3>2. u[b[k]] = t[at[k - 1]]
      BY <1>1, <1>2, <3>1
    <3>3. t[at[k - 1]] = FREE(IF k - 1 = n THEN Nil ELSE at[k])
      BY <3>1 DEF Linked
    <3>4. k # n + 1 => b[k + 1] = at[k]
      BY <2>2
    <3> QED BY <3>2, <3>3, <3>4
  <2> QED BY <2>1, <2>2
<1>5. ASSUME NEW j \in DOMAIN u, u[j].tag = "FREE"
      PROVE  \E k \in 1 .. n + 1 : b[k] = j
  <2>1. CASE j = i
    <3>1. 1 \in 1 .. n + 1 /\ b[1] = j
      BY <2>1
    <3> QED BY <3>1
  <2>2. CASE j # i
    <3>1. PICK k \in 1 .. n : at[k] = j
      BY <1>2, <1>5, <2>2 DEF Linked
    <3>2. k + 1 \in 1 .. n + 1 /\ b[k + 1] = j
      BY <3>1
    <3> QED BY <3>2
  <2> QED BY <2>1, <2>2
<1>6. ASSUME NEW j \in 1 .. n + 1, NEW k \in 1 .. n + 1, b[j] = b[k]
      PROVE  j = k
  <2>1. CASE j = 1 \/ k = 1
    BY <1>1, <1>6, <2>1
  <2>2. CASE j # 1 /\ k # 1
    <3>1. j - 1 \in 1 .. n /\ k - 1 \in 1 .. n /\ at[j - 1] = at[k - 1]
      BY <1>6, <2>2
    <3>2. j - 1 = k - 1
      BY <3>1 DEF Linked
    <3> QED BY <3>2
  <2> QED BY <2>1, <2>2
<1>7. i = IF n + 1 = 0 THEN Nil ELSE b[1]
  OBVIOUS
<1>8. Linked(u, i, n + 1, b)
  BY <1>3, <1>4, <1>5, <1>6, <1>7 DEF Linked
<1> QED BY <1>8

\* A full cell may change its value.
LEMMA ReplaceLinked ==
    ASSUME NEW t, NEW f, NEW n \in Nat, NEW at, NEW i \in DOMAIN t, NEW x,
           t[i].tag = "FULL", Linked(t, f, n, at)
    PROVE  Linked([t EXCEPT ![i] = FULL(x)], f, n, at)
<1> DEFINE u == [t EXCEPT ![i] = FULL(x)]
<1>1. DOMAIN u = DOMAIN t /\ u[i].tag = "FULL" /\ \A j \in DOMAIN t : j # i => u[j] = t[j]
  BY DEF FULL
<1>2. \A k \in 1 .. n : at[k] \in DOMAIN t /\ at[k] # i
  <2>1. \A k \in 1 .. n : t[at[k]].tag = "FREE"
    BY LinkedFree
  <2> QED BY <2>1 DEF Linked
<1>3. \A k \in 1 .. n : u[at[k]] = t[at[k]]
  BY <1>1, <1>2
<1>4. \A j \in DOMAIN u : u[j].tag = "FREE" => t[j].tag = "FREE"
  BY <1>1
<1> QED BY <1>1, <1>3, <1>4 DEF Linked

-----------------------------------------------------------------------------
\* The invariant says what NoRoomIsLost needs: with free cells the head is
\* one of them, without it is Nil.
LEMMA HeadIsFree ==
    ASSUME Sized, FreeList
    PROVE  NoRoomIsLost
<1>1. PICK n \in Nat : \E at \in [1 .. n -> DOMAIN table] : Linked(table, free, n, at)
  BY DEF FreeList
<1>2. PICK at : Linked(table, free, n, at)
  BY <1>1
<1>3. CASE n = 0
  <2>1. FreeCells = {}
    BY <1>2, <1>3 DEF Linked, FreeCells
  <2>2. free = Nil
    BY <1>2, <1>3 DEF Linked
  <2> QED BY <2>1, <2>2 DEF NoRoomIsLost
<1>4. CASE n # 0
  <2>1. 1 \in 1 .. n /\ free = at[1]
    BY <1>2, <1>4 DEF Linked
  <2>2. free \in FreeCells
    BY <1>2, <2>1, LinkedFree DEF FreeCells
  <2> QED BY <2>2 DEF NoRoomIsLost
<1> QED BY <1>3, <1>4

\* A witness for FreeList of the next state.
LEMMA ListAgain ==
    ASSUME NEW n \in Nat, NEW at, Linked(table', free', n, at)
    PROVE  FreeList'
BY DEF FreeList, Linked

LEMMA ListNow ==
    ASSUME NEW n \in Nat, NEW at, Linked(table, free, n, at)
    PROVE  FreeList
BY DEF FreeList, Linked

\* A refused call keeps the invariant.
LEMMA SameBucket ==
    ASSUME IInv, UNCHANGED <<table, free, fill>>, result' \in Int
    PROVE  IInv'
<1>1. Sized' /\ Typed'
  BY DEF IInv, Sized, Typed
<1>2. FreeList'
  BY DEF IInv, FreeList
<1>3. FillCounts'
  BY DEF IInv, FillCounts, FullCells
<1> QED BY <1>1, <1>2, <1>3 DEF IInv

\* The table alloc works on: doubled or not, it has a list with a head.
LEMMA TableReady ==
    ASSUME IInv
    PROVE  /\ \E m \in Nat \ {0} : DOMAIN TableFor = 0 .. m - 1
           /\ \A i \in DOMAIN TableFor : TableFor[i] \in Cells
           /\ \E n \in Nat \ {0} : \E at : Linked(TableFor, HeadFor, n, at)
           /\ {i \in DOMAIN TableFor : TableFor[i].tag = "FULL"} = FullCells
           /\ \A i \in FullCells : TableFor[i] = table[i]
<1>1. CASE free = Nil
  <2>0. TableFor = Grown /\ HeadFor = Length
    BY <1>1 DEF TableFor, HeadFor
  <2>1. Length \in Nat \ {0} /\ DOMAIN table = 0 .. Length - 1
    BY LengthIs DEF IInv
  <2>2. FreeCells = {}
    <3>1. NoRoomIsLost
      BY HeadIsFree DEF IInv
    <3>2. Nil \notin FreeCells
      BY <2>1 DEF FreeCells, Nil
    <3> QED BY <1>1, <3>1, <3>2 DEF NoRoomIsLost
  <2>3. Linked(Grown, Length, Length, [k \in 1 .. Length |-> Length + k - 1])
    BY <2>2, GrownLinked DEF IInv, Typed
  <2>4. DOMAIN Grown = 0 .. 2 * Length - 1 /\ 2 * Length \in Nat \ {0}
    BY <2>1 DEF Grown
  <2>5. \A i \in DOMAIN table : Grown[i] = table[i]
    BY <2>1 DEF Grown
  <2>6. \A i \in DOMAIN Grown : i \notin DOMAIN table =>
            \E e \in Int : Grown[i] = FREE(e)
    <3> SUFFICES ASSUME NEW i \in DOMAIN Grown, i \notin DOMAIN table
                 PROVE  \E e \in Int : Grown[i] = FREE(e)
      OBVIOUS
    <3>1. i \in Int /\ ~ (i < Length)
      BY <2>1, <2>4
    <3>2. Grown[i] = freeTail(2 * Length, i)
      BY <2>4, <3>1 DEF Grown
    <3>3. (IF i = 2 * Length - 1 THEN Nil ELSE i + 1) \in Int
      BY <3>1 DEF Nil
    <3> QED BY <3>2, <3>3 DEF freeTail
  <2>7. \A e \in Int : FREE(e) \in Cells /\ FREE(e).tag # "FULL"
    BY DEF FREE, Cells
  <2>8. \A i \in DOMAIN Grown : Grown[i] \in Cells
    BY <2>5, <2>6, <2>7 DEF IInv, Typed
  <2>9. {i \in DOMAIN Grown : Grown[i].tag = "FULL"} = FullCells
    <3>1. DOMAIN table \subseteq DOMAIN Grown
      BY <2>1, <2>4
    <3> QED BY <2>5, <2>6, <2>7, <3>1 DEF FullCells
  <2> QED BY <2>0, <2>1, <2>3, <2>4, <2>5, <2>8, <2>9 DEF FullCells
<1>2. CASE free # Nil
  <2>0. TableFor = table /\ HeadFor = free
    BY <1>2 DEF TableFor, HeadFor
  <2>1. PICK n \in Nat : \E at \in [1 .. n -> DOMAIN table] : Linked(table, free, n, at)
    BY DEF IInv, FreeList
  <2>2. n # 0
    BY <1>2, <2>1 DEF Linked
  <2> QED BY <2>0, <2>1, <2>2 DEF IInv, Sized, Typed, FullCells
<1> QED BY <1>1, <1>2

\* A full cell more: the domain, the cells, the list, the count.
LEMMA AllocStep ==
    ASSUME IInv, NEW x \in Values, alloc(x)
    PROVE  /\ IInv'
           /\ HeadFor \notin FullCells
           /\ FullCells' = FullCells \cup {HeadFor}
           /\ table'[HeadFor].value = x
           /\ \A i \in FullCells : table'[i] = table[i]
           /\ result' = HeadFor
<1>1. PICK n \in Nat \ {0} : \E at : Linked(TableFor, HeadFor, n, at)
  BY TableReady
<1>2. PICK at : Linked(TableFor, HeadFor, n, at)
  BY <1>1
<1>3. /\ HeadFor \in DOMAIN TableFor
      /\ TableFor[HeadFor].tag = "FREE"
      /\ \E b : Linked(table', TableFor[HeadFor].next, n - 1, b)
  BY <1>2, PopLinked DEF alloc
<1>4. table' = [TableFor EXCEPT ![HeadFor] = FULL(x)] /\ free' = TableFor[HeadFor].next
      /\ fill' = fill + 1 /\ result' = HeadFor
  BY DEF alloc
<1>5. DOMAIN table' = DOMAIN TableFor
  BY <1>4
<1>6. FULL(x) \in Cells /\ FULL(x).tag = "FULL" /\ FULL(x).value = x
  BY DEF FULL, Cells
<1>7. table'[HeadFor] = FULL(x) /\ \A i \in DOMAIN TableFor : i # HeadFor => table'[i] = TableFor[i]
  BY <1>3, <1>4
<1>8. Sized'
  BY <1>5, TableReady DEF Sized
<1>9. HeadFor \notin FullCells
  BY <1>3, TableReady
<1>10. FullCells' = FullCells \cup {HeadFor}
  BY <1>3, <1>5, <1>6, <1>7, TableReady DEF FullCells
<1>11. \A i \in FullCells : table'[i] = table[i]
  BY <1>7, <1>9, TableReady
<1>12. Typed'
  <2>1. HeadFor \in Int
    BY <1>3, TableReady
  <2> QED BY <1>4, <1>5, <1>6, <1>7, <2>1, TableReady DEF IInv, Typed
<1>13. FreeList'
  <2>1. n - 1 \in Nat
    OBVIOUS
  <2> QED BY <1>3, <1>4, <2>1, ListAgain
<1>14. FillCounts'
  <2>1. IsFiniteSet(FullCells)
    BY LengthIs, FS_Subset DEF IInv, FullCells
  <2>2. Cardinality(FullCells \cup {HeadFor}) = Cardinality(FullCells) + 1
    BY <1>9, <2>1, FS_AddElement
  <2> QED BY <1>4, <1>10, <2>2 DEF IInv, FillCounts
<1> QED BY <1>4, <1>6, <1>7, <1>8, <1>9, <1>10, <1>11, <1>12, <1>13, <1>14 DEF IInv

\* A full cell less.
LEMMA FreeStep ==
    ASSUME IInv, NEW i \in FullCells,
           table' = [table EXCEPT ![i] = FREE(free)], free' = i,
           fill' = fill - 1, result' = Done
    PROVE  /\ IInv'
           /\ FullCells' = FullCells \ {i}
           /\ \A j \in FullCells \ {i} : table'[j] = table[j]
<1>0. i \in DOMAIN table /\ table[i].tag = "FULL"
  BY DEF FullCells
<1>1. PICK n \in Nat : \E at \in [1 .. n -> DOMAIN table] : Linked(table, free, n, at)
  BY DEF IInv, FreeList
<1>2. PICK at : Linked(table, free, n, at)
  BY <1>1
<1>3. \E b : Linked(table', i, n + 1, b)
  BY <1>0, <1>2, PushLinked
<1>4. DOMAIN table' = DOMAIN table /\ table'[i] = FREE(free)
      /\ \A j \in DOMAIN table : j # i => table'[j] = table[j]
  BY <1>0
<1>5. free \in Int
  <2>1. NoRoomIsLost
    BY HeadIsFree DEF IInv
  <2> QED BY <2>1 DEF NoRoomIsLost, FreeCells, IInv, Sized, Nil
<1>6. FREE(free) \in Cells /\ FREE(free).tag # "FULL"
  BY <1>5 DEF FREE, Cells
<1>7. FullCells' = FullCells \ {i}
  BY <1>0, <1>4, <1>6 DEF FullCells
<1>8. Sized' /\ Typed'
  BY <1>4, <1>6 DEF IInv, Sized, Typed, Done
<1>9. FreeList'
  <2>1. n + 1 \in Nat
    OBVIOUS
  <2> QED BY <1>3, <2>1, ListAgain
<1>10. FillCounts'
  <2>1. IsFiniteSet(FullCells)
    BY LengthIs, FS_Subset DEF IInv, FullCells
  <2>2. Cardinality(FullCells \ {i}) = Cardinality(FullCells) - 1
    BY <2>1, FS_RemoveElement
  <2> QED BY <1>7, <2>2 DEF IInv, FillCounts
<1>11. \A j \in FullCells \ {i} : table'[j] = table[j]
  BY <1>4 DEF FullCells
<1> QED BY <1>7, <1>8, <1>9, <1>10, <1>11 DEF IInv

\* A full cell with another value.
LEMMA ReplaceStep ==
    ASSUME IInv, NEW i \in FullCells, NEW x \in Values, replace(i, x)
    PROVE  /\ IInv'
           /\ FullCells' = FullCells
           /\ table'[i].value = x
           /\ \A j \in FullCells : j # i => table'[j] = table[j]
<1>0. i \in DOMAIN table /\ table[i].tag = "FULL"
  BY DEF FullCells
<1>1. PICK n \in Nat : \E at \in [1 .. n -> DOMAIN table] : Linked(table, free, n, at)
  BY DEF IInv, FreeList
<1>2. PICK at : Linked(table, free, n, at)
  BY <1>1
<1>3. table' = [table EXCEPT ![i] = FULL(x)] /\ free' = free /\ fill' = fill /\ result' = Done
  BY DEF replace
<1>4. Linked(table', free', n, at)
  BY <1>0, <1>2, <1>3, ReplaceLinked
<1>5. DOMAIN table' = DOMAIN table /\ table'[i] = FULL(x)
      /\ \A j \in DOMAIN table : j # i => table'[j] = table[j]
  BY <1>0, <1>3
<1>6. FULL(x) \in Cells /\ FULL(x).tag = "FULL" /\ FULL(x).value = x
  BY DEF FULL, Cells
<1>7. FullCells' = FullCells
  BY <1>0, <1>5, <1>6 DEF FullCells
<1>8. Sized' /\ Typed'
  BY <1>3, <1>5, <1>6 DEF IInv, Sized, Typed, Done
<1>9. FreeList'
  BY <1>4, ListAgain
<1>10. FillCounts'
  BY <1>3, <1>7 DEF IInv, FillCounts
<1>11. \A j \in FullCells : j # i => table'[j] = table[j]
  BY <1>5 DEF FullCells
<1> QED BY <1>5, <1>6, <1>7, <1>8, <1>9, <1>10, <1>11 DEF IInv

\* A fresh table satisfies the invariant.
LEMMA FreshTable ==
    ASSUME table = EmptyTable, free = 0, fill = 0, result = Done
    PROVE  IInv /\ FullCells = {}
<1>0. InitialSize \in Nat \ {0}
  BY SizeAssumption
<1>1. DOMAIN table = 0 .. InitialSize - 1
      /\ \A i \in DOMAIN table : \E e \in Int : table[i] = FREE(e)
  <2> SUFFICES ASSUME NEW i \in 0 .. InitialSize - 1
               PROVE  \E e \in Int : EmptyTable[i] = FREE(e)
    BY DEF EmptyTable
  <2>1. (IF i = InitialSize - 1 THEN Nil ELSE i + 1) \in Int
    BY <1>0 DEF Nil
  <2> QED BY <2>1 DEF EmptyTable, freeTail
<1>2. \A e \in Int : FREE(e) \in Cells /\ FREE(e).tag # "FULL"
  BY DEF FREE, Cells
<1>3. FullCells = {}
  BY <1>1, <1>2 DEF FullCells
<1>4. Sized /\ Typed
  BY <1>0, <1>1, <1>2 DEF Sized, Typed, Done
<1>5. FreeList
  <2>1. Linked(table, free, InitialSize, [k \in 1 .. InitialSize |-> k - 1])
    BY <1>0, EmptyLinked DEF EmptyTable
  <2> QED BY <1>0, <2>1, ListNow
<1>6. FillCounts
  BY <1>3, FS_EmptySet DEF FillCounts
<1> QED BY <1>3, <1>4, <1>5, <1>6 DEF IInv

\* The same of the next state: clear makes it fresh again.
LEMMA ClearStep ==
    ASSUME clear
    PROVE  IInv' /\ FullCells' = {} /\ result' = Done
<1>0. table' = EmptyTable /\ free' = 0 /\ fill' = 0 /\ result' = Done
  BY DEF clear
<1>1. InitialSize \in Nat \ {0}
  BY SizeAssumption
<1>2. DOMAIN EmptyTable = 0 .. InitialSize - 1
      /\ \A i \in DOMAIN EmptyTable : \E e \in Int : EmptyTable[i] = FREE(e)
  <2> SUFFICES ASSUME NEW i \in 0 .. InitialSize - 1
               PROVE  \E e \in Int : EmptyTable[i] = FREE(e)
    BY DEF EmptyTable
  <2>1. (IF i = InitialSize - 1 THEN Nil ELSE i + 1) \in Int
    BY <1>1 DEF Nil
  <2> QED BY <2>1 DEF EmptyTable, freeTail
<1>3. \A e \in Int : FREE(e) \in Cells /\ FREE(e).tag # "FULL"
  BY DEF FREE, Cells
<1>4. FullCells' = {}
  BY <1>0, <1>2, <1>3 DEF FullCells
<1>5. Sized' /\ Typed'
  BY <1>0, <1>1, <1>2, <1>3 DEF Sized, Typed, Done
<1>6. FreeList'
  <2>1. Linked(table', free', InitialSize, [k \in 1 .. InitialSize |-> k - 1])
    BY <1>0, <1>1, EmptyLinked DEF EmptyTable
  <2> QED BY <1>1, <2>1, ListAgain
<1>7. FillCounts'
  BY <1>0, <1>4, FS_EmptySet DEF FillCounts
<1> QED BY <1>0, <1>4, <1>5, <1>6, <1>7 DEF IInv

\* Store before and after, from what the steps say of the full cells.
LEMMA CreateStep ==
    ASSUME IInv, NEW x \in Values, alloc(x)
    PROVE  Abstract!Create(x)
<1>1. /\ HeadFor \notin FullCells
      /\ FullCells' = FullCells \cup {HeadFor}
      /\ table'[HeadFor].value = x
      /\ \A i \in FullCells : table'[i] = table[i]
      /\ result' = HeadFor
  BY AllocStep
<1>2. DOMAIN Store = FullCells /\ DOMAIN Store' = FullCells'
  BY DEF Store
<1>3. Store' = [y \in FullCells \cup {HeadFor} |-> IF y = HeadFor THEN x ELSE Store[y]]
  BY <1>1 DEF Store
<1>4. HeadFor \in DOMAIN Store' \ DOMAIN Store
  BY <1>1, <1>2
<1> QED BY <1>1, <1>2, <1>3, <1>4 DEF Abstract!Create

\* Every step keeps the invariant and is a step of the abstract table.
LEMMA NextStep ==
    ASSUME IInv, Next
    PROVE  IInv' /\ Abstract!HNext
<1>0. DOMAIN Store = FullCells /\ \A i \in FullCells : Store[i] = table[i].value /\ Store[i] \in Values
  <2>1. \A i \in FullCells : table[i] \in [tag : {"FULL"}, value : Values]
    BY DEF FullCells, IInv, Typed, Cells
  <2> QED BY <2>1 DEF Store
<1>1. ASSUME NEW x \in Values, alloc(x)
      PROVE  IInv' /\ Abstract!HNext
  BY <1>1, AllocStep, CreateStep DEF Abstract!HNext
<1>2. ASSUME NEW i \in Tried, dup(i)
      PROVE  IInv' /\ Abstract!HNext
  <2>1. CASE i \in FullCells /\ alloc(table[i].value)
    <3>1. Store[i] = table[i].value /\ Store[i] \in Values /\ i \in DOMAIN Store
      BY <1>0, <2>1
    <3>2. IInv' /\ Abstract!Create(Store[i])
      BY <2>1, <3>1, AllocStep, CreateStep
    <3> QED BY <3>1, <3>2 DEF Abstract!HNext, Abstract!Duplicate
  <2>2. CASE i \notin FullCells /\ result' = Invalid /\ UNCHANGED <<table, free, fill>>
    <3>1. IInv'
      BY <2>2, SameBucket DEF Invalid
    <3>2. Store' = Store
      BY <2>2 DEF Store, FullCells
    <3>3. Abstract!Duplicate
      BY <2>2, <3>2 DEF Abstract!Duplicate, Invalid, Abstract!Invalid
    <3> QED BY <3>1, <3>3 DEF Abstract!HNext
  <2> QED BY <1>2, <2>1, <2>2 DEF dup
<1>3. ASSUME NEW i \in Tried, freeId(i)
      PROVE  IInv' /\ Abstract!HNext
  <2>1. CASE i \in FullCells /\ table' = [table EXCEPT ![i] = FREE(free)] /\ free' = i
             /\ fill' = fill - 1 /\ result' = Done
    <3>1. IInv' /\ FullCells' = FullCells \ {i}
          /\ \A j \in FullCells \ {i} : table'[j] = table[j]
      BY <2>1, FreeStep
    <3>2. Store' = [y \in DOMAIN Store \ {i} |-> Store[y]]
      BY <3>1 DEF Store
    <3>3. Abstract!Release
      BY <1>0, <2>1, <3>2 DEF Abstract!Release, Done, Abstract!Done
    <3> QED BY <3>1, <3>3 DEF Abstract!HNext
  <2>2. CASE i \notin FullCells /\ result' = Invalid /\ UNCHANGED <<table, free, fill>>
    <3>1. IInv'
      BY <2>2, SameBucket DEF Invalid
    <3>2. Store' = Store
      BY <2>2 DEF Store, FullCells
    <3>3. Abstract!Release
      BY <2>2, <3>2 DEF Abstract!Release, Invalid, Abstract!Invalid
    <3> QED BY <3>1, <3>3 DEF Abstract!HNext
  <2> QED BY <1>3, <2>1, <2>2 DEF freeId
<1>4. ASSUME NEW i \in Tried, NEW x \in Values, replace(i, x)
      PROVE  IInv' /\ Abstract!HNext
  <2>1. i \in FullCells /\ result' = Done
    BY <1>4 DEF replace
  <2>2. IInv' /\ FullCells' = FullCells /\ table'[i].value = x
        /\ \A j \in FullCells : j # i => table'[j] = table[j]
    BY <1>4, <2>1, ReplaceStep
  <2>3. Store' = [Store EXCEPT ![i] = x]
    BY <2>1, <2>2 DEF Store
  <2>4. Abstract!Redirect
    BY <1>0, <2>1, <2>3 DEF Abstract!Redirect, Done, Abstract!Done
  <2> QED BY <2>2, <2>4 DEF Abstract!HNext
<1>5. ASSUME clear
      PROVE  IInv' /\ Abstract!HNext
  <2>1. IInv' /\ FullCells' = {} /\ result' = Done
    BY <1>5, ClearStep
  <2>2. Store' = [h \in {} |-> Abstract!Invalid]
    BY <2>1 DEF Store
  <2> QED BY <2>1, <2>2 DEF Abstract!HNext, Abstract!Forget, Done, Abstract!Done
<1> QED BY <1>1, <1>2, <1>3, <1>4, <1>5 DEF Next

\* A step that changes nothing.
LEMMA StutterStep ==
    ASSUME IInv, UNCHANGED bVars
    PROVE  IInv' /\ UNCHANGED Abstract!hVars
<1>1. IInv'
  BY SameBucket DEF bVars, IInv, Typed
<1>2. Store' = Store
  BY DEF bVars, Store, FullCells
<1> QED BY <1>1, <1>2 DEF bVars, Abstract!hVars

\* The invariant is one.
THEOREM BucketInvariant == Spec => []IInv
<1>1. Init => IInv
  BY FreshTable DEF Init
<1>2. IInv /\ [Next]_bVars => IInv'
  BY NextStep, StutterStep
<1> QED BY <1>1, <1>2, PTL DEF Spec

(***************************************************************************)
(* alloc never doubles a table with room, nor meets a full cell at the     *)
(* head of the free list, whatever calls came before.                      *)
(***************************************************************************)
THEOREM RoomIsFound == Spec => []NoRoomIsLost
<1>1. IInv => NoRoomIsLost
  BY HeadIsFree DEF IInv
<1> QED BY <1>1, BucketInvariant, PTL

\* The count of handles in use is right.
THEOREM FillIsTrue == Spec => []FillCounts
<1>1. IInv => FillCounts
  BY DEF IInv
<1> QED BY <1>1, BucketInvariant, PTL

(***************************************************************************)
(* The bucket implements the table of handles: a live handle keeps its     *)
(* object until it is freed or replaced, and is given to nobody else.      *)
(***************************************************************************)
THEOREM BucketKeepsHandles == Spec => Promise
<1>1. Init => Abstract!HInit
  <2> SUFFICES ASSUME Init PROVE Abstract!HInit
    OBVIOUS
  <2>1. FullCells = {} /\ result = Done
    BY FreshTable DEF Init
  <2>2. Store = [h \in {} |-> Abstract!Invalid]
    BY <2>1 DEF Store
  <2> QED BY <2>1, <2>2 DEF Abstract!HInit, Done, Abstract!Done
<1>2. IInv /\ [Next]_bVars => [Abstract!HNext]_Abstract!hVars
  BY NextStep, StutterStep
<1> QED BY <1>1, <1>2, BucketInvariant, PTL DEF Spec, Promise, Abstract!HSpec
-----------------------------------------------------------------------------
(* The objects of CppBindings. *)

\* The parts of the objects q that hold a handle, and the bucket and handle.
Holds(q) ==
    {f \in Slots \X (1 .. 3) :
        f[2] \in DOMAIN q[f[1]].h /\ q[f[1]].h[f[2]] # None}
Owned(q, f) == <<Parts(q[f[1]].class)[f[2]], q[f[1]].h[f[2]]>>

\* Every handle of L is held by one part, and what is held is in L.
Matched(q, L) ==
    /\ \A f \in Holds(q) : Owned(q, f) \in L
    /\ \A x \in L : \E f \in Holds(q) : Owned(q, f) = x
    /\ \A f, g \in Holds(q) : Owned(q, f) = Owned(q, g) => f = g

HoldsAt(q, T) == {f \in Holds(q) : f[1] \in T}
OwnedAt(q, T) == {Owned(q, f) : f \in HoldsAt(q, T)}
Apart(q, T) == \A f, g \in HoldsAt(q, T) : Owned(q, f) = Owned(q, g) => f = g

Whole(o) ==
    o.class # "Channel" =>
        \/ \A i \in DOMAIN o.h : o.h[i] = None
        \/ \A i \in DOMAIN o.h : o.h[i] # None

\* The objects q of a program whose library is at stage and has handed out L.
Sound(q, L, stage) ==
    /\ q \in [Slots -> Objects \cup {Nothing}]
    /\ \A s \in Slots : Whole(q[s])
    /\ stage # "closed" => Matched(q, L)

CInv ==
    /\ FreesItsOwn
    /\ CTypeOK
    /\ Sound(objs, live, library)
    /\ library = "new" => live = {}
    /\ AssertsHold
-----------------------------------------------------------------------------
(* The table. *)

LEMMA ClassParts ==
    ASSUME NEW c \in Classes
    PROVE  /\ \E n \in 1 .. 3 : DOMAIN Parts(c) = 1 .. n
           /\ DOMAIN Parts(c) \subseteq 1 .. 3
           /\ Described(c)
<1>1. Described(c)
  BY TableAssumption
<1>2. PICK n \in 1 .. 3 : DOMAIN Parts(c) = 1 .. n
  BY <1>1 DEF Described
<1> QED BY <1>1, <1>2

\* An object of one of the classes.
LEMMA ObjectIs ==
    ASSUME NEW q \in [Slots -> Objects \cup {Nothing}], NEW s \in Slots,
           q[s] # Nothing
    PROVE  /\ q[s].class \in Classes
           /\ q[s].h \in [DOMAIN Parts(q[s].class) -> Handles \cup {None}]
           /\ q[s].frame \in 0 .. MaxDepth
           /\ q[s] = Object(q[s].class, q[s].h, q[s].frame)
<1>1. q[s] \in Objects
  OBVIOUS
<1>2. PICK c \in Classes :
         q[s] \in [class : {c}, h : [DOMAIN Parts(c) -> Handles \cup {None}],
                   frame : 0 .. MaxDepth]
  BY <1>1 DEF Objects
<1> QED BY <1>2 DEF Object

LEMMA NothingHolds ==
    ASSUME NEW q, NEW f \in Holds(q)
    PROVE  q[f[1]] # Nothing
<1>1. Nothing.h = <<>>
  BY DEF Nothing, Object
<1>2. DOMAIN Nothing.h = {}
  BY <1>1
<1> QED BY <1>2 DEF Holds

\* The parts of one object.
LEMMA HeldAt ==
    ASSUME NEW q \in [Slots -> Objects \cup {Nothing}], NEW t \in Slots,
           q[t] # Nothing
    PROVE  /\ OwnedAt(q, {t}) = New(q[t].class, q[t].h)
           /\ Apart(q, {t})
<1> DEFINE c == q[t].class
           h == q[t].h
<1>1. c \in Classes /\ h \in [DOMAIN Parts(c) -> Handles \cup {None}]
  BY ObjectIs
<1>2. DOMAIN Parts(c) \subseteq 1 .. 3 /\ Described(c)
  BY <1>1, ClassParts
<1>3. \A f \in HoldsAt(q, {t}) :
         /\ f = <<t, f[2]>> /\ f[2] \in DOMAIN h /\ h[f[2]] # None
         /\ Owned(q, f) = <<Parts(c)[f[2]], h[f[2]]>>
  BY DEF HoldsAt, Holds, Owned
<1>4. \A i \in DOMAIN h : h[i] # None =>
         /\ <<t, i>> \in HoldsAt(q, {t})
         /\ Owned(q, <<t, i>>) = <<Parts(c)[i], h[i]>>
  BY <1>1, <1>2 DEF HoldsAt, Holds, Owned
<1>5. OwnedAt(q, {t}) = New(c, h)
  <2>1. \A x \in OwnedAt(q, {t}) : x \in New(c, h)
    <3> SUFFICES ASSUME NEW f \in HoldsAt(q, {t})
                 PROVE  Owned(q, f) \in New(c, h)
      BY DEF OwnedAt
    <3> QED BY <1>3 DEF New
  <2>2. \A x \in New(c, h) : x \in OwnedAt(q, {t})
    <3> SUFFICES ASSUME NEW i \in DOMAIN h, h[i] # None
                 PROVE  <<Parts(c)[i], h[i]>> \in OwnedAt(q, {t})
      BY DEF New
    <3>1. <<t, i>> \in HoldsAt(q, {t})
      BY <1>4
    <3>2. Owned(q, <<t, i>>) = <<Parts(c)[i], h[i]>>
      BY <1>4
    <3> HIDE DEF c, h
    <3> QED BY <3>1, <3>2 DEF OwnedAt
  <2> QED BY <2>1, <2>2
<1>6. Apart(q, {t})
  <2> SUFFICES ASSUME NEW f \in HoldsAt(q, {t}), NEW g \in HoldsAt(q, {t}),
                      Owned(q, f) = Owned(q, g)
               PROVE  f = g
    BY DEF Apart
  <2>1. Parts(c)[f[2]] = Parts(c)[g[2]]
    <3>1. <<Parts(c)[f[2]], h[f[2]]>> = <<Parts(c)[g[2]], h[g[2]]>>
      BY <1>3
    <3> HIDE DEF c, h
    <3> QED BY <3>1
  <2>2. f[2] = g[2]
    <3>1. f[2] \in DOMAIN Parts(c) /\ g[2] \in DOMAIN Parts(c)
      BY <1>1, <1>3
    <3>2. \A i, j \in DOMAIN Parts(c) : Parts(c)[i] = Parts(c)[j] => i = j
      BY <1>2 DEF Described
    <3> HIDE DEF c, h
    <3> QED BY <2>1, <3>1, <3>2
  <2> QED BY <1>3, <2>2
<1> QED BY <1>5, <1>6
-----------------------------------------------------------------------------
\* Replacing the objects in T: their handles go, those of the new ones come.
LEMMA ReplaceMatched ==
    ASSUME NEW o, NEW q, NEW T, NEW L, Matched(o, L),
           \A s \in Slots \ T : q[s] = o[s],
           OwnedAt(q, T) \cap L = {}, Apart(q, T)
    PROVE  Matched(q, (L \cup OwnedAt(q, T)) \ OwnedAt(o, T))
<1> DEFINE M == (L \cup OwnedAt(q, T)) \ OwnedAt(o, T)
<1>1. \A f \in Holds(q) : f[1] \notin T => f \in Holds(o) /\ Owned(q, f) = Owned(o, f)
  BY DEF Holds, Owned
<1>2. \A f \in Holds(o) : f[1] \notin T => f \in Holds(q) /\ Owned(q, f) = Owned(o, f)
  BY DEF Holds, Owned
<1>3. OwnedAt(o, T) \subseteq L
  BY DEF OwnedAt, HoldsAt, Matched
<1>4. \A f \in Holds(q) : f[1] \in T => Owned(q, f) \in OwnedAt(q, T)
  BY DEF OwnedAt, HoldsAt
<1>5. \A f \in Holds(o) : f[1] \notin T => Owned(o, f) \notin OwnedAt(o, T)
  BY DEF OwnedAt, HoldsAt, Matched
<1>6. \A f \in Holds(q) : Owned(q, f) \in M
  BY <1>1, <1>3, <1>4, <1>5 DEF Matched
<1>7. ASSUME NEW x \in M
      PROVE  \E f \in Holds(q) : Owned(q, f) = x
  <2>1. CASE x \in OwnedAt(q, T)
    BY <2>1 DEF OwnedAt, HoldsAt
  <2>2. CASE x \in L
    <3>1. PICK f \in Holds(o) : Owned(o, f) = x
      BY <2>2 DEF Matched
    <3>2. f[1] \notin T
      BY <3>1 DEF OwnedAt, HoldsAt
    <3> QED BY <1>2, <3>1, <3>2
  <2> QED BY <2>1, <2>2
<1>8. ASSUME NEW f \in Holds(q), NEW g \in Holds(q), Owned(q, f) = Owned(q, g)
      PROVE  f = g
  <2>1. CASE f[1] \in T /\ g[1] \in T
    BY <1>8, <2>1 DEF Apart, HoldsAt
  <2>2. CASE f[1] \notin T /\ g[1] \notin T
    BY <1>1, <1>8, <2>2 DEF Matched
  <2>3. CASE f[1] \in T /\ g[1] \notin T
    BY <1>1, <1>4, <1>8, <2>3 DEF Matched
  <2>4. CASE f[1] \notin T /\ g[1] \in T
    BY <1>1, <1>4, <1>8, <2>4 DEF Matched
  <2> QED BY <2>1, <2>2, <2>3, <2>4
<1> QED BY <1>6, <1>7, <1>8 DEF Matched

\* What the destructors of the objects in T free.
LEMMA FreedIs ==
    ASSUME CInv, NEW T \in SUBSET Slots
    PROVE  /\ library = "open" => Freed(T) = OwnedAt(objs, T)
           /\ library # "open" => Freed(T) = {}
           /\ Frees(T)
<1>1. CASE library # "open"
  <2>1. ToFree(T) = {}
    BY <1>1 DEF ToFree, IS_VALID_HANDLE
  <2> QED BY <1>1, <2>1 DEF Freed, Frees
<1>2. CASE library = "open"
  <2>1. Sound(objs, live, library) /\ Matched(objs, live)
    BY <1>2 DEF CInv, Sound
  <2>2. ToFree(T) = HoldsAt(objs, T)
    BY <1>2 DEF ToFree, IS_VALID_HANDLE, HoldsAt, Holds
  <2>3. ASSUME NEW f \in HoldsAt(objs, T)
        PROVE  Handle(f) = Owned(objs, f)
    <3>1. f[1] \in Slots /\ objs[f[1]] # Nothing
      BY NothingHolds DEF HoldsAt, Holds
    <3>2. objs[f[1]].class \in Classes
      BY <2>1, <3>1, ObjectIs DEF Sound
    <3>3. Table[objs[f[1]].class].frees = Parts(objs[f[1]].class)
      BY <3>2 DEF CInv, FreesItsOwn
    <3> QED BY <3>3 DEF Handle, Owned
  <2>4. Freed(T) = OwnedAt(objs, T)
    BY <2>2, <2>3 DEF Freed, OwnedAt
  <2>5. OwnedAt(objs, T) \subseteq live
    BY <2>1 DEF Matched, OwnedAt, HoldsAt
  <2>6. \A f, g \in ToFree(T) : Handle(f) = Handle(g) => f = g
    BY <2>1, <2>2, <2>3 DEF Matched, HoldsAt
  <2> QED BY <1>2, <2>4, <2>5, <2>6 DEF Frees
<1> QED BY <1>1, <1>2

\* A step that replaces the objects in T by others with fresh handles.
LEMMA ReplaceSound ==
    ASSUME CInv, NEW T \in SUBSET Slots,
           NEW q \in [Slots -> Objects \cup {Nothing}],
           \A s \in Slots \ T : q[s] = objs[s],
           \A s \in T : Whole(q[s]),
           OwnedAt(q, T) \cap live = {}, Apart(q, T),
           library = "open" \/ OwnedAt(q, T) = {}
    PROVE  /\ Sound(q, (live \cup OwnedAt(q, T)) \ Freed(T), library)
           /\ library = "new" => (live \cup OwnedAt(q, T)) \ Freed(T) = {}
<1>1. Sound(objs, live, library)
  BY DEF CInv
<1>2. \A s \in Slots : Whole(q[s])
  BY <1>1 DEF Sound
<1>3. ASSUME library # "closed"
      PROVE  Matched(q, (live \cup OwnedAt(q, T)) \ Freed(T))
  <2>1. Matched(objs, live)
    BY <1>1, <1>3 DEF Sound
  <2>2. Matched(q, (live \cup OwnedAt(q, T)) \ OwnedAt(objs, T))
    BY <2>1, ReplaceMatched
  <2>3. Freed(T) = OwnedAt(objs, T)
    <3>1. CASE library = "open"
      BY <3>1, FreedIs
    <3>2. CASE library = "new"
      <4>1. live = {}
        BY <3>2 DEF CInv
      <4>2. OwnedAt(objs, T) = {}
        BY <2>1, <4>1 DEF Matched, OwnedAt, HoldsAt
      <4> QED BY <3>2, <4>2, FreedIs
    <3> QED BY <1>3, <3>1, <3>2 DEF CInv, CTypeOK
  <2> QED BY <2>2, <2>3
<1>4. library = "new" => (live \cup OwnedAt(q, T)) \ Freed(T) = {}
  BY DEF CInv
<1> QED BY <1>2, <1>3, <1>4 DEF Sound
-----------------------------------------------------------------------------
(* One object is replaced by one with fresh handles. *)

\* The handles h may be given to a new object of class c.
Fits(c, h) ==
    /\ c \in Classes
    /\ h \in [DOMAIN Parts(c) -> Handles \cup {None}]
    /\ \A i \in DOMAIN h : h[i] # None =>
          library = "open" /\ h[i] \in Fresh(Parts(c)[i])
    /\ Whole(Object(c, h, 0))

\* An object is one of the objects.
LEMMA ObjectTyped ==
    ASSUME NEW c \in Classes, NEW fr \in 0 .. MaxDepth,
           NEW h \in [DOMAIN Parts(c) -> Handles \cup {None}]
    PROVE  /\ Object(c, h, fr) \in Objects
           /\ Object(c, h, fr) # Nothing
           /\ Object(c, h, fr).class = c /\ Object(c, h, fr).h = h
<1>1. Object(c, h, fr).class = c /\ Object(c, h, fr).h = h
  BY DEF Object
<1>2. Object(c, h, fr) \in Objects
  BY DEF Object, Objects
<1>3. 1 \in DOMAIN h
  BY ClassParts
<1>4. Nothing.h = <<>> /\ DOMAIN Nothing.h = {}
  BY DEF Nothing, Object
<1>5. Object(c, h, fr) # Nothing
  BY <1>1, <1>3, <1>4
<1> QED BY <1>1, <1>2, <1>5

LEMMA PutSound ==
    ASSUME CInv, NEW t \in Slots, NEW c, NEW h, NEW fr \in 0 .. MaxDepth,
           Fits(c, h), NEW q, q = [objs EXCEPT ![t] = Object(c, h, fr)]
    PROVE  /\ Sound(q, (live \cup New(c, h)) \ Freed({t}), library)
           /\ library = "new" => (live \cup New(c, h)) \ Freed({t}) = {}
           /\ \A x \in New(c, h) : x[2] \in Handles
<1>1. objs \in [Slots -> Objects \cup {Nothing}]
  BY DEF CInv, Sound
<1>2. c \in Classes /\ h \in [DOMAIN Parts(c) -> Handles \cup {None}]
  BY DEF Fits
<1>3. q \in [Slots -> Objects \cup {Nothing}] /\ q[t] = Object(c, h, fr)
  BY <1>1, <1>2, ObjectTyped
<1>4. q[t] # Nothing /\ q[t].class = c /\ q[t].h = h
  BY <1>2, <1>3, ObjectTyped
<1>5. OwnedAt(q, {t}) = New(c, h) /\ Apart(q, {t})
  BY <1>3, <1>4, HeldAt
<1>6. Whole(q[t])
  <2>1. Object(c, h, 0).class = c /\ Object(c, h, 0).h = h
    BY DEF Object
  <2> QED BY <1>4, <2>1 DEF Fits, Whole
<1>7. New(c, h) \cap live = {}
  BY DEF Fits, Fresh, New
<1>8. library = "open" \/ New(c, h) = {}
  BY DEF Fits, New
<1>9. \A x \in New(c, h) : x[2] \in Handles
  BY <1>2 DEF New
<1>10. \A s \in Slots \ {t} : q[s] = objs[s]
  BY <1>1
<1>11. {t} \in SUBSET Slots /\ \A s \in {t} : Whole(q[s])
  BY <1>6
<1> QED BY <1>3, <1>5, <1>7, <1>8, <1>9, <1>10, <1>11, ReplaceSound

\* Nothing is freed of an unused slot.
LEMMA UnusedFrees ==
    ASSUME CInv, NEW t \in Unused
    PROVE  Freed({t}) = {}
<1>1. objs[t] = Nothing
  BY DEF Unused, Used
<1>2. Nothing.h = <<>> /\ DOMAIN Nothing.h = {}
  BY DEF Nothing, Object
<1>3. ToFree({t}) = {}
  BY <1>1, <1>2 DEF ToFree
<1> QED BY <1>3 DEF Freed

\* What the invariant needs of a step that puts an object somewhere.
LEMMA PutStep ==
    ASSUME CInv, NEW t \in Unused, NEW c, NEW h, Fits(c, h),
           objs' = [objs EXCEPT ![t] = Object(c, h, 0)],
           live' = live \cup New(c, h),
           UNCHANGED <<depth, openCounter, library, failed>>
    PROVE  CInv'
<1>0. t \in Slots /\ 0 \in 0 .. MaxDepth
  BY TableAssumption DEF Unused
<1>1. PICK q : q = [objs EXCEPT ![t] = Object(c, h, 0)]
  OBVIOUS
<1>2. Freed({t}) = {}
  BY UnusedFrees
<1>3. /\ Sound(q, (live \cup New(c, h)) \ Freed({t}), library)
      /\ library = "new" => (live \cup New(c, h)) \ Freed({t}) = {}
      /\ \A x \in New(c, h) : x[2] \in Handles
  BY <1>0, <1>1, PutSound
<1>4. /\ Sound(q, live \cup New(c, h), library)
      /\ library = "new" => live \cup New(c, h) = {}
  <2>1. (live \cup New(c, h)) \ Freed({t}) = live \cup New(c, h)
    BY <1>2
  <2> QED BY <1>3, <2>1
<1>5. Sound(objs, live, library)'
  BY <1>1, <1>4 DEF Sound, Matched, Holds, Owned
<1>6. CTypeOK'
  BY <1>1, <1>3, <1>4 DEF CInv, CTypeOK, Sound
<1> QED BY <1>4, <1>5, <1>6 DEF CInv, AssertsHold, FreesItsOwn

\* Soundness is of the objects and handles, whatever state they are in.
LEMMA SoundNext ==
    ASSUME NEW q, NEW L, NEW stage, Sound(q, L, stage),
           objs' = q, live' = L, library' = stage
    PROVE  Sound(objs, live, library)'
BY DEF Sound, Matched, Holds, Owned

\* Empty handles fit any class.
LEMMA NonesFit ==
    ASSUME NEW c \in Classes
    PROVE  Fits(c, Nones(c)) /\ New(c, Nones(c)) = {}
<1>1. /\ Nones(c) \in [DOMAIN Parts(c) -> Handles \cup {None}]
      /\ \A i \in DOMAIN Parts(c) : Nones(c)[i] = None
  BY DEF Nones
<1>2. Whole(Object(c, Nones(c), 0))
  BY <1>1 DEF Whole, Object
<1> QED BY <1>1, <1>2 DEF Fits, New

\* The handles the ML side gives fit.
LEMMA GivenFit ==
    ASSUME NEW c \in Classes, library = "open", NEW h \in Given(c)
    PROVE  Fits(c, h)
<1>1. /\ h \in [DOMAIN Parts(c) -> Handles \cup {None}]
      /\ \A i \in DOMAIN h :
            IF h[i] = None THEN c = "Channel" /\ i = 2
            ELSE h[i] \in Fresh(Parts(c)[i])
  BY DEF Given
<1>2. Whole(Object(c, h, 0))
  BY <1>1 DEF Whole, Object
<1> QED BY <1>1, <1>2 DEF Fits

\* A copy of a whole object, also of a base class, is whole.
LEMMA CopiedFit ==
    ASSUME CInv, NEW s \in Used, NEW as \in Classes,
           as \in Views(objs[s].class), NEW h \in Copied(objs[s], as)
    PROVE  Fits(as, h)
<1> DEFINE c == objs[s].class
           v == Viewed(objs[s], as)
<1>1. /\ h \in [DOMAIN Parts(as) -> Handles \cup {None}]
      /\ \A i \in DOMAIN h :
            IF IS_VALID_HANDLE(v[i])
            THEN h[i] \in Fresh(Parts(as)[i]) ELSE h[i] = None
  BY DEF Copied
<1>2. \A i \in DOMAIN h : h[i] # None =>
         library = "open" /\ h[i] \in Fresh(Parts(as)[i])
  BY <1>1 DEF IS_VALID_HANDLE
<1>3. /\ c \in Classes
      /\ objs[s].h \in [DOMAIN Parts(c) -> Handles \cup {None}]
  BY ObjectIs DEF CInv, Sound, Used
<1>4. Described(c) /\ (as = c \/ as \in Table[c].bases)
  BY <1>3, ClassParts DEF Views
<1>5. ASSUME as # "Channel"
      PROVE  (\A i \in DOMAIN h : h[i] = None) \/ (\A i \in DOMAIN h : h[i] # None)
  <2>1. CASE c = "Channel"
    <3>1. DOMAIN h = {1}
      BY <1>1, <1>4, <1>5, <2>1 DEF Described
    <3> QED BY <3>1
  <2>2. CASE c # "Channel"
    <3>1. (\A i \in DOMAIN Parts(c) : objs[s].h[i] = None)
             \/ (\A i \in DOMAIN Parts(c) : objs[s].h[i] # None)
      BY <1>3, <2>2 DEF CInv, Sound, Whole, Used
    <3>2. ASSUME NEW i \in DOMAIN Parts(as)
          PROVE  \E j \in DOMAIN Parts(c) : v[i] = objs[s].h[j]
      <4>1. \E j \in DOMAIN Parts(c) : Parts(c)[j] = Parts(as)[i]
        BY <1>4 DEF Described
      <4>2. Part(c, Parts(as)[i]) \in DOMAIN Parts(c)
        BY <4>1 DEF Part
      <4> QED BY <4>2 DEF Viewed
    <3>3. (\A i \in DOMAIN h : v[i] = None) \/ (\A i \in DOMAIN h : v[i] # None)
      BY <1>1, <3>1, <3>2
    <3>4. \A i \in DOMAIN h : h[i] \in Fresh(Parts(as)[i]) => h[i] # None
      BY TableAssumption DEF Fresh
    <3> HIDE DEF v
    <3> QED BY <1>1, <3>3, <3>4 DEF IS_VALID_HANDLE
  <2> QED BY <2>1, <2>2
<1>6. Whole(Object(as, h, 0))
  BY <1>5 DEF Whole, Object
<1> QED BY <1>1, <1>2, <1>6 DEF Fits
-----------------------------------------------------------------------------
(* The steps. *)

LEMMA CInitInv == ASSUME FreesItsOwn PROVE CInit => CInv
<1> SUFFICES ASSUME CInit PROVE CInv
  OBVIOUS
<1>1. objs \in [Slots -> Objects \cup {Nothing}]
  BY DEF CInit
<1>2. Holds(objs) = {}
  BY NothingHolds DEF CInit, Holds
<1>3. Nothing.h = <<>> /\ DOMAIN Nothing.h = {}
  BY DEF Nothing, Object
<1>4. \A s \in Slots : Whole(objs[s])
  BY <1>3 DEF CInit, Whole
<1>5. Matched(objs, live)
  BY <1>2 DEF CInit, Matched
<1>6. CTypeOK
  BY <1>1, TableAssumption DEF CInit, CTypeOK
<1>7. AssertsHold
  BY DEF CInit, AssertsHold, None
<1> QED BY <1>1, <1>4, <1>5, <1>6, <1>7 DEF CInit, CInv, Sound

LEMMA OpenStep == CInv /\ (bsInit \/ bsShutdown) => CInv'
<1> SUFFICES ASSUME CInv, bsInit \/ bsShutdown PROVE CInv'
  OBVIOUS
<1>0. /\ openCounter \in 0 .. MaxOpens /\ MaxOpens \in Nat
      /\ library \in {"new", "open", "closed"}
  BY TableAssumption DEF CInv, CTypeOK
<1>1. CASE bsInit
  <2>1. /\ library # "closed" /\ library' = "open" /\ objs' = objs
        /\ live' = live /\ failed' = failed /\ depth' = depth
        /\ openCounter' \in 0 .. MaxOpens
    BY <1>0, <1>1 DEF bsInit
  <2>2. Sound(objs, live, library)'
    BY <2>1 DEF CInv, Sound, Matched, Holds, Owned
  <2> QED BY <2>1, <2>2 DEF CInv, CTypeOK, AssertsHold, FreesItsOwn
<1>2. CASE bsShutdown
  <2>1. /\ objs' = objs /\ failed' = failed /\ depth' = depth
        /\ openCounter' \in 0 .. MaxOpens
        /\ (library' = "closed" /\ live' = {}) \/ (library' = library /\ live' = live)
    BY <1>0, <1>2 DEF bsShutdown
  <2>2. Sound(objs, live, library)'
    BY <2>1 DEF CInv, Sound, Matched, Holds, Owned
  <2> QED BY <2>1, <2>2 DEF CInv, CTypeOK, AssertsHold, FreesItsOwn
<1> QED BY <1>1, <1>2

LEMMA DeclareStep ==
    ASSUME CInv, NEW s \in Slots, NEW c \in Classes, Declare(s, c)
    PROVE  CInv'
<1>1. s \in Unused /\ objs' = [objs EXCEPT ![s] = Object(c, Nones(c), 0)]
  BY DEF Declare
<1>2. Fits(c, Nones(c)) /\ live' = live \cup New(c, Nones(c))
  BY NonesFit DEF Declare
<1> QED BY <1>1, <1>2, PutStep DEF Declare

\* Every handle that a valid object shows, also as a base class, is live.
LEMMA ViewedLive ==
    ASSUME CInv, NEW s \in Used, NEW as \in Classes, as \in Views(objs[s].class),
           NEW i \in DOMAIN Parts(as), IS_VALID_HANDLE(Viewed(objs[s], as)[i])
    PROVE  <<Parts(as)[i], Viewed(objs[s], as)[i]>> \in live
<1> DEFINE c == objs[s].class
           j == Part(c, Parts(as)[i])
<1>1. /\ c \in Classes
      /\ objs[s].h \in [DOMAIN Parts(c) -> Handles \cup {None}]
  BY ObjectIs DEF CInv, Sound, Used
<1>2. Described(c) /\ (as = c \/ as \in Table[c].bases)
  BY <1>1, ClassParts DEF Views
<1>3. \E k \in DOMAIN Parts(c) : Parts(c)[k] = Parts(as)[i]
  BY <1>2 DEF Described
<1>4. j \in DOMAIN Parts(c) /\ Parts(c)[j] = Parts(as)[i]
  BY <1>3 DEF Part
<1>5. Viewed(objs[s], as)[i] = objs[s].h[j]
  BY DEF Viewed
<1>6. library = "open" /\ objs[s].h[j] # None
  BY <1>5 DEF IS_VALID_HANDLE
<1>7. Matched(objs, live)
  BY <1>6 DEF CInv, Sound
<1>8. s \in Slots /\ DOMAIN Parts(c) \subseteq 1 .. 3
  BY <1>1, ClassParts DEF Used
<1> HIDE DEF j
<1>9. <<s, j>> \in Holds(objs) /\ Owned(objs, <<s, j>>) = <<Parts(c)[j], objs[s].h[j]>>
  BY <1>1, <1>4, <1>6, <1>8 DEF Holds, Owned
<1>10. <<Parts(c)[j], objs[s].h[j]>> \in live
  BY <1>7, <1>9 DEF Matched
<1> QED BY <1>4, <1>5, <1>10

LEMMA AllKnown ==
    ASSUME CInv, NEW s \in Used, NEW as \in Classes, as \in Views(objs[s].class)
    PROVE  Known(objs[s], as)
BY ViewedLive DEF Known

\* What is passed to a function is live.
LEMMA PassedLive ==
    ASSUME CInv, NEW c \in InPlay
    PROVE  Passed(c) \subseteq live
<1> DEFINE n == Len(Parts(c))
<1> SUFFICES ASSUME NEW s \in Used, c \in Views(objs[s].class),
                    IS_VALID_HANDLE(Viewed(objs[s], c)[n])
             PROVE  <<Parts(c)[n], Viewed(objs[s], c)[n]>> \in live
  BY DEF Passed
<1>1. objs[s].class \in Classes
  BY ObjectIs DEF CInv, Sound, Used
<1>2. c \in Classes /\ n \in DOMAIN Parts(c)
  <2>1. Parts(c) # <<>>
    <3>1. CASE c = objs[s].class
      BY <1>1, <3>1 DEF Classes
    <3>2. CASE c \in Table[objs[s].class].bases
      BY <1>1, <3>2, ClassParts DEF Described
    <3> QED BY <3>1, <3>2 DEF Views
  <2>2. c \in Classes
    BY <2>1 DEF Classes
  <2> QED BY <2>2, ClassParts DEF Described
<1> HIDE DEF n
<1> QED BY <1>2, ViewedLive

LEMMA RefusedStep ==
    ASSUME CInv, NEW c \in InPlay, Refused(c)
    PROVE  CInv'
<1>1. PICK f \in Table[c].refuses : Fail(f)
  BY PassedLive DEF Refused
<1>2. f \notin {"free", "handle"}
  BY TableAssumption
<1>3. AssertsHold'
  BY <1>1, <1>2 DEF Fail, AssertsHold
<1>4. Sound(objs, live, library)'
  BY <1>1 DEF CInv, Fail, Sound, Matched, Holds, Owned
<1> QED BY <1>1, <1>3, <1>4 DEF CInv, CTypeOK, Fail

LEMMA CopyStep ==
    ASSUME CInv, NEW s \in Slots, NEW t \in Slots, NEW as \in Classes,
           Copy(s, t, as)
    PROVE  CInv'
<1>1. PICK h \in Copied(objs[s], as) :
         /\ objs' = [objs EXCEPT ![t] = Object(as, h, 0)]
         /\ live' = live \cup New(as, h)
         /\ UNCHANGED <<depth, openCounter, library, failed>>
  BY AllKnown DEF Copy
<1>2. Fits(as, h) /\ t \in Unused
  BY CopiedFit DEF Copy
<1> QED BY <1>1, <1>2, PutStep

LEMMA InvokeStep ==
    ASSUME CInv, NEW c \in InPlay, NEW f \in Calls(c), NEW t \in Slots,
           Invoke(c, f, t)
    PROVE  CInv'
<1> DEFINE g == Function(c, f).gives
<1>1. PICK h \in Given(g) \cup (IF Function(c, f).empty THEN {Nones(g)} ELSE {}) :
         /\ objs' = [objs EXCEPT ![t] = Object(g, h, 0)]
         /\ live' = live \cup New(g, h)
  BY DEF Invoke
<1>2. g \in Classes /\ t \in Unused /\ library = "open"
  BY DEF Invoke, Callable
<1>3. Fits(g, h)
  BY <1>1, <1>2, GivenFit, NonesFit
<1> QED BY <1>1, <1>2, <1>3, PutStep DEF Invoke

LEMMA RaiseStep ==
    ASSUME CInv, NEW c \in InPlay, NEW t \in Slots, Raise(c, t)
    PROVE  CInv'
<1>1. PICK h \in Given("BSException") :
         /\ objs' = [objs EXCEPT ![t] = Object("BSException", h, 0)]
         /\ live' = live \cup New("BSException", h)
  BY DEF Raise
<1>2. "BSException" \in Classes /\ t \in Unused /\ library = "open"
  BY TableAssumption DEF Raise
<1>3. Fits("BSException", h)
  BY <1>2, GivenFit
<1> QED BY <1>1, <1>2, <1>3, PutStep DEF Raise

LEMMA AssignStep ==
    ASSUME CInv, NEW s \in Slots, NEW t \in Slots, Assign(s, t)
    PROVE  CInv'
<1> DEFINE c == objs[t].class
           fr == objs[t].frame
<1>0. s \in Used /\ t \in Used /\ c \in Views(objs[s].class) /\ Frees({t})
  BY FreedIs DEF Assign
<1>1. PICK h \in Copied(objs[s], c) :
         /\ objs' = [objs EXCEPT ![t].h = h]
         /\ live' = (live \cup New(c, h)) \ Freed({t})
         /\ UNCHANGED <<depth, openCounter, library, failed>>
  BY <1>0, AllKnown, ObjectIs DEF Assign, CInv, Sound, Used
<1>2. /\ c \in Classes /\ fr \in 0 .. MaxDepth
      /\ objs[t] = Object(c, objs[t].h, fr)
  BY <1>0, ObjectIs DEF CInv, Sound, Used
<1>3. [objs[t] EXCEPT !.h = h] = Object(c, h, fr)
  BY <1>2 DEF Object
<1>4. objs' = [objs EXCEPT ![t] = Object(c, h, fr)]
  BY <1>1, <1>3 DEF CInv, Sound
<1>5. Fits(c, h)
  BY <1>0, <1>2, CopiedFit
<1> HIDE DEF c, fr
<1>6. PICK q : q = [objs EXCEPT ![t] = Object(c, h, fr)]
  OBVIOUS
<1>7. /\ Sound(q, (live \cup New(c, h)) \ Freed({t}), library)
      /\ library = "new" => (live \cup New(c, h)) \ Freed({t}) = {}
      /\ \A x \in New(c, h) : x[2] \in Handles
  BY <1>2, <1>5, <1>6, PutSound
<1>8. Sound(objs, live, library)'
  <2>1. PICK L : L = (live \cup New(c, h)) \ Freed({t})
    OBVIOUS
  <2>2. PICK stage : stage = library
    OBVIOUS
  <2> QED BY <1>1, <1>4, <1>6, <1>7, <2>1, <2>2, SoundNext DEF c
<1>9. CTypeOK'
  BY <1>1, <1>4, <1>6, <1>7 DEF CInv, CTypeOK, Sound
<1> QED BY <1>1, <1>7, <1>8, <1>9 DEF CInv, AssertsHold, FreesItsOwn

\* Objects are destroyed.
LEMMA Destroyed ==
    ASSUME CInv, NEW T \in SUBSET Slots,
           objs' = [s \in Slots |-> IF s \in T THEN Nothing ELSE objs[s]],
           live' = live \ Freed(T), depth' \in 0 .. MaxDepth,
           UNCHANGED <<openCounter, library, failed>>
    PROVE  CInv'
<1>1. PICK q : q = [s \in Slots |-> IF s \in T THEN Nothing ELSE objs[s]]
  OBVIOUS
<1>2. /\ q \in [Slots -> Objects \cup {Nothing}]
      /\ \A s \in T : q[s] = Nothing
      /\ \A s \in Slots \ T : q[s] = objs[s]
  BY <1>1 DEF CInv, Sound
<1>3. Nothing.h = <<>> /\ DOMAIN Nothing.h = {}
  BY DEF Nothing, Object
<1>4. \A s \in T : Whole(q[s])
  BY <1>2, <1>3 DEF Whole
<1>5. HoldsAt(q, T) = {}
  BY <1>2, NothingHolds DEF HoldsAt
<1>6. OwnedAt(q, T) = {} /\ Apart(q, T)
  BY <1>5 DEF OwnedAt, Apart
<1>7. /\ Sound(q, (live \cup OwnedAt(q, T)) \ Freed(T), library)
      /\ library = "new" => (live \cup OwnedAt(q, T)) \ Freed(T) = {}
  BY <1>2, <1>4, <1>6, ReplaceSound
<1>8. (live \cup OwnedAt(q, T)) \ Freed(T) = live'
  BY <1>6
<1>9. Sound(objs, live, library)'
  <2>1. PICK L : L = live'
    OBVIOUS
  <2>2. PICK stage : stage = library
    OBVIOUS
  <2> QED BY <1>1, <1>7, <1>8, <2>1, <2>2, SoundNext
<1>10. CTypeOK'
  BY <1>1, <1>2 DEF CInv, CTypeOK
<1> QED BY <1>7, <1>8, <1>9, <1>10 DEF CInv, AssertsHold, FreesItsOwn

LEMMA DestroyStep ==
    ASSUME CInv, NEW s \in Slots, Destroy(s)
    PROVE  CInv'
<1>1. /\ live' = live \ Freed({s}) /\ objs' = [objs EXCEPT ![s] = Nothing]
      /\ UNCHANGED <<depth, openCounter, library, failed>>
  BY FreedIs DEF Destroy
<1>2. objs' = [r \in Slots |-> IF r \in {s} THEN Nothing ELSE objs[r]]
  BY <1>1 DEF CInv, Sound
<1>3. depth' \in 0 .. MaxDepth
  BY <1>1 DEF CInv, CTypeOK
<1> QED BY <1>1, <1>2, <1>3, Destroyed

LEMMA ReturnStep == CInv /\ Return => CInv'
<1> SUFFICES ASSUME CInv, Return PROVE CInv'
  OBVIOUS
<1> DEFINE ends == {s \in Used : objs[s].frame = depth}
<1>0. ends \in SUBSET Slots
  BY DEF Used
<1>1. Frees(ends)
  BY <1>0, FreedIs
<1>2. /\ live' = live \ Freed(ends)
      /\ objs' = [s \in Slots |-> IF s \in ends THEN Nothing ELSE objs[s]]
      /\ depth > 0 /\ depth' = depth - 1
      /\ UNCHANGED <<openCounter, library, failed>>
  BY <1>1 DEF Return
<1>3. depth' \in 0 .. MaxDepth
  BY <1>2, TableAssumption DEF CInv, CTypeOK
<1> HIDE DEF ends
<1> QED BY <1>0, <1>2, <1>3, Destroyed

LEMMA EnterStep ==
    ASSUME CInv, NEW c \in InPlay, NEW given \in Table[c].hands,
           Enter(c, given)
    PROVE  CInv'
<1> DEFINE N == DOMAIN given
<1>1. PICK at \in [N -> Unused], h \in [N -> Handles] :
         /\ \A i, j \in N : i # j => at[i] # at[j]
         /\ \A i \in N : h[i] \in Fresh(Parts(given[i])[1])
         /\ objs' = [s \in Slots |->
                IF \E i \in N : at[i] = s
                THEN LET i == CHOOSE j \in N : at[j] = s
                     IN  Object(given[i], <<h[i]>>, depth + 1)
                ELSE objs[s]]
         /\ live' = live \cup {<<Parts(given[i])[1], h[i]>> : i \in N}
  BY DEF Enter
<1>2. /\ library = "open" /\ depth < MaxDepth /\ depth' = depth + 1
      /\ UNCHANGED <<openCounter, library, failed>>
      /\ \A i \in N : given[i] \in Classes
  BY DEF Enter
<1>3. \A i \in N : DOMAIN Parts(given[i]) = {1}
  BY <1>2, TableAssumption DEF HandsOne
<1>4. \A i, j \in N : Parts(given[i])[1] = Parts(given[j])[1] => i = j
  BY <1>2, TableAssumption DEF HandsOne
<1>5. depth + 1 \in 0 .. MaxDepth
  BY <1>2, TableAssumption DEF CInv, CTypeOK
<1> DEFINE T == {at[i] : i \in N}
<1>6. PICK q : q = objs'
  OBVIOUS
<1>7. T \in SUBSET Slots /\ \A s \in T : objs[s] = Nothing
  BY <1>1 DEF Unused, Used
<1>8. \A s \in Slots \ T : q[s] = objs[s]
  BY <1>1, <1>6
<1>9. \A i \in N : at[i] \in Slots
  BY <1>7
<1>10. ASSUME NEW i \in N
       PROVE  q[at[i]] = Object(given[i], <<h[i]>>, depth + 1)
  <2>1. (CHOOSE j \in N : at[j] = at[i]) = i
    BY <1>1
  <2> QED BY <1>1, <1>6, <1>9, <2>1
<1>11. \A i \in N : <<h[i]>> \in [DOMAIN Parts(given[i]) -> Handles \cup {None}]
  BY <1>1, <1>3
<1>12. ASSUME NEW i \in N
       PROVE  /\ q[at[i]] \in Objects
              /\ q[at[i]].class = given[i] /\ q[at[i]].h = <<h[i]>>
              /\ DOMAIN q[at[i]].h = {1} /\ q[at[i]].h[1] = h[i]
  <2>1. given[i] \in Classes
    BY <1>2
  <2>2. <<h[i]>> \in [DOMAIN Parts(given[i]) -> Handles \cup {None}]
    BY <1>11
  <2>3. DOMAIN <<h[i]>> = {1} /\ <<h[i]>>[1] = h[i]
    OBVIOUS
  <2> QED BY <1>5, <1>10, <2>1, <2>2, <2>3, ObjectTyped
<1>13. q \in [Slots -> Objects \cup {Nothing}]
  <2>1. q = [s \in Slots |-> q[s]]
    BY <1>1, <1>6
  <2>2. \A s \in Slots : q[s] \in Objects \cup {Nothing}
    BY <1>8, <1>12 DEF CInv, Sound
  <2> QED BY <2>1, <2>2
<1>14. \A s \in T : Whole(q[s])
  BY <1>12 DEF Whole
<1>15. \A i \in N : h[i] # None
  BY <1>1, TableAssumption
<1>16. ASSUME NEW i \in N
       PROVE  /\ <<at[i], 1>> \in HoldsAt(q, T)
              /\ Owned(q, <<at[i], 1>>) = <<Parts(given[i])[1], h[i]>>
  BY <1>9, <1>12, <1>15 DEF HoldsAt, Holds, Owned
<1>17. ASSUME NEW f \in HoldsAt(q, T)
       PROVE  \E i \in N : f = <<at[i], 1>>
  <2>1. PICK i \in N : f[1] = at[i]
    BY DEF HoldsAt
  <2>2. f \in Slots \X (1 .. 3) /\ f[2] \in DOMAIN q[at[i]].h
    BY <2>1 DEF HoldsAt, Holds
  <2> QED BY <1>12, <2>1, <2>2
<1>18. OwnedAt(q, T) = {<<Parts(given[i])[1], h[i]>> : i \in N}
  <2> DEFINE W == {<<Parts(given[i])[1], h[i]>> : i \in N}
  <2>1. ASSUME NEW i \in N
        PROVE  <<Parts(given[i])[1], h[i]>> \in OwnedAt(q, T)
    <3>1. PICK f : f = <<at[i], 1>>
      OBVIOUS
    <3>2. f \in HoldsAt(q, T) /\ Owned(q, f) = <<Parts(given[i])[1], h[i]>>
      BY <1>16, <3>1
    <3> HIDE DEF T
    <3> QED BY <3>2 DEF OwnedAt
  <2>2. ASSUME NEW f \in HoldsAt(q, T)
        PROVE  Owned(q, f) \in W
    <3>1. PICK i \in N : f = <<at[i], 1>>
      BY <1>17
    <3> QED BY <1>16, <3>1
  <2>3. W \subseteq OwnedAt(q, T)
    BY <2>1
  <2>4. OwnedAt(q, T) \subseteq W
    <3> HIDE DEF W, T
    <3> QED BY <2>2 DEF OwnedAt
  <2> QED BY <2>3, <2>4
<1>19. Apart(q, T)
  <2> SUFFICES ASSUME NEW f \in HoldsAt(q, T), NEW g \in HoldsAt(q, T),
                      Owned(q, f) = Owned(q, g)
               PROVE  f = g
    BY DEF Apart
  <2>1. PICK i \in N, j \in N : f = <<at[i], 1>> /\ g = <<at[j], 1>>
    BY <1>17
  <2>2. Parts(given[i])[1] = Parts(given[j])[1]
    BY <1>16, <2>1
  <2> QED BY <1>4, <2>1, <2>2
<1>20. OwnedAt(q, T) \cap live = {}
  BY <1>1, <1>18 DEF Fresh
<1>21. /\ Sound(q, (live \cup OwnedAt(q, T)) \ Freed(T), library)
       /\ library = "new" => (live \cup OwnedAt(q, T)) \ Freed(T) = {}
  BY <1>2, <1>7, <1>8, <1>13, <1>14, <1>19, <1>20, ReplaceSound
<1>22. Freed(T) = {}
  <2>1. Nothing.h = <<>> /\ DOMAIN Nothing.h = {}
    BY DEF Nothing, Object
  <2>2. ToFree(T) = {}
    BY <1>7, <2>1 DEF ToFree
  <2> QED BY <2>2 DEF Freed
<1>23. (live \cup OwnedAt(q, T)) \ Freed(T) = live'
  BY <1>1, <1>18, <1>22
<1>24. Sound(objs, live, library)'
  <2>1. PICK L : L = live'
    OBVIOUS
  <2>2. PICK stage : stage = library
    OBVIOUS
  <2> HIDE DEF T
  <2> QED BY <1>2, <1>6, <1>21, <1>23, <2>1, <2>2, SoundNext
<1>25. \A x \in live' : x[2] \in Handles
  BY <1>1 DEF CInv, CTypeOK
<1>26. CTypeOK'
  BY <1>2, <1>5, <1>6, <1>13, <1>25 DEF CInv, CTypeOK
<1> QED BY <1>2, <1>24, <1>26 DEF CInv, AssertsHold, FreesItsOwn
-----------------------------------------------------------------------------
LEMMA CNextInv == CInv /\ [CNext]_cVars => CInv'
<1> SUFFICES ASSUME CInv, [CNext]_cVars PROVE CInv'
  OBVIOUS
<1>1. CASE UNCHANGED cVars
  BY <1>1 DEF cVars, CInv, CTypeOK, Sound, Matched, Holds, Owned, AssertsHold, FreesItsOwn
<1>2. CASE CNext
  <2>1. CASE bsInit \/ bsShutdown
    BY <2>1, OpenStep
  <2>2. CASE \E s \in Slots, c \in Classes : Declare(s, c)
    BY <2>2, DeclareStep
  <2>3. CASE \E s, t \in Slots, c \in Classes : Copy(s, t, c)
    BY <2>3, CopyStep
  <2>4. CASE \E s, t \in Slots : Assign(s, t)
    BY <2>4, AssignStep
  <2>5. CASE \E s \in Slots : Destroy(s)
    BY <2>5, DestroyStep
  <2>6. CASE \E c \in InPlay, t \in Slots :
                \/ \E f \in Calls(c) : Invoke(c, f, t)
                \/ Raise(c, t)
    BY <2>6, InvokeStep, RaiseStep
  <2>7. CASE \E c \in InPlay :
                \/ Refused(c)
                \/ \E given \in Table[c].hands : Enter(c, given)
    BY <2>7, RefusedStep, EnterStep
  <2>8. CASE Return
    BY <2>8, ReturnStep
  <2> QED BY <1>2, <2>1, <2>2, <2>3, <2>4, <2>5, <2>6, <2>7, <2>8 DEF CNext
<1> QED BY <1>1, <1>2

LEMMA CInvHolds == ASSUME FreesItsOwn PROVE CSpec => []CInv
BY CInitInv, CNextInv, PTL DEF CSpec

\* What the invariant says of the owners.
LEMMA CInvOwns == CInv => ObjectsOwn
<1> SUFFICES ASSUME CInv PROVE ObjectsOwn
  OBVIOUS
<1>1. WholeObjects
  BY DEF WholeObjects, CInv, Sound, Whole, Used
<1>2. ASSUME library = "open"
      PROVE  /\ \A x \in live :
                   \E f \in Used \X (1 .. 3) : Owners(x[1], x[2]) = {f}
             /\ \A s \in Used : New(objs[s].class, objs[s].h) \subseteq live
  <2>1. Sound(objs, live, library) /\ Matched(objs, live)
    BY <1>2 DEF CInv, Sound
  <2>2. ASSUME NEW x \in live
        PROVE  \E f \in Used \X (1 .. 3) : Owners(x[1], x[2]) = {f}
    <3>1. PICK f \in Holds(objs) : Owned(objs, f) = x
      BY <2>1 DEF Matched
    <3>2. f \in Used \X (1 .. 3)
      BY NothingHolds DEF Used, Holds
    <3>3. x[2] # None /\ x = <<x[1], x[2]>>
      BY <3>1 DEF Holds, Owned
    <3>4. f \in Owners(x[1], x[2])
      BY <3>1, <3>2 DEF Owners, Owned, Holds
    <3>5. \A g \in Owners(x[1], x[2]) : g \in Holds(objs) /\ Owned(objs, g) = x
      BY <3>3 DEF Owners, Owned, Holds, Used
    <3>6. \A g \in Owners(x[1], x[2]) : g = f
      BY <2>1, <3>1, <3>5 DEF Matched
    <3> QED BY <3>2, <3>4, <3>6
  <2>3. ASSUME NEW s \in Used
        PROVE  New(objs[s].class, objs[s].h) \subseteq live
    <3>1. New(objs[s].class, objs[s].h) = OwnedAt(objs, {s})
      BY <2>1, HeldAt DEF Used, Sound
    <3> QED BY <2>1, <3>1 DEF Matched, OwnedAt, HoldsAt
  <2> QED BY <2>2, <2>3
<1> QED BY <1>1, <1>2 DEF ObjectsOwn, OneOwner

\* The variables of the C++ bindings are what CTypeOK says: never an object
\* with more or fewer handles than its class has base classes and itself,
\* and bsShutdown never counts below zero.
THEOREM ObjectsTyped == ASSUME FreesItsOwn PROVE CSpec => []CTypeOK
BY CInvHolds, PTL DEF CInv

\* While the library is open, each live handle of the ML side is held by
\* exactly one part of one object and each held handle is live, through copies,
\* slices, assignments, results, callbacks and exceptions; and no object has
\* some of its class's handles but not all.  The destructors free their handles
\* in the tables they are of: those of all classes but InstantBubbleType do.
THEOREM ObjectsAlwaysOwn == ASSUME FreesItsOwn PROVE CSpec => []ObjectsOwn
BY CInvHolds, CInvOwns, PTL

\* Where the destructors free their handles in the tables they are of (all but
\* that of InstantBubbleType do), no assertion over an object's handle fails:
\* ASSERT_CALL_TRUE frees what is live, and once, also after bsShutdown; dup
\* and the functions know every handle they get.  The results the program's own
\* input brings about (Refused) may fail theirs.
THEOREM AssertsAlwaysHold == ASSUME FreesItsOwn PROVE CSpec => []AssertsHold
BY CInvHolds, PTL DEF CInv
-----------------------------------------------------------------------------
(* Sets of suites. *)

\* A bit is the one before it, shifted once.
LEMMA ShiftedIs ==
    /\ Suites!Shifted[0] = 1
    /\ \A i \in Nat : i <= Width => Suites!Shifted[i] \in Nat \ {0}
    /\ \A i \in Nat : i < Width =>
          Suites!Shifted[i + 1] = 2 * Suites!Shifted[i]
<1>. DEFINE v == CHOOSE f : f = [k \in 0 .. Width |-> IF k = 0 THEN 1 ELSE 2 * f[k - 1]]
<1>0. Width \in Nat
  BY WidthAssumption
<1>1. v = [k \in 0 .. Width |-> IF k = 0 THEN 1 ELSE 2 * v[k - 1]]
  BY <1>0, PowersDefined
<1>2. v = Suites!Shifted
  BY DEF Suites!Shifted
<1>. HIDE DEF v
<1>3. v[0] = 1 /\ \A i \in Nat : i < Width => v[i + 1] = 2 * v[i]
  BY <1>0, <1>1
<1>. DEFINE S == {i \in Nat : i <= Width => v[i] \in Nat \ {0}}
<1>4. 0 \in S
  BY <1>3
<1>5. ASSUME NEW i \in Nat, i \in S PROVE i + 1 \in S
  BY <1>0, <1>3, <1>5
<1>6. Nat \subseteq S
  <2>. HIDE DEF S
  <2>. QED BY <1>4, <1>5, SetInduction
<1>. QED BY <1>2, <1>3, <1>6

\* A higher bit is an even multiple of a lower one.
LEMMA HigherBit ==
    ASSUME NEW i \in Nat, NEW j \in Nat, i < j, j <= Width
    PROVE  \E c \in Nat \ {0} : Suites!Shifted[j] = Suites!Shifted[i] * (2 * c)
<1>. DEFINE v == Suites!Shifted
            S == {d \in Nat : i + 1 + d <= Width =>
                     \E c \in Nat \ {0} : v[i + 1 + d] = v[i] * (2 * c)}
<1>0. Width \in Nat
  BY WidthAssumption
<1>1. /\ \A k \in Nat : k <= Width => v[k] \in Nat \ {0}
      /\ \A k \in Nat : k < Width => v[k + 1] = 2 * v[k]
  BY ShiftedIs
<1>. HIDE DEF v
<1>2. 0 \in S
  <2>1. SUFFICES ASSUME i + 1 <= Width PROVE v[i + 1] = v[i] * (2 * 1)
    OBVIOUS
  <2>. QED BY <1>0, <1>1, <2>1
<1>3. ASSUME NEW d \in Nat, d \in S PROVE d + 1 \in S
  <2>1. SUFFICES ASSUME i + 1 + (d + 1) <= Width
                 PROVE  \E c \in Nat \ {0} : v[i + 1 + (d + 1)] = v[i] * (2 * c)
    OBVIOUS
  <2>2. PICK c \in Nat \ {0} : v[i + 1 + d] = v[i] * (2 * c)
    BY <1>0, <1>3, <2>1
  <2>3. v[i + 1 + (d + 1)] = 2 * v[i + 1 + d]
    BY <1>0, <1>1, <2>1
  <2>4. 2 * (v[i] * (2 * c)) = v[i] * (2 * (2 * c)) /\ 2 * c \in Nat \ {0}
    BY <1>0, <1>1, <2>1
  <2>. QED BY <2>2, <2>3, <2>4
<1>4. Nat \subseteq S
  <2>. HIDE DEF S
  <2>. QED BY <1>2, <1>3, SetInduction
<1>5. j - i - 1 \in Nat /\ i + 1 + (j - i - 1) = j
  OBVIOUS
<1>. QED BY <1>4, <1>5 DEF v

LEMMA BitsApart ==
    ASSUME NEW i \in Suites!Bits, NEW j \in Suites!Bits,
           Suites!Shifted[i] = Suites!Shifted[j]
    PROVE  i = j
<1>. DEFINE v == Suites!Shifted
<1>1. Width \in Nat /\ i \in Nat /\ j \in Nat /\ i < Width /\ j < Width
  BY WidthAssumption DEF Suites!Bits
<1>2. v[i] \in Nat \ {0} /\ v[j] \in Nat \ {0}
  BY <1>1, ShiftedIs
<1>. HIDE DEF v
<1>3. ASSUME NEW x \in Nat \ {0}, NEW c \in Nat \ {0} PROVE x * (2 * c) # x
  <2>1. x * (2 * c) = x * c + x * c /\ x * c \in Nat
    OBVIOUS
  <2>2. x * c >= x
    <3>1. c - 1 \in Nat /\ x * c = x * (c - 1) + x /\ x * (c - 1) \in Nat
      OBVIOUS
    <3>. QED BY <3>1
  <2>. QED BY <2>1, <2>2
<1>4. ~(i < j) /\ ~(j < i)
  <2>1. CASE i < j
    <3>1. PICK c \in Nat \ {0} : v[j] = v[i] * (2 * c)
      BY <1>1, <2>1, HigherBit DEF v
    <3>. QED BY <1>2, <1>3, <3>1 DEF v
  <2>2. CASE j < i
    <3>1. PICK c \in Nat \ {0} : v[i] = v[j] * (2 * c)
      BY <1>1, <2>2, HigherBit DEF v
    <3>. QED BY <1>2, <1>3, <3>1 DEF v
  <2>. QED BY <2>1, <2>2
<1>. QED BY <1>1, <1>4

\* What is known of the bits of a mask.
LEMMA BitIs ==
    /\ Width \in Nat
    /\ \A i \in Suites!Bits :
          i \in Nat /\ i < Width /\ Suites!Shifted[i] \in Nat \ {0}
    /\ \A m \in Suites!Masks : m \in Nat
    /\ \A m \in Nat : m \in Suites!Masks <=> m < Suites!Shifted[Width]
    /\ \A m : \A i \in Suites!Bits :
          i \in Suites!BitsOf(m) <=> (m \div Suites!Shifted[i]) % 2 = 1
<1>1. Width \in Nat /\ Suites!Shifted[Width] \in Nat
  BY WidthAssumption, ShiftedIs
<1>2. \A i \in Suites!Bits : i \in Nat /\ i < Width /\ i <= Width
  BY <1>1 DEF Suites!Bits
<1>3. \A i \in Suites!Bits : Suites!Shifted[i] \in Nat \ {0}
  BY <1>2, ShiftedIs
<1>4. \A m \in Nat : m \in Suites!Masks <=> m < Suites!Shifted[Width]
  BY <1>1 DEF Suites!Masks
<1>5. \A m : \A i \in Suites!Bits :
         i \in Suites!BitsOf(m) <=> (m \div Suites!Shifted[i]) % 2 = 1
  BY DEF Suites!BitsOf, Suites!Has
<1>6. \A m \in Suites!Masks : m \in Nat
  BY DEF Suites!Masks
<1>. QED BY <1>1, <1>2, <1>3, <1>4, <1>5, <1>6

\* Clearing a bit of a mask clears no other.
LEMMA ClearedBit ==
    ASSUME NEW m \in Suites!Masks, NEW i \in Suites!BitsOf(m)
    PROVE  /\ m - Suites!Shifted[i] \in Suites!Masks
           /\ Suites!BitsOf(m - Suites!Shifted[i]) = Suites!BitsOf(m) \ {i}
<1>1. PICK b, n : b = Suites!Shifted[i] /\ n = m - b
  OBVIOUS
<1>2. i \in Suites!Bits
  BY DEF Suites!BitsOf
<1>3. i \in Nat /\ i < Width /\ Width \in Nat /\ b \in Nat \ {0} /\ m \in Nat
  BY <1>1, <1>2, BitIs
<1>4. (m \div b) % 2 = 1
  BY <1>1, <1>2, BitIs
<1>5. n \in Nat /\ (n \div b) % 2 = 0
  BY <1>1, <1>3, <1>4, OddTaken
<1>6. n \in Suites!Masks
  <2>1. Suites!Shifted[Width] \in Nat
    BY <1>3, ShiftedIs
  <2>2. m < Suites!Shifted[Width] /\ n <= m
    BY <1>1, <1>3, BitIs
  <2>3. n < Suites!Shifted[Width]
    BY <1>3, <1>5, <2>1, <2>2
  <2>. QED BY <1>5, <2>3, BitIs
<1>7. ASSUME NEW j \in Suites!Bits
      PROVE  j \in Suites!BitsOf(n) <=> j \in Suites!BitsOf(m) /\ j # i
  <2>1. PICK B : B = Suites!Shifted[j]
    OBVIOUS
  <2>2. j \in Nat /\ j < Width /\ B \in Nat \ {0}
    BY <2>1, BitIs
  <2>3. /\ j \in Suites!BitsOf(n) <=> (n \div B) % 2 = 1
        /\ j \in Suites!BitsOf(m) <=> (m \div B) % 2 = 1
    BY <2>1, BitIs
  <2>4. CASE j = i
    <3>1. B = b
      BY <1>1, <2>1, <2>4
    <3>. QED BY <1>5, <2>3, <2>4, <3>1
  <2>5. CASE j < i
    <3>1. PICK c \in Nat \ {0} : b = B * (2 * c)
      BY <1>1, <1>3, <2>1, <2>2, <2>5, HigherBit
    <3>2. m = n + B * (2 * c)
      BY <1>1, <1>3, <1>5, <3>1
    <3>3. m \div B = (n \div B) + 2 * c
      BY <1>5, <2>2, <3>2, EvenAdded
    <3>4. n \div B \in Nat
      BY <1>5, <2>2, Division
    <3>5. \A q \in Nat : (q + 2 * c) % 2 = q % 2
      OBVIOUS
    <3>6. (m \div B) % 2 = (n \div B) % 2
      BY <3>3, <3>4, <3>5
    <3>. QED BY <1>3, <2>2, <2>3, <2>5, <3>6
  <2>6. CASE i < j
    <3>1. PICK c \in Nat \ {0} : B = b * (2 * c)
      BY <1>1, <1>3, <2>1, <2>2, <2>6, HigherBit
    <3>2. n \div B = m \div B
      BY <1>1, <1>3, <1>4, <3>1, OddTaken
    <3>. QED BY <1>3, <2>2, <2>3, <2>6, <3>2
  <2>. QED BY <1>3, <2>2, <2>4, <2>5, <2>6
<1>8. Suites!BitsOf(n) = Suites!BitsOf(m) \ {i}
  <2>1. \A x : Suites!BitsOf(x) \subseteq Suites!Bits
    BY DEF Suites!BitsOf
  <2>. QED BY <1>7, <2>1
<1>. QED BY <1>1, <1>6, <1>8

\* A suite is a mask with one bit.
LEMMA OneBit ==
    ASSUME NEW i \in Suites!Bits
    PROVE  Suites!Shifted[i] \in Suites!Masks /\ Suites!BitsOf(Suites!Shifted[i]) = {i}
<1>1. PICK b : b = Suites!Shifted[i]
  OBVIOUS
<1>2. i \in Nat /\ i < Width /\ Width \in Nat /\ b \in Nat \ {0}
  BY <1>1, BitIs
<1>3. b \in Suites!Masks
  <2>1. PICK c \in Nat \ {0} : Suites!Shifted[Width] = b * (2 * c)
    BY <1>1, <1>2, HigherBit
  <2>2. b * (2 * c) > b
    <3>1. c - 1 \in Nat /\ b * (2 * c) = b + b + b * (2 * (c - 1))
          /\ b * (2 * (c - 1)) \in Nat
      BY <1>2
    <3>. QED BY <1>2, <3>1
  <2>. QED BY <1>2, <2>1, <2>2, BitIs
<1>4. i \in Suites!BitsOf(b)
  <2>1. (b * 1 + 0) \div b = 1
    <3>1. 0 \in 0 .. b - 1
      BY <1>2
    <3>. QED BY <1>2, <3>1, Quotient
  <2>2. (b \div b) % 2 = 1
    <3>1. b * 1 + 0 = b
      BY <1>2
    <3>. QED BY <2>1, <3>1
  <2>. QED BY <1>1, <2>2, BitIs
<1>5. Suites!BitsOf(b - b) = {}
  <2>1. \A x \in Nat \ {0} : (0 \div x) % 2 = 0
    <3>1. SUFFICES ASSUME NEW x \in Nat \ {0} PROVE (0 \div x) % 2 = 0
      OBVIOUS
    <3>2. (x * 0 + 0) \div x = 0
      <4>1. 0 \in 0 .. x - 1
        OBVIOUS
      <4>. QED BY <4>1, Quotient
    <3>3. x * 0 + 0 = 0
      OBVIOUS
    <3>. QED BY <3>2, <3>3
  <2>2. b - b = 0
    BY <1>2
  <2>3. \A j \in Suites!Bits : j \notin Suites!BitsOf(0)
    BY <2>1, BitIs
  <2>. QED BY <2>2, <2>3 DEF Suites!BitsOf
<1>6. Suites!BitsOf(b) \ {i} = {}
  BY <1>1, <1>3, <1>4, <1>5, ClearedBit
<1>. QED BY <1>1, <1>3, <1>4, <1>6

\* Only 0 has no bits.
LEMMA NoBits ==
    ASSUME NEW m \in Suites!Masks, Suites!BitsOf(m) = {}
    PROVE  m = 0
<1>. DEFINE S == {d \in Nat : d <= Width => m < Suites!Shifted[Width - d]}
<1>1. m \in Nat /\ Width \in Nat
  BY BitIs
<1>2. 0 \in S
  BY <1>1, BitIs
<1>3. ASSUME NEW d \in Nat, d \in S PROVE d + 1 \in S
  <2>1. SUFFICES ASSUME d + 1 <= Width PROVE m < Suites!Shifted[Width - (d + 1)]
    OBVIOUS
  <2>2. PICK i : i = Width - (d + 1)
    OBVIOUS
  <2>3. i \in Suites!Bits /\ i \in Nat /\ i < Width /\ i + 1 = Width - d
    BY <1>1, <2>1, <2>2 DEF Suites!Bits
  <2>4. PICK b : b = Suites!Shifted[i] /\ b \in Nat \ {0}
    BY <2>3, BitIs
  <2>5. m < 2 * b
    <3>1. m < Suites!Shifted[i + 1]
      BY <1>1, <1>3, <2>1, <2>3
    <3>. QED BY <2>3, <2>4, <3>1, ShiftedIs
  <2>6. (m \div b) % 2 # 1
    BY <2>3, <2>4, BitIs
  <2>7. ~(b <= m)
    <3>1. SUFFICES ASSUME b <= m PROVE FALSE
      OBVIOUS
    <3>2. m - b \in 0 .. b - 1 /\ b * 1 + (m - b) = m
      BY <1>1, <2>4, <2>5, <3>1
    <3>3. (b * 1 + (m - b)) \div b = 1
      BY <2>4, <3>2, Quotient
    <3>4. m \div b = 1
      BY <3>2, <3>3
    <3>. QED BY <2>6, <3>4
  <2>. QED BY <1>1, <2>2, <2>4, <2>7
<1>4. Nat \subseteq S
  <2>. HIDE DEF S
  <2>. QED BY <1>2, <1>3, SetInduction
<1>5. m < Suites!Shifted[0]
  <2>1. Width \in S /\ Width - Width = 0
    BY <1>1, <1>4
  <2>. QED BY <1>1, <2>1
<1>. QED BY <1>1, <1>5, ShiftedIs

LEMMA MaskIs ==
    ASSUME NEW bits, \E m \in Suites!Masks : Suites!BitsOf(m) = bits
    PROVE  Suites!MaskOf(bits) \in Suites!Masks /\ Suites!BitsOf(Suites!MaskOf(bits)) = bits
BY DEF Suites!MaskOf

\* A suite has one bit, and is valid: the number before it has other bits.
LEMMA ValidBit ==
    ASSUME NEW i \in Suites!Bits
    PROVE  Suites!isValid(Suites!Shifted[i])
<1>1. PICK b : b = Suites!Shifted[i] /\ b \in Nat \ {0}
  BY BitIs
<1>2. i \notin Suites!BitsOf(b - 1)
  <2>1. (b * 0 + (b - 1)) \div b = 0
    <3>1. b - 1 \in 0 .. b - 1
      BY <1>1
    <3>. QED BY <1>1, <3>1, Quotient
  <2>2. b * 0 + (b - 1) = b - 1
    BY <1>1
  <2>3. ((b - 1) \div b) % 2 # 1
    BY <2>1, <2>2
  <2>. QED BY <1>1, <2>3, BitIs
<1>3. Suites!BitsOf(b) \cap Suites!BitsOf(b - 1) = {}
  BY <1>1, <1>2, OneBit
<1>4. b \in Suites!Masks /\ Suites!BitsOf(b) = {i}
  BY <1>1, OneBit
<1>5. b - b \in Suites!Masks /\ Suites!BitsOf(b - b) = {}
  <2>1. i \in Suites!BitsOf(b) /\ Suites!BitsOf(b) \ {i} = {}
    BY <1>4
  <2>. QED BY <1>1, <1>4, <2>1, ClearedBit
<1>6. Suites!MaskOf({}) = 0
  <2>1. Suites!MaskOf({}) \in Suites!Masks /\ Suites!BitsOf(Suites!MaskOf({})) = {}
    BY <1>5, MaskIs
  <2>. QED BY <2>1, NoBits
<1>. QED BY <1>1, <1>3, <1>6 DEF Suites!isValid, Suites!Intersect

\* The invariant: the iterator's set is one of masks, and what it has returned
\* is finite.
SuiteInv ==
    /\ set \in Suites!Masks /\ returned \in Seq(Nat)
    /\ IsFiniteSet({returned[k] : k \in DOMAIN returned})
    /\ Suites!EachSuiteOnce

LEMMA SuiteStep ==
    ASSUME SuiteInv, Suites!Next
    PROVE  SuiteInv'
<1>1. CASE Suites!BitsOf(set) = {}
  <2>1. UNCHANGED <<mask, set, returned>>
    BY <1>1 DEF Suites!Next, Suites!next
  <2>. QED BY <2>1 DEF SuiteInv, Suites!EachSuiteOnce, Suites!Suites
<1>2. CASE Suites!BitsOf(set) # {}
  <2>. DEFINE ones == Suites!BitsOf(set)
              out == {returned[k] : k \in DOMAIN returned}
  <2>1. PICK i : i = Suites!LowestOf(ones)
    OBVIOUS
  <2>2. i \in ones
    <3>1. ones \in SUBSET Nat
      BY BitIs DEF Suites!BitsOf
    <3>2. \E k \in ones : \A j \in ones : k <= j
      <4>. HIDE DEF ones
      <4>. QED BY <1>2, <3>1, LeastExists DEF ones
    <3>. HIDE DEF ones
    <3>. QED BY <2>1, <3>2 DEF Suites!LowestOf
  <2>3. PICK b : b = Suites!Shifted[i]
    OBVIOUS
  <2>4. i \in Suites!Bits /\ b \in Nat
    BY <2>2, <2>3, BitIs DEF Suites!BitsOf
  <2>5. /\ set' = Suites!Minus(set, b) /\ mask' = mask
        /\ returned' = Append(returned, b)
    BY <1>2, <2>1, <2>3 DEF Suites!Next, Suites!next
  <2>6. set' \in Suites!Masks /\ Suites!BitsOf(set') = ones \ {i}
    <3>1. /\ set - b \in Suites!Masks
          /\ Suites!BitsOf(set - b) = ones \ Suites!BitsOf(b)
          /\ Suites!BitsOf(b) = {i}
      BY <2>2, <2>3, <2>4, ClearedBit, OneBit DEF SuiteInv
    <3>2. \E m \in Suites!Masks : Suites!BitsOf(m) = ones \ Suites!BitsOf(b)
      BY <3>1
    <3>3. set' = Suites!MaskOf(ones \ Suites!BitsOf(b))
      BY <2>5 DEF Suites!Minus
    <3>. HIDE DEF ones
    <3>. QED BY <3>1, <3>2, <3>3, MaskIs
  <2>7. Suites!Suites(set)' = Suites!Suites(set) \ {b} /\ b \in Suites!Suites(set)
    <3>1. ones \subseteq Suites!Bits
      BY DEF Suites!BitsOf
    <3>2. \A j \in ones : Suites!Shifted[j] = b => j = i
      BY <2>3, <2>4, <3>1, BitsApart
    <3>3. Suites!Suites(set) = {Suites!Shifted[j] : j \in ones}
      BY DEF Suites!Suites
    <3>4. Suites!Suites(set)' = {Suites!Shifted[j] : j \in ones \ {i}}
      BY <2>6 DEF Suites!Suites
    <3>. HIDE DEF ones
    <3>. QED BY <2>2, <2>3, <3>2, <3>3, <3>4
  <2>8. /\ out \cup Suites!Suites(set) = Suites!Suites(mask)
        /\ out \cap Suites!Suites(set) = {}
        /\ Cardinality(out) = Len(returned) /\ IsFiniteSet(out)
        /\ \A x \in out : Suites!isValid(x)
        /\ returned \in Seq(Nat)
    BY DEF SuiteInv, Suites!EachSuiteOnce, Suites!Cardinality, Cardinality
  <2>9. /\ returned' \in Seq(Nat) /\ Len(returned') = Len(returned) + 1
        /\ out' = out \cup {b}
    <3>1. DOMAIN returned = 1 .. Len(returned) /\ Len(returned) \in Nat
      BY <2>8
    <3>2. /\ returned' \in Seq(Nat) /\ Len(returned') = Len(returned) + 1
          /\ DOMAIN returned' = 1 .. Len(returned) + 1
          /\ \A k \in 1 .. Len(returned) + 1 :
                returned'[k] = IF k = Len(returned) + 1 THEN b ELSE returned[k]
      BY <2>4, <2>5, <2>8
    <3>3. out' \subseteq out \cup {b}
      BY <3>1, <3>2
    <3>4. \A k \in DOMAIN returned : k \in DOMAIN returned' /\ returned'[k] = returned[k]
      BY <3>1, <3>2
    <3>5. Len(returned) + 1 \in DOMAIN returned' /\ returned'[Len(returned) + 1] = b
      BY <3>1, <3>2
    <3>6. out \cup {b} \subseteq out'
      BY <3>4, <3>5
    <3>. QED BY <3>2, <3>3, <3>6
  <2>. HIDE DEF out, ones
  <2>10. IsFiniteSet(out') /\ Cardinality(out') = Len(returned')
    <3>1. b \notin out
      BY <2>7, <2>8
    <3>2. IsFiniteSet(out \cup {b}) /\ Cardinality(out \cup {b}) = Cardinality(out) + 1
      BY <2>8, <3>1, FS_AddElement
    <3>. QED BY <2>8, <2>9, <3>2
  <2>11. /\ out' \cup Suites!Suites(set)' = Suites!Suites(mask)
         /\ out' \cap Suites!Suites(set)' = {}
    BY <2>7, <2>8, <2>9
  <2>12. \A x \in out' : Suites!isValid(x)
    BY <2>3, <2>4, <2>8, <2>9, ValidBit
  <2>13. Suites!Suites(mask)' = Suites!Suites(mask)
    BY <2>5 DEF Suites!Suites
  <2>. QED BY <2>6, <2>9, <2>10, <2>11, <2>12, <2>13
           DEF SuiteInv, Suites!EachSuiteOnce, out, Suites!Cardinality, Cardinality
<1>. QED BY <1>1, <1>2

\* The iterator over a set of suites, of any width: what it has returned, each
\* suite once and valid, and what it still has are the set it was made of.
THEOREM SuitesOnce == Suites!Spec => []EachSuiteOnce
<1>1. Suites!Init => SuiteInv
  <2>1. SUFFICES ASSUME Suites!Init PROVE SuiteInv
    OBVIOUS
  <2>2. /\ {returned[k] : k \in DOMAIN returned} = {} /\ Len(returned) = 0
        /\ returned \in Seq(Nat)
    <3>1. returned = <<>> /\ <<>> \in Seq(Nat) /\ Len(<<>>) = 0 /\ DOMAIN <<>> = {}
      BY <2>1, EmptySeq DEF Suites!Init
    <3>. QED BY <3>1
  <2>3. IsFiniteSet({}) /\ Cardinality({}) = 0
    BY FS_EmptySet
  <2>4. set \in Suites!Masks /\ Suites!Suites(set) = Suites!Suites(mask)
    BY <2>1 DEF Suites!Init, Suites!Suites
  <2>. QED BY <2>2, <2>3, <2>4
           DEF SuiteInv, Suites!EachSuiteOnce, Suites!Cardinality, Cardinality
<1>2. SuiteInv /\ [Suites!Next]_Suites!sVars => SuiteInv'
  <2>1. SUFFICES ASSUME SuiteInv, [Suites!Next]_Suites!sVars PROVE SuiteInv'
    OBVIOUS
  <2>2. CASE UNCHANGED Suites!sVars
    <3>1. UNCHANGED <<mask, set, returned>>
      BY <2>2 DEF Suites!sVars
    <3>. QED BY <2>1, <3>1 DEF SuiteInv, Suites!EachSuiteOnce, Suites!Suites
  <2>. QED BY <2>1, <2>2, SuiteStep
<1>3. SuiteInv => EachSuiteOnce
  BY DEF SuiteInv, EachSuiteOnce
<1>. QED BY <1>1, <1>2, <1>3, PTL DEF Suites!Spec
-----------------------------------------------------------------------------
(* JniBridge. *)

\* The frames of the two sides.
Frames ==
    [side : {"java"}, data : Data \cup {NoData}, pins : {{}}, calls : {{}},
     loop : {FALSE}]
    \cup [side : {"ml"}, data : {NoData}, pins : SUBSET Pins,
          calls : {CallsBack[f] : f \in Functions}, loop : BOOLEAN]

\* The sides take turns, an ML frame is at the bottom.
Turns ==
    /\ stack \in Seq(Frames)
    /\ \A i \in 1 .. Len(stack) :
          /\ i = 1 => stack[i].side = "ml"
          /\ i > 1 => stack[i].side # stack[i - 1].side
    /\ stack # <<>> => lib = "open"

\* Data comes from the two kinds of functions.
Registered ==
    /\ DOMAIN data \subseteq Data
    /\ \A d \in DOMAIN data : data[d] \in Deletes \cup Often

\* Data that its callback deletes is used by one frame, and by no later one.
OnceRunning ==
    \A i \in 1 .. Len(stack) :
        stack[i].data \in DOMAIN data /\ data[stack[i].data] \in Deletes =>
            /\ stack[i].data \notin held
            /\ \A j \in 1 .. Len(stack) :
                  stack[j].data = stack[i].data => j = i

\* Data that its callback keeps can be called with again, or was forgotten.
OftenKnown ==
    \A d \in OnStack : data[d] \in Often => d \in held \cup dropped

JInv ==
    /\ Turns /\ Registered /\ OnceRunning /\ OftenKnown
    /\ SignalsFollowSide /\ HeldIsLive /\ DataAccounted
-----------------------------------------------------------------------------
(* The table of functions. *)

\* The functions whose callback deletes its data, all sections together.
Once == {"cuspEndpointContact", "cuspInstreamRead", "cuspInstreamReadShutdown",
         "cuspOutstreamShutdown", "cuspOutstreamWrite", "bsBubbleStormCreate",
         "bsBubbleStormJoin", "bsBubbleStormLeave", "bsBubbleManagedInsert",
         "bsBubbleManagedUpdate", "bsBubbleManagedDelete",
         "bsNotificationSendFn", "bsQueryRespond"}

LEMMA SectionKinds ==
    ASSUME NEW s \in Sections
    PROVE  /\ s.deletes \subseteq Once /\ s.keeps \subseteq Often
           /\ "evtMain" \notin s.pins
<1>1. CASE s = LibraryFunctions
  BY <1>1 DEF LibraryFunctions, Section, Once, Often
<1>2. CASE s = Time
  BY <1>2 DEF Time, Section, Once, Often
<1>3. CASE s = Event
  BY <1>3 DEF Event, Section, Once, Often
<1>4. CASE s = Abortable
  BY <1>4 DEF Abortable, Section, Once, Often
<1>5. CASE s = Log
  BY <1>5 DEF Log, Section, Once, Often
<1>6. CASE s = EndPoint
  BY <1>6 DEF EndPoint, Section, Once, Often
<1>7. CASE s = Address
  BY <1>7 DEF Address, Section, Once, Often
<1>8. CASE s = Host
  BY <1>8 DEF Host, Section, Once, Often
<1>9. CASE s = ChannelIterator
  BY <1>9 DEF ChannelIterator, Section, Once, Often
<1>10. CASE s = InStream
  BY <1>10 DEF InStream, Section, Once, Often
<1>11. CASE s = InStreamIterator
  BY <1>11 DEF InStreamIterator, Section, Once, Often
<1>12. CASE s = OutStream
  BY <1>12 DEF OutStream, Section, Once, Often
<1>13. CASE s = OutStreamIterator
  BY <1>13 DEF OutStreamIterator, Section, Once, Often
<1>14. CASE s = BubbleStorm
  BY <1>14 DEF BubbleStorm, Section, Once, Often
<1>15. CASE s = BubbleMaster
  BY <1>15 DEF BubbleMaster, Section, Once, Often
<1>16. CASE s = ManagedBackend
  BY <1>16 DEF ManagedBackend, Section, Once, Often
<1>17. CASE s = DurableBackend
  BY <1>17 DEF DurableBackend, Section, Once, Often
<1>18. CASE s = BubbleTypes
  BY <1>18 DEF BubbleTypes, Section, Once, Often
<1>19. CASE s = StoredTypes
  BY <1>19 DEF StoredTypes, Section, Once, Often
<1>20. CASE s = CastBubbles
  BY <1>20 DEF CastBubbles, Section, Once, Often
<1>21. CASE s = ManagedBubbles
  BY <1>21 DEF ManagedBubbles, Section, Once, Often
<1>22. CASE s = DurableBubbles
  BY <1>22 DEF DurableBubbles, Section, Once, Often
<1>23. CASE s = ID
  BY <1>23 DEF ID, Section, Once, Often
<1>24. CASE s = NotificationReceiver
  BY <1>24 DEF NotificationReceiver, Section, Once, Often
<1>25. CASE s = NotificationSender
  BY <1>25 DEF NotificationSender, Section, Once, Often
<1>26. CASE s = Query
  BY <1>26 DEF Query, Section, Once, Often
<1> QED BY <1>1, <1>2, <1>3, <1>4, <1>5, <1>6, <1>7, <1>8, <1>9, <1>10, <1>11,
         <1>12, <1>13, <1>14, <1>15, <1>16, <1>17, <1>18, <1>19, <1>20, <1>21,
         <1>22, <1>23, <1>24, <1>25, <1>26 DEF Sections

\* A callback deletes its data only if it is called once, and keeps it only
\* if it may be called again.
LEMMA Kinds == Deletes \cap Often = {} /\ Keeps \subseteq Often
<1>1. Deletes \subseteq Once
  BY SectionKinds DEF Deletes
<1>2. Once \cap Often = {}
  BY DEF Once, Often
<1>3. Keeps \subseteq Often
  BY SectionKinds DEF Keeps
<1> QED BY <1>1, <1>2, <1>3
-----------------------------------------------------------------------------
(* The stack. *)

LEMMA PushFrame ==
    ASSUME stack \in Seq(Frames), NEW frame \in Frames, Push(frame)
    PROVE  /\ stack' \in Seq(Frames) /\ stack' # <<>>
           /\ Len(stack') = Len(stack) + 1
           /\ \A i \in 1 .. Len(stack) : stack'[i] = stack[i]
           /\ stack'[Len(stack) + 1] = frame
           /\ Top' = frame
BY DEF Push, Top

LEMMA PopFrame ==
    ASSUME stack \in Seq(Frames), stack # <<>>, Pop
    PROVE  /\ stack' \in Seq(Frames)
           /\ Len(stack) \in Nat \ {0} /\ Len(stack') = Len(stack) - 1
           /\ \A i \in 1 .. Len(stack') : stack'[i] = stack[i]
           /\ Top = stack[Len(stack)]
           /\ Top' = IF Len(stack) = 1 THEN Java(NoData)
                     ELSE stack[Len(stack) - 1]
<1>1. Len(stack) \in Nat \ {0}
  OBVIOUS
<1>2. stack' = SubSeq(stack, 1, Len(stack) - 1)
  BY DEF Pop
<1>3. /\ Len(stack') = Len(stack) - 1 /\ stack' \in Seq(Frames)
      /\ \A i \in 1 .. Len(stack') : stack'[i] = stack[i]
  <2> DEFINE n == Len(stack) - 1
  <2>1. n \in Int /\ 0 <= n /\ n < Len(stack) /\ 1 \in Int
    BY <1>1
  <2>2. /\ stack' \in Seq(Frames)
        /\ Len(stack') = IF 1 <= n THEN n - 1 + 1 ELSE 0
        /\ \A i \in 1 .. n - 1 + 1 : stack'[i] = stack[1 + i - 1]
    <3> HIDE DEF n
    <3>1. stack' = SubSeq(stack, 1, n)
      BY <1>2 DEF n
    <3>2. \A i \in 1 .. n : stack[i] \in Frames
      BY <1>1, <2>1
    <3> QED BY <2>1, <3>1, <3>2, SubSeqProperties
  <2>3. Len(stack') = n
    <3> HIDE DEF n
    <3> QED BY <2>1, <2>2
  <2>4. ASSUME NEW i \in 1 .. n PROVE stack'[i] = stack[i]
    <3> HIDE DEF n
    <3>1. i \in 1 .. n - 1 + 1 /\ 1 + i - 1 = i
      BY <2>1, <2>4
    <3> QED BY <2>2, <3>1
  <2> QED BY <2>2, <2>3, <2>4
<1>4. stack' = <<>> <=> Len(stack) = 1
  BY <1>1, <1>3
<1> QED BY <1>1, <1>3, <1>4 DEF Top

LEMMA OnStackIs ==
    ASSUME stack \in Seq(Frames)
    PROVE  OnStack = {stack[i].data : i \in 1 .. Len(stack)} \ {NoData}
BY DEF OnStack

LEMMA PushOnStack ==
    ASSUME stack \in Seq(Frames), NEW frame \in Frames, Push(frame)
    PROVE  OnStack' = OnStack \cup ({frame.data} \ {NoData})
<1>1. stack' \in Seq(Frames)
  BY PushFrame
<1>2. OnStack' = {stack'[i].data : i \in 1 .. Len(stack')} \ {NoData}
  BY <1>1, OnStackIs DEF OnStack
<1>3. {stack'[i].data : i \in 1 .. Len(stack')}
          = {stack[i].data : i \in 1 .. Len(stack)} \cup {frame.data}
  BY PushFrame
<1> QED BY <1>2, <1>3, OnStackIs

LEMMA PopOnStack ==
    ASSUME stack \in Seq(Frames), stack # <<>>, Pop
    PROVE  OnStack = OnStack' \cup ({Top.data} \ {NoData})
<1>1. stack' \in Seq(Frames)
  BY PopFrame
<1>2. OnStack' = {stack'[i].data : i \in 1 .. Len(stack')} \ {NoData}
  BY <1>1 DEF OnStack
<1>3. {stack[i].data : i \in 1 .. Len(stack)}
          = {stack'[i].data : i \in 1 .. Len(stack')} \cup {Top.data}
  BY PopFrame
<1> QED BY <1>2, <1>3, OnStackIs

\* What the top of the stack says of the frame below it.
LEMMA TopSide ==
    ASSUME Turns
    PROVE  /\ stack # <<>> => Top = stack[Len(stack)] /\ Top \in Frames
           /\ Top.side = "ml" => stack # <<>>
           /\ Top.side \in {"java", "ml"}
<1>1. CASE stack = <<>>
  BY <1>1 DEF Top, Java
<1>2. CASE stack # <<>>
  <2>1. Len(stack) \in 1 .. Len(stack)
    BY <1>2 DEF Turns
  <2>2. Top = stack[Len(stack)] /\ Top \in Frames
    BY <1>2, <2>1 DEF Turns, Top
  <2>3. Top.side \in {"java", "ml"}
    BY <2>2 DEF Frames
  <2> QED BY <1>2, <2>2, <2>3
<1> QED BY <1>1, <1>2

LEMMA PushTurns ==
    ASSUME Turns, lib = "open", UNCHANGED lib,
           NEW frame \in Frames, Push(frame), frame.side # Top.side
    PROVE  Turns' /\ Top' = frame
<1>1. Top = IF stack = <<>> THEN Java(NoData) ELSE stack[Len(stack)]
  BY DEF Top
<1>2. stack = <<>> => frame.side = "ml"
  BY <1>1 DEF Java, Frames
<1>3. ASSUME NEW i \in 1 .. Len(stack')
      PROVE  /\ i = 1 => stack'[i].side = "ml"
             /\ i > 1 => stack'[i].side # stack'[i - 1].side
  <2>1. CASE i <= Len(stack)
    <3>1. stack'[i] = stack[i] /\ (i > 1 => stack'[i - 1] = stack[i - 1])
      BY <2>1, PushFrame DEF Turns
    <3> QED BY <2>1, <3>1 DEF Turns
  <2>2. CASE i = Len(stack) + 1
    <3>1. stack'[i] = frame
      BY <2>2, PushFrame DEF Turns
    <3>2. i > 1 => stack # <<>> /\ stack'[i - 1] = stack[Len(stack)]
      BY <2>2, PushFrame DEF Turns
    <3>3. i = 1 => stack = <<>>
      BY <2>2 DEF Turns
    <3> QED BY <1>1, <1>2, <3>1, <3>2, <3>3
  <2> QED BY <1>3, <2>1, <2>2, PushFrame DEF Turns
<1> QED BY <1>3, PushFrame DEF Turns

LEMMA PopTurns ==
    ASSUME Turns, UNCHANGED lib, stack # <<>>, Pop
    PROVE  /\ Turns'
           /\ Top.side = "ml" => Top'.side = "java"
           /\ Top.side = "java" => Top'.side = "ml"
<1>1. Turns'
  <2>1. ASSUME NEW i \in 1 .. Len(stack')
        PROVE  /\ i = 1 => stack'[i].side = "ml"
               /\ i > 1 => stack'[i].side # stack'[i - 1].side
    <3>1. /\ i \in 1 .. Len(stack) /\ stack'[i] = stack[i]
          /\ i > 1 => stack'[i - 1] = stack[i - 1]
      BY <2>1, PopFrame DEF Turns
    <3> QED BY <3>1 DEF Turns
  <2> QED BY <2>1, PopFrame DEF Turns
<1>2. CASE Len(stack) = 1
  BY <1>2, PopFrame DEF Turns, Java
<1>3. CASE Len(stack) # 1
  <2>1. /\ Len(stack) \in 1 .. Len(stack) /\ Len(stack) - 1 \in 1 .. Len(stack)
        /\ Top = stack[Len(stack)] /\ Top' = stack[Len(stack) - 1]
    BY <1>3, PopFrame DEF Turns
  <2>2. Top.side # Top'.side
    BY <1>3, <2>1 DEF Turns
  <2>3. Top \in Frames /\ Top' \in Frames
    BY <2>1 DEF Turns
  <2>4. Top.side \in {"java", "ml"} /\ Top'.side \in {"java", "ml"}
    BY <2>3 DEF Frames
  <2> QED BY <1>1, <2>2, <2>4
<1> QED BY <1>1, <1>2, <1>3
-----------------------------------------------------------------------------
(* The steps. *)

\* Opening and closing the library: there are no frames.
LEMMA LibraryStep ==
    ASSUME JInv, libInit \/ libShutdown
    PROVE  JInv'
<1>1. stack = <<>> /\ stack' = stack /\ data' = data
  BY DEF libInit, libShutdown, JInv, Turns
<1>2. Top = Java(NoData) /\ Top' = Java(NoData) /\ Java(NoData).side = "java"
  BY <1>1 DEF Top, Java
<1>3. OnStack = {} /\ OnStack' = {} /\ Len(stack) = 0
  BY <1>1 DEF OnStack
<1>4. Turns'
  BY <1>1, <1>3 DEF JInv, Turns
<1>5. ~blocked
  BY <1>2 DEF JInv, SignalsFollowSide, libInit, libShutdown
<1>6. SignalsFollowSide'
  BY <1>2, <1>5 DEF SignalsFollowSide, libInit, libShutdown
<1>7. Registered' /\ OnceRunning' /\ OftenKnown'
  BY <1>1, <1>3 DEF JInv, Registered, OnceRunning, OftenKnown
<1>8. HeldIsLive' /\ DataAccounted'
  BY <1>1, <1>3 DEF JInv, HeldIsLive, DataAccounted, libInit, libShutdown
<1> QED BY <1>4, <1>6, <1>7, <1>8 DEF JInv

LEMMA ForgetStep ==
    ASSUME JInv, NEW d \in Data, Forget(d)
    PROVE  JInv'
<1>1. Top' = Top /\ OnStack' = OnStack
  BY DEF Forget, Top, OnStack
<1>2. Turns' /\ SignalsFollowSide' /\ Registered'
  BY <1>1 DEF JInv, Forget, Turns, SignalsFollowSide, Registered
<1>3. OnceRunning'
  BY DEF JInv, Forget, OnceRunning
<1>4. OftenKnown' /\ HeldIsLive' /\ DataAccounted'
  BY <1>1 DEF JInv, Forget, OftenKnown, HeldIsLive, DataAccounted
<1> QED BY <1>2, <1>3, <1>4 DEF JInv

\* A frame without data is pushed: no callback runs that did not.
LEMMA PushNoData ==
    ASSUME JInv, NoData \notin Data, NEW frame \in Frames, Push(frame),
           frame.data = NoData, UNCHANGED <<data, held, dropped>>
    PROVE  OnceRunning' /\ OftenKnown' /\ HeldIsLive' /\ DataAccounted'
<1>1. OnStack' = OnStack
  BY PushOnStack DEF JInv, Turns
<1>2. OftenKnown' /\ HeldIsLive' /\ DataAccounted'
  BY <1>1 DEF JInv, OftenKnown, HeldIsLive, DataAccounted
<1>3. ASSUME NEW i \in 1 .. Len(stack'), stack'[i].data \in DOMAIN data
      PROVE  i \in 1 .. Len(stack) /\ stack'[i] = stack[i]
  BY <1>3, PushFrame DEF JInv, Turns, Registered
<1>4. OnceRunning'
  BY <1>3 DEF JInv, OnceRunning
<1> QED BY <1>2, <1>4

\* New data is held or refused; no frame knows it yet.
LEMMA RegisterData ==
    ASSUME JInv, NoData \notin Data, NEW f \in Deletes \cup Keeps,
           NEW d \in Data \ DOMAIN data, newCallbackData(d, f),
           NEW frame \in Frames, Push(frame), frame.data = NoData,
           \/ held' = held \cup {d} /\ UNCHANGED dropped
           \/ dropped' = dropped \cup {d} /\ UNCHANGED held
    PROVE  Registered' /\ OnceRunning' /\ OftenKnown' /\ HeldIsLive'
               /\ DataAccounted'
<1>1. /\ DOMAIN data' = DOMAIN data \cup {d}
      /\ data'[d] = f /\ \A x \in DOMAIN data : data'[x] = data[x]
  BY DEF newCallbackData
<1>2. f \in Deletes \cup Often
  BY Kinds
<1>3. Registered'
  BY <1>1, <1>2 DEF JInv, Registered
<1>4. OnStack' = OnStack /\ OnStack \subseteq DOMAIN data
  BY PushOnStack DEF JInv, Turns, HeldIsLive
<1>5. OftenKnown' /\ HeldIsLive' /\ DataAccounted'
  BY <1>1, <1>4 DEF JInv, OftenKnown, HeldIsLive, DataAccounted
<1>6. ASSUME NEW i \in 1 .. Len(stack'), stack'[i].data \in DOMAIN data'
      PROVE  /\ i \in 1 .. Len(stack) /\ stack'[i] = stack[i]
             /\ stack[i].data \in DOMAIN data
  <2>1. stack'[i].data # NoData
    BY <1>1, <1>6 DEF JInv, Registered
  <2>2. i \in 1 .. Len(stack) /\ stack'[i] = stack[i]
    BY <2>1, PushFrame DEF JInv, Turns
  <2>3. stack[i].data \in OnStack
    BY <2>1, <2>2, OnStackIs DEF JInv, Turns
  <2> QED BY <1>4, <2>2, <2>3
<1>7. OnceRunning'
  BY <1>1, <1>6 DEF JInv, OnceRunning
<1> QED BY <1>3, <1>5, <1>7

LEMMA CallStep ==
    ASSUME JInv, NoData \notin Data, NEW f \in Functions, CallJni(f)
    PROVE  JInv'
<1>1. ML(f) \in Frames /\ ML(f).data = NoData /\ ML(f).side = "ml"
  BY DEF ML, Frames
<1>2. Push(ML(f)) /\ lib = "open" /\ UNCHANGED lib /\ Top.side = "java"
  BY DEF CallJni
<1>3. Turns' /\ Top' = ML(f)
  BY <1>1, <1>2, PushTurns DEF JInv
<1>4. SignalsFollowSide'
  <2>1. ~blocked
    BY <1>2 DEF JInv, SignalsFollowSide
  <2>2. saved' = blocked /\ blocked' = TRUE /\ early' = FALSE
    BY DEF CallJni, disableSignals, Push
  <2> QED BY <1>1, <1>3, <2>1, <2>2 DEF SignalsFollowSide
<1>5. Registered' /\ OnceRunning' /\ OftenKnown' /\ HeldIsLive'
          /\ DataAccounted'
  <2>1. CASE UNCHANGED <<data, held, dropped>>
    BY <1>1, <1>2, <2>1, PushNoData DEF JInv, Registered
  <2>2. CASE f \in Deletes \cup Keeps /\ \E d \in Data \ DOMAIN data :
                 /\ newCallbackData(d, f)
                 /\ \/ held' = held \cup {d} /\ UNCHANGED dropped
                    \/ dropped' = dropped \cup {d} /\ UNCHANGED held
    BY <1>1, <1>2, <2>2, RegisterData
  <2> QED BY <2>1, <2>2 DEF CallJni
<1> QED BY <1>3, <1>4, <1>5 DEF JInv

LEMMA AsyncStep ==
    ASSUME JInv, NoData \notin Data, asyncHandler, Push(Java(NoData))
    PROVE  JInv'
<1>1. /\ Java(NoData) \in Frames /\ Java(NoData).data = NoData
      /\ Java(NoData).side = "java"
  BY DEF Java, Frames
<1>2. Push(Java(NoData)) /\ UNCHANGED <<data, held, dropped, lib>>
  BY DEF asyncHandler
<1>3. stack # <<>> /\ Top.side = "ml" /\ lib = "open"
  <2>1. Top.loop
    BY DEF asyncHandler
  <2>2. stack # <<>>
    BY <2>1 DEF Top, Java
  <2>3. Top.side = "ml"
    BY <2>1, <2>2, TopSide DEF JInv, Frames
  <2> QED BY <2>2, <2>3 DEF JInv, Turns
<1>4. Turns' /\ Top' = Java(NoData)
  BY <1>1, <1>2, <1>3, PushTurns DEF JInv
<1>5. SignalsFollowSide'
  BY <1>1, <1>3, <1>4 DEF JInv, SignalsFollowSide, asyncHandler, enableSignals
<1>6. Registered' /\ OnceRunning' /\ OftenKnown' /\ HeldIsLive'
          /\ DataAccounted'
  BY <1>1, <1>2, PushNoData DEF JInv, Registered
<1> QED BY <1>4, <1>5, <1>6 DEF JInv

\* The async handler returns before it calls Java.
LEMMA AsyncFailsStep ==
    ASSUME JInv, asyncHandler, early' = TRUE, UNCHANGED stack
    PROVE  JInv'
<1>1. UNCHANGED <<stack, data, held, dropped, lib>> /\ Top.loop
  BY DEF asyncHandler
<1>2. Top' = Top /\ OnStack' = OnStack
  BY <1>1 DEF Top, OnStack
<1>3. Top.side = "ml"
  BY <1>1, TopSide DEF Top, Java, JInv, Frames
<1>4. SignalsFollowSide'
  BY <1>2, <1>3 DEF JInv, SignalsFollowSide, asyncHandler, enableSignals
<1>5. Turns' /\ Registered' /\ OnceRunning'
  BY <1>1 DEF JInv, Turns, Registered, OnceRunning
<1>6. OftenKnown' /\ HeldIsLive' /\ DataAccounted'
  BY <1>1, <1>2 DEF JInv, OftenKnown, HeldIsLive, DataAccounted
<1> QED BY <1>4, <1>5, <1>6 DEF JInv

\* A callback returns before it calls Java: nothing runs that did not.
LEMMA FailsStep ==
    ASSUME JInv, NEW d \in Data, CallbackFails(d)
    PROVE  JInv'
<1>1. Top' = Top /\ OnStack' = OnStack /\ Top.side = "ml"
  BY DEF CallbackFails, Called, Top, OnStack
<1>2. Turns' /\ Registered'
  BY DEF JInv, CallbackFails, Turns, Registered
<1>3. SignalsFollowSide'
  BY <1>1 DEF JInv, SignalsFollowSide, CallbackFails, Called, enableSignals
<1>4. held' \subseteq held /\ dropped \subseteq dropped' /\ held \subseteq held' \cup dropped'
  BY DEF CallbackFails, Called
<1>5. UNCHANGED <<stack, data>>
  BY DEF CallbackFails
<1>6. OnceRunning'
  BY <1>4, <1>5 DEF JInv, OnceRunning
<1>7. OftenKnown' /\ HeldIsLive' /\ DataAccounted'
  BY <1>1, <1>4, <1>5 DEF JInv, OftenKnown, HeldIsLive, DataAccounted
<1> QED BY <1>2, <1>3, <1>6, <1>7 DEF JInv

\* cuspOutstreamWrite fails: its data is new to every frame.
LEMMA CallFailsStep ==
    ASSUME JInv, CallFails
    PROVE  JInv'
<1>1. PICK d \in Data \ DOMAIN data :
          /\ newCallbackData(d, "cuspOutstreamWrite")
          /\ dropped' = dropped \cup {d}
  BY DEF CallFails
<1>2. /\ DOMAIN data' = DOMAIN data \cup {d}
      /\ data'[d] = "cuspOutstreamWrite"
      /\ \A x \in DOMAIN data : data'[x] = data[x]
  BY <1>1 DEF newCallbackData
<1>3. UNCHANGED <<stack, blocked, saved, held, early, lib>>
  BY DEF CallFails
<1>4. Top' = Top /\ OnStack' = OnStack /\ OnStack \subseteq DOMAIN data
  BY <1>3 DEF Top, OnStack, JInv, HeldIsLive
<1>5. Turns' /\ SignalsFollowSide'
  BY <1>3, <1>4 DEF JInv, Turns, SignalsFollowSide
<1>6. "cuspOutstreamWrite" \in Deletes
  <2>1. OutStream.deletes = {"cuspOutstreamShutdown", "cuspOutstreamWrite"}
    BY DEF OutStream, Section
  <2>2. OutStream \in Sections
    BY Zenon DEF Sections
  <2> QED BY <2>1, <2>2 DEF Deletes
<1>7. Registered'
  BY <1>2, <1>6 DEF JInv, Registered
<1>8. OftenKnown' /\ HeldIsLive' /\ DataAccounted'
  BY <1>1, <1>2, <1>3, <1>4 DEF JInv, OftenKnown, HeldIsLive, DataAccounted
<1>9. \A i \in 1 .. Len(stack) : stack[i].data # NoData => stack[i].data \in OnStack
  BY OnStackIs DEF JInv, Turns
<1>10. NoData \notin Data
  BY DataAssumption
<1>11. ASSUME NEW i \in 1 .. Len(stack), stack[i].data \in DOMAIN data'
       PROVE  stack[i].data \in DOMAIN data
  BY <1>1, <1>2, <1>4, <1>9, <1>10, <1>11 DEF JInv, Registered
<1>12. OnceRunning'
  BY <1>2, <1>3, <1>11 DEF JInv, OnceRunning
<1> QED BY <1>5, <1>7, <1>8, <1>12 DEF JInv

\* A callback: its data is live, and if it is to be deleted, nobody else's.
LEMMA CallbackStep ==
    ASSUME JInv, NoData \notin Data, NEW d \in Data, Callback(d)
    PROVE  JInv'
<1>1. /\ Java(d) \in Frames /\ Java(d).data = d /\ Java(d).side = "java"
  BY DEF Java, Frames
<1>2. Push(Java(d)) /\ UNCHANGED <<data, dropped, lib>> /\ Top.side = "ml"
  BY DEF Callback, Called
<1>3. d \in held /\ d \in DOMAIN data /\ d # NoData
  BY DEF Callback, Called, JInv, HeldIsLive
<1>4. lib = "open"
  BY <1>2, TopSide DEF JInv, Turns
<1>5. Turns' /\ Top' = Java(d)
  BY <1>1, <1>2, <1>4, PushTurns DEF JInv
<1>6. SignalsFollowSide'
  BY <1>1, <1>2, <1>4, <1>5
     DEF JInv, SignalsFollowSide, Callback, Called, enableSignals
<1>7. /\ data[d] \in Often => held' = held
      /\ data[d] \notin Often => held' = held \ {d}
  BY DEF Callback, Called
<1>8. OnStack' = OnStack \cup {d}
  BY <1>1, <1>2, <1>3, PushOnStack DEF JInv, Turns
<1>9. Registered' /\ OftenKnown' /\ HeldIsLive' /\ DataAccounted'
  BY <1>2, <1>3, <1>7, <1>8
     DEF JInv, Registered, OftenKnown, HeldIsLive, DataAccounted
<1>10. OnceRunning'
  <2>1. ASSUME NEW i \in 1 .. Len(stack),
               stack[i].data \in DOMAIN data, data[stack[i].data] \in Deletes
        PROVE  stack[i].data # d
    BY <1>3, <2>1 DEF JInv, OnceRunning
  <2>2. ASSUME NEW i \in 1 .. Len(stack')
        PROVE  \/ i \in 1 .. Len(stack) /\ stack'[i] = stack[i]
               \/ i = Len(stack) + 1 /\ stack'[i].data = d
    BY <1>1, <1>2, PushFrame DEF JInv, Turns
  <2>3. ASSUME NEW i \in 1 .. Len(stack'),
               stack'[i].data \in DOMAIN data, data[stack'[i].data] \in Deletes
        PROVE  stack'[i].data \notin held'
    <3>1. CASE i \in 1 .. Len(stack) /\ stack'[i] = stack[i]
      BY <1>7, <2>3, <3>1 DEF JInv, OnceRunning
    <3>2. CASE stack'[i].data = d
      BY <1>7, <2>3, <3>2, Kinds
    <3> QED BY <2>2, <3>1, <3>2
  <2>4. ASSUME NEW i \in 1 .. Len(stack'), NEW j \in 1 .. Len(stack'),
               stack'[i].data \in DOMAIN data,
               data[stack'[i].data] \in Deletes,
               stack'[j].data = stack'[i].data
        PROVE  j = i
    <3>1. CASE i \in 1 .. Len(stack) /\ stack'[i] = stack[i]
      <4>1. stack[i].data # d
        BY <2>1, <2>4, <3>1
      <4>2. j \in 1 .. Len(stack) /\ stack'[j] = stack[j]
        BY <2>2, <2>4, <3>1, <4>1
      <4> QED BY <2>4, <3>1, <4>2 DEF JInv, OnceRunning
    <3>2. CASE i = Len(stack) + 1 /\ stack'[i].data = d
      <4>1. ~(j \in 1 .. Len(stack) /\ stack'[j] = stack[j])
        BY <2>1, <2>4, <3>2
      <4> QED BY <2>2, <3>2, <4>1
    <3> QED BY <2>2, <3>1, <3>2
  <2> QED BY <1>2, <2>3, <2>4 DEF OnceRunning
<1> QED BY <1>5, <1>6, <1>9, <1>10 DEF JInv

LEMMA ReturnFromMlStep ==
    ASSUME JInv, NoData \notin Data, ReturnFromMl
    PROVE  JInv'
<1>1. stack # <<>> /\ Top.side = "ml" /\ Pop
  BY TopSide DEF ReturnFromMl, JInv
<1>2. UNCHANGED <<data, held, dropped, lib>> /\ lib = "open"
  BY <1>1 DEF ReturnFromMl, JInv, Turns
<1>3. Turns' /\ Top'.side = "java"
  BY <1>1, <1>2, PopTurns DEF JInv
<1>4. SignalsFollowSide'
  BY <1>1, <1>2, <1>3
     DEF JInv, SignalsFollowSide, ReturnFromMl, enableSignals
<1>5. Top.data = NoData
  BY <1>1, TopSide DEF JInv, Frames
<1>6. OnStack' = OnStack
  BY <1>1, <1>5, PopOnStack DEF JInv, Turns
<1>7. Registered' /\ OftenKnown' /\ HeldIsLive' /\ DataAccounted'
  BY <1>2, <1>6 DEF JInv, Registered, OftenKnown, HeldIsLive, DataAccounted
<1>8. \A i \in 1 .. Len(stack') :
          i \in 1 .. Len(stack) /\ stack'[i] = stack[i]
  BY <1>1, PopFrame DEF JInv, Turns
<1>9. OnceRunning'
  BY <1>2, <1>8 DEF JInv, OnceRunning
<1> QED BY <1>3, <1>4, <1>7, <1>9 DEF JInv

LEMMA ReturnFromCallbackStep ==
    ASSUME JInv, NoData \notin Data, ReturnFromCallback
    PROVE  JInv'
<1> DEFINE d == Top.data
<1>1. stack # <<>> /\ Top.side = "java" /\ Pop
  BY DEF ReturnFromCallback
<1>2. UNCHANGED <<held, dropped, lib>> /\ lib = "open"
  BY <1>1 DEF ReturnFromCallback, JInv, Turns
<1>3. Turns' /\ Top'.side = "ml"
  BY <1>1, <1>2, PopTurns DEF JInv
<1>4. SignalsFollowSide'
  BY <1>1, <1>2, <1>3
     DEF JInv, SignalsFollowSide, ReturnFromCallback, disableSignals, Pop
<1>5. OnStack = OnStack' \cup ({d} \ {NoData})
  BY <1>1, PopOnStack DEF JInv, Turns
<1>6. Len(stack) \in 1 .. Len(stack) /\ stack[Len(stack)].data = d
  BY <1>1, PopFrame DEF JInv, Turns
<1>7. \A i \in 1 .. Len(stack') :
          /\ i \in 1 .. Len(stack) /\ i # Len(stack)
          /\ stack'[i] = stack[i]
  BY <1>1, PopFrame DEF JInv, Turns
<1>8. CASE d \in DOMAIN data /\ data[d] \in Deletes
  <2>1. /\ DOMAIN data' = DOMAIN data \ {d}
        /\ \A x \in DOMAIN data' : data'[x] = data[x]
    BY <1>8 DEF ReturnFromCallback, DeletesData
  <2>2. d \notin held /\ \A i \in 1 .. Len(stack') : stack'[i].data # d
    BY <1>6, <1>7, <1>8 DEF JInv, OnceRunning
  <2>3. d \notin OnStack'
    <3>1. OnStack' = {stack'[i].data : i \in 1 .. Len(stack')} \ {NoData}
      BY <1>3 DEF Turns, OnStack
    <3> QED BY <2>2, <3>1
  <2>4. HeldIsLive' /\ DataAccounted'
    BY <1>2, <1>5, <2>1, <2>2, <2>3 DEF JInv, HeldIsLive, DataAccounted
  <2>5. Registered' /\ OftenKnown'
    BY <1>2, <1>5, <2>1, <2>4
       DEF JInv, Registered, OftenKnown, HeldIsLive
  <2>6. OnceRunning'
    BY <1>2, <1>7, <2>1 DEF JInv, OnceRunning
  <2> QED BY <1>3, <1>4, <2>4, <2>5, <2>6 DEF JInv
<1>9. CASE ~(d \in DOMAIN data /\ data[d] \in Deletes)
  <2>1. data' = data
    BY <1>9 DEF ReturnFromCallback, DeletesData
  <2>2. d # NoData => d \in held \cup dropped
    <3> SUFFICES ASSUME d # NoData PROVE d \in held \cup dropped
      OBVIOUS
    <3>1. d \in OnStack /\ d \in DOMAIN data
      BY <1>5 DEF JInv, HeldIsLive
    <3>2. data[d] \in Often
      BY <1>9, <3>1 DEF JInv, Registered
    <3> QED BY <3>1, <3>2 DEF JInv, OftenKnown
  <2>3. Registered' /\ OftenKnown' /\ HeldIsLive' /\ DataAccounted'
    BY <1>2, <1>5, <2>1, <2>2
       DEF JInv, Registered, OftenKnown, HeldIsLive, DataAccounted
  <2>4. OnceRunning'
    BY <1>2, <1>7, <2>1 DEF JInv, OnceRunning
  <2> QED BY <1>3, <1>4, <2>3, <2>4 DEF JInv
<1> QED BY <1>8, <1>9

LEMMA InitStep ==
    ASSUME JInit
    PROVE  JInv
<1>1. stack = <<>> /\ Len(stack) = 0 /\ DOMAIN data = {} /\ held = {}
  BY DEF JInit
<1>2. Top.side = "java" /\ OnStack = {}
  BY <1>1 DEF Top, Java, OnStack
<1>3. Turns /\ Registered /\ OnceRunning
  BY <1>1 DEF Turns, Registered, OnceRunning
<1>4. OftenKnown /\ SignalsFollowSide /\ HeldIsLive /\ DataAccounted
  BY <1>1, <1>2
     DEF JInit, OftenKnown, SignalsFollowSide, HeldIsLive, DataAccounted
<1> QED BY <1>3, <1>4 DEF JInv

\* The invariant is one, of every step.
LEMMA Inductive == JSpec => []JInv
<1>1. JInit => JInv
  BY InitStep
<1>2. JInv /\ [JNext]_jVars => JInv'
  <2>1. ASSUME JInv, JNext PROVE JInv'
    <3>1. CASE asyncHandler
      BY <2>1, <3>1, DataAssumption, AsyncStep, AsyncFailsStep DEF asyncHandler
    <3> QED BY <2>1, <3>1, DataAssumption, LibraryStep, CallStep, CallFailsStep,
               ReturnFromMlStep, CallbackStep, FailsStep,
               ReturnFromCallbackStep, ForgetStep DEF JNext
  <2>2. ASSUME JInv, UNCHANGED jVars PROVE JInv'
    BY <2>2 DEF jVars, JInv, Turns, Registered, OnceRunning, OftenKnown,
                SignalsFollowSide, HeldIsLive, DataAccounted, OnStack, Top
  <2> QED BY <2>1, <2>2
<1> QED BY <1>1, <1>2, PTL DEF JSpec
-----------------------------------------------------------------------------
(* Pinned arrays. *)

\* The ML side calls nobody back from a function that pins an array, except
\* from the one.
PinsAreQuiet ==
    \A f \in Pins \ {"bsBubbleInstantCreate"} : CallsBack[f] = {}

Unpinned(frame) == frame.pins \subseteq {"bsBubbleInstantCreate"}

\* An ML frame is a function's, and one that has called back pins nothing.
PinsInv ==
    \A i \in 1 .. Len(stack) :
        /\ stack[i].side = "ml" => \E f \in Functions : stack[i] = ML(f)
        /\ i < Len(stack) => Unpinned(stack[i])

\* The main loop pins nothing: it may call back whoever is registered.
LEMMA CallersUnpinned ==
    ASSUME PinsAreQuiet, NEW f \in Functions, ML(f).loop \/ ML(f).calls # {}
    PROVE  Unpinned(ML(f))
<1>1. "evtMain" \notin Pins
  BY SectionKinds DEF Pins
<1> QED BY <1>1 DEF ML, Unpinned, PinsAreQuiet

LEMMA PinsPush ==
    ASSUME Turns, PinsInv, NEW frame \in Frames, Push(frame),
           frame.side = "ml" => \E f \in Functions : frame = ML(f),
           stack # <<>> => Unpinned(Top)
    PROVE  PinsInv'
<1>1. ASSUME NEW i \in 1 .. Len(stack')
      PROVE  /\ stack'[i].side = "ml" => \E f \in Functions : stack'[i] = ML(f)
             /\ i < Len(stack') => Unpinned(stack'[i])
  <2>1. CASE i = Len(stack) + 1
    BY <2>1, PushFrame DEF Turns
  <2>2. CASE i = Len(stack) /\ stack # <<>>
    <3>1. i \in 1 .. Len(stack) /\ stack'[i] = stack[i] /\ stack[i] = Top
      BY <1>1, <2>2, PushFrame, TopSide DEF Turns
    <3> QED BY <3>1 DEF PinsInv
  <2>3. CASE i < Len(stack)
    <3>1. i \in 1 .. Len(stack) /\ stack'[i] = stack[i]
      BY <1>1, <2>3, PushFrame DEF Turns
    <3> QED BY <2>3, <3>1 DEF PinsInv
  <2> QED BY <1>1, <2>1, <2>2, <2>3, PushFrame DEF Turns
<1>2. \A i \in 1 .. Len(stack') :
          /\ stack'[i].side = "ml" => \E f \in Functions : stack'[i] = ML(f)
          /\ i < Len(stack') => Unpinned(stack'[i])
  BY <1>1
<1> QED BY <1>2 DEF PinsInv, Unpinned, ML

LEMMA PinsPop ==
    ASSUME Turns, PinsInv, stack # <<>>, Pop
    PROVE  PinsInv'
<1>1. /\ Len(stack) \in Nat /\ Len(stack') = Len(stack) - 1
      /\ \A i \in 1 .. Len(stack') : stack'[i] = stack[i]
  BY PopFrame DEF Turns
<1>2. \A i \in 1 .. Len(stack') : i \in 1 .. Len(stack) /\ i < Len(stack)
  BY <1>1
<1>3. \A i \in 1 .. Len(stack') :
          /\ stack'[i].side = "ml" => \E f \in Functions : stack'[i] = ML(f)
          /\ i < Len(stack') => Unpinned(stack'[i])
  BY <1>1, <1>2 DEF PinsInv
<1> QED BY <1>3 DEF PinsInv, Unpinned, ML

\* A step that calls from the Java side, or back to it.
LEMMA PinsStep ==
    ASSUME PinsAreQuiet, Turns, PinsInv, JNext
    PROVE  PinsInv'
<1>1. ASSUME NEW f \in Functions, CallJni(f)
      PROVE  PinsInv'
  <2>1. ML(f) \in Frames /\ Push(ML(f)) /\ Top.side = "java"
    BY <1>1 DEF ML, Frames, CallJni
  <2>2. stack # <<>> => Unpinned(Top)
    BY <2>1, TopSide DEF Frames, Unpinned
  <2> QED BY <1>1, <2>1, <2>2, PinsPush
<1>2. ASSUME NEW d \in Data \cup {NoData}, Push(Java(d)), Top.loop \/ Top.calls # {},
             Top.side = "ml"
      PROVE  PinsInv'
  <2>1. Java(d) \in Frames /\ Java(d).side = "java"
    BY DEF Java, Frames
  <2>2. stack # <<>> /\ Top = stack[Len(stack)] /\ Len(stack) \in 1 .. Len(stack)
    BY <1>2, TopSide DEF Turns
  <2>3. PICK f \in Functions : Top = ML(f)
    BY <1>2, <2>2 DEF PinsInv
  <2>4. Unpinned(Top)
    BY <1>2, <2>3, CallersUnpinned
  <2> QED BY <1>2, <2>1, <2>4, PinsPush
<1>3. ASSUME NEW d \in Data, Callback(d)
      PROVE  PinsInv'
  BY <1>2, <1>3 DEF Callback, Called
<1>4. CASE asyncHandler /\ Push(Java(NoData))
  <2>1. Top.side = "ml" /\ Top.loop
    BY <1>4, TopSide DEF asyncHandler, Top, Java, Frames
  <2> QED BY <1>2, <1>4, <2>1
<1>5. CASE ReturnFromMl \/ ReturnFromCallback
  <2>1. stack # <<>> /\ Pop
    BY <1>5, TopSide DEF ReturnFromMl, ReturnFromCallback
  <2> QED BY <2>1, PinsPop
<1>6. CASE stack' = stack
  BY <1>6 DEF PinsInv, Unpinned, ML
<1>7. ASSUME \/ libInit \/ libShutdown \/ CallFails
             \/ \E d \in Data : Forget(d) \/ CallbackFails(d)
      PROVE  stack' = stack
  BY <1>7 DEF libInit, libShutdown, CallFails, Forget, CallbackFails
<1>8. asyncHandler => Push(Java(NoData)) \/ stack' = stack
  BY DEF asyncHandler
<1> QED BY <1>1, <1>3, <1>4, <1>5, <1>6, <1>7, <1>8 DEF JNext
-----------------------------------------------------------------------------
(***************************************************************************)
(* disableSignals and enableSignals keep one global mask for all depths of *)
(* calls and callbacks, and still the signals are blocked while the ML     *)
(* side runs, but after a callback that returned early, and only until its *)
(* next one calls Java or it returns itself.                               *)
(***************************************************************************)
THEOREM SignalsAreRight == JSpec => []SignalsFollowSide
<1>1. JInv => SignalsFollowSide
  BY DEF JInv
<1> QED BY <1>1, Inductive, PTL

(***************************************************************************)
(* deleteCallbackData never deletes what a callback still uses or the ML   *)
(* side still may call with, whatever callbacks run within callbacks.      *)
(***************************************************************************)
THEOREM CallbacksFindTheirData == JSpec => []HeldIsLive
<1>1. JInv => HeldIsLive
  BY DEF JInv
<1> QED BY <1>1, Inductive, PTL

(***************************************************************************)
(* Callback data is deleted after its last use, but where the ML side      *)
(* refused or forgot the registration, and where a callback or             *)
(* cuspOutstreamWrite returned early: nothing else leaks.                  *)
(***************************************************************************)
THEOREM DataIsAccounted == JSpec => []DataAccounted
<1>1. JInv => DataAccounted
  BY DEF JInv
<1> QED BY <1>1, Inductive, PTL

(***************************************************************************)
(* No Java code runs while a native function holds an array that it pinned *)
(* with GetPrimitiveArrayCritical, at whatever depth, the main loop's      *)
(* included, but for bsBubbleInstantCreate: as long as the ML side calls   *)
(* nobody back from the other functions that pin one.                      *)
(***************************************************************************)
THEOREM PinsAreKept == ASSUME PinsAreQuiet PROVE JSpec => []CallbackPins
<1>1. JInit => PinsInv
  BY DEF JInit, PinsInv
<1>2. Turns /\ PinsInv /\ [JNext]_jVars => PinsInv'
  <2>1. ASSUME Turns, PinsInv, JNext PROVE PinsInv'
    BY <2>1, PinsStep
  <2>2. ASSUME PinsInv, UNCHANGED jVars PROVE PinsInv'
    BY <2>2 DEF jVars, PinsInv, Unpinned, ML
  <2> QED BY <2>1, <2>2
<1>3. JInv => Turns
  BY DEF JInv
<1>4. Turns /\ PinsInv => CallbackPins
  <2> SUFFICES ASSUME Turns, PinsInv, stack # <<>>, Top.side = "java",
                      NEW i \in DOMAIN stack
               PROVE  Unpinned(stack[i])
    BY DEF CallbackPins, Unpinned
  <2>1. i \in 1 .. Len(stack) /\ (i < Len(stack) \/ i = Len(stack))
    BY DEF Turns
  <2>2. Top = stack[Len(stack)] /\ Unpinned(Top)
    BY TopSide DEF Frames, Unpinned
  <2> QED BY <2>1, <2>2 DEF PinsInv
<1> QED BY <1>1, <1>2, <1>3, <1>4, Inductive, PTL DEF JSpec
-----------------------------------------------------------------------------
(* The threads of JniAsync. *)

NotYet == {"idle", "start", "wait", "add", "thrown"}
Here == {"end", "hangs"}
Handed == {"called", "close", "end"}

TaskInv ==
    \A c \in Callers :
        /\ runs[c] <= 1
        /\ pc[c] \in NotYet => runs[c] = 0
        /\ pc[c] = "close" => op[c] = "shutdown"
        /\ pc[c] = "end" /\ op[c] = "call" => runs[c] = 1
        /\ c \in waiting => pc[c] = "wait"

\* Every task of the queue is there once, and was given away.
QueueInv ==
    /\ \A i \in 1 .. Len(asyncTaskQ) :
          /\ pc[asyncTaskQ[i]] \in Handed
          /\ runs[asyncTaskQ[i]] = IF i <= next THEN 1 ELSE 0
          /\ \A j \in 1 .. Len(asyncTaskQ) : asyncTaskQ[j] = asyncTaskQ[i] => j = i
    /\ queueLock = Nobody => next = 0

Pending ==
    open /\ asyncTaskQ # <<>> =>
        \/ bytes > 0
        \/ queueLock # Nobody
        \/ \E l \in Loops : pc[l] \in {"queued", "woken"}

Labels == NotYet \cup Handed \cup Here
              \cup {"queued", "first", "enter", "loop", "woken", "again"}
PcShape == pc \in [Callers \cup Loops -> Labels]

AInv == ATypeOK /\ PcShape /\ TaskInv /\ QueueInv /\ Pending
-----------------------------------------------------------------------------
(* The callers. *)

\* A caller that has not given its task away goes on.
LEMMA CallerMoves ==
    ASSUME AInv, NEW c \in Callers, NEW label \in Labels, Goto(c, label)
    PROVE  /\ PcShape' /\ pc'[c] = label
           /\ \A t \in (Callers \cup Loops) \ {c} : pc'[t] = pc[t]
           /\ \A l \in Loops : pc'[l] = pc[l]
BY ThreadAssumption DEF AInv, PcShape, Goto

LEMMA HandOverStep ==
    ASSUME AInv, NEW c \in Callers, invokeInternal(c)
    PROVE  AInv'
<1>. USE DEF invokeInternal
<1>1. PICK label \in {"start", "add"} \cup Here :
          /\ Goto(c, label)
          /\ label \in Here => runs' = [runs EXCEPT ![c] = @ + 1]
          /\ label \notin Here => runs' = runs
  <2>. USE DEF Here
  <2>1. CASE /\ Goto(c, IF op[c] = "call" THEN "hangs" ELSE "end")
             /\ runs' = [runs EXCEPT ![c] = @ + 1]
    BY <2>1
  <2>2. CASE Goto(c, "start") /\ runs' = runs
    BY <2>2
  <2>3. CASE Goto(c, "add") /\ runs' = runs
    BY <2>3
  <2>. QED BY <2>1, <2>2, <2>3
<1>2. /\ PcShape' /\ pc'[c] = label
      /\ \A t \in (Callers \cup Loops) \ {c} : pc'[t] = pc[t]
      /\ \A l \in Loops : pc'[l] = pc[l]
  BY <1>1, CallerMoves DEF Labels, NotYet, Handed, Here
<1>3. runs \in [Callers -> Nat] /\ asyncTaskQ \in Seq(Callers) /\ runs[c] = 0 /\ pc[c] = "idle"
  BY DEF AInv, ATypeOK, TaskInv, NotYet
<1>4. /\ runs' \in [Callers -> Nat] /\ runs'[c] = IF label \in Here THEN 1 ELSE 0
      /\ \A x \in Callers \ {c} : runs'[x] = runs[x]
  BY <1>1, <1>3
<1>5. ATypeOK'
  BY <1>4 DEF AInv, ATypeOK
<1>6. TaskInv'
  BY <1>2, <1>3, <1>4 DEF AInv, TaskInv, NotYet, Here
<1>7. QueueInv'
  <2>1. \A i \in 1 .. Len(asyncTaskQ) : asyncTaskQ[i] \in Callers \ {c}
    BY <1>3 DEF AInv, QueueInv, Handed
  <2>. QED BY <1>2, <1>4, <2>1 DEF AInv, QueueInv
<1>8. Pending'
  BY <1>2 DEF AInv, Pending
<1>. QED BY <1>2, <1>5, <1>6, <1>7, <1>8 DEF AInv

LEMMA StartStep ==
    ASSUME AInv, NEW c \in Callers, startMainThread(c)
    PROVE  AInv'
<1>1. /\ asyncTaskQ \in Seq(Callers) /\ pc[c] = "start" /\ c \notin waiting
      /\ UNCHANGED <<op, mainThreadId, mainThreadSync, asyncTaskQ, queueLock,
                     next, bytes, stopFlag, runs, open>>
  BY DEF AInv, ATypeOK, TaskInv, startMainThread
<1>2. \A i \in 1 .. Len(asyncTaskQ) : asyncTaskQ[i] \in Callers \ {c}
  BY <1>1 DEF AInv, QueueInv, Handed
<1>. DEFINE Step == /\ PcShape' /\ pc'[c] \in {"add", "wait"}
                    /\ \A t \in Callers \ {c} : pc'[t] = pc[t]
                    /\ \A l \in Loops : pc'[l] = pc[l] \/ pc'[l] = "queued"
                    /\ waiting' \subseteq waiting \cup {c}
                    /\ c \in waiting' => pc'[c] = "wait"
<1>3. Step
  <2>1. CASE Goto(c, "add") /\ UNCHANGED waiting
    <3>1. /\ PcShape' /\ pc'[c] = "add"
          /\ \A t \in (Callers \cup Loops) \ {c} : pc'[t] = pc[t]
          /\ \A l \in Loops : pc'[l] = pc[l]
      BY <2>1, CallerMoves DEF Labels, NotYet, Handed
    <3>. QED BY <1>1, <2>1, <3>1
  <2>2. ASSUME NEW l \in Loops, pc' = [pc EXCEPT ![c] = "wait", ![l] = "queued"],
               waiting' = waiting \cup {c}
        PROVE  Step
    BY <2>2, ThreadAssumption DEF AInv, PcShape, Labels, NotYet
  <2>. QED BY <2>1, <2>2 DEF startMainThread
<1>4. ATypeOK'
  BY <1>1, <1>3 DEF AInv, ATypeOK
<1>5. TaskInv'
  BY <1>1, <1>3 DEF AInv, TaskInv, NotYet
<1>6. QueueInv'
  BY <1>1, <1>2, <1>3 DEF AInv, QueueInv
<1>7. Pending'
  BY <1>1, <1>3 DEF AInv, Pending
<1>. QED BY <1>3, <1>4, <1>5, <1>6, <1>7 DEF AInv

\* The queue with one more task that has not run.
LEMMA AppendTask ==
    ASSUME asyncTaskQ \in Seq(Callers), NEW c \in Callers,
           asyncTaskQ' = Append(asyncTaskQ, c)
    PROVE  /\ asyncTaskQ' \in Seq(Callers) /\ Len(asyncTaskQ') = Len(asyncTaskQ) + 1
           /\ \A i \in 1 .. Len(asyncTaskQ) : asyncTaskQ'[i] = asyncTaskQ[i]
           /\ asyncTaskQ'[Len(asyncTaskQ) + 1] = c
           /\ Len(asyncTaskQ) \in Nat
OBVIOUS

LEMMA AddStep ==
    ASSUME AInv, NEW c \in Callers, addTask(c)
    PROVE  AInv'
<1>1. /\ asyncTaskQ \in Seq(Callers) /\ next \in 0 .. Len(asyncTaskQ) /\ bytes \in Nat
      /\ pc[c] = "add" /\ runs[c] = 0 /\ c \notin waiting
      /\ \A i \in 1 .. Len(asyncTaskQ) : asyncTaskQ[i] \in Callers \ {c}
      /\ UNCHANGED <<op, mainThreadId, mainThreadSync, waiting, queueLock, next,
                     stopFlag, runs, open>>
  BY DEF AInv, ATypeOK, TaskInv, QueueInv, NotYet, Handed, addTask
<1>2. CASE /\ asyncTaskQ' = Append(asyncTaskQ, c)
           /\ bytes' = IF asyncTaskQ = <<>> THEN bytes + 1 ELSE bytes
           /\ Goto(c, CASE op[c] = "call" -> "called"
                        [] op[c] = "shutdown" -> "close"
                        [] OTHER -> "end")
  <2>. DEFINE label == CASE op[c] = "call" -> "called"
                         [] op[c] = "shutdown" -> "close"
                         [] OTHER -> "end"
  <2>1. /\ label \in Handed /\ label \in Labels
        /\ label = "close" => op[c] = "shutdown"
        /\ label = "end" => op[c] # "call"
    BY DEF Handed, Labels
  <2>2. Goto(c, label)
    BY <1>2
  <2>. HIDE DEF label
  <2>3. /\ PcShape' /\ pc'[c] = label
        /\ \A t \in (Callers \cup Loops) \ {c} : pc'[t] = pc[t]
        /\ \A l \in Loops : pc'[l] = pc[l]
    BY <2>1, <2>2, CallerMoves
  <2>4. /\ asyncTaskQ' \in Seq(Callers) /\ Len(asyncTaskQ') = Len(asyncTaskQ) + 1
        /\ \A i \in 1 .. Len(asyncTaskQ) : asyncTaskQ'[i] = asyncTaskQ[i]
        /\ asyncTaskQ'[Len(asyncTaskQ) + 1] = c /\ Len(asyncTaskQ) \in Nat
    BY <1>1, <1>2, AppendTask
  <2>5. ATypeOK'
    BY <1>1, <1>2, <2>4 DEF AInv, ATypeOK
  <2>6. TaskInv'
    BY <1>1, <2>1, <2>3 DEF AInv, TaskInv, NotYet, Handed
  <2>7. QueueInv'
    <3>1. ASSUME NEW i \in 1 .. Len(asyncTaskQ')
          PROVE  \/ i \in 1 .. Len(asyncTaskQ) /\ asyncTaskQ'[i] = asyncTaskQ[i]
                 \/ i = Len(asyncTaskQ) + 1 /\ asyncTaskQ'[i] = c
      BY <2>4
    <3>2. ASSUME NEW i \in 1 .. Len(asyncTaskQ')
          PROVE  /\ pc'[asyncTaskQ'[i]] \in Handed
                 /\ runs'[asyncTaskQ'[i]] = IF i <= next THEN 1 ELSE 0
      <4>1. CASE i \in 1 .. Len(asyncTaskQ) /\ asyncTaskQ'[i] = asyncTaskQ[i]
        BY <1>1, <2>3, <4>1 DEF AInv, QueueInv
      <4>2. CASE i = Len(asyncTaskQ) + 1 /\ asyncTaskQ'[i] = c
        BY <1>1, <2>1, <2>3, <2>4, <4>2
      <4>. QED BY <3>1, <4>1, <4>2
    <3>3. ASSUME NEW i \in 1 .. Len(asyncTaskQ'), NEW j \in 1 .. Len(asyncTaskQ'),
                 asyncTaskQ'[j] = asyncTaskQ'[i]
          PROVE  j = i
      <4>1. CASE i \in 1 .. Len(asyncTaskQ) /\ asyncTaskQ'[i] = asyncTaskQ[i]
        <5>1. j \in 1 .. Len(asyncTaskQ) /\ asyncTaskQ'[j] = asyncTaskQ[j]
          BY <1>1, <3>1, <3>3, <4>1
        <5>. QED BY <3>3, <4>1, <5>1 DEF AInv, QueueInv
      <4>2. CASE i = Len(asyncTaskQ) + 1 /\ asyncTaskQ'[i] = c
        BY <1>1, <3>1, <3>3, <4>2
      <4>. QED BY <3>1, <4>1, <4>2
    <3>. QED BY <1>1, <3>2, <3>3 DEF AInv, QueueInv
  <2>8. Pending'
    BY <1>1, <1>2, <2>3 DEF AInv, Pending
  <2>. QED BY <2>3, <2>5, <2>6, <2>7, <2>8 DEF AInv
<1>3. CASE ~open /\ Goto(c, "thrown") /\ UNCHANGED <<asyncTaskQ, bytes>>
  <2>1. /\ PcShape' /\ pc'[c] = "thrown"
        /\ \A t \in (Callers \cup Loops) \ {c} : pc'[t] = pc[t]
        /\ \A l \in Loops : pc'[l] = pc[l]
    BY <1>3, CallerMoves DEF Labels, NotYet
  <2>2. ATypeOK'
    BY <1>1, <1>3 DEF AInv, ATypeOK
  <2>3. TaskInv'
    BY <1>1, <2>1 DEF AInv, TaskInv, NotYet
  <2>4. QueueInv'
    BY <1>1, <1>3, <2>1 DEF AInv, QueueInv
  <2>5. Pending'
    BY <1>1, <1>3 DEF Pending
  <2>. QED BY <2>1, <2>2, <2>3, <2>4, <2>5 DEF AInv
<1>. QED BY <1>2, <1>3 DEF addTask

\* What a caller still does after it gave its task away.
LEMMA EndStep ==
    ASSUME AInv, NEW c \in Callers, returnResult(c) \/ shutdown(c)
    PROVE  AInv'
<1>1. /\ Goto(c, "end") /\ pc[c] \in Handed /\ c \notin waiting
      /\ op[c] = "call" => runs[c] = 1
      /\ open' = open \/ open' = FALSE
      /\ UNCHANGED <<op, mainThreadId, mainThreadSync, waiting, asyncTaskQ,
                     queueLock, next, bytes, stopFlag, runs>>
  BY DEF AInv, ATypeOK, TaskInv, Handed, returnResult, shutdown
<1>2. /\ PcShape' /\ pc'[c] = "end"
      /\ \A t \in (Callers \cup Loops) \ {c} : pc'[t] = pc[t]
      /\ \A l \in Loops : pc'[l] = pc[l]
  BY <1>1, CallerMoves DEF Labels, Handed
<1>3. ATypeOK'
  BY <1>1 DEF AInv, ATypeOK
<1>4. TaskInv'
  BY <1>1, <1>2 DEF AInv, TaskInv, NotYet
<1>5. QueueInv'
  <2>1. \A x \in Callers : pc[x] \in Handed => pc'[x] \in Handed
    BY <1>2 DEF Handed
  <2>. QED BY <1>1, <2>1 DEF AInv, ATypeOK, QueueInv
<1>6. Pending'
  BY <1>1, <1>2 DEF AInv, Pending
<1>. QED BY <1>2, <1>3, <1>4, <1>5, <1>6 DEF AInv
-----------------------------------------------------------------------------
(* The threads of the main loop. *)

LEMMA LoopMoves ==
    ASSUME AInv, NEW l \in Loops, NEW label \in Labels, Goto(l, label)
    PROVE  /\ PcShape' /\ pc'[l] = label
           /\ \A c \in Callers : pc'[c] = pc[c]
           /\ \A x \in Loops \ {l} : pc'[x] = pc[x]
BY ThreadAssumption DEF AInv, PcShape, Goto

\* A thread of the loop that changes neither the queue nor who has run.
LEMMA LoopStep ==
    ASSUME AInv, ATypeOK', PcShape', \A c \in Callers : pc'[c] = pc[c],
           UNCHANGED <<op, waiting, asyncTaskQ, next, runs>>,
           queueLock' = Nobody => next = 0
    PROVE  TaskInv' /\ QueueInv'
<1>1. TaskInv'
  BY DEF AInv, TaskInv
<1>2. QueueInv'
  BY DEF AInv, ATypeOK, QueueInv
<1>. QED BY <1>1, <1>2

LEMMA LockStep ==
    ASSUME AInv, NEW l \in Loops, lockQueue(l)
    PROVE  AInv'
<1>1. /\ UNCHANGED <<op, mainThreadId, mainThreadSync, waiting, asyncTaskQ,
                     bytes, stopFlag, runs, open>>
      /\ UNCHANGED next
      /\ \/ queueLock' = l
         \/ ~open /\ UNCHANGED queueLock
  BY DEF AInv, QueueInv, lockQueue
<1>2. PICK label \in Labels : Goto(l, label)
  BY DEF lockQueue, Labels, NotYet
<1>3. PcShape' /\ \A c \in Callers : pc'[c] = pc[c]
  BY <1>2, LoopMoves
<1>4. ATypeOK'
  BY <1>1 DEF AInv, ATypeOK
<1>5. TaskInv' /\ QueueInv'
  BY <1>1, <1>3, <1>4, LoopStep, ThreadAssumption DEF AInv, QueueInv
<1>6. Pending'
  BY <1>1, ThreadAssumption DEF Pending
<1>. QED BY <1>3, <1>4, <1>5, <1>6 DEF AInv

\* The first task that has not run.
LEMMA RunStep ==
    ASSUME AInv, NEW l \in Loops, runTask(l)
    PROVE  AInv'
<1>. DEFINE c == asyncTaskQ[next + 1]
<1>1. /\ queueLock = l /\ next' = next + 1
      /\ runs' = [runs EXCEPT ![c] = runs[c] + 1] /\ stopFlag' \in BOOLEAN
      /\ UNCHANGED <<pc, op, mainThreadId, mainThreadSync, waiting, asyncTaskQ,
                     queueLock, bytes, open>>
  BY DEF AInv, ATypeOK, runTask
<1>2. /\ asyncTaskQ \in Seq(Callers) /\ next \in Nat /\ Len(asyncTaskQ) \in Nat
      /\ next + 1 \in 1 .. Len(asyncTaskQ) /\ c \in Callers
  BY DEF AInv, ATypeOK, runTask
<1>3. runs[c] = 0 /\ pc[c] \in Handed
  BY <1>2 DEF AInv, QueueInv
<1>4. runs' \in [Callers -> Nat] /\ runs'[c] = 1 /\ \A x \in Callers \ {c} : runs'[x] = runs[x]
  BY <1>1, <1>2, <1>3 DEF AInv, ATypeOK
<1>5. \A i \in 1 .. Len(asyncTaskQ) : asyncTaskQ[i] \in Callers /\ (asyncTaskQ[i] = c => i = next + 1)
  BY <1>2 DEF AInv, QueueInv
<1>. HIDE DEF c
<1>6. ATypeOK'
  BY <1>1, <1>2, <1>4 DEF AInv, ATypeOK
<1>7. TaskInv'
  BY <1>1, <1>3, <1>4 DEF AInv, TaskInv, NotYet, Handed
<1>8. QueueInv'
  <2>1. ASSUME NEW i \in 1 .. Len(asyncTaskQ)
        PROVE  runs'[asyncTaskQ[i]] = IF i <= next + 1 THEN 1 ELSE 0
    <3>1. CASE i = next + 1
      BY <1>2, <1>4, <3>1 DEF c
    <3>2. CASE i # next + 1
      <4>1. runs'[asyncTaskQ[i]] = IF i <= next THEN 1 ELSE 0
        BY <1>4, <1>5, <3>2 DEF AInv, QueueInv
      <4>. QED BY <1>2, <3>2, <4>1
    <3>. QED BY <3>1, <3>2
  <2>. QED BY <1>1, <2>1, ThreadAssumption DEF AInv, QueueInv
<1>9. Pending'
  BY <1>1, ThreadAssumption DEF Pending
<1>. QED BY <1>1, <1>6, <1>7, <1>8, <1>9 DEF AInv, PcShape

LEMMA ClearTasksStep ==
    ASSUME AInv, NEW l \in Loops, clearQueue(l)
    PROVE  AInv'
<1>1. /\ asyncTaskQ' = <<>> /\ next' = 0 /\ queueLock' = Nobody
      /\ UNCHANGED <<op, mainThreadId, mainThreadSync, waiting, bytes, stopFlag,
                     runs, open>>
  BY DEF clearQueue
<1>2. PICK label \in Labels : Goto(l, label)
  BY DEF clearQueue, Labels, NotYet
<1>3. PcShape' /\ \A c \in Callers : pc'[c] = pc[c]
  BY <1>2, LoopMoves
<1>4. asyncTaskQ' \in Seq(Callers) /\ Len(asyncTaskQ') = 0
  BY <1>1
<1>5. ATypeOK'
  BY <1>1, <1>4 DEF AInv, ATypeOK
<1>6. TaskInv'
  BY <1>1, <1>3 DEF AInv, TaskInv
<1>7. QueueInv' /\ Pending'
  BY <1>1, <1>4 DEF QueueInv, Pending
<1>. QED BY <1>3, <1>5, <1>6, <1>7 DEF AInv

\* Those who wait for a loop have not added their tasks.
LEMMA MainStep ==
    ASSUME AInv, NEW l \in Loops, mainLoop(l)
    PROVE  AInv'
<1>1. /\ mainThreadSync' = l /\ mainThreadId' = l /\ waiting' = {} /\ pc[l] = "enter"
      /\ UNCHANGED <<op, asyncTaskQ, queueLock, next, bytes, stopFlag, runs, open>>
  BY DEF mainLoop
<1>2. /\ PcShape' /\ pc'[l] = "loop"
      /\ \A x \in Loops \ {l} : pc'[x] = pc[x]
      /\ \A c \in Callers : pc'[c] = IF c \in waiting THEN "add" ELSE pc[c]
  <2>1. waiting \cap Loops = {}
    BY ThreadAssumption DEF AInv, ATypeOK
  <2>2. pc' = [t \in Callers \cup Loops |->
                 IF t = l THEN "loop" ELSE IF t \in waiting THEN "add" ELSE pc[t]]
    BY DEF mainLoop
  <2>. QED BY <2>1, <2>2, ThreadAssumption DEF AInv, PcShape, Labels, NotYet
<1>3. \A c \in waiting : pc[c] = "wait" /\ c \in Callers
  BY DEF AInv, ATypeOK, TaskInv
<1>4. ATypeOK'
  BY <1>1 DEF AInv, ATypeOK
<1>5. TaskInv'
  BY <1>1, <1>2, <1>3 DEF AInv, TaskInv, NotYet
<1>6. QueueInv'
  <2>1. \A c \in Callers : pc[c] \in Handed => pc'[c] \in Handed
    BY <1>2, <1>3 DEF Handed
  <2>2. \A i \in 1 .. Len(asyncTaskQ) : asyncTaskQ[i] \in Callers /\ pc[asyncTaskQ[i]] \in Handed
    BY DEF AInv, ATypeOK, QueueInv
  <2>3. \A i \in 1 .. Len(asyncTaskQ) : pc'[asyncTaskQ[i]] \in Handed
    BY <2>1, <2>2
  <2>. QED BY <1>1, <2>3 DEF AInv, QueueInv
<1>7. Pending'
  BY <1>1, <1>2 DEF AInv, Pending
<1>. QED BY <1>2, <1>4, <1>5, <1>6, <1>7 DEF AInv

LEMMA WakeStep ==
    ASSUME AInv, NEW l \in Loops, wake(l)
    PROVE  AInv'
<1>1. /\ Goto(l, "woken") /\ bytes > 0 /\ bytes' = bytes - 1
      /\ UNCHANGED <<op, mainThreadId, mainThreadSync, waiting, asyncTaskQ,
                     queueLock, next, stopFlag, runs, open>>
  BY DEF wake
<1>2. PcShape' /\ pc'[l] = "woken" /\ \A c \in Callers : pc'[c] = pc[c]
  BY <1>1, LoopMoves DEF Labels
<1>3. ATypeOK'
  BY <1>1 DEF AInv, ATypeOK
<1>4. TaskInv' /\ QueueInv'
  BY <1>1, <1>2, <1>3, LoopStep DEF AInv, QueueInv
<1>5. Pending'
  BY <1>2 DEF Pending
<1>. QED BY <1>2, <1>3, <1>4, <1>5 DEF AInv

LEMMA EndLoopStep ==
    ASSUME AInv, NEW l \in Loops, endLoop(l)
    PROVE  AInv'
<1>1. /\ Goto(l, "end") /\ pc[l] = "loop" /\ stopFlag' = FALSE
      /\ mainThreadId' = Nobody /\ mainThreadSync' = Nobody
      /\ UNCHANGED <<op, waiting, asyncTaskQ, queueLock, next, bytes, runs, open>>
  BY DEF endLoop
<1>2. /\ PcShape' /\ \A c \in Callers : pc'[c] = pc[c]
      /\ \A x \in Loops \ {l} : pc'[x] = pc[x]
  BY <1>1, LoopMoves DEF Labels, Handed
<1>3. ATypeOK'
  BY <1>1 DEF AInv, ATypeOK
<1>4. TaskInv' /\ QueueInv'
  BY <1>1, <1>2, <1>3, LoopStep DEF AInv, QueueInv
<1>5. Pending'
  BY <1>1, <1>2 DEF AInv, Pending
<1>. QED BY <1>2, <1>3, <1>4, <1>5 DEF AInv
-----------------------------------------------------------------------------
(* The theorems. *)

LEMMA AInvInit == ASSUME AInit PROVE AInv
<1>0. PcShape
  BY DEF AInit, PcShape, Labels, NotYet
<1>1. ATypeOK
  <2>1. asyncTaskQ \in Seq(Callers) /\ next \in 0 .. Len(asyncTaskQ)
    BY DEF AInit
  <2>. QED BY <2>1 DEF AInit, ATypeOK
<1>2. TaskInv /\ QueueInv /\ Pending
  BY DEF AInit, TaskInv, QueueInv, Pending, NotYet
<1>. QED BY <1>0, <1>1, <1>2 DEF AInv

LEMMA AsyncInductive == ASpec => []AInv
<1>1. AInit => AInv
  BY AInvInit
<1>2. AInv /\ [ANext]_aVars => AInv'
  <2>1. ASSUME AInv, NEW c \in Callers,
               \/ invokeInternal(c) \/ startMainThread(c) \/ addTask(c)
               \/ returnResult(c) \/ shutdown(c)
        PROVE  AInv'
    BY <2>1, HandOverStep, StartStep, AddStep, EndStep
  <2>2. ASSUME AInv, NEW l \in Loops,
               \/ lockQueue(l) \/ runTask(l) \/ clearQueue(l)
               \/ mainLoop(l) \/ wake(l) \/ endLoop(l)
        PROVE  AInv'
    BY <2>2, LockStep, RunStep, ClearTasksStep, MainStep, WakeStep, EndLoopStep
  <2>3. ASSUME AInv, UNCHANGED aVars
        PROVE  AInv'
    BY <2>3 DEF aVars, AInv, ATypeOK, PcShape, TaskInv, QueueInv, Pending
  <2>. QED BY <2>1, <2>2, <2>3 DEF ANext
<1>. QED BY <1>1, <1>2, PTL DEF ASpec

(***************************************************************************)
(* A task that a thread hands to the main loop (invokeInternal) runs once, *)
(* whatever loops start and stop meanwhile, and `call` returns its result; *)
(* and a queue with tasks in it is never one that no loop will look into   *)
(* because its byte was already read (asyncCallback).                      *)
(***************************************************************************)
THEOREM TasksAlwaysRun == ASpec => []TasksRun
<1>1. AInv => EachTaskOnce
  BY DEF AInv, ATypeOK, TaskInv, EachTaskOnce, NotYet
<1>2. AInv => WakeupPending
  BY DEF AInv, Pending, WakeupPending
<1>. QED BY <1>1, <1>2, AsyncInductive, PTL DEF TasksRun
-----------------------------------------------------------------------------
(* The types of the bridge. *)

\* What JInv does not say of them; the bound is that of the model.
JTyped ==
    /\ Len(stack) <= MaxFrames
    /\ blocked \in BOOLEAN /\ saved \in BOOLEAN /\ early \in BOOLEAN
    /\ dropped \subseteq Data
    /\ lib \in {"new", "failed", "open", "closed"}

\* One call more, where there was room for it.
LEMMA RoomForOne ==
    ASSUME Turns, NEW frame \in Frames, Push(frame), Len(stack) < MaxFrames
    PROVE  Len(stack') <= MaxFrames
<1>1. Len(stack') = Len(stack) + 1 /\ Len(stack) \in Nat
  BY PushFrame DEF Turns
<1> QED BY <1>1, DataAssumption

\* One call less.
LEMMA RoomAgain ==
    ASSUME Turns, stack # <<>>, Pop, Len(stack) <= MaxFrames
    PROVE  Len(stack') <= MaxFrames
<1>1. Len(stack) \in Nat \ {0} /\ Len(stack') = Len(stack) - 1
  BY PopFrame DEF Turns
<1> QED BY <1>1, DataAssumption

LEMMA TypedStep ==
    ASSUME JInv, JTyped, JNext
    PROVE  JTyped'
<1>0. Turns
  BY DEF JInv
<1>1. CASE libInit \/ libShutdown
  <2>1. held \subseteq Data
    BY DEF JInv, HeldIsLive, Registered
  <2>2. UNCHANGED stack
    BY <1>1 DEF libInit, libShutdown
  <2> QED BY <1>1, <2>1, <2>2 DEF JTyped, libInit, libShutdown
<1>2. ASSUME NEW f \in Functions, CallJni(f) PROVE JTyped'
  <2>1. ML(f) \in Frames
    BY DEF ML, Frames
  <2>2. Len(stack') <= MaxFrames
    BY <1>0, <1>2, <2>1, RoomForOne DEF CallJni
  <2>3. dropped' \subseteq Data
    BY <1>2 DEF JTyped, CallJni
  <2> QED BY <1>2, <2>2, <2>3 DEF JTyped, CallJni, disableSignals, Push
<1>3. CASE ReturnFromMl
  <2>1. stack # <<>> /\ Pop
    BY <1>0, <1>3, TopSide DEF ReturnFromMl
  <2>2. Len(stack') <= MaxFrames
    BY <1>0, <2>1, RoomAgain DEF JTyped
  <2> QED BY <1>3, <2>2 DEF JTyped, ReturnFromMl, enableSignals, Pop
<1>4. ASSUME NEW d \in Data, Callback(d) PROVE JTyped'
  <2>1. Java(d) \in Frames
    BY DEF Java, Frames
  <2>2. Len(stack') <= MaxFrames
    BY <1>0, <1>4, <2>1, RoomForOne DEF Callback
  <2> QED BY <1>4, <2>2 DEF JTyped, Callback, Called, enableSignals, Push
<1>5. CASE asyncHandler /\ Len(stack) < MaxFrames /\ Push(Java(NoData))
  <2>1. Java(NoData) \in Frames
    BY DEF Java, Frames
  <2>2. Len(stack') <= MaxFrames
    BY <1>0, <1>5, <2>1, RoomForOne
  <2> QED BY <1>5, <2>2 DEF JTyped, asyncHandler, enableSignals, Push
<1>6. CASE ReturnFromCallback
  <2>1. Len(stack') <= MaxFrames
    BY <1>0, <1>6, RoomAgain DEF JTyped, ReturnFromCallback
  <2> QED BY <1>6, <2>1 DEF JTyped, ReturnFromCallback, disableSignals, Pop
<1>7. ASSUME NEW d \in Data, Forget(d) PROVE JTyped'
  BY <1>7 DEF JTyped, Forget
<1>8. CASE asyncHandler /\ early' = TRUE /\ UNCHANGED stack
  BY <1>8 DEF JTyped, asyncHandler, enableSignals
<1>9. ASSUME NEW d \in Data, CallbackFails(d) PROVE JTyped'
  BY <1>9 DEF JTyped, CallbackFails, Called, enableSignals
<1>10. CASE CallFails
  BY <1>10 DEF JTyped, CallFails
<1>11. asyncHandler => \/ Len(stack) < MaxFrames /\ Push(Java(NoData))
                       \/ early' = TRUE /\ UNCHANGED stack
  BY DEF asyncHandler
<1> QED BY <1>1, <1>2, <1>3, <1>4, <1>5, <1>6, <1>7, <1>8, <1>9, <1>10, <1>11
        DEF JNext

LEMMA BridgeTyped == JSpec => []JTypeOK
<1>1. JInit => JTyped
  <2> SUFFICES ASSUME JInit PROVE JTyped
    OBVIOUS
  <2>1. stack = <<>> /\ Len(stack) = 0
    BY DEF JInit
  <2>2. Len(stack) <= MaxFrames
    BY <2>1, DataAssumption
  <2> QED BY <2>2 DEF JInit, JTyped
<1>2. JInv /\ JTyped /\ [JNext]_jVars => JTyped'
  <2>1. ASSUME JInv, JTyped, UNCHANGED jVars PROVE JTyped'
    BY <2>1 DEF jVars, JTyped
  <2> QED BY <2>1, TypedStep
<1>3. JInv /\ JTyped => JTypeOK
  <2> SUFFICES ASSUME JInv, JTyped PROVE JTypeOK
    OBVIOUS
  <2>1. \A frame \in Frames : frame.side \in {"java", "ml"}
    BY DEF Frames
  <2>2. \A i \in DOMAIN stack : stack[i].side \in {"java", "ml"}
    BY <2>1 DEF JInv, Turns
  <2>3. DOMAIN data \subseteq Data /\ held \subseteq Data
    BY DEF JInv, Registered, HeldIsLive
  <2> QED BY <2>2, <2>3 DEF JTyped, JTypeOK
<1> QED BY <1>1, <1>2, <1>3, Inductive, PTL DEF JSpec
-----------------------------------------------------------------------------
(* All of them. *)

\* What the invariant of the bucket says of its variables.
LEMMA BucketTyped == ASSUME IInv PROVE TypeOK
<1>1. Length \in Nat \ {0} /\ DOMAIN table = 0 .. Length - 1
  BY LengthIs DEF IInv
<1>2. NoRoomIsLost
  BY HeadIsFree DEF IInv
<1>3. free \in Int
  BY <1>1, <1>2 DEF NoRoomIsLost, FreeCells, Nil
<1> QED BY <1>1, <1>3 DEF IInv, Typed, TypeOK

\* The variables of the bucket, the objects, the bridge and the tasks have their
\* types, for every value of the constants.
THEOREM TypesAlwaysHold ==
    ASSUME FreesItsOwn PROVE Spec /\ CSpec /\ JSpec /\ ASpec => []TypesOK
<1>1. IInv => TypeOK
  BY BucketTyped
<1>2. CInv => CTypeOK
  BY DEF CInv
<1>3. AInv => ATypeOK
  BY DEF AInv
<1>. QED BY <1>1, <1>2, <1>3, BridgeTyped, BucketInvariant, CInvHolds,
           AsyncInductive, PTL DEF TypesOK
=============================================================================
