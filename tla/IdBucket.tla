------------------------------ MODULE IdBucket ------------------------------
(***************************************************************************)
(* util/container/id-bucket.sml: the table behind every handle of the C,   *)
(* C++ and Java bindings, with the two operations bindings/c/common builds *)
(* on it (bucketOps).  A cell is FREE next, a link of the free list, or    *)
(* FULL value; alloc takes the head of the list and doubles the table when *)
(* the list is empty.                                                      *)
(***************************************************************************)
EXTENDS Integers, FiniteSets

CONSTANTS Values,                \* the objects stored
          InitialSize,           \* 4 in the code
          MaxCells               \* the bound on the table's growth

ASSUME SizeAssumption ==
    /\ InitialSize \in Nat \ {0}
    /\ MaxCells \in Nat

VARIABLES table, free, fill, result

bVars == <<table, free, fill, result>>

Nil == -1                        \* ~1, the end of the free list
Invalid == -1                    \* what dup returns for a bad handle
Done == -2                       \* a call that returns no handle

FREE(next) == [tag |-> "FREE", next |-> next]
FULL(x) == [tag |-> "FULL", value |-> x]

Cells == [tag : {"FREE"}, next : Int] \cup [tag : {"FULL"}, value : Values]

\* Array.length of the table: its indices are 0 .. length - 1.
Length == Cardinality(DOMAIN table)
FreeCells == {i \in DOMAIN table : table[i].tag = "FREE"}
FullCells == {i \in DOMAIN table : table[i].tag = "FULL"}

\* Cell i of a chain of fresh cells that ends at index n - 1.
freeTail(n, i) == FREE(IF i = n - 1 THEN Nil ELSE i + 1)

EmptyTable == [i \in 0 .. InitialSize - 1 |-> freeTail(InitialSize, i)]

Init == table = EmptyTable /\ free = 0 /\ fill = 0 /\ result = Done

\* A slip: the doubled table does not keep the old cells.
Grown_Fresh == [i \in 0 .. 2 * Length - 1 |-> freeTail(2 * Length, i)]

\* The table as alloc finds it: doubled if the free list is empty, the new
\* cells chained behind the old ones.
Grown ==
    [i \in 0 .. 2 * Length - 1 |->
        IF i < Length THEN table[i] ELSE freeTail(2 * Length, i)]
TableFor == IF free = Nil THEN Grown ELSE table
HeadFor == IF free = Nil THEN Length ELSE free

\* A FULL cell at the head is the code's Fail "Impossibly full cell".
CanAlloc ==
    /\ free = Nil => 2 * Length <= MaxCells
    /\ TableFor[HeadFor].tag = "FREE"

alloc(x) ==
    /\ CanAlloc
    /\ table' = [TableFor EXCEPT ![HeadFor] = FULL(x)]
    /\ free' = TableFor[HeadFor].next
    /\ fill' = fill + 1
    /\ result' = HeadFor

\* bucketOps' dup: sub, and a second handle for what it finds.
dup(i) ==
    \/ i \in FullCells /\ alloc(table[i].value)
    \/ i \notin FullCells /\ result' = Invalid /\ UNCHANGED <<table, free, fill>>

\* A slip: free forgets to link the old head behind the freed cell.
freeId_Unlinked(i) ==
    \/ /\ i \in FullCells
       /\ table' = [table EXCEPT ![i] = FREE(Nil)]
       /\ free' = i
       /\ fill' = fill - 1
       /\ result' = Done
    \/ i \notin FullCells /\ result' = Invalid /\ UNCHANGED <<table, free, fill>>

\* A slip: free does not look whether the cell is in use.
freeId_Twice(i) ==
    /\ i \in DOMAIN table
    /\ table' = [table EXCEPT ![i] = FREE(free)]
    /\ free' = i
    /\ fill' = fill - 1
    /\ result' = Done

\* bucketOps' free: false stands for AlreadyFree.
freeId(i) ==
    \/ /\ i \in FullCells
       /\ table' = [table EXCEPT ![i] = FREE(free)]
       /\ free' = i
       /\ fill' = fill - 1
       /\ result' = Done
    \/ i \notin FullCells /\ result' = Invalid /\ UNCHANGED <<table, free, fill>>

\* A slip: clear leaves no cells, which doubling cannot grow.
clear_Empty ==
    table' = [i \in {} |-> FREE(Nil)] /\ free' = Nil /\ fill' = 0 /\ result' = Done

\* replace, which the iterators use to move on.  It is called after sub has
\* found the cell, so never with AlreadyFree.
replace(i, x) ==
    /\ i \in FullCells
    /\ table' = [table EXCEPT ![i] = FULL(x)]
    /\ result' = Done
    /\ UNCHANGED <<free, fill>>

clear ==
    table' = EmptyTable /\ free' = 0 /\ fill' = 0 /\ result' = Done

\* The indices a caller may try: those of the table and one beyond.
Tried == DOMAIN table \cup {Length}

Next ==
    \/ \E x \in Values : alloc(x)
    \/ \E i \in Tried : dup(i)
    \/ \E i \in Tried : freeId(i)
    \/ \E i \in Tried, x \in Values : replace(i, x)
    \/ clear

Spec == Init /\ [][Next]_bVars
-----------------------------------------------------------------------------
TypeOK ==
    /\ DOMAIN table = 0 .. Length - 1 /\ Length > 0
    /\ \A i \in DOMAIN table : table[i] \in Cells
    /\ free \in Int /\ fill \in Int /\ result \in Int

(***************************************************************************)
(* The free list is empty only when every cell is full: alloc neither      *)
(* doubles a table that has room nor finds a full cell at the head of the  *)
(* list (Fail "Impossibly full cell").  A link lost in free or grow breaks *)
(* it many calls later.                                                    *)
(***************************************************************************)
NoRoomIsLost ==
    IF FreeCells = {} THEN free = Nil ELSE free \in FreeCells

(***************************************************************************)
(* The count of handles in use, which is kept apart from the cells, is the *)
(* number of full cells, also after a refused free and after growth.       *)
(***************************************************************************)
FillCounts == fill = Cardinality(FullCells)

(***************************************************************************)
(* The bucket is a table of handles: the object of a live handle does not  *)
(* change by growth, by other handles' calls or by frees, and alloc never  *)
(* returns a live handle (HandleTable).                                    *)
(***************************************************************************)
Store == [i \in FullCells |-> table[i].value]
Abstract == INSTANCE HandleTable WITH store <- Store, result <- result
Promise == Abstract!HSpec
=============================================================================
