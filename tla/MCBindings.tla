----------------------------- MODULE MCBindings -----------------------------
(***************************************************************************)
(* The bindings side by side: the table of handles (IdBucket), objects of  *)
(* the C++ classes that own them (CppBindings), sets of suites (SuiteSet), *)
(* a thread between Java and the ML side (JniBridge) and the threads that  *)
(* hand it tasks (JniAsync).  They share no state; which of them a         *)
(* behaviour belongs to is chosen at the start.                            *)
(***************************************************************************)
EXTENDS IdBucket, CppBindings, JniBridge, JniAsync, TLC

CONSTANT Width                           \* SuiteSet

ASSUME WidthAssumption == Width \in Nat

VARIABLES which, mask, set, returned

\* The classes of the C++ bindings; the program does not use the one whose
\* destructor frees in the table of another.
Bindings == INSTANCE BubbleStormClasses
AllClasses == Bindings!ClassTable
SoundClasses == DOMAIN AllClasses \ {"InstantBubbleType"}

ASSUME SoundAssumption == FreesItsOwn

Suites == INSTANCE SuiteSet

Matches == {"bsBubbleTypeBasicMatch", "bsBubbleTypePersistentMatchWithId"}

\* The functions within which the ML side calls back: the main loop makes
\* every callback, a bubble is matched, and stored, where it is created, a
\* query asks its own peer at once, and the list of a store that has ended is
\* searched for what to remove from it.
Calling ==
    [f \in Functions |->
        IF f = "evtMain" THEN Functions
        ELSE IF f = "bsBubbleInstantCreate" THEN Matches
        ELSE IF f = "bsBubbleFadingCreate"
             THEN Matches \cup {"bsBubbleMasterNewFading"}
        ELSE IF f = "bsBubbleTypeDurableDatastoreListCb(-1)"
             THEN {"bsBubbleMasterNewDurable"}
        ELSE IF f = "bsQueryQuery" THEN {"bsQueryNew"}
        ELSE {}]

suiteVars == <<mask, set, returned>>
AllVars == <<which, bVars, cVars, suiteVars, jVars, aVars>>

UnionInit ==
    /\ which \in {"bucket", "cpp", "suites", "bridge", "async"}
    /\ Init /\ CInit /\ JInit
    /\ IF which = "suites" THEN Suites!Init
       ELSE mask = 0 /\ set = 0 /\ returned = <<>>
    /\ IF which = "async" THEN AInit
       ELSE AInit /\ op = [c \in Callers |-> "invoke"]

UnionNext ==
    \/ /\ which = "bucket" /\ Next
       /\ UNCHANGED <<which, cVars, suiteVars, jVars, aVars>>
    \/ /\ which = "cpp" /\ CNext
       /\ UNCHANGED <<which, bVars, suiteVars, jVars, aVars>>
    \/ /\ which = "suites" /\ Suites!Next
       /\ UNCHANGED <<which, bVars, cVars, jVars, aVars>>
    \/ /\ which = "bridge" /\ JNext
       /\ UNCHANGED <<which, bVars, cVars, suiteVars, aVars>>
    \/ /\ which = "async" /\ ANext
       /\ UNCHANGED <<which, bVars, cVars, suiteVars, jVars>>

UnionSpec == UnionInit /\ [][UnionNext]_AllVars

Alike == Permutations(Handles) \cup Permutations(Slots)
-----------------------------------------------------------------------------
(* The properties, as their modules state them. *)

\* Each module's variables are what it says they are.
TypesOK == TypeOK /\ CTypeOK /\ JTypeOK /\ ATypeOK

\* The iterator returns every suite of the set exactly once.
EachSuiteOnce == Suites!EachSuiteOnce
=============================================================================
