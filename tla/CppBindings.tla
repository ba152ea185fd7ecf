---------------------------- MODULE CppBindings ----------------------------
(***************************************************************************)
(* The life of a C++ program on the bindings: objects that own handles of  *)
(* the ML side, are copied, assigned, destroyed, returned by functions and *)
(* handed to callbacks, thrown as exceptions, and outlive bsShutdown.      *)
(* What each class returns and wraps is in its table, that of              *)
(* BubbleStormClasses in the runs; the table behind a bucket is IdBucket,  *)
(* of which this module uses what HandleTable promises: alloc returns some *)
(* handle that is not live.                                                *)
(***************************************************************************)
EXTENDS BindingClasses, Naturals

CONSTANTS Handles,               \* the handles of each bucket
          Slots,                 \* where objects are: variables and the stack
          Table,                 \* class -> what it consists of and returns
          InPlay,                \* the classes the program uses
          MaxDepth,              \* callbacks within callbacks
          MaxOpens               \* the bound on openCounter

VARIABLES live,                  \* <<bucket, handle>> allocated on the ML side
          objs,                  \* slot -> object
          depth,                 \* how many callbacks are running
          openCounter,
          library,               \* "new", "open" or "closed"
          failed                 \* the assertion that ended the program

cVars == <<live, objs, depth, openCounter, library, failed>>

Parts(c) == Table[c].parts
Classes == {c \in InPlay : Parts(c) # <<>>}

\* What the proofs need of the table, and the classes have: an object's handles
\* are of different buckets; a base class's are among its derived class's, and
\* a channel's members have one each; the handles a callback gets are of
\* different buckets.
Described(c) ==
    /\ \E n \in 1 .. 3 : DOMAIN Parts(c) = 1 .. n
    /\ Len(Parts(c)) \in DOMAIN Parts(c)
    /\ \A i, j \in DOMAIN Parts(c) : Parts(c)[i] = Parts(c)[j] => i = j
    /\ \A b \in Table[c].bases :
          /\ Parts(b) # <<>>
          /\ \A j \in DOMAIN Parts(b) :
                \E i \in DOMAIN Parts(c) : Parts(c)[i] = Parts(b)[j]
    /\ c = "Channel" => \A b \in Table[c].bases : DOMAIN Parts(b) = {1}

HandsOne(given) ==
    \A i, j \in DOMAIN given :
        given[i] \in Classes =>
            /\ DOMAIN Parts(given[i]) = {1}
            /\ given[j] \in Classes /\ Parts(given[i])[1] = Parts(given[j])[1]
                   => i = j

ASSUME TableAssumption ==
    /\ \A c \in InPlay : \A given \in Table[c].hands : HandsOne(given)
    /\ \A c \in Classes : Described(c)
    /\ \A c \in InPlay : Table[c].refuses \cap {"free", "handle"} = {}
    /\ "BSException" \in Classes
    /\ None \notin Handles
    /\ MaxDepth \in Nat /\ MaxOpens \in Nat

\* Every destructor frees its handles in the tables they are of.  (That of
\* InstantBubbleType does not.)
FreesItsOwn == \A c \in Classes : Table[c].frees = Parts(c)

Object(c, h, frame) == [class |-> c, h |-> h, frame |-> frame]
Nothing == Object(None, <<>>, 0)
Used == {s \in Slots : objs[s] # Nothing}
Unused == Slots \ Used

\* The types as which an object may be copied: its own and its base classes'
\* (for a channel, its members').
Views(c) == {c} \cup Table[c].bases
Part(c, bucket) == CHOOSE i \in DOMAIN Parts(c) : Parts(c)[i] = bucket
Viewed(o, as) ==
    [j \in DOMAIN Parts(as) |-> o.h[Part(o.class, Parts(as)[j])]]

\* A slip: the destructors do not ask whether the library is open.
IS_VALID_HANDLE_Always(h) == h # None

\* IS_VALID_HANDLE: while the library is closed no handle is valid.
IS_VALID_HANDLE(h) == library = "open" /\ h # None

\* The handles of the valid objects that have the class, or it as a base
\* class: those its methods, and functions that take such an object, pass.
Passed(c) ==
    {<<Parts(c)[Len(Parts(c))], Viewed(objs[s], c)[Len(Parts(c))]>> :
        s \in {r \in Used :
                 /\ c \in Views(objs[r].class)
                 /\ IS_VALID_HANDLE(Viewed(objs[r], c)[Len(Parts(c))])}}

Held(c) == Passed(c) \cap live # {}

\* The ML side finds every handle that a copy of the object dups.
Known(o, as) ==
    \A i \in DOMAIN Parts(as) :
        IS_VALID_HANDLE(Viewed(o, as)[i]) =>
            <<Parts(as)[i], Viewed(o, as)[i]>> \in live

Fresh(bucket) == {h \in Handles : <<bucket, h>> \notin live}
Nones(c) == [i \in DOMAIN Parts(c) |-> None]

\* The handles the ML side may give a new object.  (A channel that is not
\* connected has no host.)
Given(c) ==
    {h \in [DOMAIN Parts(c) -> Handles \cup {None}] :
        \A i \in DOMAIN h :
            IF h[i] = None THEN c = "Channel" /\ i = 2
            ELSE h[i] \in Fresh(Parts(c)[i])}

\* A slip: the copy constructor shares the handle instead of calling dup.
Copied_Shared(o, as) == {Viewed(o, as)}

\* A slip: a copy constructor that forgets to copy its base class.
Copied_OwnPart(o, as) ==
    {h \in [DOMAIN Parts(as) -> Handles \cup {None}] :
        \A i \in DOMAIN h :
            IF i = Len(Parts(as)) /\ IS_VALID_HANDLE(Viewed(o, as)[i])
            THEN h[i] \in Fresh(Parts(as)[i]) ELSE h[i] = None}

\* The copy constructors, base classes first: a dup of every valid handle.
Copied(o, as) ==
    {h \in [DOMAIN Parts(as) -> Handles \cup {None}] :
        \A i \in DOMAIN h :
            IF IS_VALID_HANDLE(Viewed(o, as)[i])
            THEN h[i] \in Fresh(Parts(as)[i]) ELSE h[i] = None}

\* The parts the destructors of the objects in these slots free, and what.
ToFree(slots) ==
    {f \in slots \X (1 .. 3) :
        f[2] \in DOMAIN objs[f[1]].h /\ IS_VALID_HANDLE(objs[f[1]].h[f[2]])}
Handle(f) ==
    <<Table[objs[f[1]].class].frees[f[2]], objs[f[1]].h[f[2]]>>
Freed(slots) == {Handle(f) : f \in ToFree(slots)}

\* The destructors' ASSERT_CALL_TRUE(..._free(handle)): every handle was live
\* and is freed once.
Frees(slots) ==
    /\ Freed(slots) \subseteq live
    /\ \A f, g \in ToFree(slots) : Handle(f) = Handle(g) => f = g

New(c, h) == {<<Parts(c)[i], h[i]>> : i \in {j \in DOMAIN h : h[j] # None}}

CInit ==
    /\ live = {} /\ objs = [s \in Slots |-> Nothing]
    /\ depth = 0 /\ openCounter = 0 /\ library = "new" /\ failed = None

Fail(what) ==
    failed' = what /\ UNCHANGED <<live, objs, depth, openCounter, library>>
-----------------------------------------------------------------------------
bsInit ==
    /\ library # "closed" /\ openCounter < MaxOpens
    /\ openCounter' = openCounter + 1 /\ library' = "open"
    /\ UNCHANGED <<live, objs, depth, failed>>

\* A slip: bsShutdown does not assert openCounter > 0.
bsShutdown_Unasserted ==
    /\ depth = 0
    /\ openCounter' = openCounter - 1
    /\ IF openCounter = 1 THEN library' = "closed" /\ live' = {}
       ELSE UNCHANGED <<library, live>>
    /\ UNCHANGED <<objs, depth, failed>>

\* The last bsShutdown closes the library, which forgets every handle.
bsShutdown ==
    /\ depth = 0 /\ openCounter > 0
    /\ openCounter' = openCounter - 1
    /\ IF openCounter = 1 THEN library' = "closed" /\ live' = {}
       ELSE UNCHANGED <<library, live>>
    /\ UNCHANGED <<objs, depth, failed>>

\* The default constructor.
Declare(s, c) ==
    /\ s \in Unused
    /\ objs' = [objs EXCEPT ![s] = Object(c, Nones(c), 0)]
    /\ UNCHANGED <<live, depth, openCounter, library, failed>>

\* The copy constructor, also of a base class (the copy is sliced): what dup
\* returns is asserted to be a handle.
Copy(s, t, as) ==
    /\ s \in Used /\ t \in Unused /\ as \in Views(objs[s].class)
    /\ \/ /\ Known(objs[s], as)
          /\ \E h \in Copied(objs[s], as) :
                /\ objs' = [objs EXCEPT ![t] = Object(as, h, 0)]
                /\ live' = live \cup New(as, h)
          /\ UNCHANGED <<depth, openCounter, library, failed>>
       \/ ~Known(objs[s], as) /\ Fail("handle")

\* A slip: operator= overwrites the handle it holds.
Assign_Overwrites(s, t) ==
    /\ s \in Used /\ t \in Used /\ objs[t].class \in Views(objs[s].class)
    /\ \E h \in Copied(objs[s], objs[t].class) :
          /\ objs' = [objs EXCEPT ![t].h = h]
          /\ live' = live \cup New(objs[t].class, h)
    /\ UNCHANGED <<depth, openCounter, library, failed>>

\* operator=: a copy is made, swapped with the object, and destroyed with the
\* handles the object had.  An object may be assigned to itself.
Assign(s, t) ==
    /\ s \in Used /\ t \in Used /\ objs[t].class \in Views(objs[s].class)
    /\ \/ /\ Known(objs[s], objs[t].class) /\ Frees({t})
          /\ \E h \in Copied(objs[s], objs[t].class) :
                /\ objs' = [objs EXCEPT ![t].h = h]
                /\ live' = (live \cup New(objs[t].class, h))
                               \ Freed({t})
          /\ UNCHANGED <<depth, openCounter, library, failed>>
       \/ ~Known(objs[s], objs[t].class) /\ Fail("handle")
       \/ /\ Known(objs[s], objs[t].class)
          /\ ~Frees({t}) /\ Fail("free")

Destroy(s) ==
    /\ s \in Used /\ objs[s].frame = 0
    /\ \/ /\ Frees({s})
          /\ live' = live \ Freed({s})
          /\ objs' = [objs EXCEPT ![s] = Nothing]
          /\ UNCHANGED <<depth, openCounter, library, failed>>
       \/ ~Frees({s}) /\ Fail("free")
-----------------------------------------------------------------------------
\* The static functions, and the methods of the valid objects the program has.
Calls(c) == DOMAIN Table[c].makes \cup DOMAIN Table[c].calls
Function(c, f) ==
    IF f \in DOMAIN Table[c].makes THEN Table[c].makes[f] ELSE Table[c].calls[f]
Callable(c, f) ==
    /\ library = "open"
    /\ f \in DOMAIN Table[c].makes \/ Held(c)
    /\ \A a \in Function(c, f).args : Held(a)

\* A function that returns an object: the handle is wrapped, or ~2 becomes an
\* empty object.
Invoke(c, f, t) ==
    /\ Callable(c, f) /\ Function(c, f).gives \in Classes /\ t \in Unused
    /\ \E h \in Given(Function(c, f).gives)
               \cup (IF Function(c, f).empty THEN {Nones(Function(c, f).gives)}
                     ELSE {}) :
          /\ objs' = [objs EXCEPT ![t] = Object(Function(c, f).gives, h, 0)]
          /\ live' = live \cup New(Function(c, f).gives, h)
    /\ UNCHANGED <<depth, openCounter, library, failed>>

\* A function answers ~1, which checkResult and the constructors assert it does
\* not: a method's own handle, or one it passes, is not known, or the function
\* refuses what else it got.
Refused(c) ==
    /\ library = "open"
    /\ \/ /\ Table[c].asks # {} \/ DOMAIN Table[c].calls # {}
          /\ ~(Passed(c) \subseteq live)
          /\ Fail("handle")
       \/ \E f \in Table[c].refuses :
             /\ IF f \in Calls(c) THEN Callable(c, f)
                ELSE Parts(c) = <<>> \/ Held(c)
             /\ Fail(f)

\* Any function may raise on the ML side: checkResult throws an object that
\* owns the handle of the exception.
Raise(c, t) ==
    /\ library = "open" /\ t \in Unused
    /\ Table[c].asks # {} \/ \E f \in Calls(c) : Callable(c, f)
    /\ \E h \in Given("BSException") :
          /\ objs' = [objs EXCEPT ![t] = Object("BSException", h, 0)]
          /\ live' = live \cup New("BSException", h)
    /\ UNCHANGED <<depth, openCounter, library, failed>>

\* A callback wraps the handles it gets in temporaries of its frame.  (Which
\* handlers are registered is not kept: a registration outlives its object.)
Enter(c, given) ==
    /\ library = "open" /\ depth < MaxDepth
    /\ \A i \in DOMAIN given : given[i] \in Classes
    /\ \E at \in [DOMAIN given -> Unused], h \in [DOMAIN given -> Handles] :
          /\ \A i, j \in DOMAIN given : i # j => at[i] # at[j]
          /\ \A i \in DOMAIN given : h[i] \in Fresh(Parts(given[i])[1])
          /\ objs' = [s \in Slots |->
                 IF \E i \in DOMAIN given : at[i] = s
                 THEN LET i == CHOOSE j \in DOMAIN given : at[j] = s
                      IN  Object(given[i], <<h[i]>>, depth + 1)
                 ELSE objs[s]]
          /\ live' = live \cup
                 {<<Parts(given[i])[1], h[i]>> : i \in DOMAIN given}
    /\ depth' = depth + 1
    /\ UNCHANGED <<openCounter, library, failed>>

\* The callback returns: its temporaries are destroyed.
Return ==
    LET ends == {s \in Used : objs[s].frame = depth} IN
    /\ depth > 0
    /\ \/ /\ Frees(ends)
          /\ live' = live \ Freed(ends)
          /\ objs' = [s \in Slots |-> IF s \in ends THEN Nothing ELSE objs[s]]
          /\ depth' = depth - 1
          /\ UNCHANGED <<openCounter, library, failed>>
       \/ ~Frees(ends) /\ Fail("free")
-----------------------------------------------------------------------------
CNext ==
    /\ failed = None
    /\ \/ bsInit
       \/ bsShutdown
       \/ \E s \in Slots, c \in Classes : Declare(s, c)
       \/ \E s, t \in Slots, c \in Classes : Copy(s, t, c)
       \/ \E s, t \in Slots : Assign(s, t)
       \/ \E s \in Slots : Destroy(s)
       \/ \E c \in InPlay, t \in Slots :
             \/ \E f \in Calls(c) : Invoke(c, f, t)
             \/ Raise(c, t)
       \/ \E c \in InPlay :
             \/ Refused(c)
             \/ \E given \in Table[c].hands : Enter(c, given)
       \/ Return

CSpec == CInit /\ [][CNext]_cVars
-----------------------------------------------------------------------------
Objects ==
    UNION {[class : {c}, h : [DOMAIN Parts(c) -> Handles \cup {None}],
            frame : 0 .. MaxDepth] : c \in Classes}

CTypeOK ==
    /\ \A x \in live : x[2] \in Handles
    /\ objs \in [Slots -> Objects \cup {Nothing}]
    /\ depth \in 0 .. MaxDepth /\ openCounter \in 0 .. MaxOpens
    /\ library \in {"new", "open", "closed"}

(***************************************************************************)
(* While the library is open every live handle is owned by exactly one     *)
(* part of one object, and what an object owns is live: nothing the ML     *)
(* side handed out is lost, by a return value, a callback, an exception,   *)
(* an assignment or a sliced copy, and nothing is freed behind its owner.  *)
(***************************************************************************)
Owners(b, h) ==
    {f \in Used \X (1 .. 3) :
        /\ f[2] \in DOMAIN objs[f[1]].h
        /\ Parts(objs[f[1]].class)[f[2]] = b
        /\ objs[f[1]].h[f[2]] = h}
OneOwner ==
    library = "open" =>
        /\ \A x \in live :
              \E f \in Used \X (1 .. 3) : Owners(x[1], x[2]) = {f}
        /\ \A s \in Used : New(objs[s].class, objs[s].h) \subseteq live

(***************************************************************************)
(* No assertion fails over the handle of an object: a destructor never     *)
(* frees what is not live, also after bsShutdown and after copies of       *)
(* copies, and neither dup nor a function gets a handle that the ML side   *)
(* does not know.  The assertions that do fail are on what the program     *)
(* passed itself (Refused): a key, a time or a notification that cannot be *)
(* read, an iterator at its end, a query without a receiver.               *)
(***************************************************************************)
AssertsHold == failed \notin {"free", "handle"}

(***************************************************************************)
(* isValid of a derived class looks at its own handle, its base class's    *)
(* methods at theirs: whatever was copied or assigned, an object has all   *)
(* of its handles or none.  (A channel may lack its host.)                 *)
(***************************************************************************)
WholeObjects ==
    \A s \in Used : objs[s].class # "Channel" =>
        \/ \A i \in DOMAIN objs[s].h : objs[s].h[i] = None
        \/ \A i \in DOMAIN objs[s].h : objs[s].h[i] # None

\* While the library is open each live handle has one owner among the objects
\* of the C++ bindings, and what they own is live; an object of a derived
\* class has the handles of all its base classes or of none, however it was
\* copied.
ObjectsOwn == OneOwner /\ WholeObjects
=============================================================================
