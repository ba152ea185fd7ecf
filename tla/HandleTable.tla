---------------------------- MODULE HandleTable ----------------------------
(***************************************************************************)
(* What the C interface needs of a bucket of handles, with no table and no *)
(* free list: a handle that is given out designates one object until it is *)
(* given back, and no live handle is ever given out again.                 *)
(***************************************************************************)
EXTENDS Integers

CONSTANT Values                  \* the objects handles designate

VARIABLES store,                 \* live handle -> object
          result                 \* what the last call returned

hVars == <<store, result>>

\* The results that are not handles: ~1 of a dup, false and true of a free.
Invalid == -1
Done == -2

HInit == store = [h \in {} |-> Invalid] /\ result = Done

\* A handle for v that nobody holds.  (The new store is named by its domain,
\* so that the step can be evaluated between two given states.)
Create(v) ==
    \E h \in (DOMAIN store') \ (DOMAIN store) :
        /\ store' = [x \in DOMAIN store \cup {h} |->
                        IF x = h THEN v ELSE store[x]]
        /\ result' = h

\* A second handle for the object of another one.
Duplicate ==
    \/ \E h \in DOMAIN store : Create(store[h])
    \/ result' = Invalid /\ UNCHANGED store

\* The handle is given back; the others keep their objects.
Release ==
    \/ \E h \in DOMAIN store :
          /\ store' = [x \in DOMAIN store \ {h} |-> store[x]]
          /\ result' = Done
    \/ result' = Invalid /\ UNCHANGED store

\* The handle is made to designate another object (an iterator that moves).
Redirect ==
    \E h \in DOMAIN store, v \in Values :
        store' = [store EXCEPT ![h] = v] /\ result' = Done

\* Every handle is forgotten.
Forget == store' = [h \in {} |-> Invalid] /\ result' = Done

HNext ==
    \/ \E v \in Values : Create(v)
    \/ Duplicate
    \/ Release
    \/ Redirect
    \/ Forget

HSpec == HInit /\ [][HNext]_hVars
=============================================================================
