----------------------------- MODULE JniBridge -----------------------------
(***************************************************************************)
(* bindings/java/common/main-jni.c and the functions of JniFunctions: one  *)
(* thread that crosses between Java and the ML side, in calls and, within  *)
(* them, callbacks.  Signals are blocked while the ML side runs, by a mask *)
(* that is saved in one global variable; a callback finds its Java object  *)
(* in data that was allocated when it was registered.                      *)
(***************************************************************************)
EXTENDS JniFunctions, Sequences, FiniteSets, Naturals

CONSTANTS Data,                  \* the callback data that malloc may return
          CallsBack,             \* function -> whose callbacks the ML side may
                                 \* call before the function returns
          MaxFrames              \* the bound on the calls within calls

VARIABLES stack,                 \* the calls in progress
          blocked,               \* the thread's signal mask blocks them all
          saved,                 \* sigSave does
          data,                  \* allocated data -> who registered it
          held,                  \* the data the ML side may call back with
          dropped,               \* data that nobody will delete any more
          early,                 \* the ML side goes on after a callback that
                                 \* returned before it called Java
          lib                    \* "new", "failed", "open" or "closed"

jVars == <<stack, blocked, saved, data, held, dropped, early, lib>>

NoData == "no data"

ASSUME DataAssumption == NoData \notin Data /\ MaxFrames \in Nat

\* A Java frame knows the data of its callback, an ML frame the function if it
\* pins an array, whose callbacks it may make, and whether it is the main loop.
Java(d) == [side |-> "java", data |-> d, pins |-> {}, calls |-> {},
            loop |-> FALSE]
ML(f) == [side |-> "ml", data |-> NoData, pins |-> {f} \cap Pins,
          calls |-> CallsBack[f], loop |-> f = "evtMain"]
Top == IF stack = <<>> THEN Java(NoData) ELSE stack[Len(stack)]
Push(frame) == stack' = Append(stack, frame) /\ early' = FALSE
Pop == stack' = SubSeq(stack, 1, Len(stack) - 1) /\ early' = FALSE

disableSignals == saved' = blocked /\ blocked' = TRUE
enableSignals == blocked' = saved /\ UNCHANGED saved

\* What the ML side promises: these call back until they are unregistered,
\* the others at most once.
Often == {"evtEventNew", "cuspEndpointAdvertise", "bsBubbleMasterNewFading",
          "bsBubbleMasterNewManaged", "bsBubbleMasterNewDurable",
          "bsBubbleTypeBasicMatch", "bsBubbleTypePersistentMatchWithId",
          "bsBubbleDurableLookup", "bsNotificationNew", "bsQueryNew",
          "bsQueryQuery"}

\* Slips: every callback deletes its data, and none does.
DeletesData_Every(f) == TRUE
DeletesData_None(f) == FALSE

\* The callback that f registers ends with deleteCallbackData.
DeletesData(f) == f \in Deletes

newCallbackData(d, f) ==
    data' = [x \in DOMAIN data \cup {d} |->
                IF x = d THEN f ELSE data[x]]

\* JNI_OnLoad fills the saved mask.
JInit ==
    /\ stack = <<>> /\ blocked = FALSE /\ saved = TRUE
    /\ data = [d \in {} |-> TRUE] /\ held = {} /\ dropped = {}
    /\ early = FALSE /\ lib = "new"
-----------------------------------------------------------------------------
\* Without its async handler it fails before it enables the signals.
libInit ==
    /\ lib = "new"
    /\ saved' = blocked
    /\ \/ lib' = "open" /\ blocked' = saved'
       \/ lib' = "failed" /\ blocked' = TRUE
    /\ UNCHANGED <<stack, data, held, dropped, early>>

\* Closing the library deletes no data.
libShutdown ==
    /\ lib = "open" /\ stack = <<>>
    /\ lib' = "closed"
    /\ saved' = blocked /\ blocked' = saved'
    /\ held' = {} /\ dropped' = dropped \cup held
    /\ UNCHANGED <<stack, data, early>>

\* Java calls a native function.  When it registers a callback the ML side
\* takes the data or, with a result below zero, refuses it.
CallJni(f) ==
    /\ lib = "open" /\ Top.side = "java" /\ Len(stack) < MaxFrames
    /\ disableSignals
    /\ Push(ML(f))
    /\ \/ /\ f \notin Deletes \cup Keeps
          /\ UNCHANGED <<data, held, dropped>>
       \/ \E d \in Data \ DOMAIN data :
             /\ f \in Deletes \cup Keeps
             /\ newCallbackData(d, f)
             /\ \/ held' = held \cup {d} /\ UNCHANGED dropped
                \/ dropped' = dropped \cup {d} /\ UNCHANGED held
    /\ UNCHANGED lib

\* cuspOutstreamWrite returns without the array, and without its new data.
CallFails ==
    /\ lib = "open" /\ Top.side = "java"
    /\ \E d \in Data \ DOMAIN data :
          newCallbackData(d, "cuspOutstreamWrite") /\ dropped' = dropped \cup {d}
    /\ UNCHANGED <<stack, blocked, saved, held, early, lib>>

ReturnFromMl ==
    /\ Top.side = "ml"
    /\ Pop
    /\ enableSignals
    /\ UNCHANGED <<data, held, dropped, lib>>

\* The ML side calls a registered callback.
Called(d) ==
    /\ Top.side = "ml" /\ d \in held
    /\ data[d] \in Top.calls
    /\ enableSignals
    /\ held' = IF data[d] \in Often THEN held ELSE held \ {d}

Callback(d) ==
    /\ Called(d) /\ Len(stack) < MaxFrames
    /\ Push(Java(d))
    /\ UNCHANGED <<data, dropped, lib>>

\* Without the environment, or an array, it returns at once to the ML side:
\* the signals stay enabled, and data for one call is not deleted.
CallbackFails(d) ==
    /\ Called(d)
    /\ early' = TRUE
    /\ dropped' = IF data[d] \in Often THEN dropped ELSE dropped \cup {d}
    /\ UNCHANGED <<stack, data, lib>>

\* The main loop calls the async handler, which has no data.
asyncHandler ==
    /\ Top.loop
    /\ enableSignals
    /\ \/ Len(stack) < MaxFrames /\ Push(Java(NoData))
       \/ early' = TRUE /\ UNCHANGED stack
    /\ UNCHANGED <<data, held, dropped, lib>>

\* A slip: having called Java, it does not block the signals again.
ReturnFromCallback_Early ==
    /\ stack # <<>> /\ Top.side = "java"
    /\ Pop
    /\ UNCHANGED <<blocked, saved, data, held, dropped, lib>>

ReturnFromCallback ==
    /\ stack # <<>> /\ Top.side = "java"
    /\ Pop
    /\ disableSignals
    /\ data' = IF Top.data \in DOMAIN data /\ DeletesData(data[Top.data])
               THEN [x \in DOMAIN data \ {Top.data} |-> data[x]]
               ELSE data
    /\ UNCHANGED <<held, dropped, lib>>

\* The ML side forgets a registration: an event is freed, a service
\* unadvertised, an operation aborted.  Nobody deletes the data (the TODOs).
Forget(d) ==
    /\ Top.side = "ml" /\ d \in held
    /\ held' = held \ {d}
    /\ dropped' = dropped \cup {d}
    /\ UNCHANGED <<stack, blocked, saved, data, early, lib>>

JNext ==
    \/ libInit
    \/ libShutdown
    \/ \E f \in Functions : CallJni(f)
    \/ CallFails
    \/ ReturnFromMl
    \/ \E d \in Data : Callback(d)
    \/ \E d \in Data : CallbackFails(d)
    \/ asyncHandler
    \/ ReturnFromCallback
    \/ \E d \in Data : Forget(d)

JSpec == JInit /\ [][JNext]_jVars
-----------------------------------------------------------------------------
OnStack == {stack[i].data : i \in DOMAIN stack} \ {NoData}

JTypeOK ==
    /\ Len(stack) <= MaxFrames
    /\ \A i \in DOMAIN stack : stack[i].side \in {"java", "ml"}
    /\ blocked \in BOOLEAN /\ saved \in BOOLEAN /\ early \in BOOLEAN
    /\ DOMAIN data \subseteq Data /\ held \subseteq Data /\ dropped \subseteq Data
    /\ lib \in {"new", "failed", "open", "closed"}

(***************************************************************************)
(* Signals are blocked while the ML side runs, at any depth of callbacks,  *)
(* although there is one saved mask for all depths: it never comes to hold *)
(* a blocked mask.  A callback that returns early (main-jni.c:163) leaves  *)
(* them enabled, but only until the ML side makes a callback that calls    *)
(* Java, or returns: the calls around it and after it find the masks as    *)
(* they were.  (A failed libInit leaves them blocked.)                     *)
(***************************************************************************)
SignalsFollowSide ==
    /\ lib # "failed" => (blocked <=> Top.side = "ml" /\ ~early)
    /\ Top.side = "ml" => ~saved

(***************************************************************************)
(* The data of a callback the ML side may still make, and of one that is   *)
(* running, has not been deleted: which callbacks delete their data agrees *)
(* with how often the ML side calls them, also when one is called within   *)
(* itself.                                                                 *)
(***************************************************************************)
HeldIsLive == held \cup OnStack \subseteq DOMAIN data

(***************************************************************************)
(* Data is leaked only where a registration is refused or forgotten, and   *)
(* where a callback or cuspOutstreamWrite returns early.  All other data   *)
(* has a call to come or a callback running: once the last callback of an  *)
(* operation has run, its data is gone.                                    *)
(***************************************************************************)
DataAccounted == DOMAIN data \subseteq held \cup OnStack \cup dropped

(***************************************************************************)
(* Java code does not run while an array is pinned: bs-jni.c:777 copies    *)
(* the data "because bs_bubble_fading_create may recursively call the      *)
(* bubble handler".  Of all the functions that pin an array one is called  *)
(* back from, bsBubbleInstantCreate, which does not copy (bs-jni.c:760).   *)
(***************************************************************************)
CallbackPins ==
    stack # <<>> /\ Top.side = "java" =>
        \A i \in DOMAIN stack : stack[i].pins \subseteq {"bsBubbleInstantCreate"}
=============================================================================
