--------------------------- MODULE CommonClasses ---------------------------
(***************************************************************************)
(* bindings/cpp/common/bscommon.cpp: the classes of the event loop, the    *)
(* log, the statistics and the exceptions.                                 *)
(***************************************************************************)
EXTENDS BindingClasses

\* The event's own callback wraps a second handle of the event.
Event ==
    [Single("event") EXCEPT
        !.makes = [create |-> Returns({}, "Event")],
        !.asks = {"time", "scheduleAt", "scheduleIn", "cancel",
                  "timeOfExecution", "timeTillExecution", "isScheduled"},
        !.hands = {<<"Event">>}]

Abortable == [Single("abortable") EXCEPT !.asks = {"abort"}]

\* create takes an invalid parent for none.
Statistics ==
    [Single("statistics") EXCEPT
        !.makes = [create |-> Returns({}, "Statistics"),
                   createChild |-> Returns({"Statistics"}, "Statistics")],
        !.asks = {"addPoll", "add"},
        !.hands = {<<>>}]

SimultaneousDump ==
    [Single("simultaneousdump") EXCEPT
        !.makes = [create |-> Returns({}, "SimultaneousDump")],
        !.asks = {"addDumper"},
        !.hands = {<<>>}]

\* Its objects are made by checkResult (CppBindings).
BSException == Single("exception")

\* The static functions of Time and Log, which own no handle.  fromString
\* returns ~1 for what is not a time.
Library ==
    [Single(None) EXCEPT
        !.parts = <<>>, !.frees = <<>>,
        !.asks = {"Time.fromString", "Time.toString", "Log.log"},
        !.refuses = {"Time.fromString"}]

CommonTable ==
    [Event |-> Event, Abortable |-> Abortable, Statistics |-> Statistics,
     SimultaneousDump |-> SimultaneousDump, BSException |-> BSException,
     Library |-> Library]
=============================================================================
