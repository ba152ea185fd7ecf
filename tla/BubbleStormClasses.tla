------------------------- MODULE BubbleStormClasses -------------------------
(***************************************************************************)
(* bindings/cpp/bubblestorm/bubblestorm.cpp: the classes of the overlay.   *)
(* The bubble types inherit from one another, and each base class keeps a  *)
(* handle of its own for the same bubble type.                             *)
(***************************************************************************)
EXTENDS CuspClasses

\* The bootstrap address of create may be an empty object.
BubbleStorm ==
    [Single("bubblestorm") EXCEPT
        !.makes = [create |-> Returns({"PrivateKey"}, "BubbleStorm"),
                   createWithEndpoint |-> Returns({"EndPoint"}, "BubbleStorm")],
        !.calls = [endpoint |-> Returns({}, "EndPoint"),
                   bubbleMaster |-> Returns({}, "BubbleMaster"),
                   address |-> ReturnsOrNone({}, "Address")],
        !.asks = {"setLanMode", "createRing", "join", "leave"},
        !.hands = {<<>>}]

BasicBubbleType ==
    [Single("basic") EXCEPT
        !.asks = {"typeId", "defaultSize", "match"},
        !.hands = {<<>>}]

PersistentBubbleType ==
    [BasicBubbleType EXCEPT
        !.parts = <<"basic", "persistent">>,
        !.frees = <<"basic", "persistent">>,
        !.bases = {"BasicBubbleType"},
        !.asks = @ \cup {"matchWithId"},
        !.hands = @ \cup {<<"ID">>}]

\* The destructor calls bs_bubbletype_basic_free for both of its handles.
InstantBubbleType ==
    [BasicBubbleType EXCEPT
        !.parts = <<"basic", "instant">>,
        !.frees = <<"basic", "basic">>,
        !.bases = {"BasicBubbleType"},
        !.asks = @ \cup {"createBubble"}]

FadingBubbleType ==
    [PersistentBubbleType EXCEPT
        !.parts = <<"basic", "persistent", "fading">>,
        !.frees = <<"basic", "persistent", "fading">>,
        !.bases = {"BasicBubbleType", "PersistentBubbleType"},
        !.asks = @ \cup {"createBubble"}]

BubbleMaster ==
    [Single("bubblemaster") EXCEPT
        !.calls = [newInstant |-> Returns({}, "InstantBubbleType"),
                   newFading |-> Returns({}, "FadingBubbleType")]]

ID ==
    [Single("id") EXCEPT
        !.makes = [fromHash |-> ReturnsOrNone({}, "ID"),
                   fromRandom |-> ReturnsOrNone({}, "ID"),
                   fromBytes |-> ReturnsOrNone({}, "ID")],
        !.asks = {"toBytes", "equals", "hashCode", "toString"}]

\* decode does not look for an exception, and wraps ~3 where one was raised.
NotificationReceiver ==
    [Single("notification") EXCEPT
        !.makes = [create |-> Returns({"EndPoint"}, "NotificationReceiver"),
                   decode |-> Returns({"EndPoint"}, "NotificationSender")],
        !.asks = {"close", "maxEncodedLength", "encode"},
        !.hands = {<<"NotificationResult">>},
        !.refuses = {"decode"}]

NotificationResult ==
    [Single("notificationresult") EXCEPT
        !.calls = [id |-> Returns({}, "ID"),
                   payload |-> Returns({}, "InStream")],
        !.asks = {"cancel"}]

NotificationSender ==
    [Single("notificationsender") EXCEPT
        !.asks = {"send", "sendImmediate"},
        !.hands = {<<"OutStream">>, <<>>}]

\* A query has a responder: without one the callback's handle is lost.
\* queryCallback, which calls onResponse, asserts that there is a receiver.
Query ==
    [Single("query") EXCEPT
        !.makes = [create |-> Returns({"BubbleMaster", "PersistentBubbleType"},
                                      "Query")],
        !.calls = [query |-> ReturnsOrNone({}, "Abortable")],
        !.hands = {<<"QueryRespond">>,
                   <<"ID", "InStream">>},
        !.refuses = {"onResponse"}]

QueryRespond ==
    [Single("queryrespond") EXCEPT
        !.asks = {"respond"},
        !.hands = {<<"OutStream">>, <<>>}]

BubbleStormTable ==
    [BubbleStorm |-> BubbleStorm, BasicBubbleType |-> BasicBubbleType,
     PersistentBubbleType |-> PersistentBubbleType,
     InstantBubbleType |-> InstantBubbleType,
     FadingBubbleType |-> FadingBubbleType, BubbleMaster |-> BubbleMaster,
     ID |-> ID, NotificationReceiver |-> NotificationReceiver,
     NotificationResult |-> NotificationResult,
     NotificationSender |-> NotificationSender, Query |-> Query,
     QueryRespond |-> QueryRespond]

\* The classes of the three libraries.
ClassTable ==
    [c \in DOMAIN CommonTable \cup DOMAIN CuspTable
            \cup DOMAIN BubbleStormTable |->
        IF c \in DOMAIN CommonTable THEN CommonTable[c]
        ELSE IF c \in DOMAIN CuspTable THEN CuspTable[c]
        ELSE BubbleStormTable[c]]
=============================================================================
