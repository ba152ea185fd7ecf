---------------------------- MODULE JniFunctions ----------------------------
(***************************************************************************)
(* bindings/java: the native functions of BSJniBase, CUSPJni and BSJni, by *)
(* section of main-jni.c, cusp-jni.c and bs-jni.c.  Every one of them      *)
(* blocks the signals, calls the function of the same name on the ML side  *)
(* and restores them.                                                      *)
(*                                                                         *)
(*   asks     functions that pass no callback                              *)
(*   deletes  functions whose callback deletes the data it is called with  *)
(*   keeps    functions whose callback leaves the data for the next call   *)
(*   pins     functions that hold a Java array across the call             *)
(*            (GetPrimitiveArrayCritical), rather than a copy of it        *)
(***************************************************************************)
Section == [asks |-> {}, deletes |-> {}, keeps |-> {}, pins |-> {}]
-----------------------------------------------------------------------------
(* main-jni.c *)
LibraryFunctions ==
    [Section EXCEPT !.asks = {"bsLastErrorMsg", "evtMain", "evtStopMain"}]

Time ==
    [Section EXCEPT !.asks = {"evtTimeFromString", "evtTimeToString",
                              "evtTimeToAbsoluteString",
                              "evtTimeToRelativeString"}]

\* evtEventNew never frees its data ("TODO free cd somewhere").
Event ==
    [Section EXCEPT !.asks = {"evtEventTime", "evtEventScheduleAt",
                              "evtEventScheduleIn", "evtEventCancel",
                              "evtEventIsScheduled", "evtEventFree"},
                    !.keeps = {"evtEventNew"}]

Abortable ==
    [Section EXCEPT !.asks = {"evtAbortableAbort", "evtAbortableFree"}]

Log ==
    [Section EXCEPT !.asks = {"sysLogLog", "sysLogAddFilter",
                              "sysLogRemoveFilter"}]
-----------------------------------------------------------------------------
(* cusp-jni.c *)

EndPoint ==
    [Section EXCEPT !.asks = {"cuspEndpointNew", "cuspEndpointDestroy",
                              "cuspEndpointBytesSent",
                              "cuspEndpointBytesReceived",
                              "cuspEndpointChannels",
                              "cuspEndpointCanReceiveUDP",
                              "cuspEndpointCanSendOwnICMP",
                              "cuspEndpointFree"},
                    !.deletes = {"cuspEndpointContact"},
                    !.keeps = {"cuspEndpointAdvertise"}]

Address ==
    [Section EXCEPT !.asks = {"cuspAddressFromString", "cuspAddressToString",
                              "cuspAddressFree"}]

Host ==
    [Section EXCEPT !.asks = {"cuspHostAddress", "cuspHostToString",
                              "cuspHostInstreams", "cuspHostOutstreams",
                              "cuspHostFree"}]

ChannelIterator ==
    [Section EXCEPT !.asks = {"cuspChannelIteratorHasNext",
                              "cuspChannelIteratorNext",
                              "cuspChannelIteratorFree"}]

InStream ==
    [Section EXCEPT !.asks = {"cuspInstreamQueuedOutOfOrder",
                              "cuspInstreamQueuedUnread",
                              "cuspInstreamBytesReceived",
                              "cuspInstreamState", "cuspInstreamReset",
                              "cuspInstreamFree"},
                    !.deletes = {"cuspInstreamRead",
                                 "cuspInstreamReadShutdown"}]

InStreamIterator ==
    [Section EXCEPT !.asks = {"cuspInstreamIteratorHasNext",
                              "cuspInstreamIteratorNext",
                              "cuspInstreamIteratorFree"}]

OutStream ==
    [Section EXCEPT !.asks = {"cuspOutstreamState", "cuspOutstreamReset",
                              "cuspOutstreamGetPriority",
                              "cuspOutstreamSetPriority",
                              "cuspOutstreamFree"},
                    !.deletes = {"cuspOutstreamShutdown",
                                 "cuspOutstreamWrite"}]

OutStreamIterator ==
    [Section EXCEPT !.asks = {"cuspOutstreamIteratorHasNext",
                              "cuspOutstreamIteratorNext",
                              "cuspOutstreamIteratorFree"}]
-----------------------------------------------------------------------------
(* bs-jni.c *)
BubbleStorm ==
    [Section EXCEPT !.asks = {"bsBubbleStormNew",
                              "bsBubbleStormNewWithEndpoint",
                              "bsBubbleStormEndpoint",
                              "bsBubbleStormBubbleMaster",
                              "bsBubbleStormAddress",
                              "bsBubbleStormSaveHostCache",
                              "bsBubbleStormSetLanMode",
                              "bsBubbleStormFree"},
                    !.deletes = {"bsBubbleStormCreate", "bsBubbleStormJoin",
                                 "bsBubbleStormLeave"},
                    !.pins = {"bsBubbleStormLoadHostCache"}]

\* A bubble type's handler is called for every bubble.
BubbleMaster ==
    [Section EXCEPT !.asks = {"bsBubbleMasterNewInstant"},
                    !.keeps = {"bsBubbleMasterNewFading"}]

\* The five callbacks of a managed backend share one data.
ManagedBackend == [Section EXCEPT !.keeps = {"bsBubbleMasterNewManaged"}]

\* And so do the four of a durable one.
DurableBackend ==
    [Section EXCEPT !.asks = {"bsBubbleMasterFree"},
                    !.keeps = {"bsBubbleMasterNewDurable"}]

BubbleTypes ==
    [Section EXCEPT !.asks = {"bsBubbleTypeBasicTypeId",
                              "bsBubbleTypeBasicDefaultSize",
                              "bsBubbleTypeBasicFree",
                              "bsBubbleTypePersistentFree",
                              "bsBubbleTypeInstantBasic",
                              "bsBubbleTypeInstantFree",
                              "bsBubbleTypeFadingBasic",
                              "bsBubbleTypeFadingPersistent",
                              "bsBubbleTypeFadingFree"},
                    !.keeps = {"bsBubbleTypeBasicMatch",
                               "bsBubbleTypePersistentMatchWithId"}]

\* The call that ends the list of a datastore passes no array; it stands here
\* under a name of its own.
StoredTypes ==
    [Section EXCEPT !.asks = {"bsBubbleTypeDurableDatastoreListCb(-1)",
                              "bsBubbleTypeManagedBasic",
                              "bsBubbleTypeManagedPersistent",
                              "bsBubbleTypeManagedFree",
                              "bsBubbleTypeDurableBasic",
                              "bsBubbleTypeDurablePersistent",
                              "bsBubbleTypeDurableFree"},
                    !.pins = {"bsBubbleTypeDurableDatastoreGetCb",
                              "bsBubbleTypeDurableDatastoreListCb"}]

\* A slip: a fading bubble's data is pinned, too.
CastBubbles_Pinned ==
    [Section EXCEPT !.pins = {"bsBubbleInstantCreate", "bsBubbleFadingCreate"}]

\* A fading bubble's data is copied, an instant bubble's is not.
CastBubbles ==
    [Section EXCEPT !.asks = {"bsBubbleFadingCreate"},
                    !.pins = {"bsBubbleInstantCreate"}]

ManagedBubbles ==
    [Section EXCEPT !.asks = {"bsBubbleManagedId", "bsBubbleManagedData",
                              "bsBubbleManagedFree"},
                    !.deletes = {"bsBubbleManagedInsert",
                                 "bsBubbleManagedUpdate",
                                 "bsBubbleManagedDelete"},
                    !.pins = {"bsBubbleManagedInsert",
                              "bsBubbleManagedUpdate"}]

DurableBubbles ==
    [Section EXCEPT !.asks = {"bsBubbleDurableId", "bsBubbleDurableData",
                              "bsBubbleDurableDelete", "bsBubbleDurableFree"},
                    !.keeps = {"bsBubbleDurableLookup"},
                    !.pins = {"bsBubbleDurableCreate",
                              "bsBubbleDurableUpdate"}]

ID ==
    [Section EXCEPT !.asks = {"bsIdFromRandom", "bsIdToBytes", "bsIdToString",
                              "bsIdEquals", "bsIdHash", "bsIdFree"},
                    !.pins = {"bsIdFromHash", "bsIdFromBytes"}]

NotificationReceiver ==
    [Section EXCEPT !.asks = {"bsNotificationClose",
                              "bsNotificationMaxEncodedLength",
                              "bsNotificationEncode", "bsNotificationFree"},
                    !.keeps = {"bsNotificationNew"},
                    !.pins = {"bsNotificationDecode"}]

NotificationSender ==
    [Section EXCEPT !.asks = {"bsNotificationResultId",
                              "bsNotificationResultPayload",
                              "bsNotificationResultCancel",
                              "bsNotificationResultFree",
                              "bsNotificationSendFnFree"},
                    !.deletes = {"bsNotificationSendFn"},
                    !.pins = {"bsNotificationSendFnImmediate"}]

Query ==
    [Section EXCEPT !.asks = {"bsQueryFree", "bsQueryRespondFree"},
                    !.deletes = {"bsQueryRespond"},
                    !.keeps = {"bsQueryNew", "bsQueryQuery"}]
-----------------------------------------------------------------------------
Sections ==
    {LibraryFunctions, Time, Event, Abortable, Log, EndPoint, Address, Host,
     ChannelIterator, InStream, InStreamIterator, OutStream,
     OutStreamIterator, BubbleStorm, BubbleMaster, ManagedBackend,
     DurableBackend, BubbleTypes, StoredTypes, CastBubbles, ManagedBubbles,
     DurableBubbles, ID, NotificationReceiver, NotificationSender, Query}

Deletes == UNION {s.deletes : s \in Sections}
Keeps == UNION {s.keeps : s \in Sections}
Pins == UNION {s.pins : s \in Sections}
Functions == Deletes \cup Keeps \cup Pins \cup UNION {s.asks : s \in Sections}
=============================================================================
