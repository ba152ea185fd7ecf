---------------------------- MODULE CuspClasses ----------------------------
(***************************************************************************)
(* bindings/cpp/cusp/cusp-base.cpp: the classes of the transport.  Each    *)
(* definition lists what its class returns and what its callbacks wrap.    *)
(***************************************************************************)
EXTENDS CommonClasses

\* contactCallback wraps a host and a stream, or nothing when it failed.
EndPoint ==
    [Single("endpoint") EXCEPT
        !.makes = [create |-> Returns({"PrivateKey"}, "EndPoint")],
        !.calls = [whenSafeToDestroy |-> Returns({}, "Abortable"),
                   key |-> Returns({}, "PrivateKey"),
                   contact |-> Returns({"Address"}, "Abortable"),
                   hosts |-> Returns({}, "HostIterator"),
                   channels |-> Returns({}, "ChannelIterator")],
        !.asks = {"destroy", "publicKeyStr", "bytesSent", "bytesReceived",
                  "advertise", "unadvertise"},
        !.hands = {<<>>,
                   <<"Host", "OutStream">>,
                   <<"Host", "InStream">>}]

Address ==
    [Single("address") EXCEPT
        !.makes = [fromString |-> ReturnsOrNone({}, "Address")],
        !.asks = {"toString"}]

\* address() is empty while the host is not connected.
Host ==
    [Single("host") EXCEPT
        !.calls = [connect |-> Returns({}, "OutStream"),
                   key |-> Returns({}, "PublicKey"),
                   address |-> ReturnsOrNone({}, "Address"),
                   inStreams |-> Returns({}, "InStreamIterator"),
                   outStreams |-> Returns({}, "OutStreamIterator")],
        !.asks = {"listen", "unlisten", "keyStr", "toString",
                  "queuedOutOfOrder", "queuedUnread", "queuedInflight",
                  "queuedToRetransmit", "bytesReceived", "bytesSent",
                  "lastReceive", "lastSend"},
        !.hands = {<<"InStream">>}]

\* At the end of the iteration next returns ~2, an empty host.
HostIterator ==
    [Single("hostiterator") EXCEPT
        !.calls = [next |-> ReturnsOrNone({}, "Host")],
        !.asks = {"hasNext"}]

\* next is called after hasNext: at the end it leaves hHost uninitialised.
ChannelIterator ==
    [Single("channeliterator") EXCEPT
        !.calls = [next |-> Returns({}, "Channel")],
        !.asks = {"hasNext"}]

\* A channel is an address and a host, empty while it is not connected.
Channel ==
    [Single(None) EXCEPT
        !.parts = <<"address", "host">>, !.frees = <<"address", "host">>,
        !.bases = {"Address", "Host"}]

\* readCallback copies the data and hands no object.
InStream ==
    [Single("instream") EXCEPT
        !.asks = {"read", "reset", "queuedOutOfOrder", "queuedUnread",
                  "bytesReceived"},
        !.hands = {<<>>}]

\* At the end of the iteration next returns ~1, as for a bad handle.
InStreamIterator ==
    [Single("instreamiterator") EXCEPT
        !.calls = [next |-> Returns({}, "InStream")],
        !.asks = {"hasNext"},
        !.refuses = {"next"}]

OutStream ==
    [Single("outstream") EXCEPT
        !.asks = {"getPriority", "setPriority", "write", "shutdown", "reset",
                  "queuedInflight", "queuedToRetransmit", "bytesSent"},
        !.hands = {<<>>}]

OutStreamIterator ==
    [Single("outstreamiterator") EXCEPT
        !.calls = [next |-> Returns({}, "OutStream")],
        !.asks = {"hasNext"},
        !.refuses = {"next"}]

PublicKey ==
    [Single("publickey") EXCEPT !.asks = {"toString", "suite"}]

\* load returns ~1 for a key, or a password, that it cannot read.
PrivateKey ==
    [Single("privatekey") EXCEPT
        !.makes = [create |-> Returns({}, "PrivateKey"),
                   load |-> Returns({}, "PrivateKey")],
        !.calls = [pubkey |-> Returns({}, "PublicKey")],
        !.asks = {"save"},
        !.refuses = {"load"}]

UDP ==
    [Single("udp") EXCEPT
        !.makes = [create |-> Returns({}, "UDP")],
        !.asks = {"close", "send"},
        !.hands = {<<"Address">>}]

CuspTable ==
    [EndPoint |-> EndPoint, Address |-> Address, Host |-> Host,
     HostIterator |-> HostIterator, ChannelIterator |-> ChannelIterator,
     Channel |-> Channel, InStream |-> InStream,
     InStreamIterator |-> InStreamIterator, OutStream |-> OutStream,
     OutStreamIterator |-> OutStreamIterator, PublicKey |-> PublicKey,
     PrivateKey |-> PrivateKey, UDP |-> UDP]
=============================================================================
