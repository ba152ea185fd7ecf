---------------------------- MODULE IcmpService ----------------------------
(***************************************************************************)
(* csupport/cusp/cusp-icmp-svc.c: the Windows service that sends ICMP for  *)
(* local programs and tells them of the ICMP errors of their UDP port.     *)
(* One thread serves two tables, of clients and of network interfaces,     *)
(* from which entries are removed by moving the last one to their place    *)
(* while a loop runs over them.                                            *)
(***************************************************************************)
EXTENDS Naturals, Sequences

CONSTANTS Socks,                 \* the sockets the system may give out
          IfAddrs,               \* the addresses interfaces may have
          Ports,                 \* UDP ports, not 0
          MaxClients,            \* MAX_CLIENTS: 32
          MaxInterfaces          \* MAX_INTERFACES: 16

VARIABLES pc, i,                 \* the part of the loop, the index in it
          clients, numClients,   \* the table, and how much of it is in use
          ifaces,                \* the interfaces in use
          existing,              \* ifaceExisting
          present,               \* the addresses the machine has
          readfds,               \* after select
          open,                  \* the sockets that are open
          sockRaw,               \* the global one, with which it sends
          raw,                   \* the socket made for sending: open or closed
          reported,              \* serviceFail was called
          served,                \* client socket -> reads in this round
          asked                  \* client socket -> port it asked to hear of

iVars == <<pc, i, clients, numClients, ifaces, existing, present, readfds, open,
           sockRaw, raw, reported, served, asked>>

ASSUME ServiceAssumption == MaxClients \in Nat /\ MaxInterfaces \in Nat
ASSUME SocksAssumption == "none" \notin Socks

NoSock == "none"                 \* INVALID_SOCKET
Closed == Socks \ open
Slots == 0 .. MaxClients - 1
InUse == {clients[k].sock : k \in 0 .. numClients - 1}

\* The slot of a new client.  split: a header came in pieces (of buf and
\* bufFill nothing else is kept).
NewClient(s) == [sock |-> s, filterPort |-> 0, split |-> FALSE]
NoClient == NewClient(NoSock)

\* What a client may ask for: to hear of a port (to is 0), or to send.
Commands == [to : {0}, fromport : Ports] \cup [to : {1}, fromport : {0}]

ServiceInit ==
    /\ pc = "query" /\ i = 0
    /\ clients = [k \in Slots |-> NoClient]
    /\ numClients = 0 /\ ifaces = <<>> /\ existing = {}
    /\ present \in SUBSET IfAddrs
    /\ readfds = {} /\ sockRaw \in Socks /\ open = {sockRaw}
    /\ raw = "open" /\ reported = FALSE
    /\ served = [s \in Socks |-> 0]
    /\ asked = [s \in Socks \cup {NoSock} |-> 0]
-----------------------------------------------------------------------------
(* Every ten seconds: updateInterfaces. *)

\* The list of interfaces is asked for when it is ten seconds old.
keepInterfaces ==
    /\ pc = "query"
    /\ pc' = "select"
    /\ UNCHANGED <<i, clients, numClients, ifaces, existing, present, readfds,
                   open, sockRaw, raw, reported, served, asked>>

\* New interfaces get a raw socket while there is room and one can be made.
\* (The machine's addresses may have changed since the last time.)
addInterfaces ==
    /\ pc = "query"
    /\ present' \in SUBSET IfAddrs
    /\ LET known == {ifaces[k].addr : k \in DOMAIN ifaces} IN
       \E n \in 0 .. MaxInterfaces - Len(ifaces) :
       \E added \in [1 .. n -> [addr : present' \ known, sock : Closed]] :
          /\ \A k, l \in 1 .. n : k # l => added[k].addr # added[l].addr
                                        /\ added[k].sock # added[l].sock
          /\ ifaces' = ifaces \o added
          /\ open' = open \cup {added[k].sock : k \in 1 .. n}
    /\ existing' = {k \in DOMAIN ifaces' : ifaces'[k].addr \in present'}
    /\ pc' = "remove" /\ i' = 1
    /\ UNCHANGED <<clients, numClients, readfds, sockRaw, raw, reported, served,
                   asked>>

\* One that is gone is overwritten by the last, which is looked at next.  The
\* socket that is closed is not its own but the number in the global sockRaw,
\* which by then may be a client's or an interface's.  When it is closed
\* already closesocket fails: Windows is told, and the loop goes on.
removeInterface ==
    /\ pc = "remove" /\ i <= Len(ifaces)
    /\ \/ /\ i \in existing /\ i' = i + 1
          /\ UNCHANGED <<ifaces, existing, open, raw, reported>>
       \/ /\ i \notin existing
          /\ ifaces' = SubSeq([ifaces EXCEPT ![i] = ifaces[Len(ifaces)]],
                              1, Len(ifaces) - 1)
          /\ existing' = IF Len(ifaces) \in existing THEN existing \cup {i}
                         ELSE existing
          /\ open' = open \ {sockRaw}
          /\ raw' = "closed"
          /\ reported' = (reported \/ sockRaw \notin open)
          /\ UNCHANGED i
    /\ UNCHANGED <<pc, clients, numClients, present, readfds, sockRaw, served,
                   asked>>

removed ==
    /\ pc = "remove" /\ i > Len(ifaces)
    /\ pc' = "select"
    /\ UNCHANGED <<i, clients, numClients, ifaces, existing, present, readfds,
                   open, sockRaw, raw, reported, served, asked>>
-----------------------------------------------------------------------------
Selected == InUse \cup {ifaces[k].sock : k \in DOMAIN ifaces}

\* With a closed socket select fails: Windows is told, and the loop ends.
selectFails ==
    /\ pc = "select" /\ ~(Selected \subseteq open)
    /\ pc' = "ended" /\ reported' = TRUE
    /\ UNCHANGED <<i, clients, numClients, ifaces, existing, present, readfds,
                   open, sockRaw, raw, served, asked>>

\* A service that told Windows that it stopped goes on until its process ends.
processEnds ==
    /\ reported /\ pc # "ended"
    /\ pc' = "ended"
    /\ UNCHANGED <<i, clients, numClients, ifaces, existing, present, readfds,
                   open, sockRaw, raw, reported, served, asked>>

\* select: any of the sockets, and the one where clients connect, or not.  (The
\* raw sockets are read next: a packet goes to every client whose filterPort is
\* its port, which changes nothing here.)
select ==
    /\ pc = "select" /\ Selected \subseteq open
    /\ readfds' \in SUBSET InUse
    /\ \/ pc' = "accept"
       \/ pc' = "clients"
    /\ i' = 0 /\ existing' = {}
    /\ UNCHANGED <<clients, numClients, ifaces, present, open, sockRaw, raw,
                   reported, served, asked>>

\* A connection gets the next slot, and the loop starts over, also when accept
\* has failed; one too many is closed.
accept ==
    /\ pc = "accept"
    /\ \/ /\ numClients < MaxClients
          /\ \E s \in Closed \cup {NoSock} :
                /\ clients' = [clients EXCEPT ![numClients] = NewClient(s)]
                /\ open' = open \cup ({s} \cap Socks)
                /\ asked' = [asked EXCEPT ![s] = 0]
          /\ numClients' = numClients + 1 /\ pc' = "query" /\ readfds' = {}
       \/ /\ numClients = MaxClients
          /\ pc' = "clients"
          /\ UNCHANGED <<clients, numClients, readfds, open, asked>>
    /\ UNCHANGED <<i, ifaces, existing, present, sockRaw, raw, reported, served>>

Current == clients[i]
Served == served' = [served EXCEPT ![Current.sock] = @ + 1]

\* A command is taken: of a client that wants to hear of a port, which one; or
\* it is sent with sockRaw, whatever that is by now; if it cannot be, nobody is
\* told.
processCommand(cmd) ==
    \/ /\ cmd.to = 0
       /\ clients' = [clients EXCEPT ![i].filterPort = cmd.fromport]
    \/ /\ cmd.to # 0
       /\ UNCHANGED clients

\* What a client asks for with a command.
Asks(cmd) ==
    asked' = IF cmd.to = 0 THEN [asked EXCEPT ![Current.sock] = cmd.fromport]
             ELSE asked

\* clientRead that returns more than 0.  What is read is a part of a header,
\* which is converted now and again with its other parts; or the rest of a
\* header, or data, with more to come; or it completes a command.  Of a header
\* that came in pieces what was there before is in the wrong byte order, or
\* overwritten by bytes of an earlier command: it may be any command, or one
\* that seems longer or shorter than it is, and so may all that follow.
clientRead ==
    /\ pc = "clients" /\ i < numClients /\ Current.sock \in readfds
    /\ Served
    /\ \/ /\ clients' = [clients EXCEPT ![i].split = TRUE]
          /\ UNCHANGED asked
       \/ UNCHANGED <<clients, asked>>
       \/ \E cmd \in Commands :
             /\ Asks(cmd)
             /\ \/ processCommand(cmd)
                \/ Current.split /\ \E c \in Commands : processCommand(c)
                \/ Current.split /\ UNCHANGED clients
    /\ i' = i + 1
    /\ UNCHANGED <<pc, numClients, ifaces, existing, present, readfds, open,
                   sockRaw, raw, reported>>

\* A slip: after a removal the loop goes on with the next index.
clientGone_Skips ==
    /\ pc = "clients" /\ i < numClients /\ Current.sock \in readfds
    /\ Served
    /\ open' = open \ {Current.sock}
    /\ asked' = [asked EXCEPT ![Current.sock] = 0]
    /\ numClients' = numClients - 1
    /\ clients' = [clients EXCEPT ![i] = clients[numClients - 1]]
    /\ i' = i + 1
    /\ UNCHANGED <<pc, ifaces, existing, present, readfds, sockRaw, raw,
                   reported>>

\* clientRead that returns 0 or less: the client closed, the read failed or the
\* command is too long.  The last client moves here, and is looked at next.
clientGone ==
    /\ pc = "clients" /\ i < numClients /\ Current.sock \in readfds
    /\ Served
    /\ open' = open \ {Current.sock}
    /\ asked' = [asked EXCEPT ![Current.sock] = 0]
    /\ numClients' = numClients - 1
    /\ clients' = [clients EXCEPT ![i] = clients[numClients - 1]]
    /\ UNCHANGED <<pc, i, ifaces, existing, present, readfds, sockRaw, raw,
                   reported>>

clientQuiet ==
    /\ pc = "clients" /\ i < numClients /\ Current.sock \notin readfds
    /\ i' = i + 1
    /\ UNCHANGED <<pc, clients, numClients, ifaces, existing, present, readfds,
                   open, sockRaw, raw, reported, served, asked>>

clientsDone ==
    /\ pc = "clients" /\ i = numClients
    /\ pc' = "query"
    /\ i' = 0 /\ readfds' = {} /\ served' = [s \in Socks |-> 0]
    /\ UNCHANGED <<clients, numClients, ifaces, existing, present, open,
                   sockRaw, raw, reported, asked>>

ServiceNext ==
    \/ keepInterfaces
    \/ addInterfaces
    \/ removeInterface
    \/ removed
    \/ select
    \/ selectFails
    \/ processEnds
    \/ accept
    \/ clientRead
    \/ clientGone
    \/ clientQuiet
    \/ clientsDone

ServiceSpec == ServiceInit /\ [][ServiceNext]_iVars
-----------------------------------------------------------------------------
(***************************************************************************)
(* Of a round, every client whose socket select reported has been read     *)
(* exactly once when the round ends, also those that were moved into the   *)
(* place of one that left.                                                 *)
(***************************************************************************)
ReadyServedOnce ==
    pc = "clients" =>
        \A k \in 0 .. numClients - 1 :
            served[clients[k].sock] =
                IF k < i /\ clients[k].sock \in readfds THEN 1 ELSE 0

(***************************************************************************)
(* Each client has one slot with its own state, whatever slots and socket  *)
(* numbers are used again: unless a header of its came in pieces, the      *)
(* errors it is sent are those of the port it last asked for since it      *)
(* connected.  (Such a header, which is converted part by part though :108 *)
(* says it is complete, may ask for any port.)  And no client or interface *)
(* is read whose socket is closed, although one that is in use may be      *)
(* closed with an interface.                                               *)
(***************************************************************************)
ClientKeepsSlot ==
    /\ \A k, l \in 0 .. numClients - 1 : clients[k].sock = clients[l].sock => k = l
    /\ pc \in {"accept", "clients"} => Selected \subseteq open
    /\ \A k \in 0 .. numClients - 1 :
          clients[k].split \/ clients[k].filterPort = asked[clients[k].sock]

(***************************************************************************)
(* After an update the table has only interfaces the machine has, each     *)
(* once, with a socket of its own that no client has.                      *)
(***************************************************************************)
IfacesMatch ==
    /\ pc = "select" /\ i > 0 =>
          \A k \in DOMAIN ifaces : ifaces[k].addr \in present
    /\ \A k, l \in DOMAIN ifaces : k # l => ifaces[k].addr # ifaces[l].addr
                                         /\ ifaces[k].sock # ifaces[l].sock
    /\ \A k \in DOMAIN ifaces : ifaces[k].sock \notin InUse

(***************************************************************************)
(* What clients ask to send goes out by the socket "for sending" (:242),   *)
(* which nobody else has, but only until an interface has vanished: that   *)
(* closes it (:214), and the service goes on sending (:91) with a closed   *)
(* socket, or with one that a client or an interface has by then.          *)
(***************************************************************************)
SendsOnRaw == raw = "open" => sockRaw \in open \ Selected

\* Every ready client is read once in a round, also after removals; every
\* client and every interface has a slot and a socket of its own, and none is
\* read that was closed with an interface; until one was, the service sends
\* with a socket of its own.
ClientsServed == ReadyServedOnce /\ ClientKeepsSlot /\ IfacesMatch /\ SendsOnRaw
=============================================================================
