---------------------------- MODULE SingleCycle ----------------------------
(***************************************************************************)
(* bindings/cpp/cusp/util: one SingleCycleConn and the connection that a   *)
(* SingleCycleServer makes for it, each over a BiDiConn.  The client sends *)
(* a service id, the request and a shutdown; the server connects back to   *)
(* that service and answers when it has seen the shutdown.  The client     *)
(* knows the host (the constructors that contact an address are left out). *)
(*                                                                         *)
(* A stream is modelled by what its two ends promise the bindings: each    *)
(* read, write and shutdown is answered by one callback, an end may be     *)
(* reset at any time, and resetting an end answers what is pending there.  *)
(***************************************************************************)
EXTENDS Naturals, Sequences

CONSTANTS Strings                \* the requests and the responses

VARIABLES there, back,           \* the two streams
          client,                \* the SingleCycleConn
          conn,                  \* the server's Conn
          questions              \* what onRequest was called with

scVars == <<there, back, client, conn, questions>>

Service == <<"high", "low">>     \* the id on which the client listens

\* What goes over the streams: the two bytes of the id, and what requests and
\* responses are of.
Bytes == {"high", "low"} \cup UNION {{s[k] : k \in DOMAIN s} : s \in Strings}

ASSUME StringsAssumption == \A s \in Strings : s \in Seq(Bytes)

NoStream == [data |-> <<>>, eof |-> FALSE, writer |-> "none",
             reader |-> "none", writing |-> FALSE, shutting |-> FALSE,
             reading |-> FALSE]

\* connect, write, shutdown and read, of ends that are not reset.
Connected(s) == [s EXCEPT !.writer = "open"]
Written(s, x) == [s EXCEPT !.data = @ \o x, !.writing = TRUE]
Shut(s) == [s EXCEPT !.eof = TRUE, !.shutting = TRUE, !.writing = FALSE]
Accepted(s) == [s EXCEPT !.reader = "open", !.reading = TRUE]

\* What reset does to an end; how many callbacks it answers with RESET.  (A
\* pending shutdown is answered by false.)
WriterReset(s) ==
    IF s.writer = "none" THEN s
    ELSE [s EXCEPT !.writer = "reset", !.writing = FALSE, !.shutting = FALSE]
ReaderReset(s) ==
    IF s.reader = "none" THEN s
    ELSE [s EXCEPT !.reader = "reset", !.reading = FALSE, !.data = <<>>]
Answers(pending) == IF pending THEN 1 ELSE 0

CycleInit ==
    /\ there = NoStream /\ back = NoStream
    /\ \E q \in Strings :
          client = [requestStr |-> q, request |-> q, responseStr |-> <<>>,
                    listening |-> FALSE, responses |-> 0, fails |-> 0,
                    alive |-> FALSE]
    /\ conn = [exists |-> FALSE, sendReady |-> FALSE, request |-> <<>>,
               response |-> <<>>, deletes |-> 0, aborted |-> FALSE]
    /\ questions = <<>>
-----------------------------------------------------------------------------
(* The client. *)

\* The constructor: onContact listens and sends the service id.
construct ==
    /\ ~client.alive /\ there = NoStream
    /\ there' = Written(Connected(there), Service)
    /\ client' = [client EXCEPT !.alive = TRUE, !.listening = TRUE]
    /\ UNCHANGED <<back, conn, questions>>

\* onReset: onFail, then BiDiConn::reset of both ends; what else is pending is
\* answered, and calls onFail again.
Fail ==
    /\ there' = WriterReset(there) /\ back' = ReaderReset(back)
    /\ client' = [client EXCEPT !.listening = FALSE,
                      !.fails = @ + Answers(there.writing)
                                  + Answers(back.reading)]
    /\ UNCHANGED <<conn, questions>>

\* onSendReady: the request, then the shutdown.
clientReady ==
    /\ there.writing
    /\ IF client.requestStr # <<>>
       THEN /\ there' = Written(there, client.requestStr)
            /\ client' = [client EXCEPT !.requestStr = <<>>]
       ELSE there' = Shut(there) /\ UNCHANGED client
    /\ UNCHANGED <<back, conn, questions>>

\* onConnect: the server connects back.  Without a listener CUSP resets it.
clientConnect ==
    /\ back.reader = "none" /\ back.writer # "none"
    /\ IF client.listening
       THEN /\ back' = Accepted(back)
            /\ client' = [client EXCEPT !.listening = FALSE]
       ELSE back' = [back EXCEPT !.reader = "reset"] /\ UNCHANGED client
    /\ UNCHANGED <<there, conn, questions>>

\* A slip: onReceive does not read again.
clientReceive_Once ==
    /\ back.reading
    /\ \E n \in 1 .. Len(back.data) :
          /\ back' = [back EXCEPT !.data = SubSeq(@, n + 1, Len(@)),
                                  !.reading = FALSE]
          /\ client' = [client EXCEPT
                 !.responseStr = @ \o SubSeq(back.data, 1, n)]
    /\ UNCHANGED <<there, conn, questions>>

\* onReceive: any part of what was sent; the next read follows.
clientReceive ==
    /\ back.reading
    /\ \E n \in 1 .. Len(back.data) :
          /\ back' = [back EXCEPT !.data = SubSeq(@, n + 1, Len(@))]
          /\ client' = [client EXCEPT
                 !.responseStr = @ \o SubSeq(back.data, 1, n)]
    /\ UNCHANGED <<there, conn, questions>>

\* onReceiveShutdown: onResponse.
clientShutdown ==
    /\ back.reading /\ back.data = <<>> /\ back.eof
    /\ back' = [back EXCEPT !.reading = FALSE]
    /\ client' = [client EXCEPT !.responses = @ + 1]
    /\ UNCHANGED <<there, conn, questions>>

\* onSendShutdownReady: "ignore (?)", also when the shutdown failed.
clientShutdownReady ==
    /\ there.shutting /\ there.reader # "none"
    /\ there' = [there EXCEPT !.shutting = FALSE]
    /\ UNCHANGED <<back, client, conn, questions>>

\* CUSP resets an end of the client.
clientReset ==
    \/ there.writing /\ Fail
    \/ back.reading /\ Fail
    \/ /\ there.shutting
       /\ there' = WriterReset(there)
       /\ UNCHANGED <<back, client, conn, questions>>

\* The destructor resets.
destroy ==
    /\ client.alive
    /\ there' = WriterReset(there) /\ back' = ReaderReset(back)
    /\ client' = [client EXCEPT !.listening = FALSE, !.alive = FALSE,
                      !.fails = @ + Answers(there.writing)
                                  + Answers(back.reading)]
    /\ UNCHANGED <<conn, questions>>
-----------------------------------------------------------------------------
(* The server. *)

\* onConnect makes a Conn, which reads.
serverConnect ==
    /\ there.reader = "none" /\ there.writer # "none"
    /\ there' = Accepted(there)
    /\ conn' = [conn EXCEPT !.exists = TRUE]
    /\ UNCHANGED <<back, client, questions>>

\* delete this, in a callback: the destructor resets both ends, and what else
\* is pending is answered, and deletes the Conn again.
Delete ==
    /\ there' = ReaderReset(there) /\ back' = WriterReset(back)
    /\ conn' = [conn EXCEPT !.exists = FALSE,
                    !.deletes = @ + Answers(there.reading)
                                  + Answers(back.writing)
                                  + Answers(back.shutting)]
    /\ UNCHANGED client

\* A slip: what came together with the service id is dropped.
serverReceive_Dropped ==
    /\ there.reading
    /\ \E n \in 1 .. Len(there.data) :
          LET x == SubSeq(there.data, 1, n) IN
          /\ there' = [there EXCEPT !.data = SubSeq(@, n + 1, Len(@))]
          /\ \/ /\ back.writer # "none" /\ UNCHANGED back
                /\ conn' = [conn EXCEPT !.request = @ \o x]
             \/ /\ back.writer = "none" /\ n >= Len(Service)
                /\ back' = Connected(back)
                /\ conn' = [conn EXCEPT !.sendReady = TRUE]
    /\ UNCHANGED <<client, questions>>

\* onReceive: the first data begins with the service to connect to, which
\* makes the Conn ready to send; data that came with it is part of the request.
serverReceive ==
    /\ there.reading
    /\ \E n \in 1 .. Len(there.data) :
          LET x == SubSeq(there.data, 1, n) IN
          /\ there' = [there EXCEPT !.data = SubSeq(@, n + 1, Len(@))]
          /\ \/ /\ back.writer # "none" /\ UNCHANGED back
                /\ conn' = [conn EXCEPT !.request = @ \o x]
             \/ /\ back.writer = "none" /\ n >= Len(Service)
                /\ back' = Connected(back)
                /\ conn' = [conn EXCEPT !.sendReady = TRUE,
                                        !.request = @ \o Tail(Tail(x))]
    /\ UNCHANGED <<client, questions>>

\* onReceive, when the first data is not the whole id: it is asserted that it
\* is ("FIXME should reset here!"), and the server's program ends.
serverAborts ==
    /\ there.reading /\ back.writer = "none"
    /\ \E n \in 1 .. Len(there.data) : n < Len(Service)
    /\ conn' = [conn EXCEPT !.aborted = TRUE]
    /\ UNCHANGED <<there, back, client, questions>>

\* A slip: an empty response is not answered by a shutdown.
Respond_NotEmpty(s, r) == IF conn.sendReady /\ r # <<>> THEN Written(s, r) ELSE s

\* What the response does to the stream to the client.
Respond(s, r) == IF ~conn.sendReady THEN s
                 ELSE IF r # <<>> THEN Written(s, r) ELSE Shut(s)

\* onReceiveShutdown: the handler's response is sent, or else the stream is
\* shut down.  On a stream that was reset both are answered at once, by onReset.
serverShutdown ==
    /\ there.reading /\ there.data = <<>> /\ there.eof
    /\ questions' = Append(questions, conn.request)
    /\ \/ /\ back.writer # "reset"
          /\ there' = [there EXCEPT !.reading = FALSE]
          /\ \E r \in Strings :
                /\ back' = Respond(back, r)
                /\ conn' = [conn EXCEPT !.response = r,
                                        !.sendReady = @ \/ r = <<>>]
          /\ UNCHANGED client
       \/ back.writer = "reset" /\ Delete

\* onSendReady, after the response was sent.
serverReady ==
    /\ back.writing
    /\ back' = Shut(back)
    /\ UNCHANGED <<there, client, conn, questions>>

\* onSendShutdownReady: done.
serverShutdownReady ==
    /\ back.shutting /\ back.reader # "none"
    /\ Delete
    /\ UNCHANGED questions

\* CUSP resets an end of the server.  While nothing is pending there the
\* server does not notice.
serverReset ==
    \/ /\ there.reading \/ back.writing \/ back.shutting
       /\ Delete
       /\ UNCHANGED questions
    \/ /\ back.writer = "open" /\ ~back.writing /\ ~back.shutting
       /\ back' = WriterReset(back)
       /\ UNCHANGED <<there, client, conn, questions>>

CycleNext ==
    \/ construct
    \/ clientReady
    \/ clientConnect
    \/ clientReceive
    \/ clientShutdown
    \/ clientShutdownReady
    \/ clientReset
    \/ destroy
    \/ /\ ~conn.aborted
       /\ \/ serverConnect
          \/ serverReceive
          \/ serverAborts
          \/ serverShutdown
          \/ serverReady
          \/ serverShutdownReady
          \/ serverReset

CycleSpec == CycleInit /\ [][CycleNext]_scVars
-----------------------------------------------------------------------------
(***************************************************************************)
(* The handler of the server is asked at most once, with the whole         *)
(* request, wherever the data was split behind the id (a split of the id   *)
(* ends the server's program); the client hears of a response at most      *)
(* once, the whole of it, and never also of a failure.                     *)
(***************************************************************************)
WholeAnswer ==
    /\ questions \in {<<>>, <<client.request>>}
    /\ client.responses > 0 =>
          /\ client.responses = 1 /\ client.fails = 0
          /\ client.responseStr = conn.response

(***************************************************************************)
(* Until it has heard, a client waits for a callback of one of its         *)
(* streams, but for one time: after its shutdown and before the server has *)
(* connected it waits for that only.  (If the connection is then lost,     *)
(* the shutdown fails and onSendShutdownReady ignores it, "(?)": request   *)
(* never returns.)                                                         *)
(***************************************************************************)
ClientWaits ==
    /\ client.alive /\ client.responses = 0 /\ client.fails = 0
    /\ ~there.eof \/ back.reader = "open"
    => there.writing \/ back.reading

(***************************************************************************)
(* A Conn, which nobody else refers to, waits for one callback as long as  *)
(* it exists, so it is not leaked while the server runs; and because it is *)
(* never more than one, it deletes itself once, although a reset answers   *)
(* what is pending.                                                        *)
(***************************************************************************)
ConnAccounted ==
    /\ conn.exists => there.reading \/ back.writing \/ back.shutting
    /\ conn.deletes = IF there.reader # "none" /\ ~conn.exists THEN 1 ELSE 0

\* The handler of a request sees the whole of it, and the client the whole
\* answer, once; a client that has not heard waits for a callback of one of its
\* streams, and a connection of the server for one until it is deleted, once.
RequestsEnd == WholeAnswer /\ ClientWaits /\ ConnAccounted
=============================================================================
