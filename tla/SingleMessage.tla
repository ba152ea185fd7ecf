---------------------------- MODULE SingleMessage ----------------------------
(***************************************************************************)
(* bindings/cpp/cusp/util: SingleMessageOutStream and SingleMessageInStream*)
(* at the two ends of one stream.  The receiver reads once only, so that   *)
(* it hears the end of an empty message and of no other: its onReceive     *)
(* does not read again.                                                    *)
(***************************************************************************)
EXTENDS Integers, Sequences

CONSTANT Sizes                   \* the sizes of messages

VARIABLES size, stream, sender, receiver

smVars == <<size, stream, sender, receiver>>

\* The stream between them: what waits to be read, and which callbacks the
\* two ends still have to be answered by.
MessageInit ==
    /\ size \in Sizes
    /\ stream = [unread |-> size, eof |-> FALSE, writing |-> TRUE,
                 shutting |-> FALSE, reading |-> TRUE]
    /\ sender = [told |-> <<>>, alive |-> TRUE]
    /\ receiver = [buffer |-> 0, heard |-> <<>>, alive |-> TRUE]

\* onMessageReset, among the sizes of the messages heard.
Reset == -1

Tell(success) == sender' = [sender EXCEPT !.told = Append(@, success)]
-----------------------------------------------------------------------------
\* A slip: the sender reports when the stream has taken the message.
senderReady_Tells ==
    /\ stream.writing
    /\ stream' = [stream EXCEPT !.writing = FALSE, !.shutting = TRUE,
                                !.eof = TRUE]
    /\ Tell(TRUE)
    /\ UNCHANGED <<size, receiver>>

\* onReady.
senderReady ==
    /\ stream.writing
    /\ stream' = [stream EXCEPT !.writing = FALSE, !.shutting = TRUE,
                                !.eof = TRUE]
    /\ UNCHANGED <<size, sender, receiver>>

\* onShutdown(true): the receiver's side of CUSP has everything.
senderShutdown ==
    /\ stream.shutting
    /\ stream' = [stream EXCEPT !.shutting = FALSE]
    /\ Tell(TRUE)
    /\ UNCHANGED <<size, receiver>>

\* The out-stream is reset by CUSP (onReset or onShutdown(false)), or by the
\* destructor, which answers what is pending in the same way.
senderReset(gone) ==
    /\ sender.alive
    /\ gone \/ stream.writing \/ stream.shutting
    /\ stream' = [stream EXCEPT !.writing = FALSE, !.shutting = FALSE]
    /\ sender' = [told |-> IF stream.writing \/ stream.shutting
                           THEN Append(sender.told, FALSE) ELSE sender.told,
                  alive |-> ~gone]
    /\ UNCHANGED <<size, receiver>>

\* onReceive.
receiverReceive ==
    /\ stream.reading
    /\ \E n \in 1 .. stream.unread :
          /\ receiver' = [receiver EXCEPT !.buffer = @ + n]
          /\ stream' = [stream EXCEPT !.unread = @ - n, !.reading = FALSE]
    /\ UNCHANGED <<size, sender>>

\* onReceiveShutdown.
receiverShutdown ==
    /\ stream.reading /\ stream.unread = 0 /\ stream.eof
    /\ receiver' = [receiver EXCEPT !.heard = Append(@, receiver.buffer)]
    /\ stream' = [stream EXCEPT !.reading = FALSE]
    /\ UNCHANGED <<size, sender>>

\* onReset, or the destructor.
receiverReset(gone) ==
    /\ receiver.alive
    /\ gone \/ stream.reading
    /\ stream' = [stream EXCEPT !.reading = FALSE]
    /\ receiver' = [receiver EXCEPT
           !.heard = IF stream.reading THEN Append(@, Reset) ELSE @,
           !.alive = ~gone]
    /\ UNCHANGED <<size, sender>>

MessageNext ==
    \/ senderReady
    \/ senderShutdown
    \/ \E gone \in BOOLEAN : senderReset(gone)
    \/ receiverReceive
    \/ receiverShutdown
    \/ \E gone \in BOOLEAN : receiverReset(gone)

MessageSpec == MessageInit /\ [][MessageNext]_smVars
-----------------------------------------------------------------------------
(***************************************************************************)
(* The sender hears of its message exactly once, and until then it waits   *)
(* for a callback: the answers to the write, to the shutdown and to a      *)
(* reset, by CUSP or by the destructor, never add up to two or to none.    *)
(***************************************************************************)
ToldOnce ==
    Len(sender.told) = IF stream.writing \/ stream.shutting THEN 0 ELSE 1
=============================================================================
