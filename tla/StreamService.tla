--------------------------- MODULE StreamService ---------------------------
(***************************************************************************)
(* What a CUSP stream promises its two users (cusp/out-stream.sig and      *)
(* cusp/in-stream.sig), with no packets and no flow control: bytes arrive  *)
(* in order and once, the end is seen only after every byte of a stream    *)
(* that was shut down before it was reset, and the callback of shutdown    *)
(* hears true only if everything has arrived at the remote in-stream or    *)
(* the remote in-stream has been reset.                                    *)
(***************************************************************************)
EXTENDS Integers

CONSTANT MaxOffset

VARIABLES
    sent,    \* bytes the writing user has handed over
    arrived, \* bytes at the remote in-stream, in order
    got,     \* bytes the reading user has been given
    verdict, \* of shutdown: "none" (not called), "pending", "true", "false"
    gone,    \* the writer is reset
    saw      \* how the stream ended for the reader: "open", "end", "reset"

vars == <<sent, arrived, got, verdict, gone, saw>>

Init ==
    /\ sent = 0 /\ arrived = 0 /\ got = 0
    /\ verdict = "none"
    /\ gone = FALSE
    /\ saw = "open"

Write ==
    /\ ~ gone /\ verdict = "none"
    /\ sent' \in (sent + 1) .. MaxOffset
    /\ UNCHANGED <<arrived, got, verdict, gone, saw>>

Shutdown ==
    /\ ~ gone /\ verdict = "none"
    /\ verdict' = "pending"
    /\ UNCHANGED <<sent, arrived, got, gone, saw>>

\* A reset withdraws what has not left yet and answers a pending shutdown.
ResetWriter ==
    /\ gone' = TRUE
    /\ sent' \in arrived .. sent
    /\ verdict' = IF verdict = "pending" THEN "false" ELSE verdict
    /\ UNCHANGED <<arrived, got, saw>>

Deliver ==
    /\ saw = "open"
    /\ arrived' \in arrived .. sent
    /\ got' \in got .. arrived'
    /\ UNCHANGED <<sent, verdict, gone, saw>>

End ==
    /\ saw = "open"
    /\ verdict # "none"
    /\ got = sent
    /\ saw' = "end"
    /\ UNCHANGED <<sent, arrived, got, verdict, gone>>

\* The reader resets, or learns of the writer's reset.
ResetReader ==
    /\ saw = "open"
    /\ saw' = "reset"
    /\ arrived' = 0 /\ got' = 0
    /\ UNCHANGED <<sent, verdict, gone>>

Confirm ==
    /\ verdict = "pending"
    /\ saw = "reset" \/ arrived = sent
    /\ verdict' = "true"
    /\ UNCHANGED <<sent, arrived, got, gone, saw>>

Next == \/ Write \/ Shutdown \/ ResetWriter
        \/ Deliver \/ End \/ ResetReader \/ Confirm

Spec == Init /\ [][Next]_vars
=============================================================================
