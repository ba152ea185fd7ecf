----------------------------- MODULE BufferedOut -----------------------------
(***************************************************************************)
(* bindings/cpp/cusp/util: BufferedOutStream, which lets a program write   *)
(* before the stream is ready.  The out-stream below it takes one write at *)
(* a time, answers a write and a shutdown by one callback each, and when   *)
(* it is reset answers what is pending.  (The program does not write after *)
(* it has asked for the shutdown: the out-stream refuses that.)            *)
(***************************************************************************)
EXTENDS Naturals, Sequences

CONSTANT Writes                  \* how often the program writes, at most

VARIABLES written,               \* what the program has written, in order
          took,                  \* what the out-stream has been given
          pending,               \* what it has to answer
          os,                    \* "open", "shut" or "reset"
          ready, buf,
          shutdownRequest,
          told,                  \* what the handlers have heard
          alive                  \* the object is not destroyed

boVars == <<written, took, pending, os, ready, buf, shutdownRequest, told,
            alive>>

BufferedInit ==
    /\ written = <<>> /\ took = <<>> /\ pending = {} /\ os = "open"
    /\ ready = TRUE /\ buf = <<>> /\ shutdownRequest = FALSE /\ told = <<>>
    /\ alive = TRUE

Item == Len(written) + 1         \* what the program writes next

\* What a reset answers: a write by onReset, a shutdown by onShutdown(false).
Resets == IF "write" \in pending THEN <<"reset">>
          ELSE IF "shutdown" \in pending THEN <<"false">> ELSE <<>>
-----------------------------------------------------------------------------
\* write: directly when ready, else to the buffer.  A stream that was reset
\* answers at once.
write ==
    /\ alive /\ ~shutdownRequest /\ Item <= Writes
    /\ written' = Append(written, Item)
    /\ ready' = FALSE
    /\ \/ /\ ready /\ os = "open"
          /\ took' = Append(took, Item) /\ pending' = pending \cup {"write"}
          /\ UNCHANGED <<buf, told>>
       \/ /\ ready /\ os = "reset"
          /\ told' = Append(told, "reset")
          /\ UNCHANGED <<took, pending, buf>>
       \/ /\ ~ready
          /\ buf' = Append(buf, Item)
          /\ UNCHANGED <<took, pending, told>>
    /\ UNCHANGED <<os, shutdownRequest, alive>>

\* A slip: the shutdown does not wait for the buffer.
shutdown_AtOnce ==
    /\ alive /\ ~shutdownRequest
    /\ shutdownRequest' = TRUE
    /\ \/ os = "open" /\ os' = "shut" /\ pending' = {"shutdown"}
          /\ UNCHANGED told
       \/ os = "reset" /\ told' = Append(told, "false")
          /\ UNCHANGED <<os, pending>>
    /\ UNCHANGED <<written, took, ready, buf, alive>>

\* shutdown: when ready, else it is left to onReady.
shutdown ==
    /\ alive /\ ~shutdownRequest
    /\ shutdownRequest' = TRUE
    /\ \/ /\ ready /\ os = "open"
          /\ os' = "shut" /\ pending' = pending \cup {"shutdown"}
          /\ UNCHANGED told
       \/ /\ ready /\ os = "reset"
          /\ told' = Append(told, "false")
          /\ UNCHANGED <<os, pending>>
       \/ ~ready /\ UNCHANGED <<os, pending, told>>
    /\ UNCHANGED <<written, took, ready, buf, alive>>

\* A slip: an empty buffer makes the stream ready, whatever was asked for.
onReady_NoShutdown ==
    /\ "write" \in pending
    /\ \/ /\ buf # <<>>
          /\ took' = took \o buf /\ buf' = <<>>
          /\ UNCHANGED <<pending, os, ready>>
       \/ /\ buf = <<>>
          /\ ready' = TRUE /\ pending' = pending \ {"write"}
          /\ UNCHANGED <<took, buf, os>>
    /\ UNCHANGED <<written, shutdownRequest, told, alive>>

\* onReady: the buffer, else the shutdown, else ready for the next write.
onReady ==
    /\ "write" \in pending
    /\ \/ /\ buf # <<>>
          /\ took' = took \o buf /\ buf' = <<>>
          /\ UNCHANGED <<pending, os, ready>>
       \/ /\ buf = <<>> /\ shutdownRequest
          /\ os' = "shut" /\ pending' = (pending \ {"write"}) \cup {"shutdown"}
          /\ UNCHANGED <<took, buf, ready>>
       \/ /\ buf = <<>> /\ ~shutdownRequest
          /\ ready' = TRUE /\ pending' = pending \ {"write"}
          /\ UNCHANGED <<took, buf, os>>
    /\ UNCHANGED <<written, shutdownRequest, told, alive>>

\* The out-stream answers the shutdown.
onShutdown ==
    /\ "shutdown" \in pending
    /\ pending' = pending \ {"shutdown"}
    /\ told' = Append(told, "true")
    /\ UNCHANGED <<written, took, os, ready, buf, shutdownRequest, alive>>

\* CUSP resets the stream: onReset tells the handler.
onReset ==
    /\ alive /\ os # "reset"
    /\ os' = "reset" /\ pending' = {} /\ told' = told \o Resets
    /\ UNCHANGED <<written, took, ready, buf, shutdownRequest, alive>>

\* reset, which the destructor calls.
reset ==
    /\ alive
    /\ alive' = FALSE /\ ready' = FALSE /\ buf' = <<>>
    /\ os' = "reset" /\ pending' = {} /\ told' = told \o Resets
    /\ UNCHANGED <<written, took, shutdownRequest>>

BufferedNext ==
    \/ write
    \/ shutdown
    \/ onReady
    \/ onShutdown
    \/ onReset
    \/ reset

BufferedSpec == BufferedInit /\ [][BufferedNext]_boVars
-----------------------------------------------------------------------------
(***************************************************************************)
(* The out-stream gets what the program wrote, in that order, one write at *)
(* a time, and the shutdown only behind all of it: what it has taken and   *)
(* what is buffered are together what was written, until it is reset.      *)
(***************************************************************************)
InOrder ==
    /\ os # "reset" => took \o buf = written
    /\ os = "shut" => buf = <<>>
    /\ ready => pending \subseteq {"shutdown"}
    /\ pending # {"write", "shutdown"}

(***************************************************************************)
(* Who asked for a shutdown hears of it: until the object is destroyed a   *)
(* request leads to a pending callback, or a handler was told, also when   *)
(* the reset came while nothing was pending.                               *)
(***************************************************************************)
ShutdownHeard ==
    alive /\ shutdownRequest => pending # {} \/ told # <<>>
=============================================================================
