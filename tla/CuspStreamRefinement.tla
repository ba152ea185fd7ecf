------------------------ MODULE CuspStreamRefinement ------------------------
(***************************************************************************)
(* The stream layer implements the service its signatures promise.         *)
(***************************************************************************)
EXTENDS CuspStream

\* How the stream ended for the reading user.
Saw == IF rEnd THEN "end" ELSE IF IsReset(rState) THEN "reset" ELSE "open"

Service == INSTANCE StreamService WITH
    sent    <- wSendOffset + wBuffer,
    arrived <- IF Saw = "reset" THEN 0 ELSE rOffset,
    got     <- IF Saw = "reset" THEN 0 ELSE ReaderOffset,
    verdict <- IF wShutdown = "refused" THEN "none" ELSE wShutdown,
    gone    <- wState = "RESET",
    saw     <- Saw

\* Every behaviour of OutStreamQueue, InStreamQueue and the lossy channel is
\* one of the service: bytes in order and once, the end after every byte, a
\* true verdict only for data delivered to the remote in-stream.
ImplementsService == Service!Spec
=============================================================================
