------------------------------ MODULE JniAsync ------------------------------
(***************************************************************************)
(* bindings/java BSJniBase: threads of a Java program hand tasks to the    *)
(* thread that runs the main loop of the library, and start that thread    *)
(* when it is not running.  A queue under a lock holds the tasks, a byte   *)
(* through a socket wakes the loop.  Every synchronized block in which a   *)
(* thread does not wait is one step.  Tasks that hand over tasks are left  *)
(* out.                                                                    *)
(***************************************************************************)
EXTENDS Naturals, Sequences, FiniteSets

CONSTANTS Callers,               \* threads of the program, one task each
          Loops                  \* the threads that may be started

Nobody == "nobody"

\* A thread that runs the loop hands over no task, and is somebody.
ASSUME ThreadAssumption == Callers \cap Loops = {} /\ Nobody \notin Loops

VARIABLES pc,                    \* where each thread is
          op,                    \* caller -> what it asks for
          mainThreadId,
          mainThreadSync,        \* the loop thread that holds this lock
          waiting,               \* callers in mainThreadIdSync.wait()
          asyncTaskQ,            \* the callers whose tasks are queued
          queueLock,             \* the loop thread that holds the queue's lock
          next,                  \* how many tasks it has run of the queue
          bytes,                 \* unread bytes in the socket
          stopFlag,              \* evtStopMain was called in the loop
          runs,                  \* caller -> how often its task has run
          open                   \* shutdown has not been called

aVars == <<pc, op, mainThreadId, mainThreadSync, waiting, asyncTaskQ,
           queueLock, next, bytes, stopFlag, runs, open>>

Ops == {"invoke", "call", "stop", "shutdown"}

AInit ==
    /\ pc = [t \in Callers \cup Loops |-> "idle"]
    /\ op \in [Callers -> Ops]
    /\ mainThreadId = Nobody /\ mainThreadSync = Nobody /\ waiting = {}
    /\ asyncTaskQ = <<>> /\ queueLock = Nobody /\ next = 0
    /\ bytes = 0 /\ stopFlag = FALSE
    /\ runs = [c \in Callers |-> 0]
    /\ open = TRUE

Goto(t, label) == pc' = [pc EXCEPT ![t] = label]
-----------------------------------------------------------------------------
(* The callers. *)

\* invokeInternal: without a queue the task runs here, without a main loop
\* one is started.  The test is made without a lock.  A call whose task ran
\* here waits for a notification that was sent before it waited.
invokeInternal(c) ==
    /\ pc[c] = "idle"
    /\ \/ /\ ~open
          /\ runs' = [runs EXCEPT ![c] = @ + 1]
          /\ Goto(c, IF op[c] = "call" THEN "hangs" ELSE "end")
       \/ open /\ mainThreadId = Nobody /\ Goto(c, "start")
               /\ UNCHANGED runs
       \/ open /\ mainThreadId # Nobody /\ Goto(c, "add")
               /\ UNCHANGED runs
    /\ UNCHANGED <<op, mainThreadId, mainThreadSync, waiting, asyncTaskQ,
                   queueLock, next, bytes, stopFlag, open>>

\* startMainThread: unless the loop runs meanwhile, start a thread and wait
\* until some main loop runs.
startMainThread(c) ==
    /\ pc[c] = "start"
    /\ \/ /\ mainThreadId # Nobody
          /\ Goto(c, "add") /\ UNCHANGED waiting
       \/ \E l \in Loops :
             /\ mainThreadId = Nobody /\ pc[l] = "idle"
             /\ pc' = [pc EXCEPT ![c] = "wait", ![l] = "queued"]
             /\ waiting' = waiting \cup {c}
    /\ UNCHANGED <<op, mainThreadId, mainThreadSync, asyncTaskQ, queueLock,
                   next, bytes, stopFlag, runs, open>>

\* A slip: whether the queue was empty is asked after the task was added.
addTask_NoWake(c) ==
    /\ pc[c] = "add" /\ open /\ queueLock = Nobody
    /\ asyncTaskQ' = Append(asyncTaskQ, c)
    /\ bytes' = IF asyncTaskQ' = <<>> THEN bytes + 1 ELSE bytes
    /\ Goto(c, CASE op[c] = "call" -> "called"
                 [] op[c] = "shutdown" -> "close"
                 [] OTHER -> "end")
    /\ UNCHANGED <<op, mainThreadId, mainThreadSync, waiting, queueLock, next,
                   stopFlag, runs, open>>

\* The rest of invokeInternal: the first task of the queue wakes the loop.
\* (When shutdown has taken the queue away the caller gets an exception.)
addTask(c) ==
    /\ pc[c] = "add"
    /\ \/ /\ open /\ queueLock = Nobody
          /\ asyncTaskQ' = Append(asyncTaskQ, c)
          /\ bytes' = IF asyncTaskQ = <<>> THEN bytes + 1 ELSE bytes
          /\ Goto(c, CASE op[c] = "call" -> "called"
                       [] op[c] = "shutdown" -> "close"
                       [] OTHER -> "end")
       \/ ~open /\ Goto(c, "thrown") /\ UNCHANGED <<asyncTaskQ, bytes>>
    /\ UNCHANGED <<op, mainThreadId, mainThreadSync, waiting, queueLock, next,
                   stopFlag, runs, open>>

\* call returns when its task has run.
returnResult(c) ==
    /\ pc[c] = "called" /\ runs[c] > 0
    /\ Goto(c, "end")
    /\ UNCHANGED <<op, mainThreadId, mainThreadSync, waiting, asyncTaskQ,
                   queueLock, next, bytes, stopFlag, runs, open>>

\* shutdown, after stopMainLoop: when no main loop runs the queue is dropped
\* and the library closed.
shutdown(c) ==
    /\ pc[c] = "close" /\ mainThreadSync = Nobody
    /\ open' = FALSE
    /\ Goto(c, "end")
    /\ UNCHANGED <<op, mainThreadId, mainThreadSync, waiting, asyncTaskQ,
                   queueLock, next, bytes, stopFlag, runs>>
-----------------------------------------------------------------------------
(* The threads of the main loop. *)

\* The thread takes the lock in asyncCallback, which it calls once before the
\* main loop ("queued") and in it for every byte ("woken").
lockQueue(l) ==
    /\ pc[l] \in {"queued", "woken"}
    /\ \/ /\ open /\ queueLock = Nobody
          /\ queueLock' = l
          /\ next' = 0
          /\ Goto(l, IF pc[l] = "queued" THEN "first" ELSE "again")
       \/ ~open /\ Goto(l, "thrown") /\ UNCHANGED <<queueLock, next>>
    /\ UNCHANGED <<op, mainThreadId, mainThreadSync, waiting, asyncTaskQ,
                   bytes, stopFlag, runs, open>>

\* evtStopMain has an effect only while a loop is running.
runTask(l) ==
    /\ queueLock = l /\ next < Len(asyncTaskQ)
    /\ LET c == asyncTaskQ[next + 1] IN
          /\ runs' = [runs EXCEPT ![c] = @ + 1]
          /\ stopFlag' = \/ stopFlag
                         \/ op[c] \in {"stop", "shutdown"} /\ mainThreadId # Nobody
    /\ next' = next + 1
    /\ UNCHANGED <<pc, op, mainThreadId, mainThreadSync, waiting, asyncTaskQ,
                   queueLock, bytes, open>>

\* A slip: the tasks that have run are not taken from the queue.
clearQueue_Not(l) ==
    /\ queueLock = l /\ next = Len(asyncTaskQ)
    /\ queueLock' = Nobody /\ next' = 0
    /\ Goto(l, IF pc[l] = "first" THEN "enter" ELSE "loop")
    /\ UNCHANGED <<op, mainThreadId, mainThreadSync, waiting, asyncTaskQ,
                   bytes, stopFlag, runs, open>>

clearQueue(l) ==
    /\ queueLock = l /\ next = Len(asyncTaskQ)
    /\ asyncTaskQ' = <<>> /\ queueLock' = Nobody /\ next' = 0
    /\ Goto(l, IF pc[l] = "first" THEN "enter" ELSE "loop")
    /\ UNCHANGED <<op, mainThreadId, mainThreadSync, waiting, bytes, stopFlag,
                   runs, open>>

\* mainLoop: it keeps mainThreadSync while it runs, and wakes those who wait
\* for it to start.
mainLoop(l) ==
    /\ pc[l] = "enter" /\ mainThreadSync = Nobody
    /\ mainThreadSync' = l /\ mainThreadId' = l
    /\ pc' = [t \in Callers \cup Loops |->
                 IF t = l THEN "loop" ELSE IF t \in waiting THEN "add" ELSE pc[t]]
    /\ waiting' = {}
    /\ UNCHANGED <<op, asyncTaskQ, queueLock, next, bytes, stopFlag, runs,
                   open>>

\* evtMain reads a byte and calls back.
wake(l) ==
    /\ pc[l] = "loop" /\ ~stopFlag /\ bytes > 0
    /\ bytes' = bytes - 1
    /\ Goto(l, "woken")
    /\ UNCHANGED <<op, mainThreadId, mainThreadSync, waiting, asyncTaskQ,
                   queueLock, next, stopFlag, runs, open>>

\* evtMain has seen the flag and returned.
endLoop(l) ==
    /\ pc[l] = "loop" /\ stopFlag
    /\ stopFlag' = FALSE
    /\ mainThreadId' = Nobody /\ mainThreadSync' = Nobody
    /\ Goto(l, "end")
    /\ UNCHANGED <<op, waiting, asyncTaskQ, queueLock, next, bytes, runs,
                   open>>

ANext ==
    \/ \E c \in Callers :
          \/ invokeInternal(c) \/ startMainThread(c) \/ addTask(c)
          \/ returnResult(c) \/ shutdown(c)
    \/ \E l \in Loops :
          \/ lockQueue(l) \/ runTask(l) \/ clearQueue(l)
          \/ mainLoop(l) \/ wake(l) \/ endLoop(l)

ASpec == AInit /\ [][ANext]_aVars
-----------------------------------------------------------------------------
ATypeOK ==
    /\ op \in [Callers -> Ops]
    /\ mainThreadId \in Loops \cup {Nobody}
    /\ mainThreadSync \in Loops \cup {Nobody}
    /\ queueLock \in Loops \cup {Nobody}
    /\ waiting \subseteq Callers
    /\ asyncTaskQ \in Seq(Callers) /\ next \in 0 .. Len(asyncTaskQ)
    /\ bytes \in Nat /\ runs \in [Callers -> Nat]
    /\ stopFlag \in BOOLEAN /\ open \in BOOLEAN

(***************************************************************************)
(* A task runs once and not while its thread still adds it, whatever       *)
(* threads were started and stopped meanwhile, and call returns the result *)
(* of a task that has run.                                                 *)
(***************************************************************************)
EachTaskOnce ==
    \A c \in Callers :
        /\ runs[c] <= 1
        /\ pc[c] \in {"idle", "start", "wait", "add", "thrown"} => runs[c] = 0
        /\ pc[c] = "end" /\ op[c] = "call" => runs[c] = 1

(***************************************************************************)
(* While there are tasks in the queue and a main loop that will not stop,  *)
(* there is a byte the loop will read or a thread that is about to look    *)
(* into the queue: only the first task sends a byte, and the loop reads it *)
(* before it takes the lock.                                               *)
(***************************************************************************)
WakeupPending ==
    open /\ asyncTaskQ # <<>> /\ mainThreadId # Nobody /\ ~stopFlag =>
        \/ bytes > 0
        \/ queueLock # Nobody
        \/ \E l \in Loops : pc[l] \in {"queued", "woken"}

\* Both: what the threads and the loop promise each other.
TasksRun == EachTaskOnce /\ WakeupPending
=============================================================================
