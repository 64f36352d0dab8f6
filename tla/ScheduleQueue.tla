--------------------------- MODULE ScheduleQueue ---------------------------
(***************************************************************************)
(* The ScheduleQueue singleton (src/core/scheduler/ScheduleQueue.ts):      *)
(* executions of pull payments that were missed while their scheduler was  *)
(* stopped run one at a time.  queue() pushes an entry and calls drip();   *)
(* drip() either starts executing the head of the queue or re-arms itself  *)
(* with a 10ms setTimeout.  Each pending setTimeout is counted in drips.   *)
(*                                                                         *)
(* JavaScript runs a function up to its next await without interruption,   *)
(* so each action is one such segment.  A drip that finds the queue busy   *)
(* only re-arms itself: it is a stuttering step.                           *)
(***************************************************************************)
EXTENDS Naturals, Sequences

CONSTANTS PullPaymentID,   \* the pull payments that can be queued
          NoID,            \* no execution is in progress
          MayThrow,        \* whether an execution may throw (TypeError, or the
                           \* callback's promise rejects)
          Burst,           \* bound: entries one restart hands over
          QueueLimit       \* bound: length at which the caller stops queueing

ASSUME QueueAssumption == /\ NoID \notin PullPaymentID
                          /\ MayThrow \in BOOLEAN
                          /\ Burst \in Nat \ {0}
                          /\ QueueLimit \in Nat

VARIABLES executionQueue,  \* ids waiting to be executed
          isExecuting,     \* the flag drip() tests
          drips,           \* pending setTimeout(drip) calls
          running          \* the id whose executeCallback() is awaited, or NoID

queueVars == <<executionQueue, isExecuting, drips, running>>

QueueTypeOK == /\ executionQueue \in Seq(PullPaymentID)
               /\ isExecuting \in BOOLEAN
               /\ drips \in Nat
               /\ running \in PullPaymentID \cup {NoID}

QueueInit == /\ executionQueue = <<>>
             /\ isExecuting = FALSE
             /\ drips = 0
             /\ running = NoID

Copies(id, k) == [i \in 1..k |-> id]

-----------------------------------------------------------------------------
\* A mutant of Execute: pop() in place of shift().
ExecuteLast(q, missing) ==
    /\ isExecuting' = TRUE
    /\ executionQueue' = SubSeq(q, 1, Len(q) - 1)
    /\ running' = IF q[Len(q)] \in missing THEN NoID ELSE q[Len(q)]

(* execute() up to its await: shift the head of q and call its scheduler's  *)
(* executeCallback().  For an id in missing, SchedulerBuffer.get returns    *)
(* undefined and the call throws: isExecuting is never reset.               *)
Execute(q, missing) ==
    /\ isExecuting' = TRUE
    /\ executionQueue' = Tail(q)
    /\ running' = IF Head(q) \in missing THEN NoID ELSE Head(q)

\* A mutant of Queue: the drip that starts an execution re-arms itself as well.
QueueRearms(id, k, missing) ==
    LET q == executionQueue \o Copies(id, k)
    IN  \/ /\ isExecuting
           /\ executionQueue' = q
           /\ drips' = drips + k
           /\ UNCHANGED <<isExecuting, running>>
        \/ /\ ~isExecuting
           /\ Execute(q, missing)
           /\ drips' = drips + k

(* k calls of queue(id) in a row, each one a push and a drip().  Only the   *)
(* first drip can find the queue idle.                                      *)
Queue(id, k, missing) ==
    LET q == executionQueue \o Copies(id, k)
    IN  \/ /\ isExecuting
           /\ executionQueue' = q
           /\ drips' = drips + k
           /\ UNCHANGED <<isExecuting, running>>
        \/ /\ ~isExecuting
           /\ Execute(q, missing)
           /\ drips' = drips + (k - 1)

\* A mutant of Drip: the isExecuting test is forgotten.
DripUnguarded(missing) ==
    /\ drips > 0
    /\ executionQueue # <<>>
    /\ Execute(executionQueue, missing)
    /\ drips' = drips - 1

\* A pending setTimeout fires and finds the queue idle and not empty.
Drip(missing) ==
    /\ drips > 0
    /\ ~isExecuting
    /\ executionQueue # <<>>
    /\ Execute(executionQueue, missing)
    /\ drips' = drips - 1

\* A mutant of Finish: the flag is not reset when the execution returns.
FinishKeepsFlag ==
    /\ running # NoID
    /\ running' = NoID
    /\ UNCHANGED <<executionQueue, isExecuting, drips>>

\* The awaited executeCallback() returns.
Finish ==
    /\ running # NoID
    /\ running' = NoID
    /\ isExecuting' = FALSE
    /\ UNCHANGED <<executionQueue, drips>>

\* The awaited executeCallback() rejects: the line that resets the flag is
\* never reached.
Throw ==
    /\ MayThrow
    /\ running # NoID
    /\ running' = NoID
    /\ UNCHANGED <<executionQueue, isExecuting, drips>>

-----------------------------------------------------------------------------
Missing == IF MayThrow THEN SUBSET PullPaymentID ELSE {{}}

Serving ==
    \/ \E id \in PullPaymentID, k \in 1..Burst, missing \in Missing :
          Len(executionQueue) + k <= QueueLimit /\ Queue(id, k, missing)
    \/ \E missing \in Missing : Drip(missing)
    \/ Finish

QueueNext == Serving \/ Throw

QueueSafety == QueueInit /\ [][QueueNext]_queueVars

(* The queue while no execution throws: the event loop runs every timer     *)
(* that is due, and an execution returns.                                   *)
QueueSpec == /\ QueueInit /\ [][Serving]_queueVars
             /\ WF_queueVars(\E missing \in Missing : Drip(missing))
             /\ WF_queueVars(Finish)

-----------------------------------------------------------------------------
(* Every waiting entry has exactly one pending drip: none is stranded in    *)
(* the queue without a timer that will pick it up, and no timer polls every *)
(* 10ms for an entry that is gone (drip() re-arms whenever it cannot start).*)
DripsMatchQueue == drips = Len(executionQueue)

(* Executions never overlap: the flag is up as long as one is awaited, so   *)
(* a second one is only started after the first is over.                    *)
ExecutionsDoNotOverlap ==
    [][running # NoID /\ running' # running => running' = NoID]_queueVars

(* The queue implements the serial queue: nothing is lost, reordered or     *)
(* served twice, and everything queued is served in the end.                *)
Line == (IF running = NoID THEN <<>> ELSE <<running>>) \o executionQueue

Serial == INSTANCE SerialQueue WITH todo <- Line

ImplementsSerialQueue == Serial!Spec
=============================================================================
