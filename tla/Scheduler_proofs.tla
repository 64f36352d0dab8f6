-------------------------- MODULE Scheduler_proofs --------------------------
(***************************************************************************)
(* Proofs about Scheduler, for every set of pull payments, every number of *)
(* payments, start and frequency, both kinds of callback, and every bound. *)
(***************************************************************************)
EXTENDS Scheduler, ScheduleQueue_proofs, FiniteSetTheorems

(* A slot is idle or holds a call for some pull payment; the segments of    *)
(* restart() are only reached by restart().                                 *)
WellFormed(task) ==
    /\ task \in TaskState
    /\ task.pc = "none" => task = Idle
    /\ task.pc # "none" => task.id \in PullPaymentID
    /\ task.pc \in {"check", "queue"} => task.fn = "restart"

(* A task that holds a record it has read, p being the payments the         *)
(* contract has executed, holds one that does not claim too few are left.   *)
Covers(task, p) ==
    task.pc # "none" /\ task.db # "read" =>
        task.view.numberOfPayments + p[task.id] >= NumberOfPayments[task.id]

Good(task, p) == WellFormed(task) /\ Covers(task, p)

TasksGood == \A t \in Task : Good(tasks[t], paid)

(* The inductive invariant: what is written comes from what was read, so    *)
(* the record is only safe if every record held by a task is.               *)
SchedulerInv == TypeOK /\ QueueInv /\ NoPaymentForgotten /\ TasksGood

Paid == [PullPaymentID -> Nat]

-----------------------------------------------------------------------------
(* The task operators.                                                      *)

LEMMA IdleIsGood == ASSUME NEW p PROVE Good(Idle, p) /\ Idle \in TaskState
BY DEF Good, WellFormed, Covers, Idle, TaskState, NoRecord, Record, Status,
       Function, Segment

LEMMA CallIsGood ==
    ASSUME NEW p, NEW fn \in Function, NEW id \in PullPaymentID,
           NEW pc \in Segment, NEW arg \in Nat, pc # "none",
           pc \in {"check", "queue"} => fn = "restart"
    PROVE  Good(Call(fn, id, pc, arg), p)
BY DEF Good, WellFormed, Covers, Call, Idle, TaskState, NoRecord, Record, Status

LEMMA ReadingIsGood ==
    ASSUME NEW p, NEW task, Good(task, p), task.pc # "none",
           NEW pc \in Segment, pc \notin {"none", "check", "queue"}
    PROVE  Good(Reading(task, pc), p)
BY DEF Good, WellFormed, Covers, Reading, TaskState

LEMMA WritingIsGood ==
    ASSUME NEW p, NEW task, Good(task, p), task.pc # "none",
           NEW v \in Record, NEW s \in Status \cup {"keep"},
           v.numberOfPayments + p[task.id] >= NumberOfPayments[task.id],
           NEW pc \in Segment, pc # "none",
           pc \in {"check", "queue"} => task.fn = "restart"
    PROVE  Good(Writing(task, v, s, pc), p)
BY DEF Good, WellFormed, Covers, Writing, TaskState

\* A payment made on chain does not turn a good task into a bad one.
LEMMA GoodIsMonotone ==
    ASSUME NEW p \in Paid, NEW q \in Paid, NEW task, Good(task, p),
           \A id \in PullPaymentID : q[id] >= p[id]
    PROVE  Good(task, q)
BY SchedulerAssumption DEF Good, WellFormed, Covers, TaskState, Record, Paid

-----------------------------------------------------------------------------
(* What a step does to the tasks when it changes one slot, or two.          *)

LEMMA OneSlot ==
    ASSUME TypeOK, TasksGood, NEW t \in Task, NEW task,
           tasks' = [tasks EXCEPT ![t] = task],
           paid' \in Paid, \A id \in PullPaymentID : paid'[id] >= paid[id],
           Good(task, paid')
    PROVE  tasks' \in [Task -> TaskState] /\ TasksGood'
<1>1. \A u \in Task : tasks'[u] = IF u = t THEN task ELSE tasks[u]
  BY DEF TypeOK
<1>2. ASSUME NEW u \in Task PROVE Good(tasks'[u], paid')
  <2>1. CASE u = t
    BY <1>1, <2>1
  <2>2. CASE u # t
    <3>1. Good(tasks[u], paid) /\ paid \in Paid
      BY DEF TasksGood, TypeOK, Paid
    <3>. QED
      BY <1>1, <2>2, <3>1, GoodIsMonotone
  <2>. QED
    BY <2>1, <2>2
<1>3. task \in TaskState
  BY DEF Good, WellFormed
<1>. QED
  BY <1>2, <1>3 DEF TasksGood, TypeOK

LEMMA TwoSlots ==
    ASSUME TypeOK, TasksGood, UNCHANGED paid,
           NEW t \in Task, NEW task, NEW u \in Task, NEW other,
           tasks' = [tasks EXCEPT ![t] = task, ![u] = other],
           Good(task, paid), Good(other, paid)
    PROVE  tasks' \in [Task -> TaskState] /\ TasksGood'
<1>1. \A w \in Task : tasks'[w] = IF w = u THEN other
                                 ELSE IF w = t THEN task ELSE tasks[w]
  BY DEF TypeOK
<1>2. \A w \in Task : Good(tasks'[w], paid')
  BY <1>1 DEF TasksGood
<1>3. task \in TaskState /\ other \in TaskState
  BY DEF Good, WellFormed
<1>. QED
  BY <1>2, <1>3 DEF TasksGood, TypeOK

-----------------------------------------------------------------------------
(* Steps that leave the record and the chain alone: the invariant only asks *)
(* that the tasks stay good, the queue stays in order, and types.           *)

OthersTypeOK ==
    /\ now \in Nat
    /\ started \subseteq PullPaymentID
    /\ buffer \subseteq PullPaymentID
    /\ schedule \in [PullPaymentID -> Nat]
    /\ interval \in [PullPaymentID -> Nat]
    /\ restarting \in [PullPaymentID -> BOOLEAN]
    /\ jobs \in [PullPaymentID -> Nat]
    /\ timers \subseteq Timer
    /\ stops \in Nat
    /\ restarts \in Nat
    /\ stopped \subseteq PullPaymentID

LEMMA RecordKept ==
    ASSUME SchedulerInv, UNCHANGED <<record, paid>>, OthersTypeOK', QueueInv',
           tasks' \in [Task -> TaskState] /\ TasksGood'
    PROVE  SchedulerInv'
BY DEF SchedulerInv, TypeOK, OthersTypeOK, NoPaymentForgotten, QueueInv

LEMMA OneSlotKept ==
    ASSUME SchedulerInv, UNCHANGED <<record, paid>>, OthersTypeOK', QueueInv',
           NEW t \in Task, NEW task, Good(task, paid),
           tasks' = [tasks EXCEPT ![t] = task]
    PROVE  SchedulerInv'
<1>1. paid' \in Paid /\ \A id \in PullPaymentID : paid'[id] >= paid[id]
  BY DEF SchedulerInv, TypeOK, Paid
<1>2. tasks' \in [Task -> TaskState] /\ TasksGood'
  BY <1>1, OneSlot DEF SchedulerInv
<1>. QED
  BY <1>2, RecordKept

LEMMA OnlyOneSlot ==
    ASSUME SchedulerInv, NEW t \in Task, NEW task, Good(task, paid),
           tasks' = [tasks EXCEPT ![t] = task],
           UNCHANGED <<now, record, paid, schedulerVars, callVars, queueVars>>
    PROVE  SchedulerInv'
<1>1. OthersTypeOK'
  BY DEF SchedulerInv, TypeOK, OthersTypeOK, schedulerVars, callVars
<1>2. QueueInv'
  BY EndKeepsInv DEF SchedulerInv
<1>. QED
  BY <1>1, <1>2, OneSlotKept

\* What a task at a segment is known to be.
LEMMA AtSegment ==
    ASSUME SchedulerInv, NEW t \in Task, NEW pc \in Segment, pc # "none", At(t, pc)
    PROVE  /\ Good(tasks[t], paid)
           /\ tasks[t] \in TaskState
           /\ tasks[t].pc = pc
           /\ tasks[t].id \in PullPaymentID
           /\ tasks[t].view \in Record
           /\ tasks[t].view.numberOfPayments + paid[tasks[t].id]
                 >= NumberOfPayments[tasks[t].id]
BY DEF SchedulerInv, TasksGood, Good, WellFormed, Covers, TaskState, At

-----------------------------------------------------------------------------
(* The database.                                                            *)

LEMMA DbReadKeepsInv ==
    ASSUME SchedulerInv, NEW t \in Task, DbRead(t)
    PROVE  SchedulerInv'
<1> DEFINE id == tasks[t].id
           task == [tasks[t] EXCEPT !.db = "none", !.view = record[id]]
<1>1. Good(tasks[t], paid) /\ tasks[t].pc # "none" /\ id \in PullPaymentID
  BY DEF SchedulerInv, TasksGood, DbRead, Good, WellFormed, Idle
<1>2. record[id] \in Record
      /\ record[id].numberOfPayments + paid[id] >= NumberOfPayments[id]
  BY <1>1 DEF SchedulerInv, TypeOK, NoPaymentForgotten
<1>3. Good(task, paid)
  BY <1>1, <1>2 DEF Good, WellFormed, Covers, TaskState
<1>4. /\ tasks' = [tasks EXCEPT ![t] = task]
      /\ UNCHANGED <<now, record, paid, schedulerVars, callVars, queueVars>>
  BY DEF DbRead
<1> HIDE DEF task
<1>. QED
  BY <1>3, <1>4, OnlyOneSlot

LEMMA DbWriteKeepsInv ==
    ASSUME SchedulerInv, NEW t \in Task, DbWrite(t)
    PROVE  SchedulerInv'
<1> DEFINE id == tasks[t].id
           task == [tasks[t] EXCEPT !.db = "none"]
<1>1. Good(tasks[t], paid) /\ tasks[t].pc # "none" /\ id \in PullPaymentID
      /\ tasks[t] \in TaskState /\ tasks[t].db = "write"
  BY DEF SchedulerInv, TasksGood, DbWrite, Good, WellFormed, Idle
<1>2. Good(task, paid)
  BY <1>1 DEF Good, WellFormed, Covers, TaskState
<1>3. tasks' = [tasks EXCEPT ![t] = task] /\ paid' = paid
  BY DEF DbWrite
<1>4. tasks' \in [Task -> TaskState] /\ TasksGood'
  <2>1. paid' \in Paid /\ \A p \in PullPaymentID : paid'[p] >= paid[p]
    BY <1>3 DEF SchedulerInv, TypeOK, Paid
  <2> HIDE DEF task
  <2>. QED
    BY <1>2, <1>3, <2>1, OneSlot DEF SchedulerInv
<1>5. Stored(tasks[t]) \in Record
      /\ Stored(tasks[t]).numberOfPayments = tasks[t].view.numberOfPayments
  <2>1. tasks[t].view \in Record /\ tasks[t].put \in Status \cup {"keep"}
        /\ record[id].status \in Status
    BY <1>1 DEF TaskState, SchedulerInv, TypeOK, Record
  <2>. QED
    BY <2>1 DEF Stored, Record
<1>6. record' \in [PullPaymentID -> Record]
  BY <1>5 DEF DbWrite, SchedulerInv, TypeOK
<1>7. NoPaymentForgotten'
  <2>1. tasks[t].view.numberOfPayments + paid[id] >= NumberOfPayments[id]
    BY <1>1 DEF Good, Covers
  <2>2. ASSUME NEW p \in PullPaymentID
        PROVE  record'[p].numberOfPayments + paid'[p] >= NumberOfPayments[p]
    BY <1>3, <1>5, <2>1 DEF DbWrite, SchedulerInv, TypeOK, NoPaymentForgotten
  <2>. QED
    BY <2>2 DEF NoPaymentForgotten
<1>8. QueueInv'
  BY EndKeepsInv DEF SchedulerInv, DbWrite
<1>. QED
  BY <1>4, <1>6, <1>7, <1>8
     DEF SchedulerInv, TypeOK, DbWrite, schedulerVars, callVars, QueueInv

-----------------------------------------------------------------------------
(* Calls, timers and the segments of start, stop and restart.               *)

\* A call takes a slot; the other variables it sets keep their types.
LEMMA CallKeepsInv ==
    ASSUME SchedulerInv, UNCHANGED <<record, paid, queueVars>>, OthersTypeOK',
           NEW t \in Task, NEW fn \in Function, NEW id \in PullPaymentID,
           NEW pc \in Segment, NEW arg \in Nat, pc # "none",
           pc \in {"check", "queue"} => fn = "restart",
           tasks' = [tasks EXCEPT ![t] = Call(fn, id, pc, arg)]
    PROVE  SchedulerInv'
<1>1. Good(Call(fn, id, pc, arg), paid)
  BY CallIsGood
<1>2. QueueInv'
  BY EndKeepsInv DEF SchedulerInv
<1>. QED
  BY <1>1, <1>2, OneSlotKept

LEMMA FireKeepsInv ==
    ASSUME SchedulerInv, NEW t \in Task, Fire(t)
    PROVE  SchedulerInv'
<1>1. PICK m \in timers : FireJob(m, t) \/ FireInterval(m, t)
  BY DEF Fire
<1>2. m \in Timer /\ m.id \in PullPaymentID /\ m.number \in Nat
      /\ OthersTypeOK /\ Frequency[m.id] \in Nat
  BY SchedulerAssumption DEF SchedulerInv, TypeOK, OthersTypeOK, Timer
<1>3. CASE FireJob(m, t)
  <2>1. OthersTypeOK'
    BY <1>2, <1>3 DEF FireJob, OthersTypeOK, callVars
  <2>2. /\ tasks' = [tasks EXCEPT ![t] = Call("job", m.id, "running", m.number)]
        /\ UNCHANGED <<record, paid, queueVars>>
    BY <1>3 DEF FireJob
  <2>3. "job" \in Function /\ "running" \in Segment
    BY DEF Function, Segment
  <2>. QED
    BY <1>2, <2>1, <2>2, <2>3, CallKeepsInv
<1>4. CASE FireInterval(m, t)
  <2>1. [m EXCEPT !.at = now + Frequency[m.id]] \in Timer
    BY <1>2 DEF Timer, OthersTypeOK
  <2>2. OthersTypeOK'
    BY <1>2, <1>4, <2>1 DEF FireInterval, OthersTypeOK, callVars
  <2>3. /\ tasks' = [tasks EXCEPT ![t] = Call("tick", m.id, "due", 0)]
        /\ UNCHANGED <<record, paid, queueVars>>
    BY <1>4 DEF FireInterval
  <2>4. "tick" \in Function /\ "due" \in Segment
    BY DEF Function, Segment
  <2>. QED
    BY <1>2, <2>2, <2>3, <2>4, CallKeepsInv
<1>. QED
  BY <1>1, <1>3, <1>4

LEMMA CallApiKeepsInv ==
    ASSUME SchedulerInv, NEW t \in Task, CallApi(t)
    PROVE  SchedulerInv'
<1>1. PICK id \in PullPaymentID :
          CallStart(id, t) \/ CallStop(id, t) \/ CallRestart(id, t)
  BY DEF CallApi
<1>2. {"start", "stop", "restart"} \subseteq Function
      /\ {"adjust", "cancel", "check"} \subseteq Segment /\ OthersTypeOK
  BY DEF Function, Segment, SchedulerInv, TypeOK, OthersTypeOK
<1>3. CASE CallStart(id, t)
  <2>1. OthersTypeOK' /\ UNCHANGED <<record, paid, queueVars>>
    BY <1>2, <1>3 DEF CallStart, OthersTypeOK, schedulerVars
  <2>2. tasks' = [tasks EXCEPT ![t] = Call("start", id, "adjust", 0)]
    BY <1>3 DEF CallStart
  <2>. QED
    BY <1>2, <2>1, <2>2, CallKeepsInv
<1>4. CASE CallStop(id, t)
  <2>1. OthersTypeOK' /\ UNCHANGED <<record, paid, queueVars>>
    BY <1>2, <1>4 DEF CallStop, OthersTypeOK, schedulerVars
  <2>2. tasks' = [tasks EXCEPT ![t] = Call("stop", id, "cancel", 0)]
    BY <1>4 DEF CallStop
  <2>. QED
    BY <1>2, <2>1, <2>2, CallKeepsInv
<1>5. CASE CallRestart(id, t)
  <2>1. OthersTypeOK' /\ UNCHANGED <<record, paid, queueVars>>
    BY <1>2, <1>5 DEF CallRestart, OthersTypeOK, schedulerVars
  <2>2. PICK arg \in {0, 1} :
           tasks' = [tasks EXCEPT ![t] = Call("restart", id, "check", arg)]
    BY <1>5 DEF CallRestart
  <2>. QED
    BY <1>2, <2>1, <2>2, CallKeepsInv
<1>. QED
  BY <1>1, <1>3, <1>4, <1>5

LEMMA ScheduleJobTypes ==
    ASSUME OthersTypeOK, NEW id \in PullPaymentID, NEW at \in Nat,
           ScheduleJob(id, at)
    PROVE  /\ jobs' \in [PullPaymentID -> Nat]
           /\ schedule' \in [PullPaymentID -> Nat]
           /\ timers' \subseteq Timer
<1> DEFINE n == jobs[id] + 1
           m == [kind |-> "job", id |-> id, number |-> n, at |-> at]
<1>1. n \in Nat /\ m \in Timer
  BY DEF OthersTypeOK, Timer
<1>2. /\ jobs' = [jobs EXCEPT ![id] = n]
      /\ schedule' = [schedule EXCEPT ![id] = IF at > now THEN n ELSE 0]
      /\ timers' = IF at > now THEN timers \cup {m} ELSE timers
  BY DEF ScheduleJob
<1> HIDE DEF n, m
<1>. QED
  BY <1>1, <1>2 DEF OthersTypeOK

LEMMA StartKeepsInv ==
    ASSUME SchedulerInv, NEW t \in Task,
           StartAdjust(t) \/ ReadForJob(t) \/ StartSchedule(t)
    PROVE  SchedulerInv'
<1> DEFINE v == tasks[t].view
           moved == [v EXCEPT !.startTimestamp = now + 1]
<1>0. {"adjust", "job", "schedule"} \subseteq Segment /\ now \in Nat /\ OthersTypeOK
  BY DEF Segment, SchedulerInv, TypeOK, OthersTypeOK
<1>1. CASE StartAdjust(t)
  <2>1. /\ Good(tasks[t], paid) /\ tasks[t].pc = "adjust"
        /\ v \in Record
        /\ v.numberOfPayments + paid[tasks[t].id] >= NumberOfPayments[tasks[t].id]
    BY <1>0, <1>1, AtSegment DEF StartAdjust
  <2>2. moved \in Record /\ moved.numberOfPayments = v.numberOfPayments
    BY <1>0, <2>1 DEF Record
  <2>3. Good(Writing(tasks[t], moved, "keep", "job"), paid)
        /\ Good(Reading(tasks[t], "schedule"), paid)
    <3> HIDE DEF moved, v
    <3>. QED
      BY <1>0, <2>1, <2>2, WritingIsGood, ReadingIsGood
  <2>4. PICK task \in {Writing(tasks[t], moved, "keep", "job"),
                       Reading(tasks[t], "schedule")} :
           tasks' = [tasks EXCEPT ![t] = task]
    BY <1>1 DEF StartAdjust
  <2>5. UNCHANGED <<now, record, paid, schedulerVars, callVars, queueVars>>
    BY <1>1 DEF StartAdjust
  <2> HIDE DEF moved, v
  <2>. QED
    BY <2>3, <2>4, <2>5, OnlyOneSlot
<1>2. CASE ReadForJob(t)
  <2>1. Good(tasks[t], paid) /\ tasks[t].pc = "job"
    BY <1>0, <1>2, AtSegment DEF ReadForJob
  <2>2. Good(Reading(tasks[t], "schedule"), paid)
    BY <1>0, <2>1, ReadingIsGood
  <2>3. /\ tasks' = [tasks EXCEPT ![t] = Reading(tasks[t], "schedule")]
        /\ UNCHANGED <<now, record, paid, schedulerVars, callVars, queueVars>>
    BY <1>2 DEF ReadForJob
  <2>. QED
    BY <2>2, <2>3, OnlyOneSlot
<1>3. CASE StartSchedule(t)
  <2>1. tasks[t].id \in PullPaymentID /\ v \in Record /\ v.startTimestamp \in Nat
    BY <1>0, <1>3, AtSegment DEF StartSchedule, Record
  <2>2. /\ jobs' \in [PullPaymentID -> Nat]
        /\ schedule' \in [PullPaymentID -> Nat]
        /\ timers' \subseteq Timer
    BY <1>0, <1>3, <2>1, ScheduleJobTypes DEF StartSchedule
  <2>3. OthersTypeOK'
    BY <1>0, <1>3, <2>1, <2>2 DEF StartSchedule, OthersTypeOK, callVars
  <2>4. tasks' = [tasks EXCEPT ![t] = Idle] /\ UNCHANGED <<record, paid, queueVars>>
    BY <1>3 DEF StartSchedule
  <2>5. QueueInv'
    BY <2>4, EndKeepsInv DEF SchedulerInv
  <2>. QED
    BY <2>3, <2>4, <2>5, IdleIsGood, OneSlotKept
<1>. QED
  BY <1>1, <1>2, <1>3

LEMMA StopKeepsInv ==
    ASSUME SchedulerInv, NEW t \in Task, StopCancel(t) \/ StopReturn(t)
    PROVE  SchedulerInv'
<1>0. {"cancel", "end"} \subseteq Segment /\ "stopped" \in Status /\ OthersTypeOK
  BY DEF Segment, Status, SchedulerInv, TypeOK, OthersTypeOK
<1>1. CASE StopCancel(t)
  <2>1. /\ Good(tasks[t], paid) /\ tasks[t].pc = "cancel"
        /\ tasks[t].id \in PullPaymentID /\ tasks[t].view \in Record
        /\ tasks[t].view.numberOfPayments + paid[tasks[t].id]
              >= NumberOfPayments[tasks[t].id]
    BY <1>0, <1>1, AtSegment DEF StopCancel
  <2>2. Good(Writing(tasks[t], tasks[t].view, "stopped", "end"), paid)
    BY <1>0, <2>1, WritingIsGood
  <2>3. PICK task \in {Writing(tasks[t], tasks[t].view, "stopped", "end"), Idle} :
           tasks' = [tasks EXCEPT ![t] = task]
    BY <1>1 DEF StopCancel
  <2>4. OthersTypeOK'
    BY <1>0, <1>1 DEF StopCancel, OthersTypeOK, AfterCancel, callVars
  <2>5. UNCHANGED <<record, paid, queueVars>>
    BY <1>1 DEF StopCancel
  <2>6. QueueInv'
    BY <2>5, EndKeepsInv DEF SchedulerInv
  <2>. QED
    BY <2>2, <2>3, <2>4, <2>5, <2>6, IdleIsGood, OneSlotKept
<1>2. CASE StopReturn(t)
  <2>1. tasks[t].id \in PullPaymentID
    BY <1>0, <1>2, AtSegment DEF StopReturn
  <2>2. OthersTypeOK'
    BY <1>0, <1>2, <2>1 DEF StopReturn, OthersTypeOK, schedulerVars
  <2>3. tasks' = [tasks EXCEPT ![t] = Idle] /\ UNCHANGED <<record, paid, queueVars>>
    BY <1>2 DEF StopReturn
  <2>4. QueueInv'
    BY <2>3, EndKeepsInv DEF SchedulerInv
  <2>. QED
    BY <2>2, <2>3, <2>4, IdleIsGood, OneSlotKept
<1>. QED
  BY <1>1, <1>2

\* The queue may start an execution: one more task, for the id it runs.
LEMMA QueueTaskIsGood ==
    ASSUME NEW ts \in [Task -> TaskState], \A u \in Task : Good(ts[u], paid),
           UNCHANGED paid, QueueInv', WithQueueTask(ts)
    PROVE  tasks' \in [Task -> TaskState] /\ TasksGood'
<1>1. CASE running' # NoID /\ running' # running
  <2>1. PICK u \in Task : tasks' = [ts EXCEPT ![u] = Call("queue", running', "due", 0)]
    BY <1>1 DEF WithQueueTask
  <2>2. running' \in PullPaymentID
    BY <1>1 DEF QueueInv, QueueTypeOK
  <2>3. "queue" \in Function /\ "due" \in Segment
    BY DEF Function, Segment
  <2>4. Good(Call("queue", running', "due", 0), paid)
    BY <2>2, <2>3, CallIsGood
  <2>5. Call("queue", running', "due", 0) \in TaskState
    BY <2>4 DEF Good, WellFormed
  <2>. QED
    BY <2>1, <2>4, <2>5 DEF TasksGood
<1>2. CASE ~(running' # NoID /\ running' # running)
  BY <1>2 DEF WithQueueTask, TasksGood
<1>. QED
  BY <1>1, <1>2

\* No more payments are missed than are left.
LEMMA MissedIsBounded ==
    ASSUME NEW id \in PullPaymentID, NEW v \in Record
    PROVE  Missed(id, v) \in Nat /\ Missed(id, v) <= v.numberOfPayments
<1> DEFINE n == v.numberOfPayments
           S == {i \in 0..(n - 1) : v.nextPaymentDate + i * Frequency[id] <= now}
<1>1. n \in Nat /\ IsFiniteSet(0..(n - 1)) /\ Cardinality(0..(n - 1)) = n
  <2>1. n \in Nat
    BY DEF Record
  <2> HIDE DEF n
  <2>2. 0 \in Int /\ n - 1 \in Int /\ (IF 0 > n - 1 THEN 0 ELSE (n - 1) - 0 + 1) = n
    BY <2>1
  <2>. QED
    BY <2>1, <2>2, FS_Interval
<1>2. S \in SUBSET (0..(n - 1))
  OBVIOUS
<1> HIDE DEF n
<1>3. IsFiniteSet(S) /\ Cardinality(S) <= n
  BY <1>1, <1>2, FS_Subset
<1>. QED
  BY <1>3, FS_CardinalityType DEF Missed, n

LEMMA MissedIsNat ==
    ASSUME NEW id \in PullPaymentID, NEW v \in Record
    PROVE  Missed(id, v) \in Nat
BY MissedIsBounded

LEMMA RestartCheckKeepsInv ==
    ASSUME SchedulerInv, NEW t \in Task, RestartCheck(t)
    PROVE  SchedulerInv'
<1>0. {"check", "queue"} \subseteq Segment /\ "initial" \in Status /\ OthersTypeOK
  BY DEF Segment, Status, SchedulerInv, TypeOK, OthersTypeOK
<1>1. /\ Good(tasks[t], paid) /\ tasks[t].pc = "check"
      /\ tasks[t].id \in PullPaymentID /\ tasks[t].view \in Record
      /\ tasks[t].view.numberOfPayments + paid[tasks[t].id]
            >= NumberOfPayments[tasks[t].id]
  BY <1>0, AtSegment DEF RestartCheck
<1>2. tasks[t].fn = "restart"
  BY <1>1 DEF Good, WellFormed
<1>3. Good(Writing(tasks[t], tasks[t].view, "initial", "queue"), paid)
  BY <1>0, <1>1, <1>2, WritingIsGood
<1>4. PICK task \in {Writing(tasks[t], tasks[t].view, "initial", "queue"), Idle} :
         tasks' = [tasks EXCEPT ![t] = task]
  BY DEF RestartCheck
<1>5. OthersTypeOK'
  BY <1>0, <1>1 DEF RestartCheck, OthersTypeOK
<1>6. UNCHANGED <<record, paid, queueVars>>
  BY DEF RestartCheck
<1>7. QueueInv'
  BY <1>6, EndKeepsInv DEF SchedulerInv
<1>. QED
  BY <1>3, <1>4, <1>5, <1>6, <1>7, IdleIsGood, OneSlotKept

LEMMA RestartQueueKeepsInv ==
    ASSUME SchedulerInv, NEW t \in Task, RestartQueue(t)
    PROVE  SchedulerInv'
<1> DEFINE id == tasks[t].id
           v == tasks[t].view
           k == Missed(id, v)
           next == v.nextPaymentDate + k * Frequency[id]
           writing == [Writing(tasks[t], v, "running", "job") EXCEPT !.arg = next]
<1>0. {"queue", "job"} \subseteq Segment /\ "running" \in Status /\ OthersTypeOK
  BY DEF Segment, Status, SchedulerInv, TypeOK, OthersTypeOK
<1>1. /\ Good(tasks[t], paid) /\ tasks[t].pc = "queue"
      /\ id \in PullPaymentID /\ v \in Record
      /\ v.numberOfPayments + paid[id] >= NumberOfPayments[id]
  BY <1>0, AtSegment DEF RestartQueue
<1>2. k \in Nat
  BY <1>1, MissedIsNat
<1>3. next \in Nat
  <2>1. v.nextPaymentDate \in Nat /\ Frequency[id] \in Nat
    BY <1>1, SchedulerAssumption DEF Record
  <2> HIDE DEF k
  <2>. QED
    BY <1>2, <2>1
<1>4. Good(writing, paid)
  <2>1. Good(Writing(tasks[t], v, "running", "job"), paid)
    BY <1>0, <1>1, WritingIsGood
  <2>2. Writing(tasks[t], v, "running", "job").pc = "job"
    BY <1>1 DEF Writing, Good, WellFormed, TaskState
  <2> HIDE DEF next, v
  <2>. QED
    BY <1>3, <2>1, <2>2 DEF Good, WellFormed, Covers, TaskState
<1>5. QueueInv'
  <2>1. \/ k = 0 /\ UNCHANGED queueVars
        \/ k > 0 /\ Queue(id, k, PullPaymentID \ buffer)
    BY DEF RestartQueue
  <2> HIDE DEF k, id
  <2>2. CASE k = 0 /\ UNCHANGED queueVars
    BY <2>2, EndKeepsInv DEF SchedulerInv
  <2>3. CASE k > 0 /\ Queue(id, k, PullPaymentID \ buffer)
    BY <1>1, <1>2, <2>3, QueueKeepsInv DEF SchedulerInv
  <2>. QED
    BY <2>1, <2>2, <2>3
<1>6. PICK task \in {writing, Idle} : WithQueueTask([tasks EXCEPT ![t] = task])
  BY DEF RestartQueue
<1>7. UNCHANGED <<record, paid>>
  BY DEF RestartQueue
<1>8. tasks' \in [Task -> TaskState] /\ TasksGood'
  <2> HIDE DEF writing
  <2>1. Good(task, paid) /\ task \in TaskState
    BY <1>4, <1>6, IdleIsGood DEF Good, WellFormed
  <2>2. [tasks EXCEPT ![t] = task] \in [Task -> TaskState]
        /\ \A u \in Task : Good([tasks EXCEPT ![t] = task][u], paid)
    BY <2>1 DEF SchedulerInv, TypeOK, TasksGood
  <2>. QED
    BY <1>5, <1>6, <1>7, <2>2, QueueTaskIsGood
<1>9. OthersTypeOK'
  BY <1>0, <1>1 DEF RestartQueue, OthersTypeOK, callVars
<1>. QED
  BY <1>5, <1>7, <1>8, <1>9, RecordKept

LEMMA RestartScheduleKeepsInv ==
    ASSUME SchedulerInv, NEW t \in Task, RestartSchedule(t)
    PROVE  SchedulerInv'
<1>0. "schedule" \in Segment /\ OthersTypeOK
  BY DEF Segment, SchedulerInv, TypeOK, OthersTypeOK
<1>1. tasks[t].id \in PullPaymentID /\ tasks[t].arg \in Nat
  BY <1>0, AtSegment DEF RestartSchedule, TaskState
<1>2. /\ jobs' \in [PullPaymentID -> Nat]
      /\ schedule' \in [PullPaymentID -> Nat]
      /\ timers' \subseteq Timer
  BY <1>0, <1>1, ScheduleJobTypes DEF RestartSchedule
<1>3. OthersTypeOK'
  BY <1>0, <1>1, <1>2 DEF RestartSchedule, OthersTypeOK, callVars
<1>4. tasks' = [tasks EXCEPT ![t] = Idle] /\ UNCHANGED <<record, paid, queueVars>>
  BY DEF RestartSchedule
<1>5. QueueInv'
  BY <1>4, EndKeepsInv DEF SchedulerInv
<1>. QED
  BY <1>3, <1>4, <1>5, IdleIsGood, OneSlotKept

-----------------------------------------------------------------------------
(* The job's body, the queue's drips and executeCallback().                 *)

LEMMA JobKeepsInv ==
    ASSUME SchedulerInv, NEW t \in Task, JobRunning(t) \/ JobExecute(t)
    PROVE  SchedulerInv'
<1>0. {"running", "execute", "due"} \subseteq Segment /\ "running" \in Status
  BY DEF Segment, Status
<1>1. PICK pc \in {"running", "execute"} : At(t, pc)
  BY DEF JobRunning, JobExecute
<1>2. /\ Good(tasks[t], paid) /\ tasks[t].pc = pc /\ tasks[t].view \in Record
      /\ tasks[t].view.numberOfPayments + paid[tasks[t].id]
            >= NumberOfPayments[tasks[t].id]
  BY <1>0, <1>1, AtSegment
<1>3. Good(Writing(tasks[t], tasks[t].view, "running", "execute"), paid)
      /\ Good(Reading(tasks[t], "due"), paid)
  BY <1>0, <1>1, <1>2, WritingIsGood, ReadingIsGood
<1>4. PICK task \in {Writing(tasks[t], tasks[t].view, "running", "execute"),
                     Reading(tasks[t], "due")} :
         tasks' = [tasks EXCEPT ![t] = task]
  BY DEF JobRunning, JobExecute
<1>5. UNCHANGED <<now, record, paid, schedulerVars, callVars, queueVars>>
  BY DEF JobRunning, JobExecute
<1>. QED
  BY <1>3, <1>4, <1>5, OnlyOneSlot

LEMMA FireDripKeepsInv ==
    ASSUME SchedulerInv, FireDrip
    PROVE  SchedulerInv'
<1>1. QueueInv'
  BY DripKeepsInv DEF FireDrip, SchedulerInv
<1>2. tasks \in [Task -> TaskState] /\ \A u \in Task : Good(tasks[u], paid)
  BY DEF SchedulerInv, TypeOK, TasksGood
<1>3. WithQueueTask(tasks) /\ UNCHANGED <<record, paid>>
  BY DEF FireDrip
<1>4. tasks' \in [Task -> TaskState] /\ TasksGood'
  BY <1>1, <1>2, <1>3, QueueTaskIsGood
<1>5. OthersTypeOK'
  BY DEF FireDrip, SchedulerInv, TypeOK, OthersTypeOK, schedulerVars, callVars
<1>. QED
  BY <1>1, <1>3, <1>4, <1>5, RecordKept

LEMMA ReturnKeepsInv ==
    ASSUME SchedulerInv, NEW t \in Task, tasks[t].id \in PullPaymentID,
           ReturnToCaller(t)
    PROVE  SchedulerInv'
<1> DEFINE id == tasks[t].id
           m == [kind |-> "interval", id |-> id, number |-> tasks[t].arg,
                 at |-> now + Frequency[id]]
<1>1. m \in Timer /\ tasks[t].arg \in Nat /\ OthersTypeOK
  <2>1. tasks[t].arg \in Nat /\ now \in Nat /\ OthersTypeOK
    BY DEF SchedulerInv, TypeOK, OthersTypeOK, TaskState
  <2>. QED
    BY <2>1, SchedulerAssumption DEF Timer
<1>2. UNCHANGED interval \/ interval' = [interval EXCEPT ![id] = tasks[t].arg]
  BY DEF ReturnToCaller, StartInterval
<1>3. UNCHANGED timers \/ timers' = timers \cup {m}
  BY DEF ReturnToCaller, StartInterval
<1>4. OthersTypeOK'
  <2> HIDE DEF m
  <2>. QED
    BY <1>1, <1>2, <1>3 DEF ReturnToCaller, OthersTypeOK, callVars
<1>5. QueueInv'
  BY EndKeepsInv DEF ReturnToCaller, SchedulerInv
<1>6. tasks' = [tasks EXCEPT ![t] = Idle] /\ UNCHANGED <<record, paid>>
  BY DEF ReturnToCaller
<1>. QED
  BY <1>4, <1>5, <1>6, IdleIsGood, OneSlotKept

LEMMA InvokeKeepsInv ==
    ASSUME SchedulerInv, NEW t \in Task, InvokeCallback(t)
    PROVE  SchedulerInv'
<1>0. {"due", "pull", "recheck"} \subseteq Segment /\ "pay" \in Function
  BY DEF Segment, Function
<1>1. Good(tasks[t], paid) /\ tasks[t].pc = "due" /\ tasks[t].id \in PullPaymentID
  BY <1>0, AtSegment DEF InvokeCallback
<1>2. Good(Reading(tasks[t], "pull"), paid) /\ Good(Reading(tasks[t], "recheck"), paid)
  BY <1>0, <1>1, ReadingIsGood
<1>3. UNCHANGED <<now, record, paid, schedulerVars, callVars, queueVars>>
  BY DEF InvokeCallback
<1>4. CASE AwaitCallback
  BY <1>2, <1>3, <1>4, OnlyOneSlot DEF InvokeCallback
<1>5. CASE ~AwaitCallback
  <2>1. PICK u \in Task : tasks' = [tasks EXCEPT
                              ![t] = Reading(tasks[t], "recheck"),
                              ![u] = Call("pay", tasks[t].id, "pull", 0)]
    BY <1>5 DEF InvokeCallback
  <2>2. Good(Call("pay", tasks[t].id, "pull", 0), paid)
    BY <1>0, <1>1, CallIsGood
  <2>3. tasks' \in [Task -> TaskState] /\ TasksGood'
    BY <1>2, <1>3, <2>1, <2>2, TwoSlots DEF SchedulerInv
  <2>4. OthersTypeOK' /\ QueueInv'
    BY <1>3, EndKeepsInv
       DEF SchedulerInv, TypeOK, OthersTypeOK, schedulerVars, callVars
  <2>. QED
    BY <1>3, <2>3, <2>4, RecordKept
<1>. QED
  BY <1>4, <1>5

\* The contract has payments left, so the record read before claims at least
\* one, and the payment now made makes up for the one written off.
LEMMA ExecutedCovers ==
    ASSUME NEW id \in PullPaymentID, NEW v \in Record, NEW p \in Nat,
           v.numberOfPayments + p >= NumberOfPayments[id],
           p < NumberOfPayments[id]
    PROVE  /\ Executed(id, v) \in Record
           /\ Executed(id, v).status \in Status
           /\ Executed(id, v).numberOfPayments + (p + 1) >= NumberOfPayments[id]
<1> DEFINE n == v.numberOfPayments - 1
<1>1. NumberOfPayments[id] \in Nat /\ Frequency[id] \in Nat
  BY SchedulerAssumption
<1>2. /\ v.numberOfPayments \in Nat /\ v.nextPaymentDate \in Nat
      /\ v.startTimestamp \in Nat /\ v.status \in Status /\ "done" \in Status
  BY DEF Record, Status
<1>3. n \in Nat /\ n + (p + 1) >= NumberOfPayments[id]
  BY <1>1, <1>2
<1>4. Executed(id, v).numberOfPayments = n
  BY DEF Executed, Record
<1>5. Executed(id, v).nextPaymentDate \in Nat
  BY <1>1, <1>2 DEF Executed, Record
<1>6. Executed(id, v).status \in Status
  BY <1>2 DEF Executed, Record
<1>7. Executed(id, v) \in Record
  <2> DEFINE a == IF AwaitCallback /\ n = 0 THEN v.nextPaymentDate
                  ELSE v.nextPaymentDate + Frequency[id]
             b == IF n = 0 THEN "done" ELSE v.status
  <2>1. Executed(id, v) = [v EXCEPT !.numberOfPayments = n,
                                    !.nextPaymentDate = a, !.status = b]
    BY DEF Executed
  <2>2. a \in Nat /\ b \in Status
    BY <1>1, <1>2
  <2> HIDE DEF a, b, n
  <2>. QED
    BY <1>3, <2>1, <2>2 DEF Record
<1>. QED
  BY <1>3, <1>4, <1>6, <1>7

LEMMA PullKeepsInv ==
    ASSUME SchedulerInv, NEW t \in Task, CallbackPull(t)
    PROVE  SchedulerInv'
<1> DEFINE id == tasks[t].id
           w == Executed(id, tasks[t].view)
           put == IF AwaitCallback THEN "keep" ELSE w.status
           writing == Writing(tasks[t], w, put, "pulled")
<1>0. {"pull", "pulled", "recheck"} \subseteq Segment
  BY DEF Segment
<1>1. /\ Good(tasks[t], paid) /\ tasks[t].pc = "pull"
      /\ id \in PullPaymentID /\ tasks[t].view \in Record
      /\ tasks[t].view.numberOfPayments + paid[id] >= NumberOfPayments[id]
  BY <1>0, AtSegment DEF CallbackPull
<1>2. CASE ~ContractAllows(id)
  <2>1. Good(AfterCallback(tasks[t]), paid)
    BY <1>0, <1>1, IdleIsGood, ReadingIsGood DEF AfterCallback
  <2>2. /\ tasks' = [tasks EXCEPT ![t] = AfterCallback(tasks[t])]
        /\ UNCHANGED <<now, record, paid, schedulerVars, callVars, queueVars>>
    BY <1>2 DEF CallbackPull
  <2>. QED
    BY <2>1, <2>2, OnlyOneSlot
<1>3. CASE ContractAllows(id)
  <2>1. paid \in Paid /\ paid[id] \in Nat /\ paid[id] < NumberOfPayments[id]
    BY <1>1, <1>3 DEF ContractAllows, SchedulerInv, TypeOK, Paid
  <2>2. /\ paid' = [paid EXCEPT ![id] = @ + 1]
        /\ tasks' = [tasks EXCEPT ![t] = writing]
        /\ UNCHANGED <<now, record, schedulerVars, callVars, queueVars>>
    BY <1>3 DEF CallbackPull, Recorded
  <2>3. /\ paid' \in Paid /\ paid'[id] = paid[id] + 1
        /\ \A p \in PullPaymentID : paid'[p] >= paid[p]
    BY <1>1, <2>1, <2>2 DEF Paid
  <2>4. w \in Record /\ w.status \in Status
        /\ w.numberOfPayments + (paid[id] + 1) >= NumberOfPayments[id]
    BY <1>1, <2>1, ExecutedCovers
  <2>5. Good(writing, paid')
    <3>1. Good(tasks[t], paid')
      BY <1>1, <2>1, <2>3, GoodIsMonotone
    <3>2. put \in Status \cup {"keep"}
      BY <2>4
    <3> HIDE DEF w, put
    <3>. QED
      BY <1>0, <1>1, <2>3, <2>4, <3>1, <3>2, WritingIsGood
  <2>6. tasks' \in [Task -> TaskState] /\ TasksGood'
    <3> HIDE DEF writing
    <3>. QED
      BY <2>2, <2>3, <2>5, OneSlot DEF SchedulerInv
  <2>7. NoPaymentForgotten'
    <3>1. ASSUME NEW p \in PullPaymentID
          PROVE  record'[p].numberOfPayments + paid'[p] >= NumberOfPayments[p]
      <4>1. record[p].numberOfPayments \in Nat /\ paid[p] \in Nat /\ paid'[p] \in Nat
            /\ NumberOfPayments[p] \in Nat
        BY <2>1, <2>3, SchedulerAssumption DEF SchedulerInv, TypeOK, Record, Paid
      <4>2. record[p].numberOfPayments + paid[p] >= NumberOfPayments[p]
        BY DEF SchedulerInv, NoPaymentForgotten
      <4>. QED
        BY <2>2, <2>3, <4>1, <4>2
    <3>. QED
      BY <3>1 DEF NoPaymentForgotten
  <2>8. QueueInv'
    BY <2>2, EndKeepsInv DEF SchedulerInv
  <2>9. TypeOK'
    BY <2>2, <2>3, <2>6, <2>8
       DEF SchedulerInv, TypeOK, QueueInv, schedulerVars, callVars, Paid
  <2>. QED
    BY <2>6, <2>7, <2>8, <2>9 DEF SchedulerInv
<1>. QED
  BY <1>2, <1>3

LEMMA CallbackEndKeepsInv ==
    ASSUME SchedulerInv, NEW t \in Task, CallbackReturn(t) \/ CallbackReject(t)
    PROVE  SchedulerInv'
<1>0. {"pull", "pulled", "recheck"} \subseteq Segment /\ OthersTypeOK
  BY DEF Segment, SchedulerInv, TypeOK, OthersTypeOK
<1>1. CASE CallbackReturn(t)
  <2>1. Good(tasks[t], paid) /\ tasks[t].pc = "pulled"
    BY <1>0, <1>1, AtSegment DEF CallbackReturn
  <2>2. Good(AfterCallback(tasks[t]), paid)
    BY <1>0, <2>1, IdleIsGood, ReadingIsGood DEF AfterCallback
  <2>3. /\ tasks' = [tasks EXCEPT ![t] = AfterCallback(tasks[t])]
        /\ UNCHANGED <<now, record, paid, schedulerVars, callVars, queueVars>>
    BY <1>1 DEF CallbackReturn
  <2>. QED
    BY <2>2, <2>3, OnlyOneSlot
<1>2. CASE CallbackReject(t)
  <2>1. tasks' = [tasks EXCEPT ![t] = Idle] /\ UNCHANGED <<record, paid>>
    BY <1>2 DEF CallbackReject
  <2>2. OthersTypeOK'
    BY <1>0, <1>2 DEF CallbackReject, OthersTypeOK, schedulerVars, callVars
  <2>3. QueueInv'
    BY <1>2, EndKeepsInv DEF CallbackReject, SchedulerInv
  <2>. QED
    BY <2>1, <2>2, <2>3, IdleIsGood, OneSlotKept
<1>. QED
  BY <1>1, <1>2

LEMMA LastPaymentKeepsInv ==
    ASSUME SchedulerInv, NEW t \in Task, LastPaymentMade(t)
    PROVE  SchedulerInv'
<1> DEFINE id == tasks[t].id
           v == tasks[t].view
<1>0. {"recheck", "end", "cancel"} \subseteq Segment /\ "stop" \in Function
      /\ "done" \in Status /\ OthersTypeOK
  BY DEF Segment, Function, Status, SchedulerInv, TypeOK, OthersTypeOK
<1>1. /\ Good(tasks[t], paid) /\ tasks[t].pc = "recheck"
      /\ id \in PullPaymentID /\ v \in Record
      /\ v.numberOfPayments + paid[id] >= NumberOfPayments[id]
  BY <1>0, AtSegment DEF LastPaymentMade
<1>2. Good(Writing(tasks[t], v, "done", "end"), paid)
  BY <1>0, <1>1, WritingIsGood
<1>3. Good(Call("stop", id, "cancel", 0), paid)
  BY <1>0, <1>1, CallIsGood
<1>4. PICK u \in Task : tasks' = [tasks EXCEPT
                            ![t] = Writing(tasks[t], v, "done", "end"),
                            ![u] = Call("stop", id, "cancel", 0)]
  BY DEF LastPaymentMade
<1>5. UNCHANGED <<record, paid, queueVars>>
  BY DEF LastPaymentMade
<1>6. tasks' \in [Task -> TaskState] /\ TasksGood'
  BY <1>2, <1>3, <1>4, <1>5, TwoSlots DEF SchedulerInv
<1>7. OthersTypeOK'
  BY <1>0 DEF LastPaymentMade, DeleteScheduler, AfterCancel, OthersTypeOK, callVars
<1>8. QueueInv'
  BY <1>5, EndKeepsInv DEF SchedulerInv
<1>. QED
  BY <1>5, <1>6, <1>7, <1>8, RecordKept

LEMMA CallersKeepInv ==
    ASSUME SchedulerInv, NEW t \in Task,
           CallbackNotDue(t) \/ PaymentsLeft(t) \/ ExecuteReturn(t)
    PROVE  SchedulerInv'
<1>0. {"due", "recheck", "end"} \subseteq Segment
  BY DEF Segment
<1>1. PICK pc \in {"due", "recheck", "end"} : At(t, pc)
  BY DEF CallbackNotDue, PaymentsLeft, ExecuteReturn
<1>2. tasks[t].id \in PullPaymentID
  BY <1>0, <1>1, AtSegment
<1>. QED
  BY <1>2, ReturnKeepsInv DEF CallbackNotDue, PaymentsLeft, ExecuteReturn

LEMMA TickKeepsInv ==
    ASSUME SchedulerInv, Tick \/ UNCHANGED vars
    PROVE  SchedulerInv'
<1>1. UNCHANGED <<record, paid, schedulerVars, tasks, callVars, queueVars>>
      /\ now' \in Nat
  BY DEF Tick, vars, SchedulerInv, TypeOK
<1>2. OthersTypeOK'
  BY <1>1 DEF SchedulerInv, TypeOK, OthersTypeOK, schedulerVars, callVars
<1>3. QueueInv'
  BY <1>1, EndKeepsInv DEF SchedulerInv
<1>4. tasks' \in [Task -> TaskState] /\ TasksGood'
  BY <1>1 DEF SchedulerInv, TypeOK, TasksGood
<1>. QED
  BY <1>1, <1>2, <1>3, <1>4, RecordKept

-----------------------------------------------------------------------------
LEMMA SchedulerInvInit == Init => SchedulerInv
<1> SUFFICES ASSUME Init PROVE SchedulerInv
  OBVIOUS
<1> USE SchedulerAssumption
<1>1. QueueInv
  BY InitHasInv DEF Init
<1>2. tasks \in [Task -> TaskState] /\ TasksGood
  BY IdleIsGood DEF Init, TasksGood
<1>3. record \in [PullPaymentID -> Record] /\ paid \in [PullPaymentID -> Nat]
  BY DEF Init, Record, Status
<1>4. NoPaymentForgotten
  <2>1. ASSUME NEW id \in PullPaymentID
        PROVE  record[id].numberOfPayments + paid[id] >= NumberOfPayments[id]
    <3>1. record[id].numberOfPayments = NumberOfPayments[id] /\ paid[id] = 0
      BY DEF Init
    <3>2. NumberOfPayments[id] \in Nat
      OBVIOUS
    <3>. QED
      BY <3>1, <3>2
  <2>. QED
    BY <2>1 DEF NoPaymentForgotten
<1>5. TypeOK
  BY <1>1, <1>2, <1>3 DEF Init, TypeOK, QueueInv
<1>. QED
  BY <1>1, <1>2, <1>4, <1>5 DEF SchedulerInv

LEMMA SchedulerInvInductive == SchedulerInv /\ [Next]_vars => SchedulerInv'
<1> SUFFICES ASSUME SchedulerInv, [Next]_vars PROVE SchedulerInv'
  OBVIOUS
<1>1. ASSUME NEW t \in Task, Resume(t) PROVE SchedulerInv'
  BY <1>1, DbReadKeepsInv, DbWriteKeepsInv, StartKeepsInv, StopKeepsInv,
     RestartCheckKeepsInv, RestartQueueKeepsInv, RestartScheduleKeepsInv,
     JobKeepsInv, InvokeKeepsInv, PullKeepsInv, CallbackEndKeepsInv,
     LastPaymentKeepsInv, CallersKeepInv DEF Resume
<1>2. ASSUME NEW t \in Task, Fire(t) \/ CallApi(t) PROVE SchedulerInv'
  BY <1>2, FireKeepsInv, CallApiKeepsInv
<1>3. CASE FireDrip
  BY <1>3, FireDripKeepsInv
<1>4. CASE Tick \/ UNCHANGED vars
  BY <1>4, TickKeepsInv
<1>. QED
  BY <1>1, <1>2, <1>3, <1>4 DEF Next

THEOREM SchedulerInvariant == Spec => []SchedulerInv
  BY SchedulerInvInit, SchedulerInvInductive, PTL DEF Spec

(* Every variable keeps its type; in particular no count of payments ever   *)
(* becomes negative.                                                        *)
THEOREM TypesAlwaysOK == Spec => []TypeOK
<1>1. SchedulerInv => TypeOK
  BY DEF SchedulerInv
<1>. QED
  BY <1>1, SchedulerInvariant, PTL

(* Whatever the interleaving of stop, restart, jobs, intervals, the queue   *)
(* and callbacks, and however stale the records they write back, the        *)
(* database never claims fewer payments are left than the contract allows.  *)
THEOREM PaymentsAreNeverForgotten == Spec => []NoPaymentForgotten
<1>1. SchedulerInv => NoPaymentForgotten
  BY DEF SchedulerInv
<1>. QED
  BY <1>1, SchedulerInvariant, PTL

(* Every entry of the queue of missed payments has its pending drip, also   *)
(* when schedulers are deleted and callbacks reject.                        *)
THEOREM SchedulerDripsMatchQueue == Spec => []DripsMatchQueue
<1>1. SchedulerInv => DripsMatchQueue
  BY DEF SchedulerInv, QueueInv
<1>. QED
  BY <1>1, SchedulerInvariant, PTL

-----------------------------------------------------------------------------
(* restart() as a critical section guarded by _restarting.  A step that     *)
(* leaves the flag alone brings no task into it.                            *)

StaysOut(new, old) ==
    new.fn = "restart" /\ new.pc # "check" =>
        old.fn = "restart" /\ old.pc # "check" /\ new.id = old.id

LEMMA ExclusionKept ==
    ASSUME RestartIsExclusive, UNCHANGED restarting,
           \A u \in Task : StaysOut(tasks'[u], tasks[u])
    PROVE  RestartIsExclusive'
BY DEF RestartIsExclusive, InRestart, StaysOut

\* The tasks a step that leaves restart() alone can put into slot t.
LEMMA OtherTasksStayOut ==
    ASSUME NEW old \in TaskState
    PROVE  /\ StaysOut(old, old)
           /\ StaysOut(Idle, old)
           /\ \A fn, id, pc, arg : fn # "restart" \/ pc = "check" =>
                 StaysOut(Call(fn, id, pc, arg), old)
           /\ old.pc # "check" =>
                 /\ \A pc : StaysOut(Reading(old, pc), old)
                 /\ \A v, s, pc : StaysOut(Writing(old, v, s, pc), old)
           /\ \A v : StaysOut([old EXCEPT !.db = "none", !.view = v], old)
           /\ StaysOut([old EXCEPT !.db = "none"], old)
<1>1. StaysOut(old, old) /\ StaysOut(Idle, old)
  BY DEF StaysOut, Idle
<1>2. \A fn, id, pc, arg : fn # "restart" \/ pc = "check" =>
         StaysOut(Call(fn, id, pc, arg), old)
  BY DEF StaysOut, Call, Idle
<1>3. ASSUME old.pc # "check"
      PROVE  /\ \A pc : StaysOut(Reading(old, pc), old)
             /\ \A v, s, pc : StaysOut(Writing(old, v, s, pc), old)
  BY <1>3 DEF StaysOut, Reading, Writing, TaskState
<1>4. \A v : StaysOut([old EXCEPT !.db = "none", !.view = v], old)
  BY DEF StaysOut, TaskState
<1>5. StaysOut([old EXCEPT !.db = "none"], old)
  BY DEF StaysOut, TaskState
<1>. QED
  BY <1>1, <1>2, <1>3, <1>4, <1>5

LEMMA OneSlotKeepsExclusion ==
    ASSUME TypeOK, RestartIsExclusive, UNCHANGED restarting,
           NEW t \in Task, NEW task, StaysOut(task, tasks[t]),
           tasks' = [tasks EXCEPT ![t] = task]
    PROVE  RestartIsExclusive'
<1>1. ASSUME NEW u \in Task PROVE StaysOut(tasks'[u], tasks[u])
  BY OtherTasksStayOut DEF TypeOK
<1>. QED
  BY <1>1, ExclusionKept

LEMMA TwoSlotsKeepExclusion ==
    ASSUME TypeOK, RestartIsExclusive, UNCHANGED restarting,
           NEW t \in Task, NEW task, StaysOut(task, tasks[t]),
           NEW u \in Task, NEW other, StaysOut(other, tasks[u]),
           tasks' = [tasks EXCEPT ![t] = task, ![u] = other]
    PROVE  RestartIsExclusive'
<1>1. ASSUME NEW w \in Task PROVE StaysOut(tasks'[w], tasks[w])
  BY OtherTasksStayOut DEF TypeOK
<1>. QED
  BY <1>1, ExclusionKept

\* Every step of a task that is not one of restart()'s own three segments.
LEMMA ResumeKeepsExclusion ==
    ASSUME SchedulerInv, RestartIsExclusive, NEW t \in Task, Resume(t),
           ~RestartCheck(t), ~RestartQueue(t), ~RestartSchedule(t)
    PROVE  RestartIsExclusive'
<1>0. TypeOK /\ tasks[t] \in TaskState
  BY DEF SchedulerInv, TypeOK
<1>1. CASE DbRead(t)
  <2>1. UNCHANGED restarting
    BY <1>1 DEF DbRead, schedulerVars
  <2>. QED
    BY <1>0, <1>1, <2>1, OtherTasksStayOut, OneSlotKeepsExclusion DEF DbRead
<1>2. CASE DbWrite(t)
  <2>1. UNCHANGED restarting
    BY <1>2 DEF DbWrite, schedulerVars
  <2>. QED
    BY <1>0, <1>2, <2>1, OtherTasksStayOut, OneSlotKeepsExclusion DEF DbWrite
<1>3. CASE StartAdjust(t) \/ ReadForJob(t) \/ StartSchedule(t)
  <2>1. UNCHANGED restarting /\ tasks[t].pc # "check"
    BY <1>3 DEF StartAdjust, ReadForJob, StartSchedule, schedulerVars, At
  <2>2. PICK task : /\ tasks' = [tasks EXCEPT ![t] = task]
                    /\ \/ task = Idle
                       \/ \E pc : task = Reading(tasks[t], pc)
                       \/ \E v, s, pc : task = Writing(tasks[t], v, s, pc)
    BY <1>3 DEF StartAdjust, ReadForJob, StartSchedule
  <2>. QED
    BY <1>0, <2>1, <2>2, OtherTasksStayOut, OneSlotKeepsExclusion
<1>4. CASE StopCancel(t) \/ StopReturn(t)
  <2>1. UNCHANGED restarting /\ tasks[t].pc # "check"
    BY <1>4 DEF StopCancel, StopReturn, schedulerVars, At
  <2>2. PICK task : /\ tasks' = [tasks EXCEPT ![t] = task]
                    /\ \/ task = Idle
                       \/ \E v, s, pc : task = Writing(tasks[t], v, s, pc)
    BY <1>4 DEF StopCancel, StopReturn
  <2>. QED
    BY <1>0, <2>1, <2>2, OtherTasksStayOut, OneSlotKeepsExclusion
<1>5. CASE JobRunning(t) \/ JobExecute(t)
  <2>1. UNCHANGED restarting /\ tasks[t].pc # "check"
    BY <1>5 DEF JobRunning, JobExecute, schedulerVars, At
  <2>2. PICK task : /\ tasks' = [tasks EXCEPT ![t] = task]
                    /\ \/ \E pc : task = Reading(tasks[t], pc)
                       \/ \E v, s, pc : task = Writing(tasks[t], v, s, pc)
    BY <1>5 DEF JobRunning, JobExecute
  <2>. QED
    BY <1>0, <2>1, <2>2, OtherTasksStayOut, OneSlotKeepsExclusion
<1>6. CASE CallbackNotDue(t) \/ PaymentsLeft(t) \/ ExecuteReturn(t)
  <2>1. UNCHANGED restarting /\ tasks' = [tasks EXCEPT ![t] = Idle]
    BY <1>6 DEF CallbackNotDue, PaymentsLeft, ExecuteReturn, ReturnToCaller
  <2>. QED
    BY <1>0, <2>1, OtherTasksStayOut, OneSlotKeepsExclusion
<1>7. CASE CallbackPull(t) \/ CallbackReturn(t) \/ CallbackReject(t)
  <2>1. UNCHANGED restarting /\ tasks[t].pc # "check"
    BY <1>7 DEF CallbackPull, CallbackReturn, CallbackReject, schedulerVars, At
  <2>2. PICK task : /\ tasks' = [tasks EXCEPT ![t] = task]
                    /\ \/ task = Idle
                       \/ \E pc : task = Reading(tasks[t], pc)
                       \/ \E v, s, pc : task = Writing(tasks[t], v, s, pc)
    BY <1>7 DEF CallbackPull, CallbackReturn, CallbackReject, AfterCallback,
           Recorded
  <2>. QED
    BY <1>0, <2>1, <2>2, OtherTasksStayOut, OneSlotKeepsExclusion
<1>8. CASE InvokeCallback(t)
  <2>1. UNCHANGED restarting /\ tasks[t].pc # "check"
    BY <1>8 DEF InvokeCallback, schedulerVars, At
  <2>2. CASE AwaitCallback
    BY <1>0, <1>8, <2>1, <2>2, OtherTasksStayOut, OneSlotKeepsExclusion
       DEF InvokeCallback
  <2>3. CASE ~AwaitCallback
    <3>1. PICK u \in Task : tasks' = [tasks EXCEPT
                                ![t] = Reading(tasks[t], "recheck"),
                                ![u] = Call("pay", tasks[t].id, "pull", 0)]
      BY <1>8, <2>3 DEF InvokeCallback
    <3>2. tasks[u] \in TaskState
      BY <1>0 DEF TypeOK
    <3>. QED
      BY <1>0, <2>1, <3>1, <3>2, OtherTasksStayOut, TwoSlotsKeepExclusion
  <2>. QED
    BY <2>2, <2>3
<1>9. CASE LastPaymentMade(t)
  <2>1. UNCHANGED restarting /\ tasks[t].pc # "check"
    BY <1>9 DEF LastPaymentMade, At
  <2>2. PICK u \in Task : tasks' = [tasks EXCEPT
                ![t] = Writing(tasks[t], tasks[t].view, "done", "end"),
                ![u] = Call("stop", tasks[t].id, "cancel", 0)]
    BY <1>9 DEF LastPaymentMade
  <2>3. tasks[u] \in TaskState
    BY <1>0 DEF TypeOK
  <2>. QED
    BY <1>0, <2>1, <2>2, <2>3, OtherTasksStayOut, TwoSlotsKeepExclusion
<1>. QED
  BY <1>1, <1>2, <1>3, <1>4, <1>5, <1>6, <1>7, <1>8, <1>9 DEF Resume

\* The check lets a task in only when the flag is down, so when nobody is in.
LEMMA RestartCheckKeepsExclusion ==
    ASSUME SchedulerInv, RestartIsExclusive, NEW t \in Task, RestartCheck(t)
    PROVE  RestartIsExclusive'
<1> DEFINE id == tasks[t].id
<1>0. TypeOK /\ tasks[t] \in TaskState /\ tasks[t].pc = "check"
      /\ id \in PullPaymentID
  <2>1. "check" \in Segment
    BY DEF Segment
  <2>. QED
    BY <2>1, AtSegment DEF SchedulerInv, RestartCheck
<1>1. CASE ~MayRestart(t)
  BY <1>0, <1>1, OtherTasksStayOut, OneSlotKeepsExclusion DEF RestartCheck
<1>2. CASE MayRestart(t)
  <2>1. /\ restarting' = [restarting EXCEPT ![id] = TRUE]
        /\ tasks' = [tasks EXCEPT ![t] =
                        Writing(tasks[t], tasks[t].view, "initial", "queue")]
    BY <1>2 DEF RestartCheck
  <2>2. ~restarting[id]
    BY <1>2 DEF MayRestart
  <2>3. Writing(tasks[t], tasks[t].view, "initial", "queue").id = id
    BY <1>0 DEF Writing, TaskState
  <2>4. ASSUME NEW u \in Task, u # t PROVE tasks'[u] = tasks[u]
    BY <1>0, <2>1, <2>4 DEF TypeOK
  <2>5. tasks'[t] = Writing(tasks[t], tasks[t].view, "initial", "queue")
    BY <1>0, <2>1 DEF TypeOK
  <2>6. ASSUME NEW p \in PullPaymentID, NEW u \in InRestart(p)',
               NEW w \in InRestart(p)'
        PROVE  u = w /\ restarting'[p]
    <3>1. CASE p = id
      <4>1. InRestart(id) = {}
        BY <1>0, <2>2 DEF RestartIsExclusive
      <4>2. u = t /\ w = t
        BY <2>4, <3>1, <4>1 DEF InRestart
      <4>. QED
        BY <1>0, <2>1, <3>1, <4>2 DEF TypeOK
    <3>2. CASE p # id
      <4>1. u # t /\ w # t
        BY <2>3, <2>5, <3>2 DEF InRestart
      <4>2. u \in InRestart(p) /\ w \in InRestart(p)
        BY <2>4, <4>1 DEF InRestart
      <4>3. restarting'[p] = restarting[p]
        BY <1>0, <2>1, <3>2 DEF TypeOK
      <4>. QED
        BY <4>2, <4>3 DEF RestartIsExclusive
    <3>. QED
      BY <3>1, <3>2
  <2>. QED
    BY <2>6 DEF RestartIsExclusive
<1>. QED
  BY <1>1, <1>2

\* A task that leaves restart() was the only one in it, so the flag may fall.
LEMMA LeavingKeepsExclusion ==
    ASSUME TypeOK, RestartIsExclusive, NEW t \in Task,
           t \in InRestart(tasks[t].id), tasks[t].id \in PullPaymentID,
           ~(tasks'[t].fn = "restart" /\ tasks'[t].pc # "check"),
           \A u \in Task \ {t} : StaysOut(tasks'[u], tasks[u]),
           restarting' = [restarting EXCEPT ![tasks[t].id] = FALSE]
    PROVE  RestartIsExclusive'
<1> DEFINE id == tasks[t].id
<1>1. ASSUME NEW p \in PullPaymentID, NEW u \in InRestart(p)',
             NEW w \in InRestart(p)'
      PROVE  u = w /\ restarting'[p]
  <2>1. u # t /\ w # t
    BY DEF InRestart
  <2>2. u \in InRestart(p) /\ w \in InRestart(p)
    BY <2>1 DEF InRestart, StaysOut
  <2>3. p # id
    BY <2>1, <2>2 DEF RestartIsExclusive
  <2>4. restarting'[p] = restarting[p]
    BY <2>3 DEF TypeOK
  <2>. QED
    BY <2>2, <2>4 DEF RestartIsExclusive
<1>. QED
  BY <1>1 DEF RestartIsExclusive

\* The step that queues may give the queue a task, which is not a restart().
LEMMA QueueTaskStaysOut ==
    ASSUME NEW ts \in [Task -> TaskState], WithQueueTask(ts), NEW u \in Task
    PROVE  tasks'[u] = ts[u] \/ tasks'[u].fn = "queue"
BY DEF WithQueueTask, Call, Idle

LEMMA RestartQueueKeepsExclusion ==
    ASSUME SchedulerInv, RestartIsExclusive, NEW t \in Task, RestartQueue(t)
    PROVE  RestartIsExclusive'
<1> DEFINE id == tasks[t].id
           v == tasks[t].view
           left == v.numberOfPayments > Missed(id, v)
           next == v.nextPaymentDate + Missed(id, v) * Frequency[id]
           writing == [Writing(tasks[t], v, "running", "job") EXCEPT !.arg = next]
           ts == [tasks EXCEPT ![t] = IF left THEN writing ELSE Idle]
<1>0. /\ TypeOK /\ tasks[t] \in TaskState /\ tasks[t].pc = "queue"
      /\ id \in PullPaymentID /\ tasks[t].fn = "restart"
  <2>1. "queue" \in Segment
    BY DEF Segment
  <2>. QED
    BY <2>1, AtSegment DEF SchedulerInv, RestartQueue, Good, WellFormed
<1>1. t \in InRestart(id) /\ restarting[id] = TRUE
  BY <1>0 DEF InRestart, RestartIsExclusive, TypeOK
<1>2. WithQueueTask(ts) /\ restarting' = [restarting EXCEPT ![id] = left]
  BY DEF RestartQueue
<1>3. SchedulerInv'
  BY RestartQueueKeepsInv
<1>4. /\ writing.fn = "restart" /\ writing.pc = "job" /\ writing.id = id
  BY <1>0 DEF Writing, TaskState
<1>5. ASSUME NEW u \in Task
      PROVE  \/ tasks'[u] = IF u # t THEN tasks[u] ELSE IF left THEN writing ELSE Idle
             \/ tasks'[u].fn = "queue"
  <2>1. PICK w \in Task : tasks' = [ts EXCEPT ![w] = Call("queue", running', "due", 0)]
                          \/ tasks' = ts
    BY <1>2 DEF WithQueueTask
  <2>2. Call("queue", running', "due", 0).fn = "queue"
    BY DEF Call, Idle
  <2> HIDE DEF writing, left
  <2>. QED
    BY <1>0, <2>1, <2>2 DEF TypeOK
<1> HIDE DEF writing, left
<1>6. \A u \in Task \ {t} : StaysOut(tasks'[u], tasks[u])
  BY <1>5 DEF StaysOut
<1>7. CASE left
  <2>1. StaysOut(tasks'[t], tasks[t])
    BY <1>0, <1>4, <1>5, <1>7 DEF StaysOut
  <2>2. UNCHANGED restarting
    BY <1>0, <1>1, <1>2, <1>7 DEF TypeOK, left
  <2>. QED
    BY <1>6, <2>1, <2>2, ExclusionKept
<1>8. CASE ~left
  <2>1. ~(tasks'[t].fn = "restart" /\ tasks'[t].pc # "check")
    BY <1>5, <1>8 DEF Idle
  <2>2. left = FALSE
    <3>1. v.numberOfPayments \in Nat /\ Missed(id, v) \in Nat
      BY <1>0, MissedIsNat DEF TaskState, Record
    <3>. QED
      BY <1>8, <3>1 DEF left
  <2>3. restarting' = [restarting EXCEPT ![id] = FALSE]
    BY <1>2, <2>2
  <2>. QED
    BY <1>0, <1>1, <1>6, <2>1, <2>3, LeavingKeepsExclusion
<1>. QED
  BY <1>7, <1>8

LEMMA RestartScheduleKeepsExclusion ==
    ASSUME SchedulerInv, RestartIsExclusive, NEW t \in Task, RestartSchedule(t)
    PROVE  RestartIsExclusive'
<1>0. /\ TypeOK /\ tasks[t] \in TaskState /\ tasks[t].pc = "schedule"
      /\ tasks[t].id \in PullPaymentID /\ tasks[t].fn = "restart"
  <2>1. "schedule" \in Segment
    BY DEF Segment
  <2>. QED
    BY <2>1, AtSegment DEF SchedulerInv, RestartSchedule
<1>1. t \in InRestart(tasks[t].id)
  BY <1>0 DEF InRestart
<1>2. /\ tasks' = [tasks EXCEPT ![t] = Idle]
      /\ restarting' = [restarting EXCEPT ![tasks[t].id] = FALSE]
  BY DEF RestartSchedule
<1>3. ~(tasks'[t].fn = "restart" /\ tasks'[t].pc # "check")
  BY <1>0, <1>2 DEF TypeOK, Idle
<1>4. \A u \in Task \ {t} : StaysOut(tasks'[u], tasks[u])
  BY <1>0, <1>2 DEF TypeOK, StaysOut
<1>. QED
  BY <1>0, <1>1, <1>2, <1>3, <1>4, LeavingKeepsExclusion

LEMMA OtherStepsKeepExclusion ==
    ASSUME SchedulerInv, RestartIsExclusive,
           \/ \E t \in Task : Fire(t) \/ CallApi(t)
           \/ FireDrip
           \/ Tick
           \/ UNCHANGED vars
    PROVE  RestartIsExclusive'
<1>0. TypeOK /\ \A t \in Task : tasks[t] \in TaskState
  BY DEF SchedulerInv, TypeOK
<1>1. UNCHANGED restarting
  BY DEF Fire, FireJob, FireInterval, CallApi, CallStart, CallStop, CallRestart,
         FireDrip, Tick, vars, schedulerVars
<1>2. ASSUME NEW t \in Task, Fire(t) \/ CallApi(t) PROVE RestartIsExclusive'
  <2> DEFINE Called(fn, id, pc, arg) ==
               tasks' = [tasks EXCEPT ![t] = Call(fn, id, pc, arg)]
  <2>1. ASSUME NEW fn, NEW id, NEW pc, NEW arg, Called(fn, id, pc, arg),
               fn # "restart" \/ pc = "check"
        PROVE  RestartIsExclusive'
    <3>1. StaysOut(Call(fn, id, pc, arg), tasks[t])
      BY <1>0, <2>1, OtherTasksStayOut
    <3>. QED
      BY <1>0, <1>1, <2>1, <3>1, OneSlotKeepsExclusion
  <2>2. \/ \E m \in timers : \/ Called("job", m.id, "running", m.number)
                            \/ Called("tick", m.id, "due", 0)
        \/ \E id \in PullPaymentID :
              \/ Called("start", id, "adjust", 0)
              \/ Called("stop", id, "cancel", 0)
              \/ Called("restart", id, "check", IF id \in buffer THEN 1 ELSE 0)
    BY <1>2 DEF Fire, FireJob, FireInterval, CallApi, CallStart, CallStop, CallRestart
  <2> HIDE DEF Called
  <2>. QED
    BY <2>1, <2>2
<1>3. CASE FireDrip
  <2>1. \A u \in Task : tasks'[u] = tasks[u] \/ tasks'[u].fn = "queue"
    BY <1>0, <1>3, QueueTaskStaysOut DEF FireDrip, TypeOK
  <2>2. \A u \in Task : StaysOut(tasks'[u], tasks[u])
    BY <2>1 DEF StaysOut
  <2>. QED
    BY <1>1, <2>2, ExclusionKept
<1>4. CASE Tick \/ UNCHANGED vars
  <2>1. \A u \in Task : StaysOut(tasks'[u], tasks[u])
    BY <1>4 DEF Tick, vars, StaysOut
  <2>. QED
    BY <1>1, <2>1, ExclusionKept
<1>. QED
  BY <1>2, <1>3, <1>4

(* _restarting works as a lock: two restart() calls of one scheduler are    *)
(* never both past their check, however many are made.                      *)
THEOREM RestartsExcludeEachOther == Spec => []RestartIsExclusive
<1>1. Init => RestartIsExclusive
  BY DEF Init, RestartIsExclusive, InRestart, Idle
<1>2. SchedulerInv /\ RestartIsExclusive /\ [Next]_vars => RestartIsExclusive'
  BY ResumeKeepsExclusion, RestartCheckKeepsExclusion, RestartQueueKeepsExclusion,
     RestartScheduleKeepsExclusion, OtherStepsKeepExclusion DEF Next
<1>. QED
  BY <1>1, <1>2, SchedulerInvariant, PTL DEF Spec

-----------------------------------------------------------------------------
(* The executions of the queue.  The scheduler's own bounds and the records *)
(* it holds play no part: whatever restart() hands to the queue, and        *)
(* whatever becomes of the scheduler meanwhile, the flag keeps the next     *)
(* execution waiting for the one that is awaited.                           *)

Apart == running # NoID /\ running' # running => running' = NoID

LEMMA ResumeKeepsApart ==
    ASSUME SchedulerInv, NEW t \in Task, Resume(t)
    PROVE  Apart
<1>1. CASE RestartQueue(t)
  <2> DEFINE id == tasks[t].id
             k == Missed(id, tasks[t].view)
  <2>1. Queue(id, k, PullPaymentID \ buffer) \/ UNCHANGED queueVars
    BY <1>1 DEF RestartQueue
  <2> HIDE DEF id, k
  <2>. QED
    BY <2>1 DEF SchedulerInv, QueueInv, FlagCoversRunning, Queue, queueVars, Apart
<1>2. CASE ~RestartQueue(t)
  <2>1. Finish \/ Throw \/ UNCHANGED queueVars
    BY <1>2 DEF Resume, DbRead, DbWrite, StartAdjust, ReadForJob, StartSchedule,
       StopCancel, StopReturn, RestartCheck, RestartSchedule, JobRunning,
       JobExecute, CallbackNotDue, InvokeCallback, CallbackPull, CallbackReturn,
       CallbackReject, LastPaymentMade, PaymentsLeft, ExecuteReturn, ReturnToCaller
  <2>. QED
    BY <2>1 DEF Finish, Throw, queueVars, Apart
<1>. QED
  BY <1>1, <1>2

(* No two executions of missed payments overlap, however the scheduler is   *)
(* stopped, restarted and deleted while they run and whether their          *)
(* callbacks reject or not (ScheduleQueue.ts:35-41).                        *)
THEOREM SchedulerExecutionsNeverOverlap == Spec => ExecutionsDoNotOverlap
<1>1. SchedulerInv /\ [Next]_vars => [Apart]_queueVars
  <2> SUFFICES ASSUME SchedulerInv, [Next]_vars PROVE [Apart]_queueVars
    OBVIOUS
  <2>1. ASSUME NEW t \in Task, Resume(t) PROVE Apart
    BY <2>1, ResumeKeepsApart
  <2>2. CASE FireDrip
    BY <2>2 DEF FireDrip, Drip, SchedulerInv, QueueInv, FlagCoversRunning, Apart
  <2>3. ASSUME NEW t \in Task, CallApi(t) PROVE UNCHANGED queueVars
    BY <2>3 DEF CallApi, CallStart, CallStop, CallRestart
  <2>4. CASE (\E t \in Task : Fire(t)) \/ Tick \/ UNCHANGED vars
    BY <2>4 DEF Fire, FireJob, FireInterval, Tick, vars
  <2>. QED
    BY <2>1, <2>2, <2>3, <2>4 DEF Next
<1>. QED
  BY <1>1, SchedulerInvariant, PTL DEF Spec, ExecutionsDoNotOverlap, Apart
=============================================================================
