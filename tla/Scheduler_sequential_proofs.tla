--------------------- MODULE Scheduler_sequential_proofs ---------------------
(***************************************************************************)
(* Proofs about Scheduler when the API is called the way the SDK's own     *)
(* tests call it: while nothing is in progress (SequentialNext), in a      *)
(* system that finishes what is due within the second (Prompt).  The       *)
(* theorems hold for any number of pull payments, payments, stops and      *)
(* restarts, whatever the executions throw.                                *)
(*                                                                         *)
(* The argument follows a token.  What will make a timer execute a pull    *)
(* payment from now on - start() in progress, restart() past its check, a  *)
(* job whose body has yet to start the interval - is a maker.  A pull      *)
(* payment never has two makers, nor a maker and a timer: start() is       *)
(* called once, each maker ends in one timer, stop() cancels that timer    *)
(* before it writes "stopped", and restart() becomes a maker only over a   *)
(* record that says "stopped".                                             *)
(***************************************************************************)
EXTENDS Scheduler_proofs

(* The functions that execute a pull payment.                               *)
Executor == {"job", "tick", "queue", "pay"}

(* Which segments a function has, and what they write.                      *)
Shaped(c) ==
    /\ \/ c = Idle
       \/ c.fn = "start" /\ c.pc \in {"adjust", "job", "schedule"}
       \/ c.fn = "stop" /\ c.pc \in {"cancel", "end"}
       \/ c.fn = "restart" /\ c.pc \in {"check", "queue", "job", "schedule"}
       \/ c.fn = "job" /\ c.pc \in {"running", "execute", "due", "pull",
                                    "pulled", "recheck", "end"}
       \/ c.fn \in {"tick", "queue"} /\ c.pc \in {"due", "pull", "pulled",
                                                  "recheck", "end"}
       \/ c.fn = "pay" /\ c.pc \in {"pull", "pulled"}
    /\ c.put = "stopped" => c.fn = "stop" /\ c.pc = "end"
    /\ c.pc \in {"check", "cancel"} => c.db # "write"
    /\ c.pc = "queue" => c.put = "initial"

\* A stop() that finds, or has found, its scheduler in the buffer b.
Stopping(c, b) == c.fn = "stop" /\ (c.id \in b \/ c.pc = "end")

Early(c) == c.fn = "restart" /\ c.pc \in {"check", "queue"}
Late(c) == c.fn = "restart" /\ c.pc \in {"job", "schedule"}
Past(c) == c.fn = "restart" /\ c.pc # "check"

\* Calls of the API that run while nothing else does.
Alone(c, b) == c.fn = "start" \/ Stopping(c, b) \/ Early(c)

\* What may be in progress beside a restart() that has queued executions.
Bystander(c, b) == \/ c.fn \in {"none", "queue", "pay"}
                   \/ c.fn = "stop" /\ ~Stopping(c, b)

\* What is going to make a timer for its pull payment.
Maker(c) == c.fn \in {"start", "job"} \/ Past(c)

\* What may be in progress while the record says "stopped".
Idling(c) == \/ c.fn \in {"none", "stop"}
             \/ c.fn = "restart" /\ \/ c.pc = "check"
                                    \/ c.pc = "queue" /\ c.db = "write"

\* An execution threw: the queue's flag stays up for ever.
Stuck == isExecuting /\ \A t \in Task : tasks[t].fn # "queue"

NoTimer(id) == \A m \in timers : m.id # id
IsStopped(id) == record[id].status = "stopped"
Ahead == \A m \in timers : m.at > now

-----------------------------------------------------------------------------
(* The inductive invariant.                                                 *)

TimersOK ==
    /\ OneTimer
    /\ \A m \in timers :
          /\ m.id \in started /\ ~IsStopped(m.id) /\ m.id \notin stopped
          /\ m.number = IF m.kind = "job" THEN schedule[m.id] ELSE interval[m.id]

CountsOK ==
    /\ buffer \cup stopped \subseteq started
    /\ \A id \in PullPaymentID :
          /\ id \notin started => jobs[id] = 0
          /\ jobs[id] <= 1 + stops
          /\ IsStopped(id) => id \in started /\ jobs[id] <= stops

\* A stopped pull payment is not in line, unless the line is stuck.
EntriesOK == Stuck \/ \A i \in DOMAIN executionQueue : ~IsStopped(executionQueue[i])

TaskAlone(t) ==
    /\ Alone(tasks[t], buffer) =>
          /\ executionQueue = <<>> \/ isExecuting
          /\ \A u \in Task \ {t} : tasks[u] = Idle
    /\ Late(tasks[t]) => \A u \in Task \ {t} : Bystander(tasks[u], buffer)
    /\ Alone(tasks[t], buffer) \/ Late(tasks[t]) => Ahead

TaskStatus(t) ==
    /\ tasks[t].fn \in Executor => tasks[t].view.status # "stopped"
    /\ ~Idling(tasks[t]) => ~IsStopped(tasks[t].id)
    /\ tasks[t].fn = "restart" /\ tasks[t].pc = "check" /\ tasks[t].db = "none" =>
          tasks[t].view = record[tasks[t].id]

TaskToken(t) ==
    /\ tasks[t].fn = "stop" /\ tasks[t].pc = "end" =>
          tasks[t].id \in started /\ NoTimer(tasks[t].id)
    /\ Maker(tasks[t]) =>
          /\ tasks[t].id \in started \ stopped
          /\ NoTimer(tasks[t].id)
          /\ \A u \in Task \ {t} : Maker(tasks[u]) => tasks[u].id # tasks[t].id
    /\ tasks[t].fn = "start" => jobs[tasks[t].id] = 0
    /\ Past(tasks[t]) \/ Stopping(tasks[t], buffer) => jobs[tasks[t].id] <= stops

TaskInv(t) == Shaped(tasks[t]) /\ TaskAlone(t) /\ TaskStatus(t) /\ TaskToken(t)

SequentialInv == /\ SchedulerInv
                 /\ TimersOK
                 /\ CountsOK
                 /\ EntriesOK
                 /\ \A t \in Task : TaskInv(t)

-----------------------------------------------------------------------------
(* Tasks.                                                                   *)

LEMMA IdleFacts ==
    /\ Idle.fn = "none" /\ Idle.pc = "none" /\ Idle.db = "none"
    /\ Shaped(Idle) /\ Idling(Idle) /\ ~Maker(Idle) /\ ~Past(Idle) /\ ~Late(Idle)
    /\ \A b : ~Alone(Idle, b) /\ ~Stopping(Idle, b) /\ Bystander(Idle, b)
BY DEF Idle, Shaped, Idling, Maker, Past, Late, Early, Alone, Stopping, Bystander

LEMMA CallFacts ==
    ASSUME NEW fn, NEW id, NEW pc, NEW arg
    PROVE  LET c == Call(fn, id, pc, arg)
           IN  /\ c.fn = fn /\ c.id = id /\ c.pc = pc /\ c.db = "read"
               /\ c.arg = arg /\ c.put = "keep" /\ c.view.status = "initial"
BY DEF Call, Idle, NoRecord

LEMMA ReadingFacts ==
    ASSUME NEW c \in TaskState, NEW pc
    PROVE  LET d == Reading(c, pc)
           IN  /\ d.fn = c.fn /\ d.id = c.id /\ d.pc = pc /\ d.db = "read"
               /\ d.arg = c.arg /\ d.put = c.put /\ d.view = c.view
BY DEF Reading, TaskState

LEMMA WritingFacts ==
    ASSUME NEW c \in TaskState, NEW v, NEW s, NEW pc
    PROVE  LET d == Writing(c, v, s, pc)
           IN  /\ d.fn = c.fn /\ d.id = c.id /\ d.pc = pc /\ d.db = "write"
               /\ d.arg = c.arg /\ d.put = s /\ d.view = v
BY DEF Writing, TaskState

\* While a call of the API is alone the others are idle, so no other task acts.
LEMMA OnlyMe ==
    ASSUME SequentialInv, NEW t \in Task, tasks[t] # Idle,
           NEW u \in Task, Alone(tasks[u], buffer)
    PROVE  u = t
BY DEF SequentialInv, TaskInv, TaskAlone

(* A step of a task that changes the state of the task alone, or ends it,   *)
(* and a record that does not come to say "stopped".                        *)
Follows(c, old) ==
    /\ Shaped(c)
    /\ \/ c = Idle
       \/ /\ c.fn = old.fn /\ c.id = old.id
          /\ c.fn = "stop" => c.pc = old.pc
          /\ c.fn = "restart" => /\ c.pc = "check" <=> old.pc = "check"
                                 /\ c.pc = "queue" <=> old.pc = "queue"

LEMMA FollowsFacts ==
    ASSUME NEW c, NEW old, Shaped(old), Follows(c, old)
    PROVE  /\ Maker(c) => Maker(old) /\ c.id = old.id
           /\ Past(c) => Past(old) /\ c.id = old.id
           /\ Late(c) => Late(old) /\ c.id = old.id
           /\ c.fn = "queue" => old.fn = "queue"
           /\ c.fn = "start" => old.fn = "start" /\ c.id = old.id
           /\ c.fn = "stop" => old.fn = "stop" /\ c.id = old.id /\ c.pc = old.pc
           /\ \A b : /\ Alone(c, b) => Alone(old, b)
                     /\ Stopping(c, b) => Stopping(old, b)
                     /\ Bystander(old, b) => Bystander(c, b)
<1>1. CASE c = Idle
  BY <1>1, IdleFacts
<1>2. CASE c # Idle
  BY <1>2, IdleFacts DEF Follows, Shaped, Maker, Past, Late, Early, Alone, Stopping, Bystander
<1>. QED
  BY <1>1, <1>2

LEMMA OneTask ==
    ASSUME SequentialInv, SchedulerInv', NEW t \in Task, tasks[t] # Idle,
           \A u \in Task \ {t} : tasks'[u] = tasks[u],
           Follows(tasks'[t], tasks[t]),
           UNCHANGED <<now, buffer, schedule, interval, jobs, timers, started,
                       stops, stopped, executionQueue>>,
           UNCHANGED isExecuting \/ tasks[t].fn = "queue",
           \A id \in PullPaymentID : IsStopped(id)' => IsStopped(id),
           TaskStatus(t)'
    PROVE  SequentialInv'
<1>1. /\ TypeOK /\ TypeOK' /\ TimersOK /\ CountsOK /\ EntriesOK
      /\ \A u \in Task : TaskInv(u)
  BY DEF SequentialInv, SchedulerInv
<1>2. TimersOK' /\ CountsOK'
  <2>1. \A m \in timers : m.id \in PullPaymentID
    BY <1>1 DEF TypeOK, Timer
  <2>. QED
    BY <1>1, <2>1 DEF TimersOK, CountsOK, OneTimer
<1>3. Shaped(tasks[t]) /\ Shaped(tasks'[t])
  BY <1>1 DEF TaskInv, Follows
<1>4. EntriesOK'
  <2>1. CASE Stuck
    <3>1. tasks[t].fn # "queue"
      BY <2>1 DEF Stuck
    <3>2. \A u \in Task : tasks'[u].fn # "queue"
      BY <1>3, <2>1, <3>1, FollowsFacts DEF Stuck
    <3>. QED
      BY <2>1, <3>1, <3>2 DEF Stuck, EntriesOK
  <2>2. CASE ~Stuck
    <3>1. \A i \in DOMAIN executionQueue : executionQueue[i] \in PullPaymentID
      BY <1>1 DEF TypeOK, QueueTypeOK
    <3>. QED
      BY <1>1, <2>2, <3>1 DEF EntriesOK
  <2>. QED
    BY <2>1, <2>2
<1>5. TaskInv(t)'
  <2>1. TaskAlone(t)'
    <3>1. /\ Alone(tasks'[t], buffer') => Alone(tasks[t], buffer)
          /\ Late(tasks'[t]) => Late(tasks[t])
      BY <1>3, FollowsFacts
    <3>2. Alone(tasks[t], buffer) => UNCHANGED isExecuting
      BY DEF Alone, Stopping, Early
    <3>. QED
      BY <1>1, <3>1, <3>2 DEF TaskInv, TaskAlone, Ahead
  <2>2. TaskToken(t)'
    <3> DEFINE c == tasks'[t]
               old == tasks[t]
    <3>1. /\ Maker(c) => Maker(old) /\ c.id = old.id
          /\ Past(c) => Past(old) /\ c.id = old.id
          /\ c.fn = "start" => old.fn = "start" /\ c.id = old.id
          /\ c.fn = "stop" => old.fn = "stop" /\ c.id = old.id /\ c.pc = old.pc
          /\ Stopping(c, buffer) => Stopping(old, buffer) /\ c.fn = "stop"
      BY <1>3, FollowsFacts DEF Stopping
    <3>2. TaskToken(t)
      BY <1>1 DEF TaskInv
    <3>. QED
      BY <3>1, <3>2 DEF TaskToken, NoTimer
  <2>. QED
    BY <1>3, <2>1, <2>2 DEF TaskInv
<1>6. ASSUME NEW u \in Task, u # t PROVE TaskInv(u)'
  <2>1. tasks'[u] = tasks[u] /\ TaskInv(u) /\ ~Alone(tasks[u], buffer)
    BY <1>1, <1>6, OnlyMe
  <2>2. TaskAlone(u)'
    BY <1>3, <2>1, FollowsFacts DEF TaskInv, TaskAlone, Ahead
  <2>3. TaskStatus(u)'
    <3>1. ~Idling(tasks[u]) => tasks[u].id \in PullPaymentID
      BY <1>1, <2>1, IdleFacts DEF SequentialInv, SchedulerInv, TasksGood, Good, WellFormed, TaskInv, Shaped
    <3>. QED
      BY <2>1, <3>1 DEF TaskInv, TaskStatus, Alone, Early
  <2>4. TaskToken(u)'
    BY <1>3, <2>1, FollowsFacts DEF TaskInv, TaskToken, NoTimer
  <2>. QED
    BY <2>1, <2>2, <2>3, <2>4 DEF TaskInv
<1>. QED
  BY <1>2, <1>4, <1>5, <1>6 DEF SequentialInv

(* What is known of the task that acts.                                     *)
LEMMA Acting ==
    ASSUME SequentialInv, NEW t \in Task, tasks[t].pc # "none"
    PROVE  /\ tasks[t] \in TaskState /\ tasks[t].id \in PullPaymentID
           /\ tasks[t] # Idle
           /\ TaskInv(t) /\ Shaped(tasks[t])
           /\ tasks \in [Task -> TaskState]
           /\ record \in [PullPaymentID -> Record]
BY IdleFacts DEF SequentialInv, SchedulerInv, TypeOK, TasksGood, Good, WellFormed, TaskInv

\* A step to a segment that awaits an answer, or to the end of the call.
LEMMA LocalStep ==
    ASSUME SequentialInv, SchedulerInv', NEW t \in Task,
           tasks[t].pc \notin {"none"}, NEW c,
           tasks' = [tasks EXCEPT ![t] = c],
           UNCHANGED <<now, record, buffer, schedule, interval, jobs, timers,
                       started, stops, stopped, executionQueue>>,
           UNCHANGED isExecuting \/ tasks[t].fn = "queue",
           \/ c = Idle
           \/ /\ tasks[t].pc \notin {"check", "queue"}
              /\ Follows(c, tasks[t])
              /\ c.fn \in Executor => c.view.status # "stopped"
    PROVE  SequentialInv'
<1>1. /\ tasks[t] # Idle /\ TaskInv(t)
      /\ tasks'[t] = c /\ \A u \in Task \ {t} : tasks'[u] = tasks[u]
  BY Acting
<1>2. Follows(c, tasks[t])
  BY IdleFacts DEF Follows
<1>3. \A id : IsStopped(id)' <=> IsStopped(id)
  BY DEF IsStopped
<1>4. TaskStatus(t)'
  <2>1. CASE c = Idle
    BY <1>1, <2>1, IdleFacts DEF TaskStatus, Executor
  <2>2. CASE c # Idle
    BY <1>1, <1>2, <1>3, <2>2 DEF TaskStatus, TaskInv, Follows, Idling
  <2>. QED
    BY <2>1, <2>2
<1>. QED
  BY <1>1, <1>2, <1>3, <1>4, OneTask

-----------------------------------------------------------------------------
(* The database.                                                            *)

LEMMA DbReadStep ==
    ASSUME SequentialInv, SchedulerInv', NEW t \in Task, DbRead(t)
    PROVE  SequentialInv'
<1> DEFINE id == tasks[t].id
           c == [tasks[t] EXCEPT !.db = "none", !.view = record[id]]
<1>0. tasks[t].pc # "none"
  BY IdleFacts DEF DbRead, SequentialInv, SchedulerInv, TasksGood, Good, WellFormed
<1>1. /\ tasks[t] \in TaskState /\ tasks[t] # Idle /\ TaskInv(t)
      /\ Shaped(tasks[t]) /\ tasks[t].db = "read"
      /\ tasks'[t] = c /\ \A u \in Task \ {t} : tasks'[u] = tasks[u]
  BY <1>0, Acting DEF DbRead
<1>2. /\ c.fn = tasks[t].fn /\ c.id = id /\ c.pc = tasks[t].pc
      /\ c.put = tasks[t].put /\ c.db = "none" /\ c.view = record[id]
  BY <1>1 DEF TaskState
<1> HIDE DEF c
<1>3. Follows(c, tasks[t])
  BY <1>0, <1>1, <1>2, IdleFacts DEF Follows, Shaped
<1>4. \A p : IsStopped(p)' <=> IsStopped(p)
  BY DEF DbRead, IsStopped
<1>5. TaskStatus(t)'
  BY <1>1, <1>2, <1>4 DEF TaskStatus, TaskInv, Idling, Executor, IsStopped, DbRead
<1>. QED
  BY <1>1, <1>3, <1>4, <1>5, OneTask DEF DbRead, schedulerVars, callVars, queueVars

\* A write of anybody but stop().
LEMMA DbWriteStep ==
    ASSUME SequentialInv, SchedulerInv', NEW t \in Task, DbWrite(t),
           tasks[t].fn # "stop"
    PROVE  SequentialInv'
<1> DEFINE id == tasks[t].id
           c == [tasks[t] EXCEPT !.db = "none"]
<1>0. tasks[t].pc # "none"
  BY IdleFacts DEF DbWrite, SequentialInv, SchedulerInv, TasksGood, Good, WellFormed
<1>1. /\ tasks[t] \in TaskState /\ tasks[t] # Idle /\ TaskInv(t) /\ id \in PullPaymentID
      /\ Shaped(tasks[t]) /\ tasks[t].db = "write"
      /\ record \in [PullPaymentID -> Record]
      /\ tasks'[t] = c /\ \A u \in Task \ {t} : tasks'[u] = tasks[u]
  BY <1>0, Acting DEF DbWrite
<1>2. /\ c.fn = tasks[t].fn /\ c.id = id /\ c.pc = tasks[t].pc
      /\ c.put = tasks[t].put /\ c.db = "none" /\ c.view = tasks[t].view
  BY <1>1 DEF TaskState
<1> HIDE DEF c
<1>3. Follows(c, tasks[t])
  BY <1>0, <1>1, <1>2, IdleFacts DEF Follows, Shaped
<1>4. /\ record'[id].status = IF tasks[t].put = "keep" THEN record[id].status
                              ELSE tasks[t].put
      /\ \A p \in PullPaymentID \ {id} : record'[p] = record[p]
  BY <1>1 DEF DbWrite, Stored, TaskState, Record
<1>5. tasks[t].put # "stopped"
  BY <1>1, IdleFacts DEF Shaped
<1>6. \A p \in PullPaymentID : IsStopped(p)' => IsStopped(p)
  BY <1>4, <1>5 DEF IsStopped
<1>7. TaskStatus(t)'
  <2>1. tasks[t].pc # "check"
    BY <1>1 DEF Shaped
  <2>2. ASSUME ~Idling(c) PROVE record'[id].status # "stopped"
    <3>1. CASE Idling(tasks[t])
      <4>1. tasks[t].put = "initial"
        BY <1>1, <1>2, <2>1, <2>2, <3>1, IdleFacts DEF Idling, Shaped
      <4>. QED
        BY <1>4, <4>1
    <3>2. CASE ~Idling(tasks[t])
      BY <1>1, <1>6, <3>2 DEF TaskInv, TaskStatus, IsStopped
    <3>. QED
      BY <3>1, <3>2
  <2>. QED
    BY <1>1, <1>2, <2>1, <2>2 DEF TaskStatus, TaskInv, IsStopped
<1>. QED
  BY <1>1, <1>3, <1>6, <1>7, OneTask DEF DbWrite, schedulerVars, callVars, queueVars
-----------------------------------------------------------------------------
(* The segments that only go on, or end.                                    *)

LEMMA ReadingStep ==
    ASSUME SequentialInv, SchedulerInv', NEW t \in Task, NEW pc,
           \/ tasks[t].pc \in {"adjust", "job"} /\ pc = "schedule"
           \/ tasks[t].pc = "execute" /\ pc = "due"
           \/ tasks[t].pc \in {"pull", "pulled"} /\ tasks[t].fn # "pay" /\ pc = "recheck"
           \/ tasks[t].pc = "due" /\ pc = "pull",
           tasks' = [tasks EXCEPT ![t] = Reading(tasks[t], pc)],
           UNCHANGED <<now, record, schedulerVars, callVars, queueVars>>
    PROVE  SequentialInv'
<1> DEFINE c == Reading(tasks[t], pc)
<1>1. /\ tasks[t] \in TaskState /\ Shaped(tasks[t]) /\ tasks[t] # Idle /\ TaskInv(t)
      /\ tasks[t].pc \notin {"none", "check", "queue"}
  BY Acting
<1>2. /\ c.fn = tasks[t].fn /\ c.id = tasks[t].id /\ c.pc = pc /\ c.put = tasks[t].put
      /\ c.view = tasks[t].view
  BY <1>1, ReadingFacts
<1> HIDE DEF c
<1>3. Follows(c, tasks[t])
  BY <1>1, <1>2 DEF Follows, Shaped
<1>4. c.fn \in Executor => c.view.status # "stopped"
  BY <1>1, <1>2 DEF TaskInv, TaskStatus
<1>. QED
  BY <1>1, <1>3, <1>4, LocalStep DEF schedulerVars, callVars, queueVars, c

LEMMA WritingStep ==
    ASSUME SequentialInv, SchedulerInv', NEW t \in Task, NEW v, NEW s, NEW pc,
           \/ tasks[t].pc = "adjust" /\ pc = "job" /\ s = "keep"
           \/ /\ tasks[t].pc = "running" /\ pc = "execute"
              /\ v = tasks[t].view /\ s = "running"
           \/ /\ tasks[t].pc = "pull" /\ pc = "pulled"
              /\ s # "stopped" /\ v.status # "stopped",
           tasks' = [tasks EXCEPT ![t] = Writing(tasks[t], v, s, pc)],
           UNCHANGED <<now, record, schedulerVars, callVars, queueVars>>
    PROVE  SequentialInv'
<1> DEFINE c == Writing(tasks[t], v, s, pc)
<1>1. /\ tasks[t] \in TaskState /\ Shaped(tasks[t]) /\ tasks[t] # Idle /\ TaskInv(t)
      /\ tasks[t].pc \notin {"none", "check", "queue"}
  BY Acting
<1>2. /\ c.fn = tasks[t].fn /\ c.id = tasks[t].id /\ c.pc = pc /\ c.put = s
      /\ c.view = v
  BY <1>1, WritingFacts
<1> HIDE DEF c
<1>3. Follows(c, tasks[t])
  BY <1>1, <1>2 DEF Follows, Shaped
<1>4. c.fn \in Executor => c.view.status # "stopped"
  BY <1>1, <1>2 DEF TaskInv, TaskStatus, Shaped, Executor
<1>. QED
  BY <1>1, <1>3, <1>4, LocalStep DEF schedulerVars, callVars, queueVars, c

LEMMA EndStep ==
    ASSUME SequentialInv, SchedulerInv', NEW t \in Task, tasks[t].pc # "none",
           tasks' = [tasks EXCEPT ![t] = Idle],
           UNCHANGED <<now, record, schedulerVars, callVars, executionQueue>>,
           UNCHANGED isExecuting \/ tasks[t].fn = "queue"
    PROVE  SequentialInv'
BY LocalStep DEF schedulerVars, callVars

LEMMA StartAdjustStep ==
    ASSUME SequentialInv, SchedulerInv', NEW t \in Task, StartAdjust(t)
    PROVE  SequentialInv'
<1>1. tasks[t].pc = "adjust"
  BY DEF StartAdjust, At
<1>. QED
  BY <1>1, ReadingStep, WritingStep DEF StartAdjust

LEMMA GoOnStep ==
    ASSUME SequentialInv, SchedulerInv', NEW t \in Task,
           ReadForJob(t) \/ JobExecute(t)
    PROVE  SequentialInv'
BY ReadingStep DEF ReadForJob, JobExecute, At

LEMMA JobRunningStep ==
    ASSUME SequentialInv, SchedulerInv', NEW t \in Task, JobRunning(t)
    PROVE  SequentialInv'
<1>1. tasks[t].pc = "running"
  BY DEF JobRunning, At
<1>. QED
  BY <1>1, WritingStep DEF JobRunning

LEMMA AfterCallbackStep ==
    ASSUME SequentialInv, SchedulerInv', NEW t \in Task,
           tasks[t].pc \in {"pull", "pulled"},
           tasks' = [tasks EXCEPT ![t] = AfterCallback(tasks[t])],
           UNCHANGED <<now, record, schedulerVars, callVars, queueVars>>
    PROVE  SequentialInv'
<1>1. CASE tasks[t].fn = "pay"
  BY <1>1, EndStep DEF AfterCallback, queueVars
<1>2. CASE tasks[t].fn # "pay"
  BY <1>2, ReadingStep DEF AfterCallback
<1>. QED
  BY <1>1, <1>2

LEMMA CallbackPullStep ==
    ASSUME SequentialInv, SchedulerInv', NEW t \in Task,
           CallbackPull(t) \/ CallbackReturn(t) \/ CallbackReject(t)
    PROVE  SequentialInv'
<1>1. CASE CallbackReject(t)
  <2>1. tasks[t].pc = "pull" /\ UNCHANGED <<executionQueue, isExecuting>>
    BY <1>1 DEF CallbackReject, At, Throw, queueVars
  <2>. QED
    BY <1>1, <2>1, EndStep DEF CallbackReject
<1>2. CASE CallbackReturn(t)
  BY <1>2, AfterCallbackStep DEF CallbackReturn, At
<1>3. CASE CallbackPull(t)
  <2> DEFINE w == Executed(tasks[t].id, tasks[t].view)
  <2>1. tasks[t].pc = "pull"
    BY <1>3 DEF CallbackPull, At
  <2>2. CASE tasks' = [tasks EXCEPT ![t] = AfterCallback(tasks[t])]
    BY <1>3, <2>1, <2>2, AfterCallbackStep DEF CallbackPull
  <2>3. CASE tasks' = [tasks EXCEPT ![t] = Recorded(tasks[t], w)]
    <3>1. TaskInv(t) /\ tasks[t].fn \in Executor /\ tasks[t].view \in Record
      BY <2>1, Acting, IdleFacts DEF Shaped, Executor, TaskState
    <3>2. w.status # "stopped"
      BY <3>1 DEF TaskInv, TaskStatus, Executed, Record
    <3> DEFINE s == IF AwaitCallback THEN "keep" ELSE w.status
    <3>3. s # "stopped"
      BY <3>2
    <3>4. tasks' = [tasks EXCEPT ![t] = Writing(tasks[t], w, s, "pulled")]
      BY <2>3 DEF Recorded
    <3> HIDE DEF w, s
    <3>. QED
      BY <1>3, <2>1, <3>2, <3>3, <3>4, WritingStep DEF CallbackPull
  <2>. QED
    BY <1>3, <2>2, <2>3 DEF CallbackPull
<1>. QED
  BY <1>1, <1>2, <1>3
-----------------------------------------------------------------------------
(* The calls of the API, and their steps while they are alone.              *)

LEMMA SoloStep ==
    ASSUME SchedulerInv', TimersOK', CountsOK', EntriesOK',
           NEW t \in Task, TaskInv(t)',
           \A u \in Task \ {t} : tasks'[u] = Idle
    PROVE  SequentialInv'
<1>1. ASSUME NEW u \in Task \ {t} PROVE TaskInv(u)'
  BY <1>1, IdleFacts DEF TaskInv, TaskAlone, TaskStatus, TaskToken, Executor
<1>. QED
  BY <1>1 DEF SequentialInv

\* The record, the timers and the queue are left alone, and no execution runs.
LEMMA EntriesKept ==
    ASSUME SequentialInv, UNCHANGED <<executionQueue, isExecuting, record>>,
           \A u \in Task : tasks'[u].fn # "queue"
    PROVE  EntriesOK'
BY DEF SequentialInv, EntriesOK, Stuck, IsStopped

LEMMA CallStep ==
    ASSUME SequentialInv, SchedulerInv', Quiescent, NEW t \in Task,
           NEW id \in PullPaymentID,
           CallStart(id, t) \/ CallStop(id, t) \/ CallRestart(id, t)
    PROVE  SequentialInv'
<1>1. /\ \A u \in Task : tasks[u] = Idle
      /\ Ahead
      /\ executionQueue = <<>> \/ isExecuting
  BY DEF Quiescent, Ahead
<1>2. /\ TimersOK /\ CountsOK /\ TypeOK /\ started \subseteq PullPaymentID
      /\ jobs \in [PullPaymentID -> Nat] /\ stops \in Nat
  BY DEF SequentialInv, SchedulerInv, TypeOK
<1>3. UNCHANGED <<now, record, schedulerVars, stopped, queueVars>>
  BY DEF CallStart, CallStop, CallRestart
<1>4. PICK fn, pc, arg :
         /\ tasks' = [tasks EXCEPT ![t] = Call(fn, id, pc, arg)]
         /\ \/ /\ fn = "start" /\ pc = "adjust" /\ id \notin started
               /\ started' = started \cup {id} /\ stops' = stops
            \/ /\ fn = "stop" /\ pc = "cancel"
               /\ started' = started /\ stops' = stops + 1
            \/ /\ fn = "restart" /\ pc = "check"
               /\ started' = started /\ stops' = stops
  BY DEF CallStart, CallStop, CallRestart
<1> DEFINE c == Call(fn, id, pc, arg)
<1>5. /\ c.fn = fn /\ c.id = id /\ c.pc = pc /\ c.db = "read" /\ c.put = "keep"
  BY CallFacts
<1>6. tasks'[t] = c /\ \A u \in Task \ {t} : tasks'[u] = Idle
  BY <1>1, <1>2, <1>4 DEF TypeOK
<1> HIDE DEF c
<1>7. TimersOK'
  BY <1>2, <1>3, <1>4 DEF TimersOK, OneTimer, IsStopped, schedulerVars
<1>8. CountsOK'
  BY <1>2, <1>3, <1>4 DEF CountsOK, IsStopped, schedulerVars
<1>9. EntriesOK'
  <2>1. fn # "queue"
    BY <1>4
  <2>. QED
    BY <1>3, <1>5, <1>6, <2>1, EntriesKept, IdleFacts DEF queueVars
<1>10. TaskInv(t)'
  <2>1. Shaped(c)
    BY <1>4, <1>5 DEF Shaped
  <2>2. TaskAlone(t)'
    BY <1>1, <1>3, <1>6, IdleFacts DEF TaskAlone, Ahead, schedulerVars, queueVars
  <2>3. TaskStatus(t)'
    <3>1. fn \notin Executor
      BY <1>4 DEF Executor
    <3>2. ~Idling(c) => fn = "start"
      BY <1>4, <1>5 DEF Idling
    <3>3. fn = "start" => record[id].status # "stopped"
      BY <1>2, <1>4 DEF CountsOK, IsStopped
    <3>. QED
      BY <1>3, <1>5, <1>6, <3>1, <3>2, <3>3 DEF TaskStatus, IsStopped
  <2>4. TaskToken(t)'
    <3>1. Maker(c) => fn = "start"
      BY <1>4, <1>5 DEF Maker, Past
    <3>2. Past(c) \/ Stopping(c, buffer) => fn = "stop"
      BY <1>4, <1>5 DEF Past, Stopping
    <3>3. fn = "stop" => jobs[id] <= stops'
      BY <1>2, <1>4 DEF CountsOK
    <3>4. fn = "start" => /\ id \in started' \ stopped
                          /\ \A m \in timers : m.id # id
                          /\ jobs[id] = 0
      BY <1>2, <1>4 DEF CountsOK, TimersOK
    <3>5. ~(fn = "stop" /\ pc = "end")
      BY <1>4
    <3>6. \A u \in Task \ {t} : ~Maker(tasks'[u])
      BY <1>6, IdleFacts
    <3>. QED
      BY <1>3, <1>5, <1>6, <3>1, <3>2, <3>3, <3>4, <3>5, <3>6
         DEF TaskToken, NoTimer, schedulerVars
  <2>. QED
    BY <1>6, <2>1, <2>2, <2>3, <2>4 DEF TaskInv
<1>. QED
  BY <1>6, <1>7, <1>8, <1>9, <1>10, SoloStep

\* stop() does not find its scheduler, or cancels its timer.
LEMMA StopCancelStep ==
    ASSUME SequentialInv, SchedulerInv', NEW t \in Task, StopCancel(t)
    PROVE  SequentialInv'
<1> DEFINE id == tasks[t].id
           c == Writing(tasks[t], tasks[t].view, "stopped", "end")
<1>1. /\ tasks[t] \in TaskState /\ Shaped(tasks[t]) /\ tasks[t] # Idle /\ TaskInv(t)
      /\ id \in PullPaymentID /\ tasks[t].pc = "cancel"
  <2>1. tasks[t].pc = "cancel"
    BY DEF StopCancel, At
  <2>. QED
    BY <2>1, Acting
<1>2. tasks[t].fn = "stop"
  BY <1>1, IdleFacts DEF Shaped
<1>3. CASE id \notin buffer
  BY <1>1, <1>3, EndStep DEF StopCancel, schedulerVars, queueVars
<1>4. CASE id \in buffer
  <2>1. /\ timers' = AfterCancel(id)
        /\ interval' = [interval EXCEPT ![id] = 0]
        /\ tasks' = [tasks EXCEPT ![t] = c]
        /\ UNCHANGED <<now, record, buffer, schedule, jobs, callVars, queueVars>>
    BY <1>4 DEF StopCancel
  <2>2. /\ c.fn = "stop" /\ c.id = id /\ c.pc = "end" /\ c.put = "stopped"
    BY <1>1, <1>2, WritingFacts
  <2> HIDE DEF c
  <2>3. Alone(tasks[t], buffer)
    BY <1>2, <1>4 DEF Alone, Stopping
  <2>4. /\ \A u \in Task \ {t} : tasks[u] = Idle
        /\ Ahead
        /\ executionQueue = <<>> \/ isExecuting
    BY <1>1, <2>3 DEF TaskInv, TaskAlone
  <2>5. /\ TimersOK /\ CountsOK /\ TypeOK /\ tasks \in [Task -> TaskState]
        /\ interval \in [PullPaymentID -> Nat] /\ timers \subseteq Timer
    BY DEF SequentialInv, SchedulerInv, TypeOK
  <2>6. tasks'[t] = c /\ \A u \in Task \ {t} : tasks'[u] = Idle
    BY <2>1, <2>4, <2>5
  <2>7. timers' \subseteq timers /\ \A m \in timers' : m.id # id
    <3>1. ASSUME NEW m \in timers, m.id = id PROVE m \notin AfterCancel(id)
      BY <2>5, <3>1 DEF TimersOK, AfterCancel, Timer
    <3>. QED
      BY <2>1, <3>1 DEF AfterCancel
  <2>8. TimersOK'
    BY <2>1, <2>5, <2>7 DEF TimersOK, OneTimer, IsStopped, Timer, callVars
  <2>9. CountsOK'
    BY <2>1, <2>5 DEF CountsOK, IsStopped, callVars
  <2>10. EntriesOK'
    BY <2>1, <2>2, <2>6, EntriesKept, IdleFacts DEF queueVars
  <2>11. TaskInv(t)'
    <3>1. Shaped(c)
      BY <2>2 DEF Shaped
    <3>2. TaskAlone(t)'
      BY <2>1, <2>4, <2>6, <2>7, IdleFacts DEF TaskAlone, Ahead, queueVars
    <3>3. TaskStatus(t)'
      BY <2>2, <2>6 DEF TaskStatus, Executor, Idling
    <3>4. TaskToken(t)'
      <4>1. id \in started /\ jobs[id] <= stops
        BY <1>1, <1>2, <1>4, <2>5 DEF TaskInv, TaskToken, Stopping, CountsOK
      <4>2. ~Maker(c)
        BY <2>2 DEF Maker, Past
      <4>3. ~Past(c)
        BY <2>2 DEF Past
      <4>. QED
        BY <2>1, <2>2, <2>6, <2>7, <4>1, <4>2, <4>3 DEF TaskToken, NoTimer, callVars
    <3>. QED
      BY <2>6, <3>1, <3>2, <3>3, <3>4 DEF TaskInv
  <2>. QED
    BY <2>6, <2>8, <2>9, <2>10, <2>11, SoloStep
<1>. QED
  BY <1>3, <1>4
\* What a task that is alone knows.
LEMMA AloneFacts ==
    ASSUME SequentialInv, NEW t \in Task, Alone(tasks[t], buffer)
    PROVE  /\ \A u \in Task \ {t} : tasks[u] = Idle
           /\ Ahead
           /\ executionQueue = <<>> \/ isExecuting
           /\ tasks[t].pc # "none" /\ tasks[t] \in TaskState
           /\ tasks[t].id \in PullPaymentID /\ TaskInv(t)
           /\ TimersOK /\ CountsOK /\ TypeOK
<1>1. TaskInv(t) /\ TimersOK /\ CountsOK /\ TypeOK
  BY DEF SequentialInv, SchedulerInv
<1>2. tasks[t].pc # "none"
  <2>1. tasks[t] # Idle
    BY IdleFacts
  <2>. QED
    BY <2>1 DEF SequentialInv, SchedulerInv, TasksGood, Good, WellFormed
<1>. QED
  BY <1>1, <1>2, Acting DEF TaskInv, TaskAlone

(* stop() writes "stopped": no timer of the pull payment is left, and       *)
(* nothing else is in progress.                                             *)
LEMMA StopWriteStep ==
    ASSUME SequentialInv, SchedulerInv', NEW t \in Task, DbWrite(t),
           tasks[t].fn = "stop"
    PROVE  SequentialInv'
<1> DEFINE id == tasks[t].id
           c == [tasks[t] EXCEPT !.db = "none"]
<1>1. tasks[t].pc = "end"
  <2>1. tasks[t].db = "write" /\ TaskInv(t)
    BY DEF DbWrite, SequentialInv
  <2>. QED
    BY <2>1, IdleFacts DEF TaskInv, Shaped
<1>2. Stopping(tasks[t], buffer) /\ Alone(tasks[t], buffer)
  BY <1>1 DEF Alone, Stopping
<1>3. /\ \A u \in Task \ {t} : tasks[u] = Idle
      /\ Ahead
      /\ executionQueue = <<>> \/ isExecuting
      /\ tasks[t] \in TaskState /\ id \in PullPaymentID /\ TaskInv(t)
      /\ TimersOK /\ CountsOK /\ TypeOK
  BY <1>2, AloneFacts
<1>4. id \in started /\ NoTimer(id) /\ jobs[id] <= stops
  BY <1>1, <1>2, <1>3 DEF TaskInv, TaskToken
<1>5. /\ c.fn = "stop" /\ c.id = id /\ c.pc = "end" /\ c.put = tasks[t].put
      /\ c.db = "none"
  BY <1>1, <1>3 DEF TaskState
<1> HIDE DEF c
<1>6. tasks'[t] = c /\ \A u \in Task \ {t} : tasks'[u] = Idle
  BY <1>3 DEF DbWrite, TypeOK, c
<1>7. \A p \in PullPaymentID : p # id => record'[p] = record[p]
  BY <1>3 DEF DbWrite, TypeOK
<1>8. UNCHANGED <<now, schedulerVars, callVars, queueVars>>
  BY DEF DbWrite
<1>9. timers \subseteq Timer
  BY <1>3 DEF TypeOK
<1>10. TimersOK'
  BY <1>3, <1>4, <1>7, <1>8, <1>9 DEF TimersOK, OneTimer, NoTimer, IsStopped, Timer,
     schedulerVars, callVars
<1>11. CountsOK'
  BY <1>3, <1>4, <1>7, <1>8 DEF CountsOK, IsStopped, schedulerVars, callVars
<1>12. EntriesOK'
  <2>1. \A u \in Task : tasks'[u].fn # "queue"
    BY <1>5, <1>6, IdleFacts
  <2>2. executionQueue = <<>> => DOMAIN executionQueue = {}
    OBVIOUS
  <2>. QED
    BY <1>3, <1>8, <2>1, <2>2 DEF EntriesOK, Stuck, queueVars
<1>13. TaskInv(t)'
  <2>1. Shaped(c)
    BY <1>3, <1>5, IdleFacts DEF TaskInv, Shaped
  <2>2. TaskAlone(t)'
    BY <1>3, <1>6, <1>8, IdleFacts DEF TaskAlone, Ahead, schedulerVars, queueVars
  <2>3. TaskStatus(t)'
    BY <1>5, <1>6 DEF TaskStatus, Executor, Idling
  <2>4. TaskToken(t)'
    <3>1. ~Maker(c) /\ ~Past(c)
      BY <1>5 DEF Maker, Past
    <3>. QED
      BY <1>4, <1>5, <1>6, <1>8, <3>1 DEF TaskToken, NoTimer, schedulerVars, callVars
  <2>. QED
    BY <1>6, <2>1, <2>2, <2>3, <2>4 DEF TaskInv
<1>. QED
  BY <1>6, <1>10, <1>11, <1>12, <1>13, SoloStep

LEMMA StopReturnStep ==
    ASSUME SequentialInv, SchedulerInv', NEW t \in Task, StopReturn(t)
    PROVE  SequentialInv'
<1> DEFINE id == tasks[t].id
<1>1. tasks[t].pc = "end" /\ tasks[t].fn = "stop"
  BY DEF StopReturn, At
<1>2. Alone(tasks[t], buffer)
  BY <1>1 DEF Alone, Stopping
<1>3. /\ \A u \in Task \ {t} : tasks[u] = Idle
      /\ TaskInv(t) /\ TimersOK /\ CountsOK /\ TypeOK
  BY <1>2, AloneFacts
<1>4. id \in started /\ NoTimer(id)
  BY <1>1, <1>3 DEF TaskInv, TaskToken
<1>5. \A u \in Task : tasks'[u] = Idle
  BY <1>3 DEF StopReturn, TypeOK
<1>6. /\ stopped' = stopped \cup {id}
      /\ UNCHANGED <<now, record, schedulerVars, started, stops, queueVars>>
  BY DEF StopReturn
<1>7. TimersOK'
  BY <1>3, <1>4, <1>6 DEF TimersOK, OneTimer, NoTimer, IsStopped, schedulerVars
<1>8. CountsOK'
  BY <1>3, <1>4, <1>6 DEF CountsOK, IsStopped, schedulerVars
<1>9. EntriesOK'
  BY <1>5, <1>6, EntriesKept, IdleFacts DEF queueVars
<1>10. TaskInv(t)'
  BY <1>5, IdleFacts DEF TaskInv, TaskAlone, TaskStatus, TaskToken, Executor
<1>. QED
  BY <1>5, <1>7, <1>8, <1>9, <1>10, SoloStep

(* restart() goes past its check only over a record that says "stopped", so *)
(* when the pull payment has neither a timer nor another maker.             *)
LEMMA RestartCheckStep ==
    ASSUME SequentialInv, SchedulerInv', NEW t \in Task, RestartCheck(t)
    PROVE  SequentialInv'
<1> DEFINE id == tasks[t].id
           c == Writing(tasks[t], tasks[t].view, "initial", "queue")
<1>1. tasks[t].pc = "check" /\ tasks[t].db = "none"
  BY DEF RestartCheck, At
<1>2. tasks[t].fn = "restart"
  BY <1>1, IdleFacts DEF SequentialInv, TaskInv, Shaped
<1>3. Alone(tasks[t], buffer)
  BY <1>1, <1>2 DEF Alone, Early
<1>4. /\ \A u \in Task \ {t} : tasks[u] = Idle
      /\ Ahead
      /\ executionQueue = <<>> \/ isExecuting
      /\ tasks[t] \in TaskState /\ id \in PullPaymentID /\ TaskInv(t)
      /\ TimersOK /\ CountsOK /\ TypeOK
  BY <1>3, AloneFacts
<1>5. CASE ~MayRestart(t)
  BY <1>1, <1>5, LocalStep DEF RestartCheck, queueVars
<1>6. CASE MayRestart(t)
  <2>1. IsStopped(id)
    BY <1>1, <1>2, <1>4, <1>6 DEF MayRestart, TaskInv, TaskStatus, IsStopped
  <2>2. /\ stopped' = stopped \ {id}
        /\ tasks' = [tasks EXCEPT ![t] = c]
        /\ UNCHANGED <<now, record, buffer, schedule, interval, jobs, timers,
                       started, stops, queueVars>>
    BY <1>6 DEF RestartCheck
  <2>3. /\ c.fn = "restart" /\ c.id = id /\ c.pc = "queue" /\ c.put = "initial"
        /\ c.db = "write"
    BY <1>2, <1>4, WritingFacts
  <2> HIDE DEF c
  <2>4. tasks'[t] = c /\ \A u \in Task \ {t} : tasks'[u] = Idle
    BY <1>4, <2>2 DEF TypeOK
  <2>5. NoTimer(id) /\ id \in started /\ jobs[id] <= stops
    BY <1>4, <2>1 DEF TimersOK, CountsOK, NoTimer
  <2>6. TimersOK'
    BY <1>4, <2>2 DEF TimersOK, OneTimer, IsStopped
  <2>7. CountsOK'
    BY <1>4, <2>2 DEF CountsOK, IsStopped
  <2>8. EntriesOK'
    BY <2>2, <2>3, <2>4, EntriesKept, IdleFacts DEF queueVars
  <2>9. TaskInv(t)'
    <3>1. Shaped(c) /\ Idling(c)
      BY <2>3 DEF Shaped, Idling
    <3>2. TaskAlone(t)'
      BY <1>4, <2>2, <2>4, IdleFacts DEF TaskAlone, Ahead, queueVars
    <3>3. TaskStatus(t)'
      BY <2>3, <2>4, <3>1 DEF TaskStatus, Executor
    <3>4. TaskToken(t)'
      <4>1. \A u \in Task \ {t} : ~Maker(tasks'[u])
        BY <2>4, IdleFacts
      <4>. QED
        BY <2>2, <2>3, <2>4, <2>5, <4>1 DEF TaskToken, NoTimer
    <3>. QED
      BY <2>4, <3>1, <3>2, <3>3, <3>4 DEF TaskInv
  <2>. QED
    BY <2>4, <2>6, <2>7, <2>8, <2>9, SoloStep
<1>. QED
  BY <1>5, <1>6
-----------------------------------------------------------------------------
(* A maker ends: it has made a timer, or none if the date has passed.       *)

LEMMA NewTimer ==
    ASSUME SequentialInv, SchedulerInv', NEW t \in Task,
           Maker(tasks[t]), ~Idling(tasks[t]),
           NEW id, id = tasks[t].id,
           tasks' = [tasks EXCEPT ![t] = Idle],
           NEW m, timers \subseteq timers', timers' \subseteq timers \cup {m},
           m.id = id, m.at > now,
           m \in timers' => m.number = IF m.kind = "job" THEN schedule'[id]
                                                       ELSE interval'[id],
           \A p \in PullPaymentID \ {id} : /\ schedule'[p] = schedule[p]
                                           /\ interval'[p] = interval[p]
                                           /\ jobs'[p] = jobs[p],
           jobs'[id] <= 1 + stops,
           buffer' = buffer \/ (tasks[t].fn = "start" /\ buffer' = buffer \cup {id}),
           UNCHANGED <<now, record, started, stops, stopped, executionQueue,
                       isExecuting>>
    PROVE  SequentialInv'
<1>1. /\ tasks[t].pc # "none" /\ tasks[t] # Idle /\ TaskInv(t) /\ id \in PullPaymentID
      /\ tasks'[t] = Idle /\ \A u \in Task \ {t} : tasks'[u] = tasks[u]
  <2>1. tasks[t] # Idle
    BY IdleFacts
  <2>2. tasks[t].pc # "none"
    BY <2>1 DEF SequentialInv, SchedulerInv, TasksGood, Good, WellFormed
  <2>. QED
    BY <2>1, <2>2, Acting
<1>2. /\ TimersOK /\ CountsOK /\ EntriesOK /\ TypeOK /\ timers \subseteq Timer
      /\ started \subseteq PullPaymentID
  BY DEF SequentialInv, SchedulerInv, TypeOK
<1>3. /\ ~IsStopped(id) /\ id \in started /\ id \notin stopped /\ NoTimer(id)
      /\ \A u \in Task \ {t} : Maker(tasks[u]) => tasks[u].id # id
  BY <1>1 DEF TaskInv, TaskStatus, TaskToken
<1>4. TimersOK'
  <2>1. \A w \in timers' : \/ w \in timers /\ w.id # id /\ w.id \in PullPaymentID
                           \/ w = m
    BY <1>2, <1>3 DEF NoTimer, Timer
  <2>2. OneTimer'
    BY <1>2, <2>1 DEF TimersOK, OneTimer
  <2>. QED
    BY <1>2, <1>3, <2>1, <2>2 DEF TimersOK, IsStopped
<1>5. CountsOK'
  BY <1>1, <1>2, <1>3 DEF CountsOK, IsStopped
<1>6. EntriesOK'
  <2>1. Stuck => Stuck'
    BY <1>1, IdleFacts DEF Stuck
  <2>. QED
    BY <1>2, <2>1 DEF EntriesOK, IsStopped
<1>7. TaskInv(t)'
  BY <1>1, IdleFacts DEF TaskInv, TaskAlone, TaskStatus, TaskToken, Executor
<1>8. ASSUME NEW u \in Task \ {t} PROVE TaskInv(u)'
  <2>1. /\ tasks'[u] = tasks[u] /\ TaskInv(u) /\ Shaped(tasks[u])
        /\ ~Alone(tasks[u], buffer)
    BY <1>1, OnlyMe DEF SequentialInv, TaskInv
  <2>2. ~Late(tasks[u])
    <3>1. ~Bystander(tasks[t], buffer)
      BY DEF Bystander, Maker, Past
    <3>. QED
      BY <2>1, <3>1 DEF TaskInv, TaskAlone
  <2>3. ~Past(tasks[u])
    BY <2>1, <2>2, IdleFacts DEF Shaped, Past, Late, Alone, Early
  <2>4. ~Alone(tasks[u], buffer')
    <3>1. CASE buffer' = buffer
      BY <2>1, <3>1
    <3>2. CASE tasks[t].fn = "start"
      <4>1. Alone(tasks[t], buffer)
        BY <3>2 DEF Alone
      <4>2. tasks[u] = Idle
        BY <4>1, AloneFacts
      <4>. QED
        BY <4>2, IdleFacts
    <3>. QED
      BY <3>1, <3>2
  <2>5. TaskAlone(u)'
    BY <2>1, <2>2, <2>4 DEF TaskAlone
  <2>6. TaskStatus(u)'
    BY <2>1 DEF TaskInv, TaskStatus, IsStopped
  <2>7. TaskToken(u)'
    <3>1. /\ tasks[u].fn # "start" /\ ~Stopping(tasks[u], buffer')
          /\ ~(tasks[u].fn = "stop" /\ tasks[u].pc = "end")
      BY <2>4 DEF Alone, Stopping
    <3>2. Maker(tasks[u]) =>
             /\ tasks[u].id \in started \ stopped
             /\ \A w \in timers' : w.id # tasks[u].id
             /\ \A v \in Task \ {u} : Maker(tasks'[v]) => tasks'[v].id # tasks[u].id
      BY <1>1, <1>3, <2>1, IdleFacts DEF TaskInv, TaskToken, NoTimer
    <3>. QED
      BY <2>1, <2>3, <3>1, <3>2 DEF TaskToken, NoTimer
  <2>. QED
    BY <2>1, <2>5, <2>6, <2>7 DEF TaskInv
<1>. QED
  BY <1>4, <1>5, <1>6, <1>7, <1>8 DEF SequentialInv

\* The job that start() or restart() schedules at date at.
LEMMA ScheduleStep ==
    ASSUME SequentialInv, SchedulerInv', NEW t \in Task, NEW at,
           tasks[t].pc = "schedule",
           NEW id, id = tasks[t].id, ScheduleJob(id, at),
           tasks' = [tasks EXCEPT ![t] = Idle],
           buffer' = buffer \/ (tasks[t].fn = "start" /\ buffer' = buffer \cup {id}),
           UNCHANGED <<now, record, interval, callVars, queueVars>>
    PROVE  SequentialInv'
<1> DEFINE n == jobs[id] + 1
           m == [kind |-> "job", id |-> id, number |-> n,
                 at |-> IF at > now THEN at ELSE now + 1]
<1>1. /\ TaskInv(t) /\ Shaped(tasks[t]) /\ id \in PullPaymentID /\ TypeOK /\ CountsOK
      /\ schedule \in [PullPaymentID -> Nat] /\ jobs \in [PullPaymentID -> Nat]
      /\ now \in Nat /\ stops \in Nat
  BY Acting DEF SequentialInv, SchedulerInv, TypeOK
<1>2. tasks[t].fn = "start" \/ (tasks[t].fn = "restart" /\ Past(tasks[t]))
  BY <1>1, IdleFacts DEF Shaped, Past
<1>3. Maker(tasks[t]) /\ ~Idling(tasks[t])
  BY <1>2 DEF Maker, Idling
<1>4. jobs[id] <= stops
  BY <1>1, <1>2 DEF TaskInv, TaskToken
<1>5. /\ jobs' = [jobs EXCEPT ![id] = n]
      /\ schedule' = [schedule EXCEPT ![id] = IF at > now THEN n ELSE 0]
      /\ timers' = IF at > now THEN timers \cup {m} ELSE timers
  BY DEF ScheduleJob
<1>6. jobs'[id] <= 1 + stops
  BY <1>1, <1>4, <1>5
<1>7. m.id = id /\ m.at > now /\ m.kind = "job" /\ m.number = n
  BY <1>1
<1>8. m \notin timers
  BY <1>1, <1>3, <1>7 DEF TaskInv, TaskToken, NoTimer
<1> HIDE DEF m
<1>9. m \in timers' => m.number = IF m.kind = "job" THEN schedule'[id] ELSE interval'[id]
  BY <1>1, <1>5, <1>7, <1>8
<1>10. timers \subseteq timers' /\ timers' \subseteq timers \cup {m}
  BY <1>5
<1>11. \A p \in PullPaymentID \ {id} : /\ schedule'[p] = schedule[p]
                                       /\ interval'[p] = interval[p]
                                       /\ jobs'[p] = jobs[p]
  BY <1>1, <1>5
<1>. QED
  BY <1>3, <1>6, <1>7, <1>9, <1>10, <1>11, NewTimer DEF callVars, queueVars

LEMMA StartScheduleStep ==
    ASSUME SequentialInv, SchedulerInv', NEW t \in Task, StartSchedule(t)
    PROVE  SequentialInv'
BY ScheduleStep DEF StartSchedule, At

LEMMA RestartScheduleStep ==
    ASSUME SequentialInv, SchedulerInv', NEW t \in Task, RestartSchedule(t)
    PROVE  SequentialInv'
BY ScheduleStep DEF RestartSchedule, At

\* The caller of executeCallback() resumes.
LEMMA ReturnStep ==
    ASSUME SequentialInv, SchedulerInv', NEW t \in Task, tasks[t].pc # "none",
           ReturnToCaller(t)
    PROVE  SequentialInv'
<1> DEFINE id == tasks[t].id
<1>1. CASE tasks[t].fn # "job"
  <2>1. /\ UNCHANGED <<now, record, schedulerVars, callVars, executionQueue>>
        /\ tasks' = [tasks EXCEPT ![t] = Idle]
        /\ UNCHANGED isExecuting \/ tasks[t].fn = "queue"
    BY <1>1 DEF ReturnToCaller, Finish, schedulerVars, callVars, queueVars
  <2>. QED
    BY <2>1, EndStep
<1>2. CASE tasks[t].fn = "job"
  <2> DEFINE m == [kind |-> "interval", id |-> id, number |-> tasks[t].arg,
                   at |-> now + Frequency[id]]
  <2>1. /\ interval' = [interval EXCEPT ![id] = tasks[t].arg]
        /\ timers' = timers \cup {m}
        /\ tasks' = [tasks EXCEPT ![t] = Idle]
        /\ UNCHANGED <<now, record, buffer, schedule, jobs, callVars, queueVars>>
    BY <1>2 DEF ReturnToCaller, StartInterval
  <2>2. /\ TaskInv(t) /\ id \in PullPaymentID /\ TypeOK /\ CountsOK
        /\ interval \in [PullPaymentID -> Nat] /\ now \in Nat /\ jobs[id] <= 1 + stops
    BY Acting DEF SequentialInv, SchedulerInv, TypeOK, CountsOK
  <2>3. Maker(tasks[t]) /\ ~Idling(tasks[t])
    BY <1>2 DEF Maker, Idling
  <2>4. m.id = id /\ m.at > now /\ m.kind = "interval" /\ m.number = tasks[t].arg
    BY <2>2, SchedulerAssumption
  <2> HIDE DEF m
  <2>5. /\ m.number = IF m.kind = "job" THEN schedule'[id] ELSE interval'[id]
        /\ jobs'[id] <= 1 + stops
        /\ timers \subseteq timers' /\ timers' \subseteq timers \cup {m}
        /\ \A p \in PullPaymentID \ {id} : /\ schedule'[p] = schedule[p]
                                            /\ interval'[p] = interval[p]
                                            /\ jobs'[p] = jobs[p]
    BY <2>1, <2>2, <2>4
  <2>. QED
    BY <2>1, <2>3, <2>4, <2>5, NewTimer DEF callVars, queueVars
<1>. QED
  BY <1>1, <1>2
-----------------------------------------------------------------------------
(* A free slot gets a task that is no call of the API, while none is alone. *)

LEMMA NewTask ==
    ASSUME SequentialInv, SchedulerInv', NEW t \in Task, tasks[t] = Idle,
           \A u \in Task : ~Alone(tasks[u], buffer),
           \A u \in Task \ {t} : Follows(tasks'[u], tasks[u]) /\ TaskStatus(u)',
           Shaped(tasks'[t]), TaskStatus(t)',
           \/ tasks'[t].fn \in {"queue", "pay"}
           \/ /\ tasks'[t].fn = "stop" /\ tasks'[t].pc = "cancel"
              /\ tasks'[t].id \notin buffer'
           \/ /\ tasks'[t].fn = "tick"
              /\ \A u \in Task : ~Late(tasks[u])
           \/ /\ tasks'[t].fn = "job"
              /\ \A u \in Task : ~Late(tasks[u])
              /\ tasks'[t].id \in started \ stopped
              /\ \A m \in timers' : m.id # tasks'[t].id
              /\ \A u \in Task : Maker(tasks[u]) => tasks[u].id # tasks'[t].id,
           buffer' \subseteq buffer,
           \A m \in timers' : \E w \in timers : w.id = m.id,
           timers' \subseteq timers \/ \A u \in Task : ~Late(tasks[u]),
           TimersOK', EntriesOK',
           UNCHANGED <<now, record, jobs, started, stops, stopped>>
    PROVE  SequentialInv'
<1>1. /\ TimersOK /\ CountsOK /\ \A u \in Task : TaskInv(u) /\ Shaped(tasks[u])
  BY DEF SequentialInv, TaskInv
<1>2. CountsOK'
  BY <1>1 DEF CountsOK, IsStopped
<1> DEFINE c == tasks'[t]
<1>3. /\ ~Alone(c, buffer') /\ ~Late(c) /\ ~Past(c) /\ ~Stopping(c, buffer')
      /\ c.fn # "start" /\ ~(c.fn = "stop" /\ c.pc = "end")
      /\ Maker(c) => c.fn = "job"
  BY DEF Alone, Late, Past, Early, Stopping, Maker
<1>4. ASSUME NEW u \in Task \ {t}
      PROVE  /\ Shaped(tasks'[u])
             /\ Maker(tasks'[u]) => Maker(tasks[u]) /\ tasks'[u].id = tasks[u].id
             /\ Past(tasks'[u]) => Past(tasks[u]) /\ tasks'[u].id = tasks[u].id
             /\ Late(tasks'[u]) => Late(tasks[u]) /\ tasks'[u].id = tasks[u].id
             /\ ~Alone(tasks'[u], buffer')
             /\ Bystander(tasks[u], buffer) => Bystander(tasks'[u], buffer')
  <2>1. Follows(tasks'[u], tasks[u]) /\ Shaped(tasks[u])
    BY <1>1
  <2>2. /\ Alone(tasks'[u], buffer') => Alone(tasks'[u], buffer)
        /\ Bystander(tasks'[u], buffer) => Bystander(tasks'[u], buffer')
    BY DEF Alone, Bystander, Stopping
  <2>3. /\ Alone(tasks'[u], buffer) => Alone(tasks[u], buffer)
        /\ Bystander(tasks[u], buffer) => Bystander(tasks'[u], buffer)
    BY <2>1, FollowsFacts
  <2>. QED
    BY <2>1, <2>2, <2>3, FollowsFacts DEF Follows
<1>5. ASSUME NEW u \in Task, Late(tasks'[u]) PROVE TaskAlone(u)'
  <2>1. u # t /\ Late(tasks[u])
    BY <1>3, <1>4, <1>5
  <2>2. Ahead /\ \A w \in Task \ {u} : Bystander(tasks[w], buffer)
    BY <1>1, <2>1 DEF TaskInv, TaskAlone
  <2>3. Bystander(c, buffer')
    BY <1>3, <2>1 DEF Bystander
  <2>. QED
    BY <1>4, <2>1, <2>2, <2>3 DEF TaskAlone, Ahead
<1>6. ASSUME NEW u \in Task PROVE TaskAlone(u)'
  BY <1>3, <1>4, <1>5 DEF TaskAlone
<1>7. TaskToken(t)'
  <2>1. ASSUME c.fn = "job", NEW u \in Task \ {t}, Maker(tasks'[u]) PROVE tasks'[u].id # c.id
    BY <1>4, <2>1
  <2>. QED
    BY <1>3, <2>1 DEF TaskToken, NoTimer
<1>8. ASSUME NEW u \in Task \ {t} PROVE TaskToken(u)'
  <2>1. TaskToken(u)
    BY <1>1 DEF TaskInv
  <2>2. /\ tasks'[u].fn # "start" /\ ~Stopping(tasks'[u], buffer')
        /\ ~(tasks'[u].fn = "stop" /\ tasks'[u].pc = "end")
    BY <1>4 DEF Alone, Stopping
  <2>3. Past(tasks'[u]) => jobs[tasks'[u].id] <= stops
    BY <1>4, <2>1 DEF TaskToken
  <2>4. ASSUME Maker(tasks'[u])
        PROVE  /\ tasks'[u].id \in started \ stopped
               /\ \A m \in timers' : m.id # tasks'[u].id
               /\ \A w \in Task \ {u} : Maker(tasks'[w]) => tasks'[w].id # tasks'[u].id
    <3>1. Maker(tasks[u]) /\ tasks'[u].id = tasks[u].id
      BY <1>4, <2>4
    <3>2. ASSUME NEW w \in Task \ {u}, Maker(tasks'[w]) PROVE tasks'[w].id # tasks'[u].id
      <4>1. CASE w = t
        BY <1>3, <3>1, <3>2, <4>1
      <4>2. CASE w # t
        BY <1>4, <2>1, <3>1, <3>2, <4>2 DEF TaskToken
      <4>. QED
        BY <4>1, <4>2
    <3>. QED
      BY <2>1, <3>1, <3>2 DEF TaskToken, NoTimer
  <2>. QED
    BY <2>2, <2>3, <2>4 DEF TaskToken, NoTimer
<1>. QED
  BY <1>2, <1>4, <1>6, <1>7, <1>8 DEF SequentialInv, TaskInv

\* While a timer is due no call of the API is in progress.
LEMMA NoCallWhileDue ==
    ASSUME SequentialInv, NEW m \in timers, m.at <= now
    PROVE  \A u \in Task : ~Alone(tasks[u], buffer) /\ ~Late(tasks[u])
<1>1. ~Ahead
  BY DEF Ahead, SequentialInv, SchedulerInv, TypeOK, Timer
<1>. QED
  BY <1>1 DEF SequentialInv, TaskInv, TaskAlone

LEMMA FollowsSame ==
    ASSUME SequentialInv, NEW u \in Task, tasks'[u] = tasks[u]
    PROVE  /\ Follows(tasks'[u], tasks[u])
           /\ UNCHANGED record => TaskStatus(u)'
BY DEF SequentialInv, TaskInv, Follows, TaskStatus, IsStopped

LEMMA FireStep ==
    ASSUME SequentialInv, SchedulerInv', NEW t \in Task, Fire(t)
    PROVE  SequentialInv'
<1>1. PICK m \in timers : FireJob(m, t) \/ FireInterval(m, t)
  BY DEF Fire
<1>2. m.at <= now /\ tasks[t] = Idle
  BY <1>1 DEF FireJob, FireInterval, IsFree
<1>3. \A u \in Task : ~Alone(tasks[u], buffer) /\ ~Late(tasks[u])
  BY <1>2, NoCallWhileDue
<1>4. /\ TimersOK /\ EntriesOK /\ TypeOK /\ timers \subseteq Timer
      /\ m.id \in PullPaymentID /\ now \in Nat
      /\ \A u \in Task : TaskInv(u)
  BY DEF SequentialInv, SchedulerInv, TypeOK, Timer
<1>5. UNCHANGED <<now, record, buffer, schedule, interval, restarting, jobs,
                  callVars, queueVars>>
  BY <1>1 DEF FireJob, FireInterval
<1>6. PICK fn, pc, arg :
         /\ tasks' = [tasks EXCEPT ![t] = Call(fn, m.id, pc, arg)]
         /\ \/ /\ fn = "job" /\ pc = "running" /\ timers' = timers \ {m}
            \/ /\ fn = "tick" /\ pc = "due"
               /\ timers' = (timers \ {m})
                               \cup {[m EXCEPT !.at = now + Frequency[m.id]]}
  BY <1>1 DEF FireJob, FireInterval
<1> DEFINE c == Call(fn, m.id, pc, arg)
           next == [m EXCEPT !.at = now + Frequency[m.id]]
<1>7. /\ c.fn = fn /\ c.id = m.id /\ c.pc = pc /\ c.db = "read" /\ c.put = "keep"
      /\ c.view.status = "initial"
  BY CallFacts
<1>8. tasks'[t] = c /\ \A u \in Task \ {t} : tasks'[u] = tasks[u]
  BY <1>4, <1>6 DEF TypeOK
<1>9. next.id = m.id /\ next.kind = m.kind /\ next.number = m.number
  BY <1>4 DEF Timer
<1> HIDE DEF c, next
<1>10. \A w \in timers' : w \in timers \ {m} \/ (w = next /\ fn = "tick")
  BY <1>6 DEF next
<1>11. /\ ~IsStopped(m.id) /\ m.id \in started \ stopped
       /\ \A w \in timers \ {m} : w.id # m.id
       /\ \A u \in Task : Maker(tasks[u]) => tasks[u].id # m.id
  BY <1>4 DEF TimersOK, OneTimer, TaskInv, TaskToken, NoTimer
<1>12. TimersOK'
  <2>1. OneTimer'
    BY <1>4, <1>9, <1>10, <1>11 DEF TimersOK, OneTimer
  <2>. QED
    BY <1>4, <1>5, <1>9, <1>10, <2>1 DEF TimersOK, IsStopped, callVars
<1>13. EntriesOK'
  <2>1. fn # "queue"
    BY <1>6
  <2>2. Stuck => Stuck'
    BY <1>5, <1>7, <1>8, <2>1 DEF Stuck, queueVars
  <2>. QED
    BY <1>4, <1>5, <2>2 DEF EntriesOK, IsStopped, queueVars
<1>14. Shaped(c)
  BY <1>6, <1>7 DEF Shaped
<1>15. TaskStatus(t)'
  BY <1>5, <1>7, <1>8, <1>11 DEF TaskStatus, IsStopped
<1>16. \A u \in Task \ {t} : Follows(tasks'[u], tasks[u]) /\ TaskStatus(u)'
  BY <1>5, <1>8, FollowsSame
<1>17. \A w \in timers' : \E v \in timers : v.id = w.id
  BY <1>9, <1>10
<1>18. \/ c.fn = "tick"
       \/ /\ c.fn = "job" /\ c.id \in started \ stopped
          /\ \A w \in timers' : w.id # c.id
          /\ \A u \in Task : Maker(tasks[u]) => tasks[u].id # c.id
  BY <1>6, <1>7, <1>10, <1>11
<1>. QED
  BY <1>2, <1>3, <1>5, <1>8, <1>12, <1>13, <1>14, <1>15, <1>16, <1>17, <1>18, NewTask
     DEF callVars
-----------------------------------------------------------------------------
(* The queue.                                                               *)

LEMMA FireDripStep ==
    ASSUME SequentialInv, SchedulerInv', FireDrip
    PROVE  SequentialInv'
<1>1. /\ TimersOK /\ CountsOK /\ EntriesOK /\ TypeOK
      /\ executionQueue \in Seq(PullPaymentID)
      /\ \A u \in Task : TaskInv(u)
  BY DEF SequentialInv, SchedulerInv, TypeOK, QueueTypeOK
<1>2. /\ ~isExecuting /\ executionQueue # <<>>
      /\ isExecuting' = TRUE /\ executionQueue' = Tail(executionQueue)
      /\ running' = NoID \/ running' = Head(executionQueue)
      /\ UNCHANGED <<now, record, paid, schedulerVars, callVars>>
      /\ WithQueueTask(tasks)
  BY DEF FireDrip, Drip, Execute
<1>3. \A u \in Task : ~Alone(tasks[u], buffer)
  BY <1>1, <1>2 DEF TaskInv, TaskAlone
<1>4. \A i \in DOMAIN executionQueue : ~IsStopped(executionQueue[i])
  BY <1>1, <1>2 DEF EntriesOK, Stuck
<1>5. TimersOK' /\ CountsOK'
  BY <1>1, <1>2 DEF TimersOK, CountsOK, OneTimer, IsStopped, schedulerVars, callVars
<1>6. EntriesOK'
  <2>1. \A i \in DOMAIN Tail(executionQueue) :
           i + 1 \in DOMAIN executionQueue /\ Tail(executionQueue)[i] = executionQueue[i + 1]
    BY <1>1, <1>2
  <2>. QED
    BY <1>2, <1>4, <2>1 DEF EntriesOK, IsStopped
<1>7. CASE tasks' = tasks
  <2>1. ASSUME NEW u \in Task PROVE TaskInv(u)'
    <3>1. TaskInv(u)
      BY <1>1
    <3>2. TaskAlone(u)'
      BY <1>2, <1>3, <1>7, <3>1 DEF TaskInv, TaskAlone, Ahead, schedulerVars
    <3>3. TaskStatus(u)' /\ TaskToken(u)'
      BY <1>2, <1>7, <3>1 DEF TaskInv, TaskStatus, TaskToken, NoTimer, IsStopped,
         schedulerVars, callVars
    <3>. QED
      BY <1>7, <3>1, <3>2, <3>3 DEF TaskInv
  <2>. QED
    BY <1>5, <1>6, <2>1 DEF SequentialInv
<1>8. CASE tasks' # tasks
  <2> DEFINE c == Call("queue", running', "due", 0)
  <2>1. PICK t \in Task : tasks[t] = Idle /\ tasks' = [tasks EXCEPT ![t] = c]
    BY <1>2, <1>8 DEF WithQueueTask, IsFree
  <2>2. running' # NoID
    BY <1>2, <1>8 DEF WithQueueTask
  <2>3. /\ c.fn = "queue" /\ c.id = running' /\ c.pc = "due" /\ c.db = "read"
        /\ c.put = "keep" /\ c.view.status = "initial"
    BY CallFacts
  <2>4. tasks'[t] = c /\ \A u \in Task \ {t} : tasks'[u] = tasks[u]
    BY <1>1, <2>1 DEF TypeOK
  <2> HIDE DEF c
  <2>5. ~IsStopped(Head(executionQueue))
    <3>1. 1 \in DOMAIN executionQueue /\ Head(executionQueue) = executionQueue[1]
      BY <1>1, <1>2
    <3>. QED
      BY <1>4, <3>1
  <2>6. Shaped(c) /\ TaskStatus(t)'
    BY <1>2, <2>2, <2>3, <2>4, <2>5 DEF Shaped, TaskStatus, IsStopped
  <2>7. \A u \in Task \ {t} : Follows(tasks'[u], tasks[u]) /\ TaskStatus(u)'
    BY <1>2, <2>4, FollowsSame
  <2>8. timers' = timers /\ buffer' = buffer
    BY <1>2 DEF schedulerVars
  <2>. QED
    BY <1>2, <1>3, <1>5, <1>6, <2>1, <2>3, <2>4, <2>6, <2>7, <2>8, NewTask
       DEF schedulerVars, callVars
<1>. QED
  BY <1>7, <1>8

(* restart() queues the missed payments: its record does not say "stopped"  *)
(* any more, and nothing else is in progress.                               *)
LEMMA RestartQueueStep ==
    ASSUME SequentialInv, SchedulerInv', NEW t \in Task, RestartQueue(t)
    PROVE  SequentialInv'
<1> DEFINE id == tasks[t].id
           v == tasks[t].view
           k == Missed(id, v)
           left == v.numberOfPayments > k
           next == v.nextPaymentDate + k * Frequency[id]
           writing == [Writing(tasks[t], v, "running", "job") EXCEPT !.arg = next]
           ts == [tasks EXCEPT ![t] = IF left THEN writing ELSE Idle]
<1>1. /\ tasks[t].pc = "queue" /\ tasks[t].db = "none"
  BY DEF RestartQueue, At
<1>2. /\ tasks[t].fn = "restart" /\ Past(tasks[t]) /\ ~Idling(tasks[t])
      /\ Alone(tasks[t], buffer)
  <2>1. tasks[t].fn = "restart"
    BY <1>1, IdleFacts DEF SequentialInv, TaskInv, Shaped
  <2>. QED
    BY <1>1, <2>1 DEF Past, Idling, Alone, Early
<1>3. /\ \A u \in Task \ {t} : tasks[u] = Idle
      /\ Ahead
      /\ executionQueue = <<>> \/ isExecuting
      /\ tasks[t] \in TaskState /\ id \in PullPaymentID /\ TaskInv(t)
      /\ TimersOK /\ CountsOK /\ TypeOK
  BY <1>2, AloneFacts
<1>4. ~IsStopped(id)
  BY <1>2, <1>3 DEF TaskInv, TaskStatus
<1>5. /\ writing.fn = "restart" /\ writing.id = id /\ writing.pc = "job"
      /\ writing.put = "running" /\ writing.db = "write"
  BY <1>2, <1>3 DEF Writing, TaskState
<1>6. /\ UNCHANGED <<now, record, paid, buffer, schedule, interval, jobs, timers, callVars>>
      /\ WithQueueTask(ts)
      /\ \/ k = 0 /\ UNCHANGED queueVars
         \/ k > 0 /\ Queue(id, k, PullPaymentID \ buffer)
  BY DEF RestartQueue
<1> HIDE DEF writing, left, k
<1>7. k \in Nat
  BY <1>3, MissedIsNat DEF TaskState, Record, k
<1>8. ts = [u \in Task |-> IF u # t THEN Idle ELSE IF left THEN writing ELSE Idle]
  BY <1>3 DEF TypeOK
<1>9. \A u \in Task : tasks[u].fn # "queue"
  BY <1>2, <1>3, IdleFacts
(* Either the queue is stuck, or only id is in line.                        *)
<1>10. /\ EntriesOK'
       /\ \/ tasks' = ts
          \/ /\ running' = id
             /\ \E u \in Task : /\ IsFree(ts, u)
                               /\ tasks' = [ts EXCEPT ![u] = Call("queue", id, "due", 0)]
  <2>1. CASE isExecuting
    <3>1. running' = running /\ isExecuting'
      BY <1>6, <2>1 DEF Queue, queueVars
    <3>2. tasks' = ts
      BY <1>6, <3>1 DEF WithQueueTask
    <3>3. \A u \in Task : tasks'[u].fn # "queue"
      BY <1>5, <1>8, <3>2, IdleFacts
    <3>. QED
      BY <3>1, <3>2, <3>3 DEF EntriesOK, Stuck
  <2>2. CASE ~isExecuting
    <3>1. executionQueue = <<>>
      BY <1>3, <2>2
    <3>2. CASE UNCHANGED queueVars
      <4>1. tasks' = ts /\ executionQueue' = <<>>
        BY <1>6, <3>1, <3>2 DEF WithQueueTask, queueVars
      <4>. QED
        BY <4>1 DEF EntriesOK
    <3>3. CASE k > 0 /\ Queue(id, k, PullPaymentID \ buffer)
      <4> DEFINE q == Copies(id, k)
      <4>1. q \in Seq(PullPaymentID) /\ \A i \in DOMAIN q : q[i] = id
        BY <1>3, <1>7 DEF Copies
      <4>2. executionQueue \o q = q
        BY <3>1, <4>1
      <4>3. /\ executionQueue' = Tail(q)
            /\ running' = NoID \/ running' = Head(q)
        BY <2>2, <3>3, <4>2 DEF Queue, Execute
      <4>4. q # <<>>
        BY <1>7, <3>3 DEF Copies
      <4> HIDE DEF q
      <4>5. Head(q) = id
        BY <4>1, <4>4
      <4>6. \A i \in DOMAIN Tail(q) : Tail(q)[i] = id
        BY <4>1, <4>4
      <4>7. EntriesOK'
        BY <1>4, <1>6, <4>3, <4>6 DEF EntriesOK, IsStopped
      <4>. QED
        BY <1>6, <4>3, <4>5, <4>7 DEF WithQueueTask
    <3>. QED
      BY <1>6, <3>2, <3>3
  <2>. QED
    BY <2>1, <2>2
<1> DEFINE served == Call("queue", id, "due", 0)
<1>11. /\ served.fn = "queue" /\ served.id = id /\ served.pc = "due"
       /\ served.db = "read" /\ served.put = "keep" /\ served.view.status = "initial"
  BY CallFacts
<1> HIDE DEF served
<1>12. \A u \in Task :
          \/ tasks'[u] = Idle
          \/ u = t /\ tasks'[u] = writing
          \/ tasks'[u] = served
  <2> HIDE DEF ts
  <2>1. CASE tasks' = ts
    BY <1>8, <2>1
  <2>2. CASE tasks' # ts
    <3>1. PICK w \in Task : tasks' = [ts EXCEPT ![w] = served]
      BY <1>10, <2>2 DEF served
    <3>2. \A u \in Task : tasks'[u] = IF u = w THEN served ELSE ts[u]
      BY <1>8, <3>1
    <3>. QED
      BY <1>8, <3>2
  <2>. QED
    BY <2>1, <2>2
<1>13. TimersOK' /\ CountsOK'
  BY <1>3, <1>6 DEF TimersOK, CountsOK, OneTimer, IsStopped, callVars
<1>14. /\ Late(writing) /\ Maker(writing) /\ Past(writing) /\ Shaped(writing)
       /\ ~Alone(writing, buffer) /\ ~Stopping(writing, buffer)
       /\ Shaped(served) /\ ~Maker(served) /\ ~Past(served) /\ ~Late(served)
       /\ ~Alone(served, buffer) /\ ~Stopping(served, buffer)
       /\ Bystander(served, buffer)
  BY <1>5, <1>11 DEF Late, Maker, Past, Shaped, Alone, Early, Stopping, Bystander
<1>15. /\ id \in started \ stopped /\ NoTimer(id) /\ jobs[id] <= stops
  BY <1>2, <1>3 DEF TaskInv, TaskToken, Maker
<1>16. ASSUME NEW u \in Task PROVE TaskInv(u)'
  <2>1. Shaped(tasks'[u])
    BY <1>12, <1>14, IdleFacts
  <2>2. TaskAlone(u)'
    BY <1>3, <1>6, <1>12, <1>14, IdleFacts DEF TaskAlone, Ahead
  <2>3. TaskStatus(u)'
    <3>1. record'[id].status # "stopped"
      BY <1>4, <1>6 DEF IsStopped
    <3>. QED
      BY <1>5, <1>11, <1>12, <3>1, IdleFacts DEF TaskStatus, IsStopped, Executor
  <2>4. TaskToken(u)'
    <3>1. ASSUME NEW w \in Task, Maker(tasks'[w]) PROVE w = t /\ tasks'[w] = writing
      BY <1>12, <1>14, <3>1, IdleFacts
    <3>2. tasks'[u].fn \notin {"start", "stop"}
      BY <1>5, <1>11, <1>12, IdleFacts
    <3>3. Past(tasks'[u]) \/ Stopping(tasks'[u], buffer') => tasks'[u] = writing
      BY <1>6, <1>12, <1>14, IdleFacts
    <3>. QED
      BY <1>5, <1>6, <1>15, <3>1, <3>2, <3>3 DEF TaskToken, NoTimer, callVars
  <2>. QED
    BY <2>1, <2>2, <2>3, <2>4 DEF TaskInv
<1>. QED
  BY <1>10, <1>13, <1>16 DEF SequentialInv

-----------------------------------------------------------------------------
(* The steps of an execution that make a call beside it.                    *)

LEMMA InvokeCallbackStep ==
    ASSUME SequentialInv, SchedulerInv', NEW t \in Task, InvokeCallback(t)
    PROVE  SequentialInv'
<1> DEFINE id == tasks[t].id
<1>1. tasks[t].pc = "due"
  BY DEF InvokeCallback, At
<1>2. CASE tasks' = [tasks EXCEPT ![t] = Reading(tasks[t], "pull")]
  BY <1>1, <1>2, ReadingStep DEF InvokeCallback
<1>3. ASSUME NEW u \in Task, IsFree(tasks, u),
             tasks' = [tasks EXCEPT ![t] = Reading(tasks[t], "recheck"),
                                    ![u] = Call("pay", id, "pull", 0)]
      PROVE  SequentialInv'
  <2> DEFINE c == Reading(tasks[t], "recheck")
             d == Call("pay", id, "pull", 0)
  <2>1. /\ tasks[t] \in TaskState /\ tasks[t] # Idle /\ TaskInv(t) /\ Shaped(tasks[t])
        /\ TypeOK /\ TimersOK /\ EntriesOK /\ tasks[u] = Idle
    BY <1>1, <1>3, Acting DEF SequentialInv, SchedulerInv, IsFree
  <2>2. /\ c.fn = tasks[t].fn /\ c.id = id /\ c.pc = "recheck" /\ c.put = tasks[t].put
        /\ c.view = tasks[t].view /\ c.db = "read"
        /\ d.fn = "pay" /\ d.id = id /\ d.pc = "pull" /\ d.db = "read"
        /\ d.put = "keep" /\ d.view.status = "initial"
    BY <2>1, ReadingFacts, CallFacts
  <2> HIDE DEF c, d
  <2>3. /\ tasks'[t] = c /\ tasks'[u] = d
        /\ \A w \in Task \ {t, u} : tasks'[w] = tasks[w]
    BY <1>3, <2>1 DEF TypeOK, c, d
  <2>4. UNCHANGED <<now, record, paid, schedulerVars, callVars, queueVars>>
    BY DEF InvokeCallback
  <2>5. /\ tasks[t].fn \in {"job", "tick", "queue"}
    BY <1>1, <2>1, IdleFacts DEF Shaped
  <2>6. /\ Follows(c, tasks[t]) /\ Shaped(d)
        /\ ~Idling(tasks[t]) /\ ~Alone(tasks[t], buffer)
    BY <2>1, <2>2, <2>5 DEF Follows, Shaped, Idling, Alone, Stopping, Early
  <2>7. ~IsStopped(id) /\ tasks[t].view.status # "stopped"
    BY <2>1, <2>5, <2>6 DEF TaskInv, TaskStatus, Executor
  <2>8. TaskStatus(t)' /\ TaskStatus(u)'
    <3>1. record'[id].status # "stopped"
      BY <2>4, <2>7 DEF IsStopped
    <3>. QED
      BY <2>2, <2>3, <2>7, <3>1 DEF TaskStatus, IsStopped
  <2>9. \A w \in Task : ~Alone(tasks[w], buffer)
    BY <2>1, <2>6, OnlyMe
  <2>10. \A w \in Task \ {u} : Follows(tasks'[w], tasks[w]) /\ TaskStatus(w)'
    BY <2>3, <2>4, <2>6, <2>8, FollowsSame
  <2>11. TimersOK'
    BY <2>1, <2>4 DEF TimersOK, OneTimer, IsStopped, schedulerVars, callVars
  <2>12. EntriesOK'
    <3>1. Stuck => Stuck'
      BY <2>2, <2>3, <2>4 DEF Stuck, queueVars
    <3>. QED
      BY <2>1, <2>4, <3>1 DEF EntriesOK, IsStopped, queueVars
  <2>. QED
    BY <2>1, <2>2, <2>3, <2>4, <2>6, <2>8, <2>9, <2>10, <2>11, <2>12, NewTask
       DEF schedulerVars, callVars
<1>. QED
  BY <1>2, <1>3 DEF InvokeCallback

\* The stop() that the last payment calls will not find its scheduler.
LEMMA LastPaymentStep ==
    ASSUME SequentialInv, SchedulerInv', NEW t \in Task, LastPaymentMade(t)
    PROVE  SequentialInv'
<1> DEFINE id == tasks[t].id
           c == Writing(tasks[t], tasks[t].view, "done", "end")
           d == Call("stop", id, "cancel", 0)
<1>1. tasks[t].pc = "recheck"
  BY DEF LastPaymentMade, At
<1>2. /\ tasks[t] \in TaskState /\ tasks[t] # Idle /\ TaskInv(t) /\ Shaped(tasks[t])
      /\ TypeOK /\ TimersOK /\ EntriesOK
  BY <1>1, Acting DEF SequentialInv, SchedulerInv
<1>3. PICK u \in Task : tasks[u] = Idle /\ tasks' = [tasks EXCEPT ![t] = c, ![u] = d]
  BY DEF LastPaymentMade, IsFree
<1>4. /\ c.fn = tasks[t].fn /\ c.id = id /\ c.pc = "end" /\ c.put = "done"
      /\ c.view = tasks[t].view /\ c.db = "write"
      /\ d.fn = "stop" /\ d.id = id /\ d.pc = "cancel" /\ d.db = "read"
      /\ d.put = "keep"
  BY <1>2, WritingFacts, CallFacts
<1> HIDE DEF c, d
<1>5. /\ tasks'[t] = c /\ tasks'[u] = d
      /\ \A w \in Task \ {t, u} : tasks'[w] = tasks[w]
  BY <1>2, <1>3 DEF TypeOK
<1>6. /\ buffer' = buffer \ {id} /\ timers' \subseteq timers
      /\ UNCHANGED <<now, record, paid, schedule, interval, restarting, jobs,
                     callVars, queueVars>>
  BY DEF LastPaymentMade, DeleteScheduler, AfterCancel
<1>7. tasks[t].fn \in {"job", "tick", "queue"}
  BY <1>1, <1>2, IdleFacts DEF Shaped
<1>8. /\ Follows(c, tasks[t]) /\ Shaped(d)
      /\ ~Idling(tasks[t]) /\ ~Alone(tasks[t], buffer)
  BY <1>2, <1>4, <1>7 DEF Follows, Shaped, Idling, Alone, Stopping, Early
<1>9. ~IsStopped(id) /\ tasks[t].view.status # "stopped"
  BY <1>2, <1>7, <1>8 DEF TaskInv, TaskStatus, Executor
<1>10. TaskStatus(t)' /\ TaskStatus(u)'
  <2>1. record'[id].status # "stopped"
    BY <1>6, <1>9 DEF IsStopped
  <2>2. d.fn \notin Executor /\ Idling(d)
    BY <1>4 DEF Executor, Idling
  <2>. QED
    BY <1>4, <1>5, <1>9, <2>1, <2>2 DEF TaskStatus, IsStopped
<1>11. \A w \in Task : ~Alone(tasks[w], buffer)
  BY <1>2, <1>8, OnlyMe
<1>12. \A w \in Task \ {u} : Follows(tasks'[w], tasks[w]) /\ TaskStatus(w)'
  BY <1>5, <1>6, <1>8, <1>10, FollowsSame
<1>13. TimersOK'
  BY <1>2, <1>6 DEF TimersOK, OneTimer, IsStopped, callVars
<1>14. EntriesOK'
  <2>1. Stuck => Stuck'
    BY <1>4, <1>5, <1>6 DEF Stuck, queueVars
  <2>. QED
    BY <1>2, <1>6, <2>1 DEF EntriesOK, IsStopped, queueVars
<1>15. \A m \in timers' : \E w \in timers : w.id = m.id
  BY <1>6
<1>16. d.id \notin buffer' /\ buffer' \subseteq buffer
  BY <1>4, <1>6
<1>. QED
  BY <1>3, <1>4, <1>5, <1>6, <1>8, <1>10, <1>11, <1>12, <1>13, <1>14, <1>15, <1>16,
     NewTask DEF callVars

LEMMA TickStep ==
    ASSUME SequentialInv, SchedulerInv', Prompt, Tick
    PROVE  SequentialInv'
<1>1. /\ \A u \in Task : tasks'[u] = Idle
      /\ UNCHANGED <<record, paid, schedulerVars, tasks, callVars, queueVars>>
  BY DEF Tick, Quiescent
<1>2. TimersOK /\ CountsOK /\ EntriesOK
  BY DEF SequentialInv
<1>3. TimersOK' /\ CountsOK' /\ EntriesOK'
  BY <1>1, <1>2 DEF TimersOK, CountsOK, EntriesOK, OneTimer, IsStopped, Stuck,
     schedulerVars, callVars, queueVars
<1>4. ASSUME NEW u \in Task PROVE TaskInv(u)'
  BY <1>1, IdleFacts DEF TaskInv, TaskAlone, TaskStatus, TaskToken, Executor
<1>. QED
  BY <1>3, <1>4 DEF SequentialInv

LEMMA SequentialResume ==
    ASSUME SequentialInv, SchedulerInv', NEW t \in Task, Resume(t)
    PROVE  SequentialInv'
<1>1. CASE CallbackNotDue(t) \/ PaymentsLeft(t) \/ ExecuteReturn(t)
  <2>1. tasks[t].pc # "none" /\ ReturnToCaller(t)
    BY <1>1 DEF CallbackNotDue, PaymentsLeft, ExecuteReturn, At
  <2>. QED
    BY <2>1, ReturnStep
<1>. QED
  BY <1>1, DbReadStep, DbWriteStep, StopWriteStep, StartAdjustStep, GoOnStep,
     StartScheduleStep, StopCancelStep, StopReturnStep, RestartCheckStep,
     RestartQueueStep, RestartScheduleStep, JobRunningStep, InvokeCallbackStep,
     CallbackPullStep, LastPaymentStep
     DEF Resume

LEMMA SequentialInvInit == Init => SequentialInv
<1> SUFFICES ASSUME Init PROVE SequentialInv
  OBVIOUS
<1>1. SchedulerInv
  BY SchedulerInvInit
<1>2. TimersOK /\ CountsOK /\ EntriesOK
  BY DEF Init, QueueInit, TimersOK, CountsOK, EntriesOK, OneTimer, IsStopped
<1>3. ASSUME NEW u \in Task PROVE TaskInv(u)
  <2>1. tasks[u] = Idle
    BY DEF Init
  <2>. QED
    BY <2>1, IdleFacts DEF TaskInv, TaskAlone, TaskStatus, TaskToken, Executor
<1>. QED
  BY <1>1, <1>2, <1>3 DEF SequentialInv

LEMMA SequentialIsNext == SequentialNext => Next
BY DEF SequentialNext, Next

LEMMA SequentialInvInductive ==
    ASSUME Prompt, SequentialInv, [SequentialNext]_vars
    PROVE  SequentialInv'
<1>1. SchedulerInv'
  <2>1. SchedulerInv /\ [Next]_vars
    BY SequentialIsNext DEF SequentialInv
  <2>. QED
    BY <2>1, SchedulerInvInductive
<1>2. CASE UNCHANGED vars
  <2>1. UNCHANGED <<now, record, schedulerVars, callVars, queueVars, tasks>>
    BY <1>2 DEF vars
  <2>2. TimersOK' /\ CountsOK' /\ EntriesOK'
    BY <2>1 DEF SequentialInv, TimersOK, CountsOK, EntriesOK, OneTimer, IsStopped,
       Stuck, schedulerVars, callVars, queueVars
  <2>3. ASSUME NEW u \in Task PROVE TaskInv(u)'
    BY <2>1 DEF SequentialInv, TaskInv, TaskAlone, TaskStatus, TaskToken, Ahead, NoTimer,
       IsStopped, schedulerVars, callVars, queueVars
  <2>. QED
    BY <1>1, <2>2, <2>3 DEF SequentialInv
<1>3. CASE SequentialNext
  BY <1>1, <1>3, SequentialResume, FireStep, CallStep, FireDripStep, TickStep
     DEF SequentialNext, CallApi
<1>. QED
  BY <1>2, <1>3

(* The inductive invariant of the scheduler used sequentially: makers and   *)
(* timers exclude each other, a call of the API is alone, a record says     *)
(* "stopped" only of a pull payment nothing will execute.                   *)
THEOREM SequentialInvariant ==
    ASSUME Prompt PROVE SequentialSpec => []SequentialInv
<1>1. SequentialInv /\ [SequentialNext]_vars => SequentialInv'
  BY SequentialInvInductive
<1>. QED
  BY <1>1, SequentialInvInit, PTL DEF SequentialSpec

(* A pull payment never has two live timers: nothing executes it twice      *)
(* (Scheduler.ts:100-110, 66-84).                                           *)
THEOREM OneTimerAlways == ASSUME Prompt PROVE SequentialSpec => []OneTimer
<1>1. SequentialInv => OneTimer
  BY DEF SequentialInv, TimersOK
<1>. QED
  BY <1>1, SequentialInvariant, PTL

(* After stop() has returned nothing executes the pull payment until it is  *)
(* restarted (Scheduler.ts:33-53).                                          *)
THEOREM StopAlwaysStops == ASSUME Prompt PROVE SequentialSpec => []StopStops
<1>1. SequentialInv => StopStops
  BY DEF SequentialInv, TimersOK, StopStops
<1>. QED
  BY <1>1, SequentialInvariant, PTL

(* Each stop() is undone by one restart() at most (Scheduler.ts:66).        *)
THEOREM RestartedOnceAlways == ASSUME Prompt PROVE SequentialSpec => []RestartedOnce
<1>1. SequentialInv => RestartedOnce
  BY DEF SequentialInv, CountsOK, RestartedOnce
<1>. QED
  BY <1>1, SequentialInvariant, PTL
=============================================================================
