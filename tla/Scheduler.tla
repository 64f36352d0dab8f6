----------------------------- MODULE Scheduler -----------------------------
(***************************************************************************)
(* The schedulers of the merchant SDK (src/core/scheduler/): start, stop   *)
(* and restart, the node-schedule job and the setInterval timer that       *)
(* execute pull payments, the in-memory SchedulerBuffer, the ScheduleQueue *)
(* (module ScheduleQueue) and the pull payment records of the merchant's   *)
(* database they all read and write.                                       *)
(*                                                                         *)
(* Every async function call in progress is a task.  JavaScript runs a     *)
(* task up to its next await without interruption; a database operation it *)
(* awaits takes effect at some later moment, and the task resumes later    *)
(* still.  So a task alternates between a database step (DbRead, DbWrite)  *)
(* and a segment of its function (one action per segment, pc naming it),   *)
(* and the steps of all tasks interleave.                                  *)
(*                                                                         *)
(* A write sends the whole record the task read earlier: columns it does   *)
(* not mean to change are written back with the values it read.            *)
(***************************************************************************)
EXTENDS ScheduleQueue, FiniteSets

CONSTANTS
    NumberOfPayments,  \* payments registered for each pull payment
    StartTimestamp,    \* the registered start of each pull payment
    Frequency,         \* seconds between two payments
    StartWindow,       \* Globals.GET_START_SCHEDULER_TIME_WINDOW()
    AwaitCallback,     \* TRUE: the callback's promise settles after the record
                       \* is updated.  FALSE: the callback built by
                       \* monitorRegistrationTransaction and by sync, which
                       \* does not await executePullPayment
    Prompt,            \* TRUE: all work that is due ends within the second
    MaxTasks,          \* bound: async calls in progress at once
    MaxTime,           \* bound: last second of the clock
    LastCall,          \* bound: last second in which the API is called
    MaxStops,          \* bound: calls of stop(), all pull payments together
    MaxRestarts        \* bound: calls of restart(), likewise

ASSUME SchedulerAssumption ==
    /\ NumberOfPayments \in [PullPaymentID -> Nat \ {0}]
    /\ StartTimestamp \in [PullPaymentID -> Nat \ {0}]
    /\ Frequency \in [PullPaymentID -> Nat \ {0}]
    /\ StartWindow \in Nat
    /\ AwaitCallback \in BOOLEAN
    /\ Prompt \in BOOLEAN
    /\ MaxTasks \in Nat
    /\ MaxTime \in Nat
    /\ LastCall \in Nat
    /\ MaxStops \in Nat
    /\ MaxRestarts \in Nat

VARIABLES
    now,         \* the clock, in seconds
    record,      \* the pull payment rows of the merchant's database
    paid,        \* regular payments the contract has executed (on chain)
    started,     \* pull payments start() was called for
    buffer,      \* keys of SchedulerBuffer.SCHEDULER_BUFFER
    schedule,    \* Scheduler._schedule: number of its job, 0 for null
    interval,    \* Scheduler._interval: number of its interval, 0 for null
    restarting,  \* Scheduler._restarting
    jobs,        \* jobs handed to node-schedule so far
    timers,      \* live node-schedule jobs and setInterval timers
    tasks,       \* async calls in progress
    stops,       \* stop() calls made
    restarts,    \* restart() calls made
    stopped      \* history: stop() returned and no restart has begun since

schedulerVars == <<buffer, schedule, interval, restarting, jobs, timers>>
callVars == <<started, stops, restarts, stopped>>
vars == <<now, record, paid, schedulerVars, tasks, callVars, queueVars>>

-----------------------------------------------------------------------------
(* Records, tasks and timers.                                               *)

Status == {"initial", "running", "stopped", "done"}

Record == [status : Status,
           numberOfPayments : Nat,
           nextPaymentDate : Nat,
           startTimestamp : Nat]

NoRecord == [status |-> "initial", numberOfPayments |-> 0,
             nextPaymentDate |-> 0, startTimestamp |-> 0]

Task == 1..MaxTasks

Function == {"none", "start", "stop", "restart", "job", "tick", "queue", "pay"}

Segment == {"none", "adjust", "cancel", "check", "queue", "job", "schedule",
            "running", "execute", "due", "pull", "pulled", "recheck", "end"}

(* fn: the function called; pc: the segment that runs when the task         *)
(* resumes; db: the database operation it awaits; view: the record it holds;*)
(* put: the status a write sets ("keep": the column is left alone);         *)
(* arg: the number of a job, or restart's nextPayment.                      *)
TaskState == [fn : Function, pc : Segment, db : {"none", "read", "write"},
              id : PullPaymentID \cup {NoID}, view : Record,
              put : Status \cup {"keep"}, arg : Nat]

Idle == [fn |-> "none", pc |-> "none", db |-> "none", id |-> NoID,
         view |-> NoRecord, put |-> "keep", arg |-> 0]

Timer == [kind : {"job", "interval"}, id : PullPaymentID, number : Nat, at : Nat]

\* A call of fn(id) that begins by reading the record and resumes at pc.
Call(fn, id, pc, arg) ==
    [Idle EXCEPT !.fn = fn, !.id = id, !.pc = pc, !.db = "read", !.arg = arg]

\* The task awaits a read, or a write of record v with status s.
Reading(task, pc) == [task EXCEPT !.db = "read", !.pc = pc]
Writing(task, v, s, pc) ==
    [task EXCEPT !.db = "write", !.view = v, !.put = s, !.pc = pc]

At(t, pc) == tasks[t].pc = pc /\ tasks[t].db = "none"

\* The slot a new call takes; a call waits for a free one (bound MaxTasks).
IsFree(ts, t) == ts[t] = Idle /\ \A u \in Task : u < t => ts[u] # Idle

-----------------------------------------------------------------------------
Init ==
    /\ now = 0
    /\ record = [id \in PullPaymentID |->
                    [status |-> "initial",
                     numberOfPayments |-> NumberOfPayments[id],
                     nextPaymentDate |-> StartTimestamp[id],
                     startTimestamp |-> StartTimestamp[id]]]
    /\ paid = [id \in PullPaymentID |-> 0]
    /\ started = {}
    /\ buffer = {}
    /\ schedule = [id \in PullPaymentID |-> 0]
    /\ interval = [id \in PullPaymentID |-> 0]
    /\ restarting = [id \in PullPaymentID |-> FALSE]
    /\ jobs = [id \in PullPaymentID |-> 0]
    /\ timers = {}
    /\ tasks = [t \in Task |-> Idle]
    /\ stops = 0
    /\ restarts = 0
    /\ stopped = {}
    /\ QueueInit

-----------------------------------------------------------------------------
(* The database.                                                            *)

DbRead(t) ==
    /\ tasks[t].db = "read"
    /\ tasks' = [tasks EXCEPT ![t] =
                    [@ EXCEPT !.db = "none", !.view = record[tasks[t].id]]]
    /\ UNCHANGED <<now, record, paid, schedulerVars, callVars, queueVars>>

Stored(task) == [task.view EXCEPT
    !.status = IF task.put = "keep" THEN record[task.id].status ELSE task.put]

DbWrite(t) ==
    /\ tasks[t].db = "write"
    /\ record' = [record EXCEPT ![tasks[t].id] = Stored(tasks[t])]
    /\ tasks' = [tasks EXCEPT ![t] = [@ EXCEPT !.db = "none"]]
    /\ UNCHANGED <<now, paid, schedulerVars, callVars, queueVars>>

-----------------------------------------------------------------------------
(* Timers.                                                                  *)

\* A mutant of AfterCancel: the interval is not cleared.
AfterCancelJob(id) ==
    {m \in timers : ~(m.id = id /\ m.kind = "job" /\ m.number = schedule[id])}

\* What cancel() of the job and clearInterval() of the interval leave alive.
AfterCancel(id) ==
    {m \in timers : ~ /\ m.id = id
                      /\ \/ m.kind = "job" /\ m.number = schedule[id]
                         \/ m.kind = "interval" /\ m.number = interval[id]}

(* schedule.scheduleJob(): node-schedule returns null for a date that has   *)
(* passed, and the job never runs.                                          *)
ScheduleJob(id, at) ==
    LET n == jobs[id] + 1
    IN  /\ jobs' = [jobs EXCEPT ![id] = n]
        /\ schedule' = [schedule EXCEPT ![id] = IF at > now THEN n ELSE 0]
        /\ timers' = IF at > now
                     THEN timers \cup {[kind |-> "job", id |-> id,
                                        number |-> n, at |-> at]}
                     ELSE timers

FireJob(m, t) ==
    /\ m.kind = "job" /\ m.at <= now
    /\ IsFree(tasks, t)
    /\ timers' = timers \ {m}
    /\ tasks' = [tasks EXCEPT ![t] = Call("job", m.id, "running", m.number)]
    /\ UNCHANGED <<now, record, paid, buffer, schedule, interval, restarting,
                   jobs, callVars, queueVars>>

FireInterval(m, t) ==
    /\ m.kind = "interval" /\ m.at <= now
    /\ IsFree(tasks, t)
    /\ timers' = (timers \ {m}) \cup {[m EXCEPT !.at = now + Frequency[m.id]]}
    /\ tasks' = [tasks EXCEPT ![t] = Call("tick", m.id, "due", 0)]
    /\ UNCHANGED <<now, record, paid, buffer, schedule, interval, restarting,
                   jobs, callVars, queueVars>>

-----------------------------------------------------------------------------
(* start()                                                                  *)

CallStart(id, t) ==
    /\ id \notin started
    /\ IsFree(tasks, t)
    /\ started' = started \cup {id}
    /\ tasks' = [tasks EXCEPT ![t] = Call("start", id, "adjust", 0)]
    /\ UNCHANGED <<now, record, paid, schedulerVars, stops, restarts, stopped,
                   queueVars>>

\* A mutant of StartAdjust: the start is never moved.
StartAsIs(t) ==
    /\ At(t, "adjust")
    /\ tasks' = [tasks EXCEPT ![t] = Reading(@, "schedule")]
    /\ UNCHANGED <<now, record, paid, schedulerVars, callVars, queueVars>>

(* adjustStartTime: a start at most StartWindow seconds ago becomes the     *)
(* next second.                                                             *)
StartAdjust(t) ==
    LET v == tasks[t].view
    IN  /\ At(t, "adjust")
        /\ tasks' = [tasks EXCEPT ![t] =
               IF v.startTimestamp <= now /\ v.startTimestamp + StartWindow >= now
               THEN Writing(@, [v EXCEPT !.startTimestamp = now + 1], "keep", "job")
               ELSE Reading(@, "schedule")]
        /\ UNCHANGED <<now, record, paid, schedulerVars, callVars, queueVars>>

\* scheduleJob() reads the record, in start and in restart.
ReadForJob(t) ==
    /\ At(t, "job")
    /\ tasks' = [tasks EXCEPT ![t] = Reading(@, "schedule")]
    /\ UNCHANGED <<now, record, paid, schedulerVars, callVars, queueVars>>

StartSchedule(t) ==
    LET id == tasks[t].id
    IN  /\ At(t, "schedule") /\ tasks[t].fn = "start"
        /\ ScheduleJob(id, tasks[t].view.startTimestamp)
        /\ buffer' = buffer \cup {id}
        /\ tasks' = [tasks EXCEPT ![t] = Idle]
        /\ UNCHANGED <<now, record, paid, interval, restarting, callVars, queueVars>>

-----------------------------------------------------------------------------
(* stop()                                                                   *)

CallStop(id, t) ==
    /\ stops < MaxStops
    /\ IsFree(tasks, t)
    /\ stops' = stops + 1
    /\ tasks' = [tasks EXCEPT ![t] = Call("stop", id, "cancel", 0)]
    /\ UNCHANGED <<now, record, paid, schedulerVars, started, restarts, stopped,
                   queueVars>>

StopCancel(t) ==
    LET id == tasks[t].id
    IN  /\ At(t, "cancel")
        /\ \/ /\ id \in buffer
              /\ timers' = AfterCancel(id)
              /\ interval' = [interval EXCEPT ![id] = 0]
              /\ tasks' = [tasks EXCEPT ![t] =
                              Writing(@, @.view, "stopped", "end")]
           \/ /\ id \notin buffer
              /\ tasks' = [tasks EXCEPT ![t] = Idle]
              /\ UNCHANGED <<timers, interval>>
        /\ UNCHANGED <<now, record, paid, buffer, schedule, restarting, jobs,
                       callVars, queueVars>>

StopReturn(t) ==
    /\ At(t, "end") /\ tasks[t].fn = "stop"
    /\ stopped' = stopped \cup {tasks[t].id}
    /\ tasks' = [tasks EXCEPT ![t] = Idle]
    /\ UNCHANGED <<now, record, paid, schedulerVars, started, stops, restarts,
                   queueVars>>

-----------------------------------------------------------------------------
(* restart()                                                                *)

(* The buffer is looked up before the read: arg remembers the outcome.      *)
CallRestart(id, t) ==
    /\ restarts < MaxRestarts
    /\ IsFree(tasks, t)
    /\ restarts' = restarts + 1
    /\ tasks' = [tasks EXCEPT ![t] =
                    Call("restart", id, "check", IF id \in buffer THEN 1 ELSE 0)]
    /\ UNCHANGED <<now, record, paid, schedulerVars, started, stops, stopped,
                   queueVars>>

\* A mutant of MayRestart: the _restarting flag is not tested.
MayRestartTwice(t) == /\ tasks[t].arg = 1
                      /\ tasks[t].view.status = "stopped"

\* A mutant of MayRestart: the status is not tested.
MayRestartAny(t) == tasks[t].arg = 1 /\ ~restarting[tasks[t].id]

MayRestart(t) == /\ tasks[t].arg = 1
                 /\ tasks[t].view.status = "stopped"
                 /\ ~restarting[tasks[t].id]

RestartCheck(t) ==
    LET id == tasks[t].id
    IN  /\ At(t, "check")
        /\ \/ /\ MayRestart(t)
              /\ restarting' = [restarting EXCEPT ![id] = TRUE]
              /\ stopped' = stopped \ {id}
              /\ tasks' = [tasks EXCEPT ![t] =
                              Writing(@, @.view, "initial", "queue")]
           \/ /\ ~MayRestart(t)
              /\ tasks' = [tasks EXCEPT ![t] = Idle]
              /\ UNCHANGED <<restarting, stopped>>
        /\ UNCHANGED <<now, record, paid, buffer, schedule, interval, jobs, timers,
                       started, stops, restarts, queueVars>>

\* A mutant of Missed: a payment due this very second is not counted.
MissedBefore(id, v) == Cardinality({i \in 0..(v.numberOfPayments - 1) :
                                v.nextPaymentDate + i * Frequency[id] < now})

\* Payments of record v that fell due while the scheduler was stopped.
Missed(id, v) == Cardinality({i \in 0..(v.numberOfPayments - 1) :
                                v.nextPaymentDate + i * Frequency[id] <= now})

\* The tasks ts, with executeCallback() called by the queue if it starts one.
WithQueueTask(ts) ==
    IF running' # NoID /\ running' # running
    THEN \E u \in Task : /\ IsFree(ts, u)
                         /\ tasks' = [ts EXCEPT ![u] =
                                         Call("queue", running', "due", 0)]
    ELSE tasks' = ts

(* The loop that queues the missed payments; a job is scheduled for the     *)
(* payments that are left.                                                  *)
RestartQueue(t) ==
    LET id == tasks[t].id
        v == tasks[t].view
        k == Missed(id, v)
        left == v.numberOfPayments > k
        next == v.nextPaymentDate + k * Frequency[id]
    IN  /\ At(t, "queue")
        /\ \/ k = 0 /\ UNCHANGED queueVars
           \/ k > 0 /\ Queue(id, k, PullPaymentID \ buffer)
        /\ restarting' = [restarting EXCEPT ![id] = left]
        /\ WithQueueTask([tasks EXCEPT ![t] =
               IF left THEN [Writing(@, v, "running", "job") EXCEPT !.arg = next]
                       ELSE Idle])
        /\ UNCHANGED <<now, record, paid, buffer, schedule, interval, jobs, timers,
                       callVars>>

RestartSchedule(t) ==
    LET id == tasks[t].id
    IN  /\ At(t, "schedule") /\ tasks[t].fn = "restart"
        /\ ScheduleJob(id, tasks[t].arg)
        /\ restarting' = [restarting EXCEPT ![id] = FALSE]
        /\ tasks' = [tasks EXCEPT ![t] = Idle]
        /\ UNCHANGED <<now, record, paid, buffer, interval, callVars, queueVars>>

-----------------------------------------------------------------------------
(* The job's body up to executeCallback().                                  *)

JobRunning(t) ==
    /\ At(t, "running")
    /\ tasks' = [tasks EXCEPT ![t] = Writing(@, @.view, "running", "execute")]
    /\ UNCHANGED <<now, record, paid, schedulerVars, callVars, queueVars>>

JobExecute(t) ==
    /\ At(t, "execute")
    /\ tasks' = [tasks EXCEPT ![t] = Reading(@, "due")]
    /\ UNCHANGED <<now, record, paid, schedulerVars, callVars, queueVars>>

\* A pending drip of the queue fires.
FireDrip ==
    /\ Drip(PullPaymentID \ buffer)
    /\ WithQueueTask(tasks)
    /\ UNCHANGED <<now, record, paid, schedulerVars, callVars>>

-----------------------------------------------------------------------------
(* executeCallback()                                                        *)

\* A mutant of StartInterval: the job runs once and starts nothing.
NoInterval(id, n) == UNCHANGED <<interval, timers>>

StartInterval(id, n) ==
    /\ interval' = [interval EXCEPT ![id] = n]
    /\ timers' = timers \cup {[kind |-> "interval", id |-> id, number |-> n,
                               at |-> now + Frequency[id]]}

(* The caller resumes: the job's body starts the interval whatever happened *)
(* to the scheduler since it was fired; the queue resets its flag.          *)
ReturnToCaller(t) ==
    LET id == tasks[t].id
    IN  /\ tasks' = [tasks EXCEPT ![t] = Idle]
        /\ \/ /\ tasks[t].fn = "job"
              /\ StartInterval(id, tasks[t].arg)
              /\ UNCHANGED queueVars
           \/ /\ tasks[t].fn = "tick"
              /\ UNCHANGED <<interval, timers, queueVars>>
           \/ /\ tasks[t].fn = "queue"
              /\ Finish
              /\ UNCHANGED <<interval, timers>>
        /\ UNCHANGED <<now, record, paid, buffer, schedule, restarting, jobs,
                       callVars>>

\* v is due: payments are left and the next one's date has come.
IsDue(v) == v.numberOfPayments > 0 /\ v.nextPaymentDate <= now

CallbackNotDue(t) ==
    At(t, "due") /\ ~IsDue(tasks[t].view) /\ ReturnToCaller(t)

(* this._callback(): awaited to its end, or a task of its own that nobody   *)
(* awaits.  Either way it begins by reading the record.                     *)
InvokeCallback(t) ==
    /\ At(t, "due")
    /\ IsDue(tasks[t].view)
    /\ \/ /\ AwaitCallback
          /\ tasks' = [tasks EXCEPT ![t] = Reading(@, "pull")]
       \/ /\ ~AwaitCallback
          /\ \E u \in Task :
                /\ IsFree(tasks, u)
                /\ tasks' = [tasks EXCEPT
                      ![t] = Reading(@, "recheck"),
                      ![u] = Call("pay", tasks[t].id, "pull", 0)]
    /\ UNCHANGED <<now, record, paid, schedulerVars, callVars, queueVars>>

\* The contract's own view of whether a payment may be executed.
ContractAllows(id) ==
    /\ paid[id] < NumberOfPayments[id]
    /\ now >= StartTimestamp[id] + paid[id] * Frequency[id]

AfterCallback(task) == IF task.fn = "pay" THEN Idle ELSE Reading(task, "recheck")

\* A mutant of Executed: the count of payments is left alone.
ExecutedUncounted(id, v) ==
    [v EXCEPT !.nextPaymentDate = @ + Frequency[id]]

(* The record the callback writes when the payment went through: the values *)
(* follow from the record it read before it sent the transaction.           *)
Executed(id, v) ==
    LET n == v.numberOfPayments - 1
    IN  [v EXCEPT
           !.numberOfPayments = n,
           !.nextPaymentDate = IF AwaitCallback /\ n = 0 THEN @
                               ELSE @ + Frequency[id],
           !.status = IF n = 0 THEN "done" ELSE @]

(* The receipt handler sends the status with the rest; testScheduler leaves *)
(* the column alone, since it sets status where a write sends statusID.     *)
Recorded(task, w) ==
    Writing(task, w, IF AwaitCallback THEN "keep" ELSE w.status, "pulled")

\* A mutant of CallbackPull: the outcome of the transaction is not looked at.
CallbackPullUnchecked(t) ==
    LET id == tasks[t].id
        w == Executed(id, tasks[t].view)
    IN  /\ At(t, "pull")
        /\ paid' = [paid EXCEPT ![id] = IF ContractAllows(id) THEN @ + 1 ELSE @]
        /\ tasks' = [tasks EXCEPT ![t] = Recorded(@, w)]
        /\ UNCHANGED <<now, record, schedulerVars, callVars, queueVars>>

(* The transaction is mined and the receipt handled, or it is reverted and  *)
(* the record is left alone.                                                *)
CallbackPull(t) ==
    LET id == tasks[t].id
        w == Executed(id, tasks[t].view)
    IN  /\ At(t, "pull")
        /\ \/ /\ ContractAllows(id)
              /\ paid' = [paid EXCEPT ![id] = @ + 1]
              /\ tasks' = [tasks EXCEPT ![t] = Recorded(@, w)]
           \/ /\ ~ContractAllows(id)
              /\ tasks' = [tasks EXCEPT ![t] = AfterCallback(@)]
              /\ UNCHANGED paid
        /\ UNCHANGED <<now, record, schedulerVars, callVars, queueVars>>

CallbackReturn(t) ==
    /\ At(t, "pulled")
    /\ tasks' = [tasks EXCEPT ![t] = AfterCallback(@)]
    /\ UNCHANGED <<now, record, paid, schedulerVars, callVars, queueVars>>

(* The callback's promise rejects before the transaction is sent (no gas    *)
(* estimate, no key, a node that refuses it): executeCallback() and its     *)
(* caller reject too.                                                       *)
CallbackReject(t) ==
    /\ At(t, "pull")
    /\ MayThrow
    /\ tasks' = [tasks EXCEPT ![t] = Idle]
    /\ IF tasks[t].fn = "queue" THEN Throw ELSE UNCHANGED queueVars
    /\ UNCHANGED <<now, record, paid, schedulerVars, callVars>>

\* A mutant of DeleteScheduler: the buffer entry and its timers are kept.
KeepScheduler(id) == UNCHANGED <<buffer, timers>>

\* SchedulerBuffer.delete()
DeleteScheduler(id) ==
    /\ buffer' = buffer \ {id}
    /\ timers' = IF id \in buffer THEN AfterCancel(id) ELSE timers

(* The last payment is made: stop() is called and not awaited, the buffer   *)
(* entry goes at once, so that stop() will not find it.                     *)
LastPaymentMade(t) ==
    LET id == tasks[t].id
        v == tasks[t].view
    IN  /\ At(t, "recheck")
        /\ v.numberOfPayments = 0
        /\ DeleteScheduler(id)
        /\ \E u \in Task :
              /\ IsFree(tasks, u)
              /\ tasks' = [tasks EXCEPT
                    ![t] = Writing(@, v, "done", "end"),
                    ![u] = Call("stop", id, "cancel", 0)]
        /\ UNCHANGED <<now, record, paid, schedule, interval, restarting, jobs,
                       callVars, queueVars>>

PaymentsLeft(t) ==
    /\ At(t, "recheck")
    /\ tasks[t].view.numberOfPayments > 0
    /\ ReturnToCaller(t)

ExecuteReturn(t) ==
    At(t, "end") /\ tasks[t].fn # "stop" /\ ReturnToCaller(t)

-----------------------------------------------------------------------------
(* Time passes.  A prompt system lets a second pass only when everything    *)
(* that could happen in it has happened.                                    *)

Quiescent == /\ \A t \in Task : tasks[t] = Idle
             /\ \A m \in timers : m.at > now
             /\ executionQueue = <<>> \/ isExecuting

Tick ==
    /\ now < MaxTime
    /\ Prompt => Quiescent
    /\ now' = now + 1
    /\ UNCHANGED <<record, paid, schedulerVars, tasks, callVars, queueVars>>

-----------------------------------------------------------------------------
Resume(t) ==
    \/ DbRead(t) \/ DbWrite(t)
    \/ StartAdjust(t) \/ ReadForJob(t) \/ StartSchedule(t)
    \/ StopCancel(t) \/ StopReturn(t)
    \/ RestartCheck(t) \/ RestartQueue(t) \/ RestartSchedule(t)
    \/ JobRunning(t) \/ JobExecute(t)
    \/ CallbackNotDue(t) \/ InvokeCallback(t) \/ CallbackPull(t)
    \/ CallbackReturn(t) \/ CallbackReject(t)
    \/ LastPaymentMade(t) \/ PaymentsLeft(t) \/ ExecuteReturn(t)

Fire(t) == \E m \in timers : FireJob(m, t) \/ FireInterval(m, t)

CallApi(t) ==
    /\ now <= LastCall
    /\ \E id \in PullPaymentID :
          CallStart(id, t) \/ CallStop(id, t) \/ CallRestart(id, t)

Next ==
    \/ \E t \in Task : Resume(t) \/ Fire(t) \/ CallApi(t)
    \/ FireDrip
    \/ Tick

Spec == Init /\ [][Next]_vars

(* The API is only called when nothing is in progress, the way the SDK's    *)
(* own tests call it.                                                       *)
SequentialNext ==
    \/ \E t \in Task : Resume(t) \/ Fire(t) \/ (Quiescent /\ CallApi(t))
    \/ FireDrip
    \/ Tick

(* The event loop resumes every task whose database operation is answered,  *)
(* the database answers, timers that are due fire and time passes.  Nobody  *)
(* has to call the API.                                                     *)
Fairness ==
    /\ \A t \in Task : WF_vars(Resume(t))
    /\ WF_vars(\E t \in Task : Fire(t))
    /\ WF_vars(FireDrip)
    /\ WF_vars(Tick)

FairSpec == Spec /\ Fairness
SequentialSpec == Init /\ [][SequentialNext]_vars /\ Fairness

-----------------------------------------------------------------------------
TypeOK ==
    /\ QueueTypeOK
    /\ now \in Nat
    /\ record \in [PullPaymentID -> Record]
    /\ paid \in [PullPaymentID -> Nat]
    /\ started \subseteq PullPaymentID
    /\ buffer \subseteq PullPaymentID
    /\ schedule \in [PullPaymentID -> Nat]
    /\ interval \in [PullPaymentID -> Nat]
    /\ restarting \in [PullPaymentID -> BOOLEAN]
    /\ jobs \in [PullPaymentID -> Nat]
    /\ timers \subseteq Timer
    /\ tasks \in [Task -> TaskState]
    /\ stops \in Nat
    /\ restarts \in Nat
    /\ stopped \subseteq PullPaymentID

(* However stale the records written back are, the database never claims    *)
(* fewer payments are left than the contract still allows: no payment is    *)
(* silently forgotten.                                                      *)
NoPaymentForgotten == \A id \in PullPaymentID :
    record[id].numberOfPayments + paid[id] >= NumberOfPayments[id]

(* _restarting is a lock: it is up exactly while one restart() of the       *)
(* scheduler is past its check (Scheduler.ts:66-84).                        *)
InRestart(id) == {t \in Task : /\ tasks[t].fn = "restart"
                               /\ tasks[t].id = id
                               /\ tasks[t].pc # "check"}
RestartIsExclusive == \A id \in PullPaymentID :
    \A t, u \in InRestart(id) : t = u /\ restarting[id]

(* Until the first restart() the database and the chain agree, whenever     *)
(* nothing is in progress, on how many payments are left; a stop() in       *)
(* between changes nothing about it.                                        *)
LedgersAgree == Quiescent /\ restarts = 0 => \A id \in PullPaymentID :
    record[id].numberOfPayments + paid[id] = NumberOfPayments[id]

(* A pull payment whose payments are all executed has none left in the      *)
(* database, also when it was stopped and restarted: what the tests of      *)
(* restart() expect of the count.  It does not hold: the second write of    *)
(* restart() (Scheduler.ts:81) puts back the count it read before the       *)
(* missed payments were executed.                                           *)
AllPaymentsCounted == Quiescent => \A id \in PullPaymentID :
    paid[id] = NumberOfPayments[id] => record[id].numberOfPayments = 0

(* The contract executes every payment of a scheduler that got its job and  *)
(* is not left stopped, whatever the records claim.                         *)
AllPaymentsCollected == \A id \in PullPaymentID :
    <>(schedule[id] # 0) /\ <>[](id \notin stopped)
        => <>(paid[id] = NumberOfPayments[id])

(* A pull payment whose start is at most StartWindow seconds ago when       *)
(* start() is called is executed, unless somebody stops it.                 *)
StartWithinWindowPays == \A id \in PullPaymentID :
    [](id \in started => <>(paid[id] > 0 \/ stops > 0))

(* Once stop() has returned and whatever was in progress has ended, the     *)
(* pull payment has no live job or interval until it is restarted.          *)
StopStops == Quiescent => \A m \in timers : m.id \notin stopped

(* Each stop() is undone by at most one restart(), however often restart()  *)
(* is called (Scheduler.ts:66); two restarts at the same time may both      *)
(* undo it.                                                                 *)
RestartedOnce == \A id \in PullPaymentID : jobs[id] <= 1 + stops

(* A pull payment has one live timer: nothing executes it twice.            *)
OneTimer == \A id \in PullPaymentID :
    \A m, n \in timers : m.id = id /\ n.id = id => m = n

(* The queue of missed payments is always worked off.                       *)
QueueDrains == []<>(executionQueue = <<>>)

(* A pull payment that is done stays done as long as the merchant does not  *)
(* stop it: the stop() that executeCallback() calls itself, and does not    *)
(* await, finds nothing to write stopped over done for (Scheduler.ts:131).  *)
DoneUntilStopped == [][\A id \in PullPaymentID :
    record[id].status = "done" /\ stops = 0 => record'[id].status = "done"]_vars
=============================================================================
