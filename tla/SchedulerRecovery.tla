------------------------- MODULE SchedulerRecovery -------------------------
(***************************************************************************)
(* What becomes of the schedulers when the process ends and is started     *)
(* again (src/core/scheduler/ScheduleBuffer.ts).  The buffer is in memory; *)
(* set() and delete() copy its IDs to a redis set, and build() calls       *)
(* sync(), which starts a scheduler for every ID in that set.              *)
(*                                                                         *)
(* The redis client is captured when ScheduleBuffer.ts is loaded (line 5): *)
(* it is the configured one where DefaultConfig.settings was assigned      *)
(* before that, and a stub that does nothing where build() comes later, as *)
(* in MerchantSDKClass.ts (globals.ts:93).  Configured says which.         *)
(*                                                                         *)
(* A scheduler is what its timers are: "armed" with a job or an interval,  *)
(* "idle" without.  The steps of a live timer are the subject of Scheduler *)
(* and one step here; restart() is modelled there only.                    *)
(***************************************************************************)
EXTENDS Naturals

CONSTANTS PullPayments,
          Configured,    \* whether rclient is the configured client
          Payments,      \* payments of each pull payment
          MaxStarts,     \* bound: timers and start() calls of a pull payment
          MaxStops,      \* bound: calls of stop() by the merchant
          MaxCrashes,    \* bound: ends of the process
          MaxFaults      \* bound: operations that fail

ASSUME RecoveryAssumption ==
    /\ Configured \in BOOLEAN
    /\ {Payments, MaxStarts, MaxStops, MaxCrashes, MaxFaults} \subseteq Nat

VARIABLES keys,          \* redis: the set scheduler_keys
          up,            \* the process is running
          reading,       \* IDs whose record sync() has asked for
          starting,      \* start() calls in progress
          again,         \* start(true) calls in progress
          stopping,      \* stop() calls in progress
          sched,         \* the scheduler in the buffer
          orphans,       \* live timers no scheduler in the buffer knows of
          dropped,       \* history: schedulers in the buffer whose ID sync()
                         \* has removed, its record not having been read
          status,        \* database: the status of the pull payment
          begun,         \* database: its startTimestamp has passed
          left,          \* database: its numberOfPayments
          stops, crashes, faults   \* counted for the bounds

calls  == <<starting, again, stopping>>
buffer == <<sched, orphans, dropped>>
record == <<status, begun, left>>
counts == <<stops, crashes, faults>>
recoveryVars == <<keys, up, reading, calls, buffer, record, counts>>

Fails == faults < MaxFaults /\ faults' = faults + 1
Inc(f, p) == [f EXCEPT ![p] = @ + 1]
Dec(f, p) == [f EXCEPT ![p] = @ - 1]
Timers(p) == orphans[p] + (IF sched[p] = "armed" THEN 1 ELSE 0)

Nowhere == [p \in PullPayments |-> 0]
NoScheduler == [p \in PullPayments |-> "none"]

RecoveryInit ==
    /\ keys = {} /\ up = FALSE /\ reading = {}
    /\ starting = Nowhere /\ again = Nowhere /\ stopping = Nowhere
    /\ sched = NoScheduler /\ orphans = Nowhere /\ dropped = {}
    /\ status = [p \in PullPayments |-> "initial"]
    /\ begun \in [PullPayments -> BOOLEAN]
    /\ left = [p \in PullPayments |-> Payments]
    /\ stops = 0 /\ crashes = 0 /\ faults = 0

\* rclient.sadd and rclient.srem
Sadd(p) == /\ keys' = IF Configured THEN keys \cup {p} ELSE keys
           /\ dropped' = dropped \ {p}
Srem(p) == keys' = IF Configured THEN keys \ {p} ELSE keys

-----------------------------------------------------------------------------
(* The process starts and builds the SDK: sync() asks redis for the IDs and *)
(* the database for their records.  The stub never calls back.              *)
Build == /\ ~up
         /\ up' = TRUE
         /\ reading' = IF Configured THEN keys ELSE {}
         /\ UNCHANGED <<keys, calls, buffer, record, counts>>

(* process.exit: a connection of a pool fails.  Redis and the database keep *)
(* what they have.                                                          *)
Exit == /\ up /\ crashes < MaxCrashes
        /\ up' = FALSE /\ reading' = {}
        /\ starting' = Nowhere /\ again' = Nowhere /\ stopping' = Nowhere
        /\ sched' = NoScheduler /\ orphans' = Nowhere /\ dropped' = {}
        /\ crashes' = crashes + 1
        /\ UNCHANGED <<keys, record, stops, faults>>

\* A mutant of SyncRead: the ID is removed, and no scheduler is started.
SyncReadForgets(p) ==
    /\ p \in reading
    /\ reading' = reading \ {p}
    /\ Srem(p)
    /\ UNCHANGED <<up, calls, buffer, record, counts>>

(* The record of an ID arrives.  An ID without a scheduler is removed from  *)
(* redis, and start(true) will add it again; the cases of the switch index  *)
(* a function, are all undefined, and match no status.                      *)
SyncRead(p) ==
    /\ p \in reading
    /\ reading' = reading \ {p}
    /\ IF sched[p] = "none" THEN Srem(p) /\ again' = Inc(again, p)
                            ELSE UNCHANGED <<keys, again>>
    /\ UNCHANGED <<up, starting, stopping, buffer, record, counts>>

\* The record cannot be read: the ID is removed, whatever the buffer holds.
SyncFail(p) ==
    /\ p \in reading
    /\ reading' = reading \ {p}
    /\ Srem(p)
    /\ dropped' = IF sched[p] = "none" THEN dropped ELSE dropped \cup {p}
    /\ Fails
    /\ UNCHANGED <<up, calls, sched, orphans, record, stops, crashes>>

-----------------------------------------------------------------------------
\* SchedulerBuffer.set: a scheduler replaces the one that was there.
Set(p, new) == /\ sched' = [sched EXCEPT ![p] = new]
               /\ orphans' = IF sched[p] = "armed" THEN Inc(orphans, p) ELSE orphans
               /\ Sadd(p)

\* SchedulerBuffer.delete: the timers it knows of are cleared.
Delete(p) == /\ sched[p] # "none"
             /\ sched' = [sched EXCEPT ![p] = "none"]
             /\ Srem(p)

\* A call of new Scheduler(p, callback).start().
CallStart(p) == up /\ starting' = Inc(starting, p)

(* start(): a start date to come, or at most half an hour ago and then      *)
(* moved to the next second, gets a job; for an older one node-schedule     *)
(* returns null.                                                            *)
Start(p) ==
    /\ starting[p] > 0
    /\ starting' = Dec(starting, p)
    /\ \/ Set(p, "armed") /\ begun' = [begun EXCEPT ![p] = FALSE]
       \/ begun[p] /\ Set(p, "idle") /\ UNCHANGED begun
    /\ UNCHANGED <<up, reading, again, stopping, status, left, counts>>

\* A mutant of StartAgain: the scheduler starts, and its ID is not kept.
StartAgainUnkept(p) ==
    /\ again[p] > 0
    /\ again' = Dec(again, p)
    /\ sched' = [sched EXCEPT ![p] = IF begun[p] THEN "idle" ELSE "armed"]
    /\ UNCHANGED <<keys, up, reading, starting, stopping, orphans, dropped,
                   record, counts>>

\* start(true): the start date is taken as it is, and a past one gets no job.
StartAgain(p) ==
    /\ again[p] > 0
    /\ again' = Dec(again, p)
    /\ Set(p, IF begun[p] THEN "idle" ELSE "armed")
    /\ UNCHANGED <<up, reading, starting, stopping, record, counts>>

\* start() cannot read the record and rejects; nobody catches that.
StartFails(p) ==
    /\ \/ starting[p] > 0 /\ starting' = Dec(starting, p) /\ UNCHANGED again
       \/ again[p] > 0 /\ again' = Dec(again, p) /\ UNCHANGED starting
    /\ Fails
    /\ UNCHANGED <<keys, up, reading, stopping, buffer, record, stops, crashes>>

\* A call of Scheduler.stop(p) by the merchant.
CallStop(p) ==
    /\ up /\ stops < MaxStops
    /\ stops' = stops + 1
    /\ stopping' = Inc(stopping, p)
    /\ UNCHANGED <<keys, up, reading, starting, again, buffer, record,
                   crashes, faults>>

(* stop(): the timers of the scheduler in the buffer are cleared and the    *)
(* record is written; without a scheduler nothing happens.                  *)
Stop(p) ==
    /\ stopping[p] > 0
    /\ stopping' = Dec(stopping, p)
    /\ IF sched[p] = "none" THEN UNCHANGED <<sched, status>>
       ELSE /\ sched' = [sched EXCEPT ![p] = "idle"]
            /\ status' = [status EXCEPT ![p] = "stopped"]
    /\ UNCHANGED <<keys, up, reading, starting, again, orphans, dropped,
                   begun, left, counts>>

-----------------------------------------------------------------------------
(* The start date passes; a live job fires, and the scheduler in the buffer *)
(* gets its interval and is set again, whoever's job it was.                *)
Begin(p) ==
    /\ ~begun[p]
    /\ begun' = [begun EXCEPT ![p] = TRUE]
    /\ status' = IF Timers(p) > 0 THEN [status EXCEPT ![p] = "running"] ELSE status
    /\ IF Timers(p) = 0 \/ sched[p] = "none" THEN UNCHANGED <<keys, buffer>>
       ELSE /\ sched' = [sched EXCEPT ![p] = "armed"]
            /\ orphans' = [orphans EXCEPT ![p] = Timers(p) - 1]
            /\ Sadd(p)
    /\ UNCHANGED <<up, reading, calls, left, counts>>

(* A live timer executes a payment.  The receipt of the last one makes the  *)
(* record done; the callback is not awaited, and only a callback that finds *)
(* the record done deletes the scheduler from the buffer and from redis.    *)
Execute(p) ==
    /\ begun[p] /\ Timers(p) > 0 /\ left[p] > 0
    /\ left' = Dec(left, p)
    /\ status' = IF left[p] > 1 THEN status ELSE [status EXCEPT ![p] = "done"]
    /\ UNCHANGED <<keys, sched>> \/ (left[p] = 1 /\ Delete(p))
    /\ UNCHANGED <<up, reading, calls, orphans, dropped, begun, counts>>

Recover(p) == SyncRead(p) \/ Start(p) \/ StartAgain(p) \/ Stop(p)
Disturb(p) == SyncFail(p) \/ StartFails(p)

RecoveryNext ==
    \/ Build \/ Exit
    \/ \E p \in PullPayments :
          \/ /\ starting[p] + Timers(p) < MaxStarts
             /\ CallStart(p)
             /\ UNCHANGED <<keys, up, reading, again, stopping, buffer,
                            record, counts>>
          \/ Recover(p) \/ Disturb(p) \/ CallStop(p) \/ Begin(p) \/ Execute(p)

RecoverySpec == RecoveryInit /\ [][RecoveryNext]_recoveryVars

-----------------------------------------------------------------------------
RecoveryTypeOK ==
    /\ up \in BOOLEAN
    /\ keys \subseteq PullPayments /\ reading \subseteq PullPayments
    /\ dropped \subseteq PullPayments
    /\ {starting, again, stopping, orphans, left} \subseteq [PullPayments -> Nat]
    /\ sched \in [PullPayments -> {"none", "idle", "armed"}]
    /\ status \in [PullPayments -> {"initial", "running", "stopped", "done"}]
    /\ begun \in [PullPayments -> BOOLEAN]
    /\ {stops, crashes, faults} \subseteq Nat

(* Redis covers the buffer: where the captured client is the configured     *)
(* one, every scheduler in memory is in the set a crash leaves behind, but  *)
(* for one that was started while sync() failed to read its record: the     *)
(* catch removes the ID without a look at the buffer (ScheduleBuffer.ts:    *)
(* 11-36, :46 and :73).                                                     *)
RedisCoversBuffer ==
    Configured => \A p \in PullPayments \ dropped : sched[p] # "none" => p \in keys

(* The merchant's redis client holds the pull payments that will be         *)
(* executed, whoever loaded the modules first (ScheduleBuffer.ts:5).        *)
RedisHoldsSchedulers == \A p \in PullPayments : sched[p] # "none" => p \in keys
=============================================================================
