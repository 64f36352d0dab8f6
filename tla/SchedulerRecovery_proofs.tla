---------------------- MODULE SchedulerRecovery_proofs ----------------------
(***************************************************************************)
(* Proofs about SchedulerRecovery, for every set of pull payments, every   *)
(* number of payments, either redis client and every bound.                *)
(***************************************************************************)
EXTENDS SchedulerRecovery, TLAPS

-----------------------------------------------------------------------------
(* Counting calls and timers.                                               *)

LEMMA IncDec ==
    ASSUME NEW f \in [PullPayments -> Nat], NEW p \in PullPayments
    PROVE  /\ Inc(f, p) \in [PullPayments -> Nat]
           /\ f[p] > 0 => Dec(f, p) \in [PullPayments -> Nat]
BY DEF Inc, Dec

LEMMA TimersType ==
    ASSUME RecoveryTypeOK, NEW p \in PullPayments PROVE Timers(p) \in Nat
BY DEF RecoveryTypeOK, Timers

LEMMA NowhereType == Nowhere \in [PullPayments -> Nat]
BY DEF Nowhere

LEMMA FailsType == ASSUME faults \in Nat, Fails PROVE faults' \in Nat
BY DEF Fails

-----------------------------------------------------------------------------
(* Types.  The conjuncts are grouped by what the operations change.         *)

CallsOK == {starting, again, stopping} \subseteq [PullPayments -> Nat]
BufferOK == /\ keys \subseteq PullPayments /\ dropped \subseteq PullPayments
            /\ orphans \in [PullPayments -> Nat]
            /\ sched \in [PullPayments -> {"none", "idle", "armed"}]
RecordOK == /\ status \in [PullPayments -> {"initial", "running", "stopped", "done"}]
            /\ begun \in [PullPayments -> BOOLEAN]
            /\ left \in [PullPayments -> Nat]
SyncOK == up \in BOOLEAN /\ reading \subseteq PullPayments
CountsOK == {stops, crashes, faults} \subseteq Nat

LEMMA TypeParts ==
    RecoveryTypeOK <=> CallsOK /\ BufferOK /\ RecordOK /\ SyncOK /\ CountsOK
BY DEF RecoveryTypeOK, CallsOK, BufferOK, RecordOK, SyncOK, CountsOK

LEMMA TypePartsPrime ==
    RecoveryTypeOK' <=> CallsOK' /\ BufferOK' /\ RecordOK' /\ SyncOK' /\ CountsOK'
BY TypeParts, PTL

LEMMA InitTypes == RecoveryInit => RecoveryTypeOK
<1>. SUFFICES ASSUME RecoveryInit PROVE RecoveryTypeOK
  OBVIOUS
<1>1. CallsOK /\ BufferOK
  BY NowhereType DEF RecoveryInit, CallsOK, BufferOK, NoScheduler
<1>3. SyncOK
  BY DEF RecoveryInit, SyncOK
<1>4. CountsOK
  <2>1. stops \in Nat /\ crashes \in Nat /\ faults \in Nat
    BY DEF RecoveryInit
  <2>. QED
    BY <2>1 DEF CountsOK
<1>2. RecordOK
  <2>1. Payments \in Nat
    BY RecoveryAssumption
  <2>. QED
    BY <2>1 DEF RecoveryInit, RecordOK
<1>. QED
  BY <1>1, <1>2, <1>3, <1>4, TypeParts

\* set() and delete() keep the types of the buffer and of redis.
LEMMA SetType ==
    ASSUME BufferOK, NEW p \in PullPayments, NEW new \in {"idle", "armed"}, Set(p, new)
    PROVE  BufferOK'
BY IncDec DEF BufferOK, Set, Sadd

LEMMA DeleteType ==
    ASSUME BufferOK, NEW p \in PullPayments, Delete(p), UNCHANGED <<orphans, dropped>>
    PROVE  BufferOK'
BY DEF BufferOK, Delete, Srem

LEMMA BuildType == ASSUME RecoveryTypeOK, Build PROVE RecoveryTypeOK'
BY DEF RecoveryTypeOK, Build, calls, buffer, record, counts

LEMMA ExitType == ASSUME RecoveryTypeOK, Exit PROVE RecoveryTypeOK'
<1>1. CallsOK' /\ BufferOK' /\ SyncOK'
  BY NowhereType DEF RecoveryTypeOK, CallsOK, BufferOK, SyncOK, Exit, NoScheduler
<1>2. RecordOK' /\ CountsOK'
  BY DEF RecoveryTypeOK, RecordOK, CountsOK, Exit, record
<1>. QED
  BY <1>1, <1>2, TypePartsPrime

LEMMA SyncType ==
    ASSUME RecoveryTypeOK, NEW p \in PullPayments, SyncRead(p) \/ SyncFail(p)
    PROVE  RecoveryTypeOK'
BY IncDec, FailsType
   DEF RecoveryTypeOK, SyncRead, SyncFail, Srem, calls, buffer, record, counts

LEMMA StartType ==
    ASSUME RecoveryTypeOK, NEW p \in PullPayments, Start(p)
    PROVE  RecoveryTypeOK'
<1>1. CallsOK' /\ SyncOK' /\ CountsOK'
  BY IncDec DEF RecoveryTypeOK, CallsOK, SyncOK, CountsOK, Start, counts
<1>3. RecordOK'
  BY DEF RecoveryTypeOK, RecordOK, Start
<1>2. BufferOK'
  BY TypeParts, SetType DEF Start
<1>. QED
  BY <1>1, <1>2, <1>3, TypePartsPrime

LEMMA StartAgainType ==
    ASSUME RecoveryTypeOK, NEW p \in PullPayments, StartAgain(p)
    PROVE  RecoveryTypeOK'
<1>1. CallsOK' /\ RecordOK' /\ SyncOK' /\ CountsOK'
  BY IncDec DEF RecoveryTypeOK, CallsOK, RecordOK, SyncOK, CountsOK, StartAgain,
                record, counts
<1>2. BufferOK'
  BY TypeParts, SetType DEF StartAgain
<1>. QED
  BY <1>1, <1>2, TypePartsPrime

LEMMA StartFailsType ==
    ASSUME RecoveryTypeOK, NEW p \in PullPayments, StartFails(p)
    PROVE  RecoveryTypeOK'
BY IncDec, FailsType DEF RecoveryTypeOK, StartFails, buffer, record

LEMMA StopType ==
    ASSUME RecoveryTypeOK, NEW p \in PullPayments, Stop(p) \/ CallStop(p)
    PROVE  RecoveryTypeOK'
<1>1. CallsOK' /\ SyncOK' /\ CountsOK'
  BY IncDec DEF RecoveryTypeOK, CallsOK, SyncOK, CountsOK, Stop, CallStop, counts
<1>2. BufferOK'
  BY DEF RecoveryTypeOK, BufferOK, Stop, CallStop, buffer
<1>3. RecordOK'
  BY DEF RecoveryTypeOK, RecordOK, Stop, CallStop, record
<1>. QED
  BY <1>1, <1>2, <1>3, TypePartsPrime

LEMMA BeginType ==
    ASSUME RecoveryTypeOK, NEW p \in PullPayments, Begin(p)
    PROVE  RecoveryTypeOK'
<1>1. Timers(p) \in Nat
  BY TimersType
<1>2. keys' \subseteq PullPayments /\ dropped' \subseteq PullPayments
  BY DEF RecoveryTypeOK, Begin, Sadd, buffer
<1>3. orphans' \in [PullPayments -> Nat]
  BY <1>1 DEF RecoveryTypeOK, Begin, Sadd, buffer
<1>. QED
  BY <1>2, <1>3 DEF RecoveryTypeOK, Begin, calls, buffer, counts

LEMMA ExecuteType ==
    ASSUME RecoveryTypeOK, NEW p \in PullPayments, Execute(p)
    PROVE  RecoveryTypeOK'
<1>1. CallsOK' /\ RecordOK' /\ SyncOK' /\ CountsOK'
  BY IncDec DEF RecoveryTypeOK, CallsOK, RecordOK, SyncOK, CountsOK, Execute,
                calls, counts
<1>2. BufferOK'
  BY TypeParts, DeleteType DEF Execute, BufferOK
<1>. QED
  BY <1>1, <1>2, TypePartsPrime

\* A call that is made, of start().
LEMMA CallStartType ==
    ASSUME starting \in [PullPayments -> Nat], NEW p \in PullPayments, CallStart(p)
    PROVE  starting' \in [PullPayments -> Nat]
BY IncDec DEF CallStart

LEMMA StepTypes == RecoveryTypeOK /\ [RecoveryNext]_recoveryVars => RecoveryTypeOK'
<1>. SUFFICES ASSUME RecoveryTypeOK, [RecoveryNext]_recoveryVars
              PROVE  RecoveryTypeOK'
  OBVIOUS
<1>1. CASE Build \/ Exit
  BY <1>1, BuildType, ExitType
<1>2. ASSUME NEW p \in PullPayments, CallStart(p),
             UNCHANGED <<keys, up, reading, again, stopping, buffer, record, counts>>
      PROVE  RecoveryTypeOK'
  BY <1>2, CallStartType DEF RecoveryTypeOK, buffer, record, counts
<1>3. ASSUME NEW p \in PullPayments,
             Recover(p) \/ Disturb(p) \/ CallStop(p) \/ Begin(p) \/ Execute(p)
      PROVE  RecoveryTypeOK'
  BY <1>3, SyncType, StartType, StartAgainType, StartFailsType, StopType,
     BeginType, ExecuteType DEF Recover, Disturb
<1>4. CASE UNCHANGED recoveryVars
  BY <1>4 DEF RecoveryTypeOK, recoveryVars, calls, buffer, record, counts
<1>. QED
  BY <1>1, <1>2, <1>3, <1>4 DEF RecoveryNext

(* The types, of the database's records as of the counters, hold whatever   *)
(* is started, recovered, stopped and lost (ScheduleBuffer.ts:11-78).       *)
THEOREM RecoveryTypes == RecoverySpec => []RecoveryTypeOK
<1>. QED
  BY InitTypes, StepTypes, PTL DEF RecoverySpec

-----------------------------------------------------------------------------
(* Redis covers the buffer.  A step on p can only break it for p.           *)

Covered(p) == p \in dropped \/ sched[p] = "none" \/ p \in keys

LEMMA CoverParts ==
    RedisCoversBuffer <=> (Configured => \A p \in PullPayments : Covered(p))
BY DEF RedisCoversBuffer, Covered

\* The three writes to the buffer and to redis, and what they leave alone.
LEMMA SetCovers ==
    ASSUME RecoveryTypeOK, RedisCoversBuffer, NEW p \in PullPayments,
           NEW new \in {"idle", "armed"}, Set(p, new)
    PROVE  RedisCoversBuffer'
BY DEF RecoveryTypeOK, RedisCoversBuffer, Set, Sadd

LEMMA DeleteCovers ==
    ASSUME RecoveryTypeOK, RedisCoversBuffer, NEW p \in PullPayments,
           Delete(p), UNCHANGED dropped
    PROVE  RedisCoversBuffer'
BY DEF RecoveryTypeOK, RedisCoversBuffer, Delete, Srem

LEMMA UntouchedCovers ==
    ASSUME RedisCoversBuffer, UNCHANGED <<keys, sched, dropped>>
    PROVE  RedisCoversBuffer'
BY DEF RedisCoversBuffer

LEMMA ExitCovers == ASSUME Exit PROVE RedisCoversBuffer'
BY DEF RedisCoversBuffer, Exit, NoScheduler

LEMMA SyncCovers ==
    ASSUME RedisCoversBuffer, NEW p \in PullPayments, SyncRead(p) \/ SyncFail(p)
    PROVE  RedisCoversBuffer'
BY DEF RedisCoversBuffer, SyncRead, SyncFail, Srem, buffer

LEMMA StopCovers ==
    ASSUME RecoveryTypeOK, RedisCoversBuffer, NEW p \in PullPayments, Stop(p)
    PROVE  RedisCoversBuffer'
BY DEF RecoveryTypeOK, RedisCoversBuffer, Stop

LEMMA BeginCovers ==
    ASSUME RecoveryTypeOK, RedisCoversBuffer, NEW p \in PullPayments, Begin(p)
    PROVE  RedisCoversBuffer'
BY DEF RecoveryTypeOK, RedisCoversBuffer, Begin, Sadd, buffer

LEMMA TimerStepCovers ==
    ASSUME RecoveryTypeOK, RedisCoversBuffer, NEW p \in PullPayments,
           Recover(p) \/ Disturb(p) \/ Begin(p) \/ Execute(p)
    PROVE  RedisCoversBuffer'
<1>1. CASE SyncRead(p) \/ SyncFail(p)
  BY <1>1, SyncCovers
<1>2. CASE Start(p) \/ StartAgain(p)
  BY <1>2, SetCovers DEF Start, StartAgain
<1>3. CASE Stop(p)
  BY <1>3, StopCovers
<1>4. CASE StartFails(p)
  BY <1>4, UntouchedCovers DEF StartFails, buffer
<1>5. CASE Begin(p)
  BY <1>5, BeginCovers
<1>6. CASE Execute(p)
  BY <1>6, DeleteCovers, UntouchedCovers DEF Execute
<1>. QED
  BY <1>1, <1>2, <1>3, <1>4, <1>5, <1>6 DEF Recover, Disturb

LEMMA StepCovers ==
    RecoveryTypeOK /\ RedisCoversBuffer /\ [RecoveryNext]_recoveryVars
        => RedisCoversBuffer'
<1>. SUFFICES ASSUME RecoveryTypeOK, RedisCoversBuffer, [RecoveryNext]_recoveryVars
              PROVE  RedisCoversBuffer'
  OBVIOUS
<1>1. CASE Exit
  BY <1>1, ExitCovers
<1>2. CASE Build \/ UNCHANGED recoveryVars
  BY <1>2, UntouchedCovers DEF Build, recoveryVars, buffer
<1>3. ASSUME NEW p \in PullPayments,
             \/ UNCHANGED <<keys, up, reading, again, stopping, buffer, record, counts>>
             \/ CallStop(p)
      PROVE  RedisCoversBuffer'
  BY <1>3, UntouchedCovers DEF CallStop, buffer
<1>4. ASSUME NEW p \in PullPayments, Recover(p) \/ Disturb(p) \/ Begin(p) \/ Execute(p)
      PROVE  RedisCoversBuffer'
  BY <1>4, TimerStepCovers
<1>. QED
  BY <1>1, <1>2, <1>3, <1>4 DEF RecoveryNext

(* Redis covers the buffer through every restart, for every number of       *)
(* schedulers: with the configured client, a crash leaves behind the ID of  *)
(* every scheduler in memory, but for those the catch of sync() has removed *)
(* (ScheduleBuffer.ts:11-36, :46 and :73).                                  *)
THEOREM RecoveryCovers == RecoverySpec => []RedisCoversBuffer
<1>1. RecoveryInit => RedisCoversBuffer
  BY DEF RecoveryInit, RedisCoversBuffer, NoScheduler
<1>. QED
  BY <1>1, InitTypes, StepTypes, StepCovers, PTL DEF RecoverySpec
=============================================================================
