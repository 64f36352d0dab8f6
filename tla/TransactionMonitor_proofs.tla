--------------------- MODULE TransactionMonitor_proofs ---------------------
(***************************************************************************)
(* Proofs about TransactionMonitor, for every set of pull payments, either *)
(* redis client and every bound: any number of monitors, overlapping polls,*)
(* crashes, faults and failing transfers.  The types, the ledger of the    *)
(* polls and the funds are inductive each by itself.                       *)
(***************************************************************************)
EXTENDS TransactionMonitor, SchedulerRecovery_proofs

Polls == [Tx -> [Phases -> Nat]]
CashETHs == [PullPayments -> [Attempts -> Nat]]

(* The part of the types that is the monitors' own.                         *)
OthersOK == /\ single \subseteq PullPayments
            /\ receipt \in [Tx -> {"none", "success", "failed"}]
            /\ watch \in [Tx -> {"on", "off"}]
            /\ polls \in Polls
            /\ watched \in [Tx -> Nat] /\ handled \in [Tx -> Nat]
            /\ cashPMA \in [PullPayments -> Nat] /\ cashETH \in CashETHs
            /\ settled \subseteq PullPayments /\ ether \subseteq PullPayments
            /\ overlapped \subseteq Tx

(* A call of a monitor is a poll that asks, one past the node, or a success *)
(* acted on; while the timer is set, one call is none of the last two.      *)
Pending(t) == polls[t]["row"] + polls[t]["fund"] + polls[t]["start"]
Ledger(t) == /\ polls[t]["asked"] <= 1
             /\ handled[t] + Pending(t) + polls[t]["asked"] <= watched[t]
             /\ watch[t] = "on" => handled[t] + Pending(t) < watched[t]
Ledgers == \A t \in Tx : t \in overlapped \/ Ledger(t)

(* What has been started or will be: a pull payment is live with a call of  *)
(* start(), with a timer, and with an ID in redis, which the next process   *)
(* reads.                                                                   *)
Alive(p) == starting[p] + again[p] + Timers(p)
Live(p) == Alive(p) > 0 \/ p \in keys \/ p \in reading

(* While payments are left and no cancellation has been acted on, what is   *)
(* live, or about to be, is funded, and nothing is being cashed out.        *)
Due(p) == left[p] > 0 /\ handled[C(p)] = 0
CashingOut(p) == cashPMA[p] > 0 \/ \E a \in Attempts : cashETH[p][a] > 0
Funded(p) == /\ Live(p) \/ polls[R(p)]["start"] > 0 => p \in ether
             /\ ~CashingOut(p)
Funds == \A p \in PullPayments : Due(p) => Funded(p)

-----------------------------------------------------------------------------
(* Transactions, polls and cash-outs.                                       *)

LEMMA TxParts ==
    /\ \A p \in PullPayments : R(p) \in Tx /\ C(p) \in Tx
    /\ \A p, q \in PullPayments : (R(p) = R(q) <=> p = q) /\ (C(p) = C(q) <=> p = q)
    /\ \A p, q \in PullPayments : R(p) # C(q)
BY DEF R, C, Tx, Kinds

LEMMA TxCases ==
    ASSUME NEW t \in Tx
    PROVE  /\ t[2] \in PullPayments
           /\ t[1] = "register" => t = R(t[2])
           /\ t[1] = "cancel" => t = C(t[2])
           /\ t[1] \in {"register", "cancel"}
BY DEF R, C, Tx, Kinds

LEMMA PollsType ==
    ASSUME polls \in Polls, NEW t \in Tx
    PROVE  /\ polls[t]["asked"] \in Nat /\ polls[t]["row"] \in Nat
           /\ polls[t]["fund"] \in Nat /\ polls[t]["start"] \in Nat
           /\ Pending(t) \in Nat
BY DEF Polls, Phases, Pending

\* A poll moves to the next phase, or leaves; the others stay where they are.
LEMMA MoveOK ==
    ASSUME polls \in Polls, NEW t \in Tx, NEW f \in Phases, NEW g \in Phases, f # g,
           polls[t][f] > 0, Move(t, f, g)
    PROVE  /\ polls' \in Polls
           /\ polls'[t][f] = polls[t][f] - 1 /\ polls'[t][g] = polls[t][g] + 1
           /\ \A h \in Phases \ {f, g} : polls'[t][h] = polls[t][h]
           /\ \A u \in Tx \ {t} : polls'[u] = polls[u]
BY DEF Polls, Move

LEMMA LeaveOK ==
    ASSUME polls \in Polls, NEW t \in Tx, NEW f \in Phases, polls[t][f] > 0, Leave(t, f)
    PROVE  /\ polls' \in Polls
           /\ polls'[t][f] = polls[t][f] - 1
           /\ \A h \in Phases \ {f} : polls'[t][h] = polls[t][h]
           /\ \A u \in Tx \ {t} : polls'[u] = polls[u]
BY DEF Polls, Leave

LEMMA IdleOK == Idle \in Polls /\ \A t \in Tx, f \in Phases : Idle[t][f] = 0
BY DEF Idle, Polls

LEMMA NoCashOK ==
    NoCash \in CashETHs /\ \A p \in PullPayments, a \in Attempts : NoCash[p][a] = 0
BY DEF NoCash, CashETHs

\* An attempt at the ether is begun, ends, or gives way to the next one.
LEMMA CashETHsOK ==
    ASSUME cashETH \in CashETHs, NEW p \in PullPayments, NEW a \in Attempts
    PROVE  /\ [cashETH EXCEPT ![p][a] = @ + 1] \in CashETHs
           /\ cashETH[p][a] > 0 => [cashETH EXCEPT ![p][a] = @ - 1] \in CashETHs
BY DEF CashETHs

LEMMA NextAttempt ==
    ASSUME cashETH \in CashETHs, NEW p \in PullPayments,
           NEW a \in Attempts \ {Affordable}, cashETH[p][a] > 0
    PROVE  /\ a + 1 \in Attempts
           /\ [cashETH EXCEPT ![p][a] = @ - 1, ![p][a + 1] = @ + 1] \in CashETHs
<1>1. a + 1 \in Attempts /\ a + 1 # a
  BY MonitorAssumption DEF Attempts
<1>. QED
  BY <1>1 DEF CashETHs

-----------------------------------------------------------------------------
(* Types.                                                                   *)

LEMMA MonitorTypeParts == MonitorTypeOK <=> RecoveryTypeOK /\ OthersOK
BY DEF MonitorTypeOK, OthersOK, Polls, CashETHs

LEMMA MonitorTypePartsPrime == MonitorTypeOK' <=> RecoveryTypeOK' /\ OthersOK'
BY MonitorTypeParts, PTL

LEMMA RecoveryTypesKept ==
    ASSUME RecoveryTypeOK, UNCHANGED recoveryVars PROVE RecoveryTypeOK'
BY DEF RecoveryTypeOK, recoveryVars, calls, buffer, record, counts

\* Polls fail, and nothing of the schedulers changes.
LEMMA FaultTypes ==
    ASSUME RecoveryTypeOK, Fails \/ UNCHANGED faults,
           UNCHANGED <<keys, up, reading, calls, buffer, record, stops, crashes>>
    PROVE  RecoveryTypeOK'
BY FailsType DEF RecoveryTypeOK, calls, buffer, record

LEMMA TxTypes ==
    ASSUME RecoveryTypeOK, OthersOK, NEW t \in Tx,
           \/ Mine(t) \/ Watch(t) \/ Poll(t) \/ Nothing(t) \/ See(t) \/ PollFails(t)
    PROVE  RecoveryTypeOK' /\ OthersOK'
<1>1. CASE Mine(t)
  BY <1>1, RecoveryTypesKept DEF OthersOK, Mine, cash
<1>2. CASE Watch(t)
  BY <1>2, RecoveryTypesKept DEF OthersOK, Watch, Inc, cash
<1>3. CASE Poll(t)
  <2>1. polls' \in Polls
    BY <1>3 DEF OthersOK, Poll, Polls, Phases
  <2>. QED
    BY <1>3, <2>1, RecoveryTypesKept DEF OthersOK, Poll, cash
<1>4. CASE Nothing(t)
  <2>1. polls' \in Polls
    BY <1>4, LeaveOK DEF OthersOK, Nothing, Phases
  <2>2. Fails \/ UNCHANGED faults
    BY <1>4 DEF Nothing
  <2>. QED
    BY <1>4, <2>1, <2>2, FaultTypes DEF OthersOK, Nothing, cash
<1>5. CASE See(t)
  <2>1. polls' \in Polls
    BY <1>5, MoveOK DEF OthersOK, See, Phases
  <2>. QED
    BY <1>5, <2>1, RecoveryTypesKept DEF OthersOK, See, cash
<1>6. CASE PollFails(t)
  <2>1. PICK f \in Phases : polls[t][f] > 0 /\ Leave(t, f)
    BY <1>6 DEF PollFails
  <2>2. polls' \in Polls
    BY <2>1, LeaveOK DEF OthersOK
  <2>. QED
    BY <1>6, <2>2, FaultTypes DEF OthersOK, PollFails, cash
<1>. QED
  BY <1>1, <1>2, <1>3, <1>4, <1>5, <1>6

LEMMA RowTypes ==
    ASSUME RecoveryTypeOK, OthersOK, NEW t \in Tx, RowWritten(t)
    PROVE  RecoveryTypeOK' /\ OthersOK'
<1>1. polls' \in Polls
  BY MoveOK, LeaveOK DEF OthersOK, RowWritten, Phases
<1>2. /\ handled' \in [Tx -> Nat] /\ cashPMA' \in [PullPayments -> Nat]
      /\ stopping' \in [PullPayments -> Nat]
  BY TxCases DEF RecoveryTypeOK, OthersOK, RowWritten, Inc
<1>3. RecoveryTypeOK'
  BY <1>2 DEF RecoveryTypeOK, RowWritten, buffer, record, counts
<1>. QED
  BY <1>1, <1>2, <1>3 DEF OthersOK, RowWritten

LEMMA HandleTypes ==
    ASSUME RecoveryTypeOK, OthersOK, NEW p \in PullPayments,
           FundETH(p) \/ StartScheduler(p)
    PROVE  RecoveryTypeOK' /\ OthersOK'
<1>0. R(p) \in Tx
  BY TxParts
<1>1. polls' \in Polls
  BY <1>0, MoveOK, LeaveOK DEF OthersOK, FundETH, StartScheduler, Phases
<1>2. handled' \in [Tx -> Nat]
  BY <1>0 DEF OthersOK, FundETH, StartScheduler, Inc
<1>3. CASE FundETH(p)
  BY <1>1, <1>2, <1>3, RecoveryTypesKept DEF OthersOK, FundETH, cash
<1>4. CASE StartScheduler(p)
  <2>1. starting' \in [PullPayments -> Nat]
    BY <1>4, CallStartType DEF RecoveryTypeOK, StartScheduler
  <2>2. RecoveryTypeOK'
    BY <1>4, <2>1 DEF RecoveryTypeOK, StartScheduler, buffer, record, counts
  <2>. QED
    BY <1>1, <1>2, <1>4, <2>2 DEF OthersOK, StartScheduler, cash
<1>. QED
  BY <1>3, <1>4

LEMMA CashTypes ==
    ASSUME RecoveryTypeOK, OthersOK, NEW p \in PullPayments,
           CashPMA(p) \/ TransferETH(p) \/ CashOutFails(p)
    PROVE  RecoveryTypeOK' /\ OthersOK'
<1>1. cashPMA' \in [PullPayments -> Nat]
  BY IncDec DEF OthersOK, CashPMA, TransferETH, CashETH, CashETHFails, CashOutFails
<1>2. cashETH' \in CashETHs
  <2>1. CASE CashPMA(p)
    <3>1. ASSUME NEW a \in Attempts,
               cashETH' = [cashETH EXCEPT ![p][a] = @ + 1]
          PROVE  cashETH' \in CashETHs
      <4>1. cashETH \in CashETHs
        BY DEF OthersOK
      <4>. QED
        BY <3>1, <4>1, CashETHsOK
    <3>. QED
      BY <2>1, <3>1 DEF CashPMA
  <2>2. CASE CashETH(p)
    <3>1. ASSUME NEW a \in Attempts \ {Affordable}, cashETH[p][a] > 0,
               cashETH' = [cashETH EXCEPT ![p][a] = @ - 1]
          PROVE  cashETH' \in CashETHs
      <4>1. cashETH \in CashETHs
        BY DEF OthersOK
      <4>. QED
        BY <3>1, <4>1, CashETHsOK
    <3>. QED
      BY <2>2, <3>1 DEF CashETH
  <2>3. CASE CashETHFails(p)
    <3>1. ASSUME NEW a \in Attempts \ {Affordable}, cashETH[p][a] > 0,
               cashETH' = [cashETH EXCEPT ![p][a] = @ - 1, ![p][a + 1] = @ + 1]
          PROVE  cashETH' \in CashETHs
      <4>1. cashETH \in CashETHs
        BY DEF OthersOK
      <4>. QED
        BY <3>1, <4>1, NextAttempt
    <3>. QED
      BY <2>3, <3>1 DEF CashETHFails
  <2>4. CASE CashOutFails(p)
    BY <2>4 DEF OthersOK, CashOutFails
  <2>. QED
    BY <2>1, <2>2, <2>3, <2>4 DEF TransferETH
<1>3. RecoveryTypeOK'
  BY RecoveryTypesKept, FaultTypes
     DEF CashPMA, TransferETH, CashETH, CashETHFails, CashOutFails
<1>4. ether' \subseteq PullPayments
  BY DEF OthersOK, CashPMA, TransferETH, CashETH, CashETHFails, CashOutFails
<1>. QED
  BY <1>1, <1>2, <1>3, <1>4
     DEF OthersOK, CashPMA, TransferETH, CashETH, CashETHFails, CashOutFails

LEMMA ExitTypes ==
    ASSUME RecoveryTypeOK, OthersOK, ExitAll PROVE RecoveryTypeOK' /\ OthersOK'
BY ExitType, IdleOK, NoCashOK, NowhereType DEF OthersOK, ExitAll

LEMMA SchedulerTypes ==
    ASSUME RecoveryTypeOK, OthersOK, NEW p \in PullPayments,
           \/ ExecuteFunded(p)
           \/ (Recover(p) \/ Disturb(p) \/ Begin(p)) /\ UNCHANGED monitorVars
    PROVE  RecoveryTypeOK' /\ OthersOK'
<1>1. RecoveryTypeOK'
  BY SyncType, StartType, StartAgainType, StartFailsType, StopType, BeginType,
     ExecuteType DEF Recover, Disturb, ExecuteFunded
<1>2. OthersOK'
  BY IncDec DEF OthersOK, ExecuteFunded, monitorVars, cash
<1>. QED
  BY <1>1, <1>2

LEMMA MonitorStepTypes == MonitorTypeOK /\ [MonitorNext]_allVars => MonitorTypeOK'
<1>. SUFFICES ASSUME RecoveryTypeOK, OthersOK, [MonitorNext]_allVars
              PROVE  RecoveryTypeOK' /\ OthersOK'
  BY MonitorTypeParts, MonitorTypePartsPrime
<1>1. CASE UNCHANGED allVars
  BY <1>1, RecoveryTypesKept DEF OthersOK, allVars, monitorVars, cash
<1>2. CASE Build /\ UNCHANGED monitorVars
  BY <1>2, BuildType DEF OthersOK, monitorVars, cash
<1>. QED
  BY <1>1, <1>2, TxTypes, RowTypes, HandleTypes, CashTypes, ExitTypes, SchedulerTypes
     DEF MonitorNext, Handle

LEMMA MonitorInitTypes == MonitorInit => MonitorTypeOK
<1>. SUFFICES ASSUME MonitorInit PROVE RecoveryTypeOK /\ OthersOK
  BY MonitorTypeParts
<1>1. RecoveryTypeOK
  BY InitTypes DEF MonitorInit
<1>2. OthersOK
  BY IdleOK, NoCashOK, NowhereType DEF MonitorInit, OthersOK
<1>. QED
  BY <1>1, <1>2

(* The types of the monitors, the schedulers and the records hold through   *)
(* polls, faults and crashes, and no call is counted below zero             *)
(* (BlockchainController.ts:31-113).                                        *)
THEOREM MonitorTypes == MonitorSpec => []MonitorTypeOK
<1>. QED
  BY MonitorInitTypes, MonitorStepTypes, PTL DEF MonitorSpec

-----------------------------------------------------------------------------
(* The ledger.  A step of t disturbs no other ledger than t's.              *)

LEMMA LedgerKept ==
    ASSUME NEW t \in Tx, Ledger(t), polls'[t] = polls[t],
           watch'[t] = watch[t], watched'[t] = watched[t], handled'[t] = handled[t]
    PROVE  Ledger(t)'
BY DEF Ledger, Pending

\* A poll that gets no answer, is told no, or fails, takes its call along.
LEMMA LedgerLeft ==
    ASSUME OthersOK, NEW t \in Tx, Ledger(t), NEW f \in Phases, polls[t][f] > 0,
           Leave(t, f), UNCHANGED <<watch, watched, handled>>
    PROVE  Ledger(t)'
<1>1. \A g \in Phases : polls'[t][g] \in Nat /\ polls'[t][g] <= polls[t][g]
  BY LeaveOK DEF OthersOK, Polls
<1>2. /\ polls'[t]["asked"] \in Nat /\ polls'[t]["asked"] <= polls[t]["asked"]
      /\ polls'[t]["row"] \in Nat /\ polls'[t]["row"] <= polls[t]["row"]
      /\ polls'[t]["fund"] \in Nat /\ polls'[t]["fund"] <= polls[t]["fund"]
      /\ polls'[t]["start"] \in Nat /\ polls'[t]["start"] <= polls[t]["start"]
  BY <1>1 DEF Phases
<1>3. handled[t] \in Nat /\ watched[t] \in Nat
  BY DEF OthersOK
<1>. QED
  BY <1>2, <1>3, PollsType DEF OthersOK, Ledger, Pending

\* A success is acted on by a poll past the node, which ends there.
LEMMA LedgerActed ==
    ASSUME OthersOK, NEW t \in Tx, Ledger(t), NEW f \in Phases \ {"asked"},
           polls[t][f] > 0, Leave(t, f), handled' = Inc(handled, t),
           UNCHANGED <<watch, watched>>
    PROVE  Ledger(t)'
<1>1. /\ polls'[t][f] = polls[t][f] - 1
      /\ \A h \in Phases \ {f} : polls'[t][h] = polls[t][h]
  BY LeaveOK DEF OthersOK
<1>2. Pending(t)' = Pending(t) - 1 /\ polls'[t]["asked"] = polls[t]["asked"]
  BY <1>1, PollsType DEF OthersOK, Pending, Phases
<1>3. handled'[t] = handled[t] + 1 /\ handled[t] \in Nat /\ watched[t] \in Nat
  BY DEF OthersOK, Inc
<1>. QED
  BY <1>2, <1>3, PollsType DEF OthersOK, Ledger

\* Past the node, a poll goes on to its next phase.
LEMMA LedgerMoved ==
    ASSUME OthersOK, NEW t \in Tx, Ledger(t),
           \/ polls[t]["row"] > 0 /\ Move(t, "row", "fund")
           \/ polls[t]["fund"] > 0 /\ Move(t, "fund", "start"),
           UNCHANGED <<watch, watched, handled>>
    PROVE  Ledger(t)'
<1>0. polls \in Polls
  BY DEF OthersOK
<1>1. Pending(t)' = Pending(t) /\ polls'[t]["asked"] = polls[t]["asked"]
  <2>0. polls[t]["row"] \in Nat /\ polls[t]["fund"] \in Nat /\ polls[t]["start"] \in Nat
    BY <1>0, PollsType
  <2>1. CASE polls[t]["row"] > 0 /\ Move(t, "row", "fund")
    <3>1. /\ polls'[t]["row"] = polls[t]["row"] - 1
          /\ polls'[t]["fund"] = polls[t]["fund"] + 1
          /\ polls'[t]["start"] = polls[t]["start"]
          /\ polls'[t]["asked"] = polls[t]["asked"]
      BY <1>0, <2>1, MoveOK DEF Phases
    <3>. QED
      BY <2>0, <3>1 DEF Pending
  <2>2. CASE polls[t]["fund"] > 0 /\ Move(t, "fund", "start")
    <3>1. /\ polls'[t]["fund"] = polls[t]["fund"] - 1
          /\ polls'[t]["start"] = polls[t]["start"] + 1
          /\ polls'[t]["row"] = polls[t]["row"]
          /\ polls'[t]["asked"] = polls[t]["asked"]
      BY <1>0, <2>2, MoveOK DEF Phases
    <3>. QED
      BY <2>0, <3>1 DEF Pending
  <2>. QED
    BY <2>1, <2>2
<1>. QED
  BY <1>1 DEF Ledger

LEMMA WatchLedger ==
    ASSUME OthersOK, NEW t \in Tx, Ledger(t), Watch(t) PROVE Ledger(t)'
<1>1. /\ watched'[t] = watched[t] + 1 /\ watched[t] \in Nat /\ handled[t] \in Nat
      /\ polls[t]["asked"] = 0
  BY DEF OthersOK, Watch, Inc
<1>2. Pending(t)' = Pending(t) /\ handled' = handled /\ polls' = polls
  BY DEF Pending, Watch
<1>. QED
  BY <1>1, <1>2, PollsType DEF OthersOK, Ledger

LEMMA PollLedger ==
    ASSUME OthersOK, NEW t \in Tx, Ledger(t), Poll(t)
    PROVE  t \in overlapped' \/ Ledger(t)'
<1>1. CASE polls[t]["asked"] # 0
  BY <1>1 DEF Poll
<1>2. CASE polls[t]["asked"] = 0
  <2>1. polls'[t]["asked"] = 1 /\ Pending(t)' = Pending(t)
    BY <1>2 DEF OthersOK, Polls, Phases, Poll, Pending
  <2>2. handled[t] \in Nat /\ watched[t] \in Nat /\ watch[t] = "on"
    BY DEF OthersOK, Poll
  <2>3. handled' = handled /\ watched' = watched /\ watch' = watch
    BY DEF Poll
  <2>. QED
    BY <2>1, <2>2, <2>3, PollsType DEF OthersOK, Ledger
<1>. QED
  BY <1>1, <1>2

LEMMA SeeLedger ==
    ASSUME OthersOK, NEW t \in Tx, Ledger(t), See(t) PROVE Ledger(t)'
<1>1. /\ polls'[t]["asked"] = polls[t]["asked"] - 1
      /\ polls'[t]["row"] = polls[t]["row"] + 1
      /\ \A h \in Phases \ {"asked", "row"} : polls'[t][h] = polls[t][h]
  BY MoveOK DEF OthersOK, See, Phases
<1>2. Pending(t)' = Pending(t) + 1
  BY <1>1, PollsType DEF OthersOK, Pending, Phases
<1>3. watch'[t] = "off" /\ UNCHANGED <<watched, handled>>
  BY DEF OthersOK, See
<1>4. handled[t] \in Nat /\ watched[t] \in Nat
  BY DEF OthersOK
<1>. QED
  BY <1>1, <1>2, <1>3, <1>4, PollsType DEF OthersOK, Ledger

LEMMA ExitLedger ==
    ASSUME OthersOK, NEW t \in Tx, Ledger(t), ExitAll PROVE Ledger(t)'
<1>1. /\ polls'[t]["asked"] = 0 /\ polls'[t]["row"] = 0
      /\ polls'[t]["fund"] = 0 /\ polls'[t]["start"] = 0
  BY IdleOK DEF ExitAll, Phases
<1>2. watch'[t] = "off" /\ handled' = handled /\ watched' = watched
  BY DEF ExitAll
<1>3. handled[t] \in Nat /\ watched[t] \in Nat
  BY DEF OthersOK
<1>. QED
  BY <1>1, <1>2, <1>3, PollsType DEF OthersOK, Ledger, Pending

\* The steps of the monitors, each for its own transaction.
LEMMA TxLedger ==
    ASSUME OthersOK, NEW t \in Tx, Ledger(t),
           \/ Mine(t) \/ Watch(t) \/ Poll(t) \/ Nothing(t) \/ See(t)
           \/ RowWritten(t) \/ PollFails(t)
    PROVE  t \in overlapped' \/ Ledger(t)'
<1>1. CASE Mine(t)
  BY <1>1, LedgerKept DEF Mine
<1>2. CASE Watch(t) \/ Poll(t) \/ See(t)
  BY <1>2, WatchLedger, PollLedger, SeeLedger
<1>3. CASE Nothing(t)
  BY <1>3, LedgerLeft DEF Nothing, Phases
<1>4. CASE RowWritten(t)
  <2>1. CASE Leave(t, "row") /\ UNCHANGED handled
    BY <1>4, <2>1, LedgerLeft DEF RowWritten, Phases
  <2>2. CASE Move(t, "row", "fund") /\ UNCHANGED handled
    BY <1>4, <2>2, LedgerMoved DEF RowWritten, Phases
  <2>3. CASE Leave(t, "row") /\ handled' = Inc(handled, t)
    BY <1>4, <2>3, LedgerActed DEF RowWritten, Phases
  <2>. QED
    BY <1>4, <2>1, <2>2, <2>3 DEF RowWritten
<1>5. CASE PollFails(t)
  BY <1>5, LedgerLeft DEF PollFails
<1>. QED
  BY <1>1, <1>2, <1>3, <1>4, <1>5

LEMMA StartLedger ==
    ASSUME OthersOK, NEW p \in PullPayments, Ledger(R(p)),
           FundETH(p) \/ StartScheduler(p)
    PROVE  Ledger(R(p))'
<1>0. R(p) \in Tx
  BY TxParts
<1>1. CASE FundETH(p)
  BY <1>0, <1>1, LedgerMoved DEF FundETH, Phases
<1>2. CASE StartScheduler(p)
  BY <1>0, <1>2, LedgerActed DEF StartScheduler, Phases
<1>. QED
  BY <1>1, <1>2

\* What a step does not do to another transaction.
LEMMA OtherLedgers ==
    ASSUME OthersOK, NEW t \in Tx, NEW u \in Tx \ {t}, Ledger(u),
           \/ Mine(t) \/ Watch(t) \/ Poll(t) \/ Nothing(t) \/ See(t)
           \/ RowWritten(t) \/ PollFails(t)
           \/ \E p \in PullPayments : t = R(p) /\ (FundETH(p) \/ StartScheduler(p))
    PROVE  Ledger(u)'
<1>1. watch'[u] = watch[u] /\ watched'[u] = watched[u] /\ handled'[u] = handled[u]
  BY DEF OthersOK, Mine, Watch, Poll, Nothing, See, RowWritten, PollFails, FundETH,
         StartScheduler, Inc
<1>2. polls'[u] = polls[u]
  BY DEF OthersOK, Polls, Mine, Watch, Poll, Nothing, See, RowWritten, PollFails,
         FundETH, StartScheduler, Move, Leave
<1>. QED
  BY <1>1, <1>2, LedgerKept

LEMMA MonitorStepLedgers ==
    MonitorTypeOK /\ Ledgers /\ [MonitorNext]_allVars => Ledgers'
<1>. SUFFICES ASSUME OthersOK, [MonitorNext]_allVars,
                     NEW u \in Tx, u \in overlapped \/ Ledger(u)
              PROVE  u \in overlapped' \/ Ledger(u)'
  BY MonitorTypeParts DEF Ledgers
<1>0. CASE u \in overlapped
  BY <1>0 DEF MonitorNext, Mine, Watch, Poll, Nothing, See, RowWritten, PollFails,
              Handle, FundETH, StartScheduler, CashPMA, TransferETH, CashETH,
              CashETHFails, CashOutFails, ExecuteFunded, ExitAll, allVars, monitorVars
<1>. SUFFICES ASSUME Ledger(u) PROVE u \in overlapped' \/ Ledger(u)'
  BY <1>0
<1>1. ASSUME NEW t \in Tx,
             \/ Mine(t) \/ Watch(t) \/ Poll(t) \/ Nothing(t) \/ See(t)
             \/ RowWritten(t) \/ PollFails(t)
      PROVE  u \in overlapped' \/ Ledger(u)'
  <2>1. CASE t = u
    BY <1>1, <2>1, TxLedger
  <2>2. CASE t # u
    BY <1>1, <2>2, OtherLedgers
  <2>. QED
    BY <2>1, <2>2
<1>2. ASSUME NEW p \in PullPayments, FundETH(p) \/ StartScheduler(p)
      PROVE  Ledger(u)'
  <2>0. R(p) \in Tx
    BY TxParts
  <2>1. CASE R(p) = u
    BY <1>2, <2>1, StartLedger
  <2>2. CASE R(p) # u
    BY <1>2, <2>0, <2>2, OtherLedgers
  <2>. QED
    BY <2>1, <2>2
<1>3. ASSUME NEW p \in PullPayments,
             CashPMA(p) \/ TransferETH(p) \/ CashOutFails(p) \/ ExecuteFunded(p)
      PROVE  Ledger(u)'
  BY <1>3, LedgerKept DEF CashPMA, TransferETH, CashETH, CashETHFails, CashOutFails,
                          ExecuteFunded
<1>4. CASE UNCHANGED monitorVars
  BY <1>4, LedgerKept DEF monitorVars
<1>. QED
  BY <1>1, <1>2, <1>3, <1>4, ExitLedger DEF MonitorNext, Handle, allVars

(* A success is acted on once for each time it is monitored, however many   *)
(* transactions are monitored and whatever crashes, unless two polls of it  *)
(* overlapped: the poll that sees the receipt clears the timer, and there   *)
(* is no other (BlockchainController.ts:34-38, :85-88).                     *)
THEOREM MonitorHandlesOnce == MonitorSpec => []HandledOnce
<1>1. MonitorInit => MonitorTypeOK /\ Ledgers
  <2>. SUFFICES ASSUME MonitorInit, MonitorTypeOK, NEW t \in Tx PROVE Ledger(t)
    BY MonitorInitTypes DEF Ledgers
  <2>1. /\ polls[t]["asked"] = 0 /\ polls[t]["row"] = 0
        /\ polls[t]["fund"] = 0 /\ polls[t]["start"] = 0
    BY IdleOK DEF MonitorInit, Phases
  <2>2. handled[t] = 0 /\ watched[t] = 0 /\ watch[t] = "off"
    BY DEF MonitorInit
  <2>. QED
    BY <2>1, <2>2 DEF Ledger, Pending
<1>2. MonitorTypeOK /\ Ledgers => HandledOnce
  <2>. SUFFICES ASSUME OthersOK, NEW t \in Tx, Ledger(t) PROVE handled[t] <= watched[t]
    BY MonitorTypeParts DEF Ledgers, HandledOnce
  <2>1. handled[t] \in Nat /\ watched[t] \in Nat
    BY DEF OthersOK
  <2>. QED
    BY <2>1, PollsType DEF OthersOK, Ledger
<1>. QED
  BY <1>1, <1>2, MonitorStepTypes, MonitorStepLedgers, PTL DEF MonitorSpec

-----------------------------------------------------------------------------
(* The funds.  First, what the schedulers' own steps do to what is live.    *)

LEMMA AliveType ==
    ASSUME RecoveryTypeOK, NEW p \in PullPayments
    PROVE  /\ starting[p] \in Nat /\ again[p] \in Nat /\ Timers(p) \in Nat
           /\ Alive(p) \in Nat
BY TimersType DEF RecoveryTypeOK, Alive

Same(p) == /\ starting'[p] = starting[p] /\ again'[p] = again[p]
           /\ sched'[p] = sched[p] /\ orphans'[p] = orphans[p]
           /\ p \in keys' <=> p \in keys
           /\ p \in reading' <=> p \in reading

LEMMA SameLive == ASSUME NEW p \in PullPayments, Same(p) PROVE Live(p)' = Live(p)
BY DEF Same, Alive, Timers, Live

(* A step for p changes nothing of another, makes nothing live that was not,*)
(* and adds no payment to be made.                                          *)
Harmless(p) == /\ \A q \in PullPayments \ {p} : Same(q) /\ left'[q] = left[q]
               /\ Live(p)' => Live(p)
               /\ left'[p] > 0 => left[p] > 0

LEMMA SyncHarmless ==
    ASSUME RecoveryTypeOK, NEW p \in PullPayments, SyncRead(p) \/ SyncFail(p)
    PROVE  Harmless(p)
<1>1. \A q \in PullPayments \ {p} : Same(q)
  BY DEF RecoveryTypeOK, SyncRead, SyncFail, Srem, Same, buffer, calls, Inc
<1>2. Live(p) /\ left' = left
  BY DEF SyncRead, SyncFail, Live, record
<1>. QED
  BY <1>1, <1>2 DEF Harmless

LEMMA StartHarmless ==
    ASSUME RecoveryTypeOK, NEW p \in PullPayments, Start(p) \/ StartAgain(p)
    PROVE  Harmless(p)
<1>1. \A q \in PullPayments \ {p} : Same(q)
  BY DEF RecoveryTypeOK, Start, StartAgain, Set, Sadd, Same, Dec, Inc
<1>2. Live(p) /\ left' = left
  BY AliveType DEF Start, StartAgain, Live, Alive, record
<1>. QED
  BY <1>1, <1>2 DEF Harmless

LEMMA StartFailsHarmless ==
    ASSUME RecoveryTypeOK, NEW p \in PullPayments, StartFails(p)
    PROVE  Harmless(p)
<1>1. \A q \in PullPayments \ {p} : Same(q)
  BY DEF RecoveryTypeOK, StartFails, Same, buffer, Dec
<1>2. Live(p) /\ left' = left
  BY AliveType DEF StartFails, Live, Alive, record
<1>. QED
  BY <1>1, <1>2 DEF Harmless

LEMMA StopHarmless ==
    ASSUME RecoveryTypeOK, NEW p \in PullPayments, Stop(p)
    PROVE  Harmless(p)
<1>1. \A q \in PullPayments \ {p} : Same(q)
  BY DEF RecoveryTypeOK, Stop, Same
<1>2. UNCHANGED <<reading, keys, starting, again, orphans, left>>
  BY DEF Stop
<1>3. sched'[p] = sched[p] \/ sched'[p] = "idle"
  BY DEF RecoveryTypeOK, Stop
<1>4. Timers(p)' <= Timers(p) /\ Timers(p)' \in Nat
  BY <1>2, <1>3 DEF RecoveryTypeOK, Timers
<1>5. Alive(p)' <= Alive(p) /\ Alive(p)' \in Nat
  BY <1>2, <1>4, AliveType DEF Alive
<1>. QED
  BY <1>1, <1>2, <1>5, AliveType DEF Harmless, Live

LEMMA BeginHarmless ==
    ASSUME RecoveryTypeOK, NEW p \in PullPayments, Begin(p)
    PROVE  Harmless(p)
<1>1. \A q \in PullPayments \ {p} : Same(q)
  BY DEF RecoveryTypeOK, Begin, Same, Sadd, calls, buffer
<1>2. UNCHANGED <<reading, starting, again, left>>
  BY DEF Begin, calls
<1>3. Timers(p)' = Timers(p)
  BY TimersType DEF RecoveryTypeOK, Begin, Timers, buffer
<1>4. p \in keys' => p \in keys \/ Alive(p) > 0
  BY AliveType DEF Begin, Sadd, buffer, Alive
<1>. QED
  BY <1>1, <1>2, <1>3, <1>4 DEF Harmless, Live, Alive

LEMMA ExecuteHarmless ==
    ASSUME RecoveryTypeOK, NEW p \in PullPayments, Execute(p)
    PROVE  Harmless(p)
<1>1. \A q \in PullPayments \ {p} : Same(q) /\ left'[q] = left[q]
  BY DEF RecoveryTypeOK, Execute, Same, Delete, Srem, Dec, calls
<1>2. Live(p) /\ left[p] > 0
  BY AliveType DEF Execute, Live, Alive
<1>. QED
  BY <1>1, <1>2 DEF Harmless

LEMMA RecoveryHarmless ==
    ASSUME RecoveryTypeOK, NEW p \in PullPayments,
           Recover(p) \/ Disturb(p) \/ Begin(p) \/ Execute(p)
    PROVE  Harmless(p)
BY SyncHarmless, StartHarmless, StartFailsHarmless, StopHarmless, BeginHarmless,
   ExecuteHarmless DEF Recover, Disturb

-----------------------------------------------------------------------------
(* The funds of q, where a step takes nothing from it and adds no claim.    *)

LEMMA FundedKept ==
    ASSUME NEW q \in PullPayments, Due(q) => Funded(q),
           left'[q] > 0 => left[q] > 0, handled'[C(q)] = 0 => handled[C(q)] = 0,
           Live(q)' => Live(q),
           polls'[R(q)]["start"] > 0 => polls[R(q)]["start"] > 0,
           q \in ether => q \in ether',
           CashingOut(q)' => CashingOut(q)
    PROVE  Due(q)' => Funded(q)'
BY DEF Due, Funded

SchedulersKept == UNCHANGED <<keys, reading, starting, again, sched, orphans, left>>

LEMMA KeptLive ==
    ASSUME SchedulersKept, NEW q \in PullPayments PROVE Live(q)' = Live(q)
BY SameLive DEF SchedulersKept, Same

\* A poll before the start of a scheduler changes no fund.
LEMMA PollFunds ==
    ASSUME OthersOK, Funds, NEW t \in Tx, NEW q \in PullPayments,
           Mine(t) \/ Watch(t) \/ Poll(t) \/ Nothing(t) \/ See(t) \/ PollFails(t)
    PROVE  Due(q)' => Funded(q)'
<1>0. R(q) \in Tx
  BY TxParts
<1>1. /\ SchedulersKept
      /\ UNCHANGED <<handled, ether, cash>>
  BY DEF Mine, Watch, Poll, Nothing, See, PollFails, SchedulersKept, recoveryVars,
         calls, buffer, record
<1>2. polls'[R(q)]["start"] > 0 => polls[R(q)]["start"] > 0
  <2>1. CASE Mine(t) \/ Watch(t)
    BY <2>1 DEF Mine, Watch
  <2>2. CASE Poll(t)
    BY <1>0, <2>2 DEF OthersOK, Polls, Phases, Poll
  <2>3. CASE See(t)
    BY <1>0, <2>3, MoveOK DEF OthersOK, See, Phases
  <2>4. CASE Nothing(t)
    BY <1>0, <2>4, LeaveOK DEF OthersOK, Nothing, Phases
  <2>5. CASE PollFails(t)
    <3>1. PICK f \in Phases : polls[t][f] > 0 /\ Leave(t, f)
      BY <2>5 DEF PollFails
    <3>2. polls[t]["start"] \in Nat /\ polls[t][f] \in Nat
      BY DEF OthersOK, Polls, Phases
    <3>3. CASE f = "start"
      BY <1>0, <3>1, <3>2, <3>3, LeaveOK DEF OthersOK
    <3>4. CASE f # "start"
      BY <1>0, <3>1, <3>4, LeaveOK DEF OthersOK, Phases
    <3>. QED
      BY <3>3, <3>4
  <2>. QED
    BY <2>1, <2>2, <2>3, <2>4, <2>5
<1>3. Live(q)' => Live(q)
  BY <1>1, KeptLive
<1>4. CashingOut(q)' => CashingOut(q)
  BY <1>1 DEF CashingOut, cash
<1>. QED
  BY <1>1, <1>2, <1>3, <1>4, FundedKept DEF Funds, SchedulersKept

\* The cancellation that begins a cash-out has been acted on with it.
LEMMA RowFunds ==
    ASSUME OthersOK, Funds, NEW t \in Tx, NEW q \in PullPayments, RowWritten(t)
    PROVE  Due(q)' => Funded(q)'
<1>0. R(q) \in Tx /\ C(q) \in Tx
  BY TxParts
<1>1. Live(q)' => Live(q)
  <2>1. SchedulersKept
    BY DEF RowWritten, SchedulersKept, buffer, record
  <2>. QED
    BY <2>1, KeptLive
<1>2. polls'[R(q)]["start"] > 0 => polls[R(q)]["start"] > 0
  <2>1. CASE Leave(t, "row")
    BY <1>0, <2>1, LeaveOK DEF OthersOK, RowWritten, Phases
  <2>2. CASE Move(t, "row", "fund")
    BY <1>0, <2>2, MoveOK DEF OthersOK, RowWritten, Phases
  <2>. QED
    BY <2>1, <2>2 DEF RowWritten
<1>3. UNCHANGED <<left, ether, cashETH>>
  BY DEF RowWritten, record
<1>4. CASE UNCHANGED <<handled, cashPMA>>
  BY <1>1, <1>2, <1>3, <1>4, FundedKept DEF Funds, CashingOut
<1>5. CASE /\ t[1] = "cancel" /\ handled' = Inc(handled, t)
           /\ cashPMA' = Inc(cashPMA, t[2])
  <2>1. CASE t = C(q)
    BY <1>5, <2>1 DEF OthersOK, Inc, Due
  <2>2. CASE t # C(q)
    <3>1. t = C(t[2]) /\ t[2] # q
      BY <1>5, <2>2, TxCases
    <3>2. handled'[C(q)] = handled[C(q)] /\ cashPMA'[q] = cashPMA[q]
      BY <1>0, <1>5, <2>2, <3>1 DEF OthersOK, Inc
    <3>. QED
      BY <1>1, <1>2, <1>3, <3>2, FundedKept DEF Funds, CashingOut
  <2>. QED
    BY <2>1, <2>2
<1>. QED
  BY <1>4, <1>5 DEF RowWritten

\* The address is funded before its scheduler is started.
LEMMA StartFunds ==
    ASSUME OthersOK, RecoveryTypeOK, Funds, NEW p \in PullPayments,
           NEW q \in PullPayments, FundETH(p) \/ StartScheduler(p)
    PROVE  Due(q)' => Funded(q)'
<1>0. /\ R(q) \in Tx /\ C(q) \in Tx /\ R(p) \in Tx /\ R(p) # C(q)
      /\ q # p => R(q) # R(p)
  BY TxParts
<1>1. left' = left /\ handled'[C(q)] = handled[C(q)]
  BY <1>0 DEF OthersOK, FundETH, StartScheduler, Inc, recoveryVars, record
<1>2. CashingOut(q)' <=> CashingOut(q)
  BY DEF FundETH, StartScheduler, CashingOut, cash
<1>3. ether \subseteq ether' /\ (FundETH(p) => p \in ether')
  BY DEF FundETH, StartScheduler
<1>4. CASE q = p
  <2>1. CASE FundETH(p)
    BY <1>1, <1>2, <1>3, <1>4, <2>1 DEF Funds, Due, Funded
  <2>2. CASE StartScheduler(p)
    <3>1. polls[R(p)]["start"] > 0
      BY <2>2 DEF StartScheduler
    <3>. QED
      BY <1>1, <1>2, <1>3, <1>4, <3>1 DEF Funds, Due, Funded
  <2>. QED
    BY <2>1, <2>2
<1>5. CASE q # p
  <2>1. polls'[R(q)] = polls[R(q)]
    BY <1>0, <1>5 DEF OthersOK, Polls, FundETH, StartScheduler, Move, Leave
  <2>2. Same(q)
    BY <1>5 DEF RecoveryTypeOK, FundETH, StartScheduler, CallStart, Inc, Same,
                recoveryVars, calls, buffer
  <2>3. Live(q)' => Live(q)
    BY <2>2, SameLive
  <2>. QED
    BY <1>1, <1>2, <1>3, <2>1, <2>3, FundedKept DEF Funds
<1>. QED
  BY <1>4, <1>5

\* What is being cashed out is due no more.
LEMMA CashFunds ==
    ASSUME OthersOK, Funds, NEW p \in PullPayments, NEW q \in PullPayments,
           CashPMA(p) \/ TransferETH(p) \/ CashOutFails(p)
    PROVE  Due(q)' => Funded(q)'
<1>1. CashingOut(p)
  BY DEF CashPMA, TransferETH, CashETH, CashETHFails, CashOutFails, CashingOut
<1>2. SchedulersKept /\ UNCHANGED <<handled, polls>>
  BY DEF CashPMA, TransferETH, CashETH, CashETHFails, CashOutFails, SchedulersKept,
         recoveryVars, calls, buffer, record
<1>3. CASE q = p
  BY <1>1, <1>2, <1>3 DEF Funds, Funded, Due, SchedulersKept
<1>4. CASE q # p
  <2>1. cashPMA'[q] = cashPMA[q]
    BY <1>4 DEF OthersOK, CashPMA, TransferETH, CashETH, CashETHFails, CashOutFails,
                Dec
  <2>2. cashETH'[q] = cashETH[q]
    BY <1>4 DEF OthersOK, CashETHs, CashPMA, TransferETH, CashETH, CashETHFails,
                CashOutFails
  <2>3. q \in ether => q \in ether'
    BY <1>4 DEF CashPMA, TransferETH, CashETH, CashETHFails, CashOutFails
  <2>4. Live(q)' => Live(q)
    BY <1>2, KeptLive
  <2>. QED
    BY <1>2, <2>1, <2>2, <2>3, <2>4, FundedKept DEF Funds, CashingOut, SchedulersKept
<1>. QED
  BY <1>3, <1>4

\* The last payment leaves none to be made, and only it begins a cash-out.
LEMMA ExecuteFunds ==
    ASSUME OthersOK, RecoveryTypeOK, Funds, NEW p \in PullPayments,
           NEW q \in PullPayments, ExecuteFunded(p)
    PROVE  Due(q)' => Funded(q)'
<1>1. Harmless(p) /\ UNCHANGED <<handled, polls, ether, cashETH>>
  BY ExecuteHarmless DEF ExecuteFunded
<1>2. CASE q = p /\ left[p] = 1
  <2>1. left'[p] = 0
    BY <1>2 DEF RecoveryTypeOK, ExecuteFunded, Execute, Dec
  <2>. QED
    BY <1>2, <2>1 DEF Due
<1>3. CASE ~(q = p /\ left[p] = 1)
  <2>1. cashPMA'[q] = cashPMA[q]
    BY <1>3 DEF OthersOK, ExecuteFunded, Inc
  <2>2. (Live(q)' => Live(q)) /\ (left'[q] > 0 => left[q] > 0)
    BY <1>1, SameLive DEF Harmless
  <2>. QED
    BY <1>1, <2>1, <2>2, FundedKept DEF Funds, CashingOut
<1>. QED
  BY <1>2, <1>3

\* The schedulers of the process end; redis keeps what was funded.
LEMMA ExitFunds ==
    ASSUME Funds, NEW q \in PullPayments, ExitAll PROVE Due(q)' => Funded(q)'
<1>1. Live(q)' => Live(q)
  BY DEF ExitAll, Exit, Nowhere, NoScheduler, Live, Alive, Timers
<1>2. ~CashingOut(q)'
  BY NoCashOK DEF ExitAll, Nowhere, CashingOut
<1>3. ~(polls'[R(q)]["start"] > 0)
  BY IdleOK, TxParts DEF ExitAll, Phases
<1>. QED
  BY <1>1, <1>2, <1>3, FundedKept DEF Funds, ExitAll, Exit, record

LEMMA SchedulerFunds ==
    ASSUME RecoveryTypeOK, Funds, NEW q \in PullPayments, UNCHANGED monitorVars,
           \/ Build \/ UNCHANGED recoveryVars
           \/ \E p \in PullPayments : Recover(p) \/ Disturb(p) \/ Begin(p)
    PROVE  Due(q)' => Funded(q)'
<1>1. (Live(q)' => Live(q)) /\ (left'[q] > 0 => left[q] > 0)
  <2>1. CASE Build
    <3>1. left' = left /\ Alive(q)' = Alive(q)
      BY <2>1 DEF Build, Alive, Timers, calls, buffer, record
    <3>. QED
      BY <2>1, <3>1 DEF Build, Live
  <2>2. CASE UNCHANGED recoveryVars
    BY <2>2 DEF recoveryVars, calls, buffer, record, Live, Alive, Timers
  <2>3. ASSUME NEW p \in PullPayments, Recover(p) \/ Disturb(p) \/ Begin(p)
        PROVE  (Live(q)' => Live(q)) /\ (left'[q] > 0 => left[q] > 0)
    BY <2>3, RecoveryHarmless, SameLive DEF Harmless
  <2>. QED
    BY <2>1, <2>2, <2>3
<1>2. UNCHANGED <<handled, polls, ether, cashPMA, cashETH>>
  BY DEF monitorVars, cash
<1>. QED
  BY <1>1, <1>2, FundedKept DEF Funds, CashingOut

LEMMA MonitorStepFunds ==
    MonitorTypeOK /\ Funds /\ [MonitorNext]_allVars => Funds'
<1>. SUFFICES ASSUME RecoveryTypeOK, OthersOK, Funds, [MonitorNext]_allVars,
                     NEW q \in PullPayments
              PROVE  Due(q)' => Funded(q)'
  BY MonitorTypeParts DEF Funds
<1>1. ASSUME NEW t \in Tx,
             \/ Mine(t) \/ Watch(t) \/ Poll(t) \/ Nothing(t) \/ See(t)
             \/ RowWritten(t) \/ PollFails(t)
      PROVE  Due(q)' => Funded(q)'
  BY <1>1, PollFunds, RowFunds
<1>2. ASSUME NEW p \in PullPayments, Handle(p) \/ CashOutFails(p) \/ ExecuteFunded(p)
      PROVE  Due(q)' => Funded(q)'
  BY <1>2, StartFunds, CashFunds, ExecuteFunds DEF Handle
<1>3. CASE ExitAll
  BY <1>3, ExitFunds
<1>. QED
  BY <1>1, <1>2, <1>3, SchedulerFunds DEF MonitorNext, allVars

(* While payments are left and no cancellation has been acted on, a live    *)
(* timer has the ether for its fees: the monitor funds before it starts,    *)
(* also where the process ends in between, what a restart starts again was  *)
(* funded before, and only a cash-out takes ether away                      *)
(* (BlockchainController.ts:46-60, ScheduleBuffer.ts:49-51).                *)
THEOREM MonitorFundsFirst == MonitorSpec => []EtherWhileScheduled
<1>1. MonitorInit => Funds
  <2>. SUFFICES ASSUME MonitorInit, NEW p \in PullPayments
                PROVE  ~Live(p) /\ ~(polls[R(p)]["start"] > 0) /\ ~CashingOut(p)
    BY DEF Funds, Funded
  <2>1. ~Live(p)
    BY DEF MonitorInit, RecoveryInit, Nowhere, NoScheduler, Live, Alive, Timers
  <2>2. ~(polls[R(p)]["start"] > 0)
    BY IdleOK, TxParts DEF MonitorInit, Phases
  <2>3. ~CashingOut(p)
    BY NoCashOK DEF MonitorInit, Nowhere, CashingOut
  <2>. QED
    BY <2>1, <2>2, <2>3
<1>2. MonitorTypeOK /\ Funds => EtherWhileScheduled
  <2>. SUFFICES ASSUME RecoveryTypeOK, Funds, NEW p \in PullPayments,
                       Timers(p) > 0, Due(p)
                PROVE  p \in ether
    BY MonitorTypeParts DEF EtherWhileScheduled, Due
  <2>1. Alive(p) > 0
    BY AliveType DEF Alive
  <2>. QED
    BY <2>1 DEF Funds, Funded, Live
<1>. QED
  BY <1>1, <1>2, MonitorInitTypes, MonitorStepTypes, MonitorStepFunds, PTL
     DEF MonitorSpec

-----------------------------------------------------------------------------
(* Redis covers the buffer also where the monitors start and stop the       *)
(* schedulers (ScheduleBuffer.ts:11-36).                                    *)
THEOREM MonitorCovers == MonitorSpec => []RedisCoversBuffer
<1>1. MonitorInit => RedisCoversBuffer
  BY DEF MonitorInit, RecoveryInit, RedisCoversBuffer, NoScheduler
<1>2. MonitorTypeOK /\ RedisCoversBuffer /\ [MonitorNext]_allVars => RedisCoversBuffer'
  <2>. SUFFICES ASSUME RecoveryTypeOK, RedisCoversBuffer, [MonitorNext]_allVars
                PROVE  RedisCoversBuffer'
    BY MonitorTypeParts
  <2>1. CASE ExitAll
    BY <2>1, ExitCovers DEF ExitAll
  <2>2. ASSUME NEW p \in PullPayments,
               Recover(p) \/ Disturb(p) \/ Begin(p) \/ ExecuteFunded(p)
        PROVE  RedisCoversBuffer'
    BY <2>2, TimerStepCovers DEF ExecuteFunded
  <2>3. ASSUME NEW t \in Tx,
               \/ Mine(t) \/ Watch(t) \/ Poll(t) \/ Nothing(t) \/ See(t)
               \/ RowWritten(t) \/ PollFails(t)
        PROVE  UNCHANGED <<keys, sched, dropped>>
    BY <2>3 DEF Mine, Watch, Poll, Nothing, See, RowWritten, PollFails,
                recoveryVars, buffer
  <2>4. ASSUME NEW p \in PullPayments, Handle(p) \/ CashOutFails(p)
        PROVE  UNCHANGED <<keys, sched, dropped>>
    BY <2>4 DEF Handle, FundETH, StartScheduler, CashPMA, TransferETH, CashETH,
                CashETHFails, CashOutFails, recoveryVars, buffer
  <2>5. CASE Build \/ UNCHANGED allVars
    BY <2>5, UntouchedCovers DEF Build, allVars, recoveryVars, buffer
  <2>. QED
    BY <2>1, <2>2, <2>3, <2>4, <2>5, UntouchedCovers DEF MonitorNext
<1>. QED
  BY <1>1, <1>2, MonitorInitTypes, MonitorStepTypes, PTL DEF MonitorSpec
=============================================================================
