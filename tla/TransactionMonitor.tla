------------------------- MODULE TransactionMonitor -------------------------
(***************************************************************************)
(* The two monitors of src/core/blockchain/BlockchainController.ts.  A     *)
(* timer polls the node for the receipt of a transaction; the poll that    *)
(* sees it clears the timer, writes the transaction's row and, for a       *)
(* registration, funds the merchant's address and starts the scheduler,    *)
(* for a cancellation stops it and cashes out.  The timer does not wait    *)
(* for its polls, so that several may be at work (a slow node or database).*)
(*                                                                         *)
(* Polls are counted per phase: "asked" for the receipt, writing the       *)
(* "row", transferring the ether ("fund"), told of it and about to "start" *)
(* the scheduler.  Cash-outs are counted by themselves, for the last       *)
(* payment begins one too: cashPMA while the tokens are sent, cashETH by   *)
(* the attempts at the ether that failed.  The schedulers are those of     *)
(* SchedulerRecovery; the executePullPayment that a single payment and an  *)
(* initial one call is in PullPaymentExecution.                            *)
(***************************************************************************)
EXTENDS SchedulerRecovery

CONSTANTS MaxPolls,      \* bound: polls of a transaction that ask at a time
          MaxWatches,    \* bound: times a transaction is monitored, both per kind
          Affordable     \* attempts at a cash-out before the fee, a fifth
                         \* higher each time, is more than the address holds

Kinds == {"register", "cancel"}

ASSUME MonitorAssumption ==
    {MaxPolls, MaxWatches} \subseteq [Kinds -> Nat] /\ Affordable \in Nat

Tx == Kinds \X PullPayments
Phases == {"asked", "row", "fund", "start"}
Attempts == 0..Affordable
R(p) == <<"register", p>>
C(p) == <<"cancel", p>>

VARIABLES single,        \* the pull payments of type singlePull
          receipt,       \* external: the receipt the node has
          watch,         \* the timer of a transaction: "on" or "off"
          watched,       \* times it has been monitored
          polls,         \* its polls at work, per phase
          handled,       \* times its success has been acted on
          settled,       \* registrations whose promise is settled
          ether,         \* addresses that hold ether for their fees
          cashPMA,       \* cash-outs that send the tokens
          cashETH,       \* those that send the ether, per failed attempts
          overlapped     \* history: transactions two polls of which overlapped

cash == <<cashPMA, cashETH>>
monitorVars == <<single, receipt, watch, watched, polls, handled, settled, ether, cash,
                 overlapped>>
allVars == <<recoveryVars, monitorVars>>

Move(t, from, to) == polls' = [polls EXCEPT ![t][from] = @ - 1, ![t][to] = @ + 1]
Leave(t, from) == polls' = [polls EXCEPT ![t][from] = @ - 1]
Idle == [t \in Tx |-> [f \in Phases |-> 0]]
NoCash == [p \in PullPayments |-> [a \in Attempts |-> 0]]

MonitorInit ==
    /\ RecoveryInit
    /\ single \in SUBSET PullPayments
    /\ receipt = [t \in Tx |-> "none"]
    /\ watch = [t \in Tx |-> "off"] /\ watched = [t \in Tx |-> 0]
    /\ polls = Idle
    /\ handled = [t \in Tx |-> 0]
    /\ settled = {} /\ ether = {} /\ overlapped = {}
    /\ cashPMA = Nowhere /\ cashETH = NoCash

(* External: a transaction is mined.  A registration that failed cannot be  *)
(* cancelled.                                                               *)
Mine(t) ==
    /\ receipt[t] = "none"
    /\ t[1] = "cancel" => receipt[R(t[2])] = "success"
    /\ \E r \in {"success", "failed"} : receipt' = [receipt EXCEPT ![t] = r]
    /\ UNCHANGED <<recoveryVars, single, watch, watched, polls, handled, settled,
                   ether, cash, overlapped>>

-----------------------------------------------------------------------------
(* The merchant calls a monitor, and may call it again for the same         *)
(* transaction, whether it was acted on or the process ended before; one    *)
(* call at a time.                                                          *)
Watch(t) ==
    /\ up /\ watch[t] = "off" /\ polls[t]["asked"] = 0
    /\ watched[t] < MaxWatches[t[1]]
    /\ watch' = [watch EXCEPT ![t] = "on"]
    /\ watched' = Inc(watched, t)
    /\ UNCHANGED <<recoveryVars, single, receipt, polls, handled, settled, ether, cash,
                   overlapped>>

\* The interval passes.
Poll(t) ==
    /\ watch[t] = "on"
    /\ polls[t]["asked"] < MaxPolls[t[1]]
    /\ polls' = [polls EXCEPT ![t]["asked"] = @ + 1]
    /\ overlapped' = IF polls[t]["asked"] = 0 THEN overlapped ELSE overlapped \cup {t}
    /\ UNCHANGED <<recoveryVars, single, receipt, watch, watched, handled, settled,
                   ether, cash>>

\* The node has no receipt, or does not answer.
Nothing(t) ==
    /\ polls[t]["asked"] > 0
    /\ Leave(t, "asked")
    /\ IF receipt[t] = "none" THEN UNCHANGED faults ELSE Fails
    /\ UNCHANGED <<keys, up, reading, calls, buffer, record, stops, crashes, single,
                   receipt, watch, watched, handled, settled, ether, cash, overlapped>>

\* A mutant of See: the timer goes on.
SeeWatching(t) ==
    /\ polls[t]["asked"] > 0 /\ receipt[t] # "none"
    /\ Move(t, "asked", "row")
    /\ UNCHANGED <<recoveryVars, single, receipt, watch, watched, handled, settled,
                   ether, cash, overlapped>>

\* The node has the receipt: the timer is cleared before anything else.
See(t) ==
    /\ polls[t]["asked"] > 0 /\ receipt[t] # "none"
    /\ Move(t, "asked", "row")
    /\ watch' = [watch EXCEPT ![t] = "off"]
    /\ UNCHANGED <<recoveryVars, single, receipt, watched, handled, settled, ether,
                   cash, overlapped>>

\* A mutant of RowWritten: the scheduler is started before the address is funded.
RowWrittenUnfunded(t) ==
    /\ polls[t]["row"] > 0
    /\ \/ receipt[t] = "failed" /\ Leave(t, "row") /\ UNCHANGED <<stopping, handled, cashPMA>>
       \/ /\ receipt[t] = "success" /\ t[1] = "register"
          /\ Move(t, "row", "start") /\ UNCHANGED <<stopping, handled, cashPMA>>
       \/ /\ receipt[t] = "success" /\ t[1] = "cancel"
          /\ Leave(t, "row") /\ handled' = Inc(handled, t)
          /\ stopping' = Inc(stopping, t[2]) /\ cashPMA' = Inc(cashPMA, t[2])
    /\ UNCHANGED <<keys, up, reading, starting, again, buffer, record, counts, single,
                   receipt, watch, watched, settled, ether, cashETH, overlapped>>

(* The row is written.  A failed transaction ends here: the callback of the *)
(* timer returns false, and the promise of a registration stays as it is.   *)
(* The success of a cancellation calls stop(), not awaited, and cashes out. *)
RowWritten(t) ==
    /\ polls[t]["row"] > 0
    /\ \/ /\ receipt[t] = "failed"
          /\ Leave(t, "row") /\ UNCHANGED <<stopping, handled, cashPMA>>
       \/ /\ receipt[t] = "success" /\ t[1] = "register"
          /\ Move(t, "row", "fund") /\ UNCHANGED <<stopping, handled, cashPMA>>
       \/ /\ receipt[t] = "success" /\ t[1] = "cancel"
          /\ Leave(t, "row") /\ handled' = Inc(handled, t)
          /\ stopping' = Inc(stopping, t[2]) /\ cashPMA' = Inc(cashPMA, t[2])
    /\ UNCHANGED <<keys, up, reading, starting, again, buffer, record, counts, single,
                   receipt, watch, watched, settled, ether, cashETH, overlapped>>

\* fundETH: the transfer of the fees of all payments from the bank is mined.
FundETH(p) ==
    /\ polls[R(p)]["fund"] > 0
    /\ Move(R(p), "fund", "start")
    /\ ether' = ether \cup {p}
    /\ UNCHANGED <<recoveryVars, single, receipt, watch, watched, handled, settled,
                   cash, overlapped>>

\* A mutant of StartScheduler: the schedulers go to the payments made once.
StartSchedulerSingle(p) ==
    /\ polls[R(p)]["start"] > 0
    /\ Leave(R(p), "start")
    /\ handled' = Inc(handled, R(p))
    /\ IF p \in single THEN CallStart(p) ELSE UNCHANGED starting
    /\ settled' = settled \cup {p}
    /\ UNCHANGED <<keys, up, reading, again, stopping, buffer, record, counts, single,
                   receipt, watch, watched, ether, cash, overlapped>>

(* fundETH resolves: the scheduler of a payment that recurs is started, not *)
(* awaited, and the promise resolves.                                       *)
StartScheduler(p) ==
    /\ polls[R(p)]["start"] > 0
    /\ Leave(R(p), "start")
    /\ handled' = Inc(handled, R(p))
    /\ IF p \in single THEN UNCHANGED starting ELSE CallStart(p)
    /\ settled' = settled \cup {p}
    /\ UNCHANGED <<keys, up, reading, again, stopping, buffer, record, counts, single,
                   receipt, watch, watched, ether, cash, overlapped>>

(* The database, the node or the key storage fails after the timer was      *)
(* cleared, or never answers: the callback rejects or hangs, and the        *)
(* transaction is not polled again.                                         *)
PollFails(t) ==
    /\ Fails
    /\ \E f \in Phases \ {"asked"} : polls[t][f] > 0 /\ Leave(t, f)
    /\ UNCHANGED <<keys, up, reading, calls, buffer, record, stops, crashes, single,
                   receipt, watch, watched, handled, settled, ether, cash, overlapped>>

-----------------------------------------------------------------------------
\* A mutant of CashPMA: a second answer of the transfer counts.
CashPMATwice(p) ==
    /\ cashPMA[p] > 0 \/ \E a \in Attempts : cashETH[p][a] > 0
    /\ cashPMA' = Dec(cashPMA, p)
    /\ \E a \in Attempts : cashETH' = [cashETH EXCEPT ![p][a] = @ + 1]
    /\ UNCHANGED <<recoveryVars, single, receipt, watch, watched, polls, handled,
                   settled, ether, overlapped>>

(* cashOutPMA sends the tokens to the bank, always after a cancellation.    *)
(* cashOutETH follows: it reads the balance once and draws the first fee,   *)
(* which leaves that many attempts less.                                    *)
CashPMA(p) ==
    /\ cashPMA[p] > 0
    /\ cashPMA' = Dec(cashPMA, p)
    /\ \E a \in Attempts : cashETH' = [cashETH EXCEPT ![p][a] = @ + 1]
    /\ UNCHANGED <<recoveryVars, single, receipt, watch, watched, polls, handled,
                   settled, ether, overlapped>>

\* A read fails before the ether is sent: the cash-out rejects.
CashOutFails(p) ==
    /\ Fails
    /\ cashPMA[p] > 0 /\ cashPMA' = Dec(cashPMA, p)
    /\ UNCHANGED <<keys, up, reading, calls, buffer, record, stops, crashes, single,
                   receipt, watch, watched, polls, handled, settled, ether, cashETH,
                   overlapped>>

\* The ether goes to the bank, but for a fee the address can pay.
CashETH(p) ==
    /\ \E a \in Attempts \ {Affordable} :
          /\ cashETH[p][a] > 0
          /\ cashETH' = [cashETH EXCEPT ![p][a] = @ - 1]
    /\ ether' = ether \ {p}
    /\ UNCHANGED <<recoveryVars, single, receipt, watch, watched, polls, handled,
                   settled, cashPMA, overlapped>>

\* A mutant of CashETHFails: the failure is the last word.
CashETHGivesUp(p) ==
    /\ \E a \in Attempts \ {Affordable} :
          /\ cashETH[p][a] > 0
          /\ cashETH' = [cashETH EXCEPT ![p][a] = @ - 1]
    /\ UNCHANGED <<recoveryVars, single, receipt, watch, watched, polls, handled,
                   settled, ether, cashPMA, overlapped>>

(* The transfer fails and is tried again at once, for a fee a fifth higher. *)
(* When the address cannot pay it the amount is negative: every transfer    *)
(* fails from there on, and the retries never end.                          *)
CashETHFails(p) ==
    /\ \E a \in Attempts \ {Affordable} :
          /\ cashETH[p][a] > 0
          /\ cashETH' = [cashETH EXCEPT ![p][a] = @ - 1, ![p][a + 1] = @ + 1]
    /\ UNCHANGED <<recoveryVars, single, receipt, watch, watched, polls, handled,
                   settled, ether, cashPMA, overlapped>>

\* The process ends with its timers, its polls, its cash-outs and its promises.
ExitAll ==
    /\ Exit
    /\ polls' = Idle /\ cashPMA' = Nowhere /\ cashETH' = NoCash
    /\ watch' = [t \in Tx |-> "off"]
    /\ settled' = {}
    /\ UNCHANGED <<single, receipt, watched, handled, ether, overlapped>>

(* A payment costs a fee, which an address without ether cannot pay.  The   *)
(* receipt of the last one writes the record and begins to cash out.        *)
ExecuteFunded(p) ==
    /\ p \in ether /\ Execute(p)
    /\ cashPMA' = IF left[p] = 1 THEN Inc(cashPMA, p) ELSE cashPMA
    /\ UNCHANGED <<single, receipt, watch, watched, polls, handled, settled, ether,
                   cashETH, overlapped>>

-----------------------------------------------------------------------------
Answer(t) == See(t) \/ (receipt[t] = "none" /\ Nothing(t))
TransferETH(p) == CashETH(p) \/ CashETHFails(p)
Handle(p) == FundETH(p) \/ StartScheduler(p) \/ CashPMA(p) \/ TransferETH(p)

MonitorNext ==
    \/ \E t \in Tx : \/ Mine(t) \/ Watch(t) \/ Poll(t) \/ Nothing(t) \/ See(t)
                     \/ RowWritten(t) \/ PollFails(t)
    \/ \E p \in PullPayments : Handle(p) \/ CashOutFails(p) \/ ExecuteFunded(p)
    \/ ExitAll
    \/ /\ \/ Build
          \/ \E p \in PullPayments : Recover(p) \/ Disturb(p) \/ Begin(p)
       /\ UNCHANGED monitorVars

MonitorSpec == MonitorInit /\ [][MonitorNext]_allVars

(* What was asked of the node, the database or a timer is answered in the   *)
(* end; the interval goes on while the timer is set.  A transfer may fail   *)
(* as often as it is tried.                                                 *)
MonitorFairness ==
    /\ \A t \in Tx : WF_allVars(Poll(t)) /\ WF_allVars(Answer(t))
                     /\ WF_allVars(RowWritten(t))
    /\ \A p \in PullPayments :
          /\ WF_allVars(FundETH(p)) /\ WF_allVars(StartScheduler(p))
          /\ WF_allVars(CashPMA(p)) /\ WF_allVars(TransferETH(p))
          /\ WF_allVars(SyncRead(p) /\ UNCHANGED monitorVars)
          /\ WF_allVars(Start(p) /\ UNCHANGED monitorVars)
          /\ WF_allVars(StartAgain(p) /\ UNCHANGED monitorVars)

FairMonitorSpec == MonitorSpec /\ MonitorFairness

-----------------------------------------------------------------------------
MonitorTypeOK ==
    /\ RecoveryTypeOK
    /\ single \subseteq PullPayments
    /\ receipt \in [Tx -> {"none", "success", "failed"}]
    /\ watch \in [Tx -> {"on", "off"}]
    /\ polls \in [Tx -> [Phases -> Nat]]
    /\ {watched, handled} \subseteq [Tx -> Nat]
    /\ cashPMA \in [PullPayments -> Nat]
    /\ cashETH \in [PullPayments -> [Attempts -> Nat]]
    /\ settled \subseteq PullPayments /\ ether \subseteq PullPayments
    /\ overlapped \subseteq Tx

(* A success is acted on once for each time the transaction is monitored,   *)
(* through crashes and slow databases, although the timer does not wait for *)
(* its polls, unless two polls asked the node at the same time              *)
(* (BlockchainController.ts:34-38 and :85-88).                              *)
HandledOnce == \A t \in Tx : handled[t] <= watched[t] \/ t \in overlapped

(* A scheduler runs on funded ground: while payments are left and no        *)
(* cancellation has been acted on, the address of a pull payment with a     *)
(* live timer holds the ether for its fees, also after a crash between the  *)
(* transfer and the start, or a restart from redis                          *)
(* (BlockchainController.ts:46-60, ScheduleBuffer.ts:49-51).                *)
EtherWhileScheduled ==
    \A p \in PullPayments :
        Timers(p) > 0 /\ left[p] > 0 /\ handled[C(p)] = 0 => p \in ether

(* A registration that succeeds while it is monitored gets its scheduler,   *)
(* unless something fails or the process ends                               *)
(* (BlockchainController.ts:34-60, Scheduler.ts:23-29).                     *)
RegistrationIsScheduled ==
    \A p \in PullPayments :
        p \notin single /\ watch[R(p)] = "on" /\ receipt[R(p)] = "success"
            ~> sched[p] # "none" \/ faults > 0 \/ ~up

(* The ether of a pull payment that is cancelled, or has made its last      *)
(* payment, returns to the bank; or its fee has outgrown the address, and   *)
(* the retries never end (CashOutController.ts:30-46,                       *)
(* BlockchainTxReceiptHandler.ts:40-44).                                    *)
EtherReturns ==
    \A p \in PullPayments :
        (watch[C(p)] = "on" /\ receipt[C(p)] = "success") \/ cashPMA[p] > 0
            ~> p \notin ether \/ cashETH[p][Affordable] > 0 \/ faults > 0 \/ ~up

(* After a restart, a pull payment of redis whose start date is to come     *)
(* gets a timer again, unless it has begun or been stopped meanwhile, or a  *)
(* record cannot be read (ScheduleBuffer.ts:38-78).                         *)
BufferCatchesUp ==
    \A p \in PullPayments :
        p \in reading /\ ~begun[p]
            ~> \/ Timers(p) > 0 \/ begun[p] \/ status[p] = "stopped"
               \/ faults > 0 \/ ~up

(* A monitored registration settles its promise with the receipt or the     *)
(* failure (BlockchainController.ts:29).                                    *)
RegistrationIsAnswered ==
    \A p \in PullPayments :
        watch[R(p)] = "on" /\ receipt[R(p)] # "none"
            ~> p \in settled \/ faults > 0 \/ ~up
=============================================================================
