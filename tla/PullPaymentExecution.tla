------------------------ MODULE PullPaymentExecution ------------------------
(***************************************************************************)
(* BlockchainController.executePullPayment() and what it sets off: the     *)
(* transaction signed for the merchant address, the handlers of its        *)
(* 'transactionHash' and 'receipt' events, the pull payment record, the    *)
(* transaction rows, and the cash-out of the proceeds.  Nothing prevents   *)
(* calls for one pull payment from overlapping, and nobody awaits the two  *)
(* handlers: each call is three strands, main, recording (of the row) and  *)
(* handling (of the receipt), whose steps interleave.  A step ends at the  *)
(* next await.                                                             *)
(*                                                                         *)
(* The node, web3 and the contract are external.  A merchant address is    *)
(* used for one pull payment; a node takes a transaction if it has the     *)
(* next nonce of its address, none is pending for the address and ether is *)
(* left to pay for gas.  web3 emits 'receipt' only for a transaction that  *)
(* succeeded, rejects if it was reverted, and rejects if it was not mined  *)
(* in time, though it may still be mined.  getTransactions() rejects when  *)
(* no row matches.                                                         *)
(***************************************************************************)
EXTENDS Naturals, FiniteSets

CONSTANTS
    Payment,           \* pull payment IDs
    NumberOfPayments,  \* regular payments registered for each
    WithInitial,       \* those of type recurringWithInitial
    automatedCashOut,  \* of the payment model, for each
    cashOutFrequency,  \* likewise
    NoPayment,
    MaxExecutions,     \* bound: calls of executePullPayment()
    MaxOverlap         \* bound: calls in progress at once

ASSUME ExecutionAssumption ==
    /\ NumberOfPayments \in [Payment -> Nat \ {0}]
    /\ WithInitial \subseteq Payment
    /\ automatedCashOut \in [Payment -> BOOLEAN]
    /\ cashOutFrequency \in [Payment -> Nat]
    /\ NoPayment \notin Payment
    /\ MaxExecutions \in Nat
    /\ MaxOverlap \in Nat

VARIABLES
    record,   \* the pull payment rows of the database
    row,      \* the transaction rows, by the call that sent the transaction
    call,     \* the calls of executePullPayment()
    sent,     \* the transactions each call has sent
    nonces,   \* mined transactions of each merchant address
    ether,    \* whether the merchant address can pay for gas
    tokens,   \* pull payments whose PMA the merchant address still holds
    due,      \* regular payments that have fallen due
    initial,  \* the contract's initialPaymentAmountInCents is not 0
    left      \* the contract's numberOfPayments

chainVars == <<nonces, ether, tokens, initial, left>>
executionVars == <<record, row, call, sent, chainVars, due>>

Execution == 1..MaxExecutions
Kind == {"execute", "pma", "eth"}

RecordType == [numberOfPayments : Nat, status : {"running", "done"}]
RowStatus == {"pending", "success", "failed"}
RowType == [type : {"none", "execute", "initial"}, status : {"none"} \cup RowStatus]

Main == {"idle", "read", "nonce", "send", "sent", "failed", "returned", "rejected"}
Recording == {"off", "check", "create", "done"}
Handling == {"off", "check", "record", "row", "initial", "pma", "balance",
             "nonce", "send", "sent", "done", "rejected"}

(* view: the record the call read; nonce: the nonce it read last; type: the *)
(* type its row will get; kind: the cash-out it is at, amount: the PMA it   *)
(* read the balance of, moving: what its last transaction moves; phase:     *)
(* whether that is the cash-out at the end of the payment's life or the     *)
(* automated one; treatedAs (history): the payment the receipt was taken    *)
(* for.                                                                     *)
CallType == [id : Payment \cup {NoPayment}, main : Main, recording : Recording,
             handling : Handling, view : RecordType, nonce : Nat,
             type : {"execute", "initial"}, kind : {"pma", "eth"}, amount : Nat,
             moving : Nat, phase : {"last", "automated"},
             treatedAs : {"none", "regular", "initial"}]

NewRecord(n) == [numberOfPayments |-> n, status |-> "running"]
NoRow == [type |-> "none", status |-> "none"]
NoCall == [id |-> NoPayment, main |-> "idle", recording |-> "off",
           handling |-> "off", view |-> NewRecord(0), nonce |-> 0,
           type |-> "execute", kind |-> "pma", amount |-> 0,
           moving |-> 0, phase |-> "last", treatedAs |-> "none"]

ExecutionInit ==
    /\ record = [id \in Payment |-> NewRecord(NumberOfPayments[id])]
    /\ row = [e \in Execution |-> NoRow]
    /\ call = [e \in Execution |-> NoCall]
    /\ sent = [e \in Execution |-> [k \in Kind |-> "none"]]
    /\ nonces = [id \in Payment |-> 0]
    /\ ether = [id \in Payment |-> TRUE]
    /\ tokens = [id \in Payment |-> 0]
    /\ due = [id \in Payment |-> 0]
    /\ initial = [id \in Payment |-> id \in WithInitial]
    /\ left = NumberOfPayments

-----------------------------------------------------------------------------
(* The node and the contract.                                               *)

Accepts(id, nonce) ==
    /\ ether[id]
    /\ nonce = nonces[id]
    /\ \A e \in Execution, k \in Kind : call[e].id = id => sent[e][k] # "pending"

\* The contract lets the payment be executed now.
Allows(id) == initial[id] \/ NumberOfPayments[id] - left[id] < due[id]

Mined(e, k, status) ==
    /\ sent' = [sent EXCEPT ![e][k] = status]
    /\ nonces' = [nonces EXCEPT ![call[e].id] = @ + 1]

MineExecution(e) ==
    LET id == call[e].id
    IN  /\ sent[e]["execute"] = "pending"
        /\ \/ /\ Allows(id)
              /\ Mined(e, "execute", "success")
              /\ initial' = [initial EXCEPT ![id] = FALSE]
              /\ left' = IF initial[id] THEN left ELSE [left EXCEPT ![id] = @ - 1]
              /\ tokens' = [tokens EXCEPT ![id] = @ + 1]
           \/ \* not due, or the customer's tokens do not suffice
              /\ Mined(e, "execute", "reverted")
              /\ UNCHANGED <<initial, left, tokens>>
        /\ UNCHANGED <<record, row, call, ether, due>>

MineCashOut(e) ==
    LET id == call[e].id
    IN  /\ \/ /\ sent[e]["pma"] = "pending"
              /\ \/ /\ call[e].moving <= tokens[id]
                    /\ Mined(e, "pma", "success")
                    /\ tokens' = [tokens EXCEPT ![id] = @ - call[e].moving]
                 \/ /\ call[e].moving > tokens[id]
                    /\ Mined(e, "pma", "reverted")
                    /\ UNCHANGED tokens
              /\ UNCHANGED ether
           \/ /\ sent[e]["eth"] = "pending"
              /\ Mined(e, "eth", "success")
              /\ ether' = [ether EXCEPT ![id] = FALSE]
              /\ UNCHANGED tokens
        /\ UNCHANGED <<record, row, call, due, initial, left>>

FallDue(id) ==
    /\ due[id] < NumberOfPayments[id]
    /\ due' = [due EXCEPT ![id] = @ + 1]
    /\ UNCHANGED <<record, row, call, sent, chainVars>>

-----------------------------------------------------------------------------
(* executePullPayment()                                                     *)

Over(c) == /\ c.main \in {"returned", "rejected"}
           /\ c.recording \in {"off", "done"}
           /\ c.handling \in {"off", "done", "rejected"}

\* Calls are numbered in the order they are made.
Call(e, id) ==
    /\ Cardinality({d \in 1..(e - 1) : ~Over(call[d])}) < MaxOverlap
    /\ \A d \in Execution : (call[d].main = "idle") <=> d >= e
    /\ call' = [call EXCEPT ![e] = [@ EXCEPT !.id = id, !.main = "read"]]
    /\ UNCHANGED <<record, row, sent, chainVars, due>>

ReadRecord(e) ==
    /\ call[e].main = "read"
    /\ call' = [call EXCEPT ![e] =
                   [@ EXCEPT !.main = "nonce", !.view = record[call[e].id]]]
    /\ UNCHANGED <<record, row, sent, chainVars, due>>

getTxCount(e) ==
    /\ call[e].main = "nonce"
    /\ call' = [call EXCEPT ![e] =
                   [@ EXCEPT !.main = "send", !.nonce = nonces[call[e].id]]]
    /\ UNCHANGED <<record, row, sent, chainVars, due>>

(* Nothing is sent: the record is refused by ErrorHandler, the key or the   *)
(* gas estimate cannot be had, or the node refuses the transaction.  The    *)
(* error is no revert, and the catch clause fails to parse it.              *)
Reject(e) ==
    /\ call[e].main \in {"nonce", "send"}
    /\ call' = [call EXCEPT ![e].main = "rejected"]
    /\ UNCHANGED <<record, row, sent, chainVars, due>>

\* The node takes the transaction: web3 emits 'transactionHash'.
executeSignedTransaction(e) ==
    LET id == call[e].id
    IN  /\ call[e].main = "send"
        /\ Accepts(id, call[e].nonce)
        /\ sent' = [sent EXCEPT ![e]["execute"] = "pending"]
        /\ call' = [call EXCEPT ![e] =
               [@ EXCEPT !.main = "sent",
                         !.recording = IF id \in WithInitial THEN "check"
                                       ELSE "create"]]
        /\ UNCHANGED <<record, row, chainVars, due>>

\* A mutant of GetReceipt: the receipt's status is not looked at.
GetReceiptAny(e) ==
    /\ call[e].main = "sent" /\ sent[e]["execute"] \in {"success", "reverted"}
    /\ call' = [call EXCEPT ![e] =
           [@ EXCEPT !.main = "returned",
                     !.handling = IF call[e].id \in WithInitial THEN "check"
                                  ELSE "record",
                     !.treatedAs = IF call[e].id \in WithInitial THEN "none"
                                   ELSE "regular"]]
    /\ UNCHANGED <<record, row, sent, chainVars, due>>

\* web3 has the receipt: it emits 'receipt' and resolves.
GetReceipt(e) ==
    /\ call[e].main = "sent" /\ sent[e]["execute"] = "success"
    /\ call' = [call EXCEPT ![e] =
           [@ EXCEPT !.main = "returned",
                     !.handling = IF call[e].id \in WithInitial THEN "check"
                                  ELSE "record",
                     !.treatedAs = IF call[e].id \in WithInitial THEN "none"
                                   ELSE "regular"]]
    /\ UNCHANGED <<record, row, sent, chainVars, due>>

\* The catch clause finds a revert.
CatchRevert(e) ==
    /\ call[e].main = "sent" /\ sent[e]["execute"] = "reverted"
    /\ call' = [call EXCEPT ![e].main = "failed"]
    /\ UNCHANGED <<record, row, sent, chainVars, due>>

\* The transaction is not mined in time: the catch clause fails to parse that.
GiveUp(e) ==
    /\ call[e].main = "sent" /\ sent[e]["execute"] = "pending"
    /\ call' = [call EXCEPT ![e].main = "rejected"]
    /\ UNCHANGED <<record, row, sent, chainVars, due>>

-----------------------------------------------------------------------------
(* The transaction rows.                                                    *)

\* An update of a row that has not been created yet changes nothing.
updateTransaction(e, status) ==
    row' = IF row[e] = NoRow THEN row ELSE [row EXCEPT ![e].status = status]

FailRow(e) ==
    /\ call[e].main = "failed"
    /\ updateTransaction(e, "failed")
    /\ call' = [call EXCEPT ![e].main = "returned"]
    /\ UNCHANGED <<record, sent, chainVars, due>>

\* getTransactions(): a row of the pull payment of type t and a status in S.
HasRow(id, t, S) == \E e \in Execution :
    call[e].id = id /\ row[e].type = t /\ row[e].status \in S

\* The 'transactionHash' handler.
RecordCheck(e) ==
    LET id == call[e].id
    IN  /\ call[e].recording = "check"
        /\ call' = [call EXCEPT ![e] =
               [@ EXCEPT !.recording = "create",
                         !.type = IF HasRow(id, "initial", RowStatus)
                                  THEN "execute" ELSE "initial"]]
        /\ UNCHANGED <<record, row, sent, chainVars, due>>

createTransaction(e) ==
    /\ call[e].recording = "create"
    /\ row' = [row EXCEPT ![e] = [type |-> call[e].type, status |-> "pending"]]
    /\ call' = [call EXCEPT ![e].recording = "done"]
    /\ UNCHANGED <<record, sent, chainVars, due>>

-----------------------------------------------------------------------------
(* The 'receipt' handler.                                                   *)

\* A mutant of ReceiptCheck: rows of any status are asked for.
ReceiptCheckAny(e) ==
    LET regular == HasRow(call[e].id, "initial", RowStatus)
    IN  /\ call[e].handling = "check"
        /\ call' = [call EXCEPT ![e] =
               IF regular
               THEN [@ EXCEPT !.handling = "record", !.treatedAs = "regular"]
               ELSE [@ EXCEPT !.handling = "initial", !.treatedAs = "initial"]]
        /\ UNCHANGED <<record, row, sent, chainVars, due>>

\* Has the initial payment succeeded before?  If not, this one is it.
ReceiptCheck(e) ==
    LET regular == HasRow(call[e].id, "initial", {"success"})
    IN  /\ call[e].handling = "check"
        /\ call' = [call EXCEPT ![e] =
               IF regular
               THEN [@ EXCEPT !.handling = "record", !.treatedAs = "regular"]
               ELSE [@ EXCEPT !.handling = "initial", !.treatedAs = "initial"]]
        /\ UNCHANGED <<record, row, sent, chainVars, due>>

\* The record after a regular payment, from the record v the call began with.
Paid(v) == [v EXCEPT !.numberOfPayments = @ - 1,
                     !.status = IF v.numberOfPayments = 1 THEN "done" ELSE @]

\* handleRecurringPaymentReceipt(): the record, then the row.
ReceiptRecord(e) ==
    /\ call[e].handling = "record"
    /\ record' = [record EXCEPT ![call[e].id] = Paid(call[e].view)]
    /\ call' = [call EXCEPT ![e].handling = "row"]
    /\ UNCHANGED <<row, sent, chainVars, due>>

\* What is left of the receipt handler after the payment itself is handled.
Automated(c) == IF automatedCashOut[c.id]
                THEN [c EXCEPT !.handling = "pma", !.phase = "automated"]
                ELSE [c EXCEPT !.handling = "done"]

ReceiptRow(e) ==
    /\ call[e].handling = "row"
    /\ updateTransaction(e, "success")
    /\ call' = [call EXCEPT ![e] =
           IF @.view.numberOfPayments = 1
           THEN [@ EXCEPT !.handling = "pma", !.phase = "last"]
           ELSE Automated(@)]
    /\ UNCHANGED <<record, sent, chainVars, due>>

\* handleRecurringPaymentWithInitialReceipt()
InitialRow(e) ==
    /\ call[e].handling = "initial"
    /\ updateTransaction(e, "success")
    /\ call' = [call EXCEPT ![e] = Automated(@)]
    /\ UNCHANGED <<record, sent, chainVars, due>>

-----------------------------------------------------------------------------
(* Cash-out.                                                                *)

\* After cashOutPMA() at the end of the payment's life comes cashOutETH().
AfterPMA(c) == IF c.phase = "last"
               THEN [c EXCEPT !.handling = "nonce", !.kind = "eth"]
               ELSE [c EXCEPT !.handling = "done"]

CashOutDue(id) ==
    LET made == NumberOfPayments[id] - record[id].numberOfPayments
    IN  cashOutFrequency[id] = 0 \/ made % cashOutFrequency[id] = 0

\* cashOutPMA() reads the record.  x % 0 is NaN, and !NaN holds.
cashOutPMA(e) ==
    /\ call[e].handling = "pma"
    /\ call' = [call EXCEPT ![e] =
           IF CashOutDue(@.id)
           THEN [@ EXCEPT !.handling = "balance", !.kind = "pma"]
           ELSE AfterPMA(@)]
    /\ UNCHANGED <<record, row, sent, chainVars, due>>

getBalance(e) ==
    /\ call[e].handling = "balance"
    /\ call' = [call EXCEPT ![e] =
           [@ EXCEPT !.handling = "nonce", !.amount = tokens[call[e].id]]]
    /\ UNCHANGED <<record, row, sent, chainVars, due>>

CashOutNonce(e) ==
    /\ call[e].handling = "nonce"
    /\ call' = [call EXCEPT ![e] =
                   [@ EXCEPT !.handling = "send", !.nonce = nonces[call[e].id]]]
    /\ UNCHANGED <<record, row, sent, chainVars, due>>

CashOutSend(e) ==
    /\ call[e].handling = "send"
    /\ Accepts(call[e].id, call[e].nonce)
    /\ sent' = [sent EXCEPT ![e][call[e].kind] = "pending"]
    /\ call' = [call EXCEPT ![e] = [@ EXCEPT !.handling = "sent",
                                          !.moving = call[e].amount]]
    /\ UNCHANGED <<record, row, chainVars, due>>

\* A mutant of Failed: the handler goes on to the cash-out of ETH.
FailedGoesOn(c) ==
    IF c.kind = "eth" THEN [c EXCEPT !.handling = "nonce"] ELSE AfterPMA(c)

(* A cash-out of PMA that fails ends the handler, but for the catch clause  *)
(* around handleRecurringPaymentReceipt(), which takes the failure for a    *)
(* sign that this was the initial payment.  One of ETH is tried again, with *)
(* less to send.                                                            *)
Failed(c) ==
    IF c.kind = "eth" THEN [c EXCEPT !.handling = "nonce"]
    ELSE IF c.phase = "last" /\ c.id \in WithInitial
    THEN [c EXCEPT !.handling = "initial"]
    ELSE [c EXCEPT !.handling = "rejected"]

\* The node refuses it or something it needs cannot be had; or it is not
\* mined in time.
CashOutFails(e) ==
    /\ \/ call[e].handling = "send"
       \/ call[e].handling = "sent" /\ sent[e][call[e].kind] = "pending"
    /\ call' = [call EXCEPT ![e] = Failed(@)]
    /\ UNCHANGED <<record, row, sent, chainVars, due>>

CashOutReceipt(e) ==
    /\ call[e].handling = "sent"
    /\ \/ /\ sent[e][call[e].kind] = "success"
          /\ call' = [call EXCEPT ![e] =
                 IF @.kind = "pma" THEN AfterPMA(@) ELSE Automated(@)]
       \/ /\ sent[e][call[e].kind] = "reverted"
          /\ call' = [call EXCEPT ![e] = Failed(@)]
    /\ UNCHANGED <<record, row, sent, chainVars, due>>

-----------------------------------------------------------------------------
Executed(e) == \/ ReadRecord(e) \/ getTxCount(e) \/ executeSignedTransaction(e)
            \/ GetReceipt(e) \/ CatchRevert(e) \/ FailRow(e)

Recorded(e) == RecordCheck(e) \/ createTransaction(e)

Handled(e) ==
    \/ ReceiptCheck(e) \/ ReceiptRecord(e) \/ ReceiptRow(e) \/ InitialRow(e)
    \/ cashOutPMA(e) \/ getBalance(e) \/ CashOutNonce(e) \/ CashOutSend(e)
    \/ CashOutReceipt(e)

ExecutionNext ==
    \/ \E e \in Execution :
          \/ \E id \in Payment : Call(e, id)
          \/ Executed(e) \/ Reject(e) \/ GiveUp(e)
          \/ Recorded(e)
          \/ Handled(e) \/ CashOutFails(e)
          \/ MineExecution(e) \/ MineCashOut(e)
    \/ \E id \in Payment : FallDue(id)

ExecutionSpec == ExecutionInit /\ [][ExecutionNext]_executionVars

(* The event loop resumes every strand whose operation has ended, and the   *)
(* miners mine.  Nobody has to call, and nothing has to fail.               *)
FairExecutionSpec ==
    /\ ExecutionSpec
    /\ \A e \in Execution : /\ WF_executionVars(Executed(e))
                            /\ WF_executionVars(Recorded(e))
                            /\ WF_executionVars(Handled(e))
                            /\ WF_executionVars(MineExecution(e))

-----------------------------------------------------------------------------
ExecutionTypeOK ==
    /\ record \in [Payment -> RecordType]
    /\ row \in [Execution -> RowType]
    /\ call \in [Execution -> CallType]
    /\ sent \in [Execution -> [Kind -> {"none", "pending", "success", "reverted"}]]
    /\ nonces \in [Payment -> Nat]
    /\ ether \in [Payment -> BOOLEAN]
    /\ tokens \in [Payment -> Nat]
    /\ due \in [Payment -> Nat]
    /\ initial \in [Payment -> BOOLEAN]
    /\ left \in [Payment -> Nat]

(* However the calls for a pull payment overlap, fail or mistake a regular  *)
(* payment for the initial one, the database never claims fewer payments    *)
(* are left than the contract has: none is forgotten.                       *)
RecordNeverBehind == \A id \in Payment : left[id] <= record[id].numberOfPayments

(* A transaction row that is settled tells what became of the transaction.  *)
RowsTellTruth == \A e \in Execution :
    /\ row[e].status = "success" => sent[e]["execute"] = "success"
    /\ row[e].status = "failed" => sent[e]["execute"] = "reverted"

(* Done is done: once the database says so, no late receipt handler writes  *)
(* the record it began with back (BlockchainTxReceiptHandler.ts:26), and no *)
(* transaction collects for the pull payment any more.                      *)
DoneForGood == [][\A id \in Payment : record[id].status = "done" =>
    record'[id] = record[id] /\ tokens'[id] <= tokens[id]]_executionVars

(* A merchant address gives its ether away only when the contract has       *)
(* executed the last payment, however receipts are mistaken and records     *)
(* written back: no payment is left that nobody could pay the gas for       *)
(* (BlockchainTxReceiptHandler.ts:40, CashOutController.ts:30).             *)
EtherLastsToTheEnd == \A id \in Payment : ~ether[id] => left[id] = 0

(* PMA is left at an address without ether to pay for gas only when the     *)
(* frequency does not divide the number of payments, so that the cash-out   *)
(* of PMA at the end is skipped (CashOutController.ts:23); that of ether is *)
(* not.  Failed, refused and overlapping cash-outs strand nothing.          *)
LastCashOutSkipped(id) ==
    cashOutFrequency[id] # 0 /\ NumberOfPayments[id] % cashOutFrequency[id] # 0
StrandedOnlyBySkip == \A id \in Payment :
    ~ether[id] /\ tokens[id] > 0 => LastCashOutSkipped(id)

(* Every row that is created is settled in the end: the status pending is   *)
(* set to success or otherwise to failed.                                   *)
EveryRowSettles == \A e \in Execution :
    row[e].status = "pending" ~> row[e].status # "pending"
=============================================================================
