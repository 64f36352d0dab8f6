--------------------- MODULE PullPaymentExecution_proofs ---------------------
(***************************************************************************)
(* Theorems about PullPaymentExecution, for any number of calls that       *)
(* overlap in any way.  The argument for RecordNeverBehind counts: each    *)
(* regular payment the contract has executed is a call that succeeded; a   *)
(* record is only lowered by a call whose receipt was taken for one of a   *)
(* regular payment, and by one relative to the record it began with; and   *)
(* with an initial payment, the first receipt that is looked at is always  *)
(* taken for the initial one, so that there are fewer of these calls than  *)
(* calls that succeeded.                                                   *)
(*                                                                         *)
(* WrittenCounts counts in the same way what has been written.  When a     *)
(* record says that no payment is left both counts are full: the contract  *)
(* is through, no handler is left that would write the record, which is    *)
(* DoneForGood, and what the last cash-out moves is all there is, which is *)
(* StrandedOnlyBySkip.                                                     *)
(***************************************************************************)
EXTENDS PullPaymentExecution, FiniteSetTheorems, TLAPS

\* Calls for the pull payment that succeeded on chain.
Paying(id) == {e \in Execution : /\ call[e].id = id
                                 /\ sent[e]["execute"] = "success"}

\* Those whose receipts were taken for the receipt of a regular payment.
Counted(id) == {e \in Execution : /\ call[e].id = id
                                  /\ call[e].treatedAs = "regular"}

\* What the strands of one call say of each other, s being its transaction.
CallOK(c, s) ==
    /\ c.main = "idle" => c.id = NoPayment
    /\ c.main # "idle" => c.id \in Payment
    /\ c.main \in {"idle", "read", "nonce", "send"} =>
          c.handling = "off" /\ s = "none"
    /\ c.main = "failed" => s = "reverted"
    /\ c.handling # "off" => c.main = "returned" /\ s = "success"
    /\ c.handling \in {"off", "check"} <=> c.treatedAs = "none"
    /\ c.handling \in {"record", "row"} => c.treatedAs = "regular"
    /\ c.handling = "check" => c.id \in WithInitial

CallsOK == \A e \in Execution : CallOK(call[e], sent[e]["execute"])

\* Some receipt was taken for the initial payment's.
HasInitial(id) == \E w \in Execution : /\ call[w].id = id
                                       /\ call[w].treatedAs = "initial"

InitialFirst == \A id \in WithInitial :
    HasRow(id, "initial", {"success"}) \/ Counted(id) # {} => HasInitial(id)

\* Initial payments the contract has executed.
InitialMade(id) == IF id \in WithInitial /\ ~initial[id] THEN 1 ELSE 0

ChainCounts == \A id \in Payment :
    /\ left[id] <= NumberOfPayments[id]
    /\ due[id] <= NumberOfPayments[id]
    /\ initial[id] => id \in WithInitial /\ left[id] = NumberOfPayments[id]
    /\ Cardinality(Paying(id)) =
          NumberOfPayments[id] - left[id] + InitialMade(id)

RecordCounts ==
    /\ \A id \in Payment :
          NumberOfPayments[id] <=
             record[id].numberOfPayments + Cardinality(Counted(id))
    /\ \A e \in Execution : call[e].main \notin {"idle", "read"} =>
          NumberOfPayments[call[e].id] <=
             call[e].view.numberOfPayments
             + Cardinality(Counted(call[e].id) \ {e})

ExecutionInv == /\ ExecutionTypeOK
                /\ CallsOK
                /\ RowsTellTruth
                /\ InitialFirst
                /\ ChainCounts
                /\ RecordCounts

-----------------------------------------------------------------------------
(* What a step of call e does: nothing to the other calls, and e's strands  *)
(* still agree with each other.                                             *)

RowOK(r, s) == /\ r.status = "success" => s = "success"
               /\ r.status = "failed" => s = "reverted"

StepOf(e) ==
    /\ ExecutionTypeOK'
    /\ CallOK(call'[e], sent'[e]["execute"])
    /\ RowOK(row'[e], sent'[e]["execute"])
    /\ \A d \in Execution \ {e} : /\ call'[d] = call[d]
                                  /\ sent'[d] = sent[d]
                                  /\ row'[d] = row[d]

\* The step changes nothing that is counted.
Quiet(e) ==
    /\ UNCHANGED <<record, left, due, initial>>
    /\ call'[e].id = call[e].id
    /\ call'[e].treatedAs = call[e].treatedAs
    /\ call'[e].view = call[e].view
    /\ call'[e].main \notin {"idle", "read"} => call[e].main \notin {"idle", "read"}
    /\ sent'[e]["execute"] = "success" <=> sent[e]["execute"] = "success"
    /\ row'[e].type = "initial" /\ row'[e].status = "success" =>
          \/ row[e].type = "initial" /\ row[e].status = "success"
          \/ call[e].treatedAs # "none"

\* The part of the invariant that speaks of one call at a time.
LEMMA StepKeepsCalls ==
    ASSUME ExecutionInv, NEW e \in Execution, StepOf(e)
    PROVE  CallsOK' /\ RowsTellTruth'
BY DEF ExecutionInv, CallsOK, RowsTellTruth, StepOf, RowOK

\* A quiet step keeps the invariant.
LEMMA QuietStep ==
    ASSUME ExecutionInv, NEW e \in Execution, StepOf(e), Quiet(e)
    PROVE  ExecutionInv'
<1>1. CallsOK' /\ RowsTellTruth'
  BY StepKeepsCalls
<1>2. ASSUME NEW d \in Execution
      PROVE  /\ call'[d].id = call[d].id
             /\ call'[d].treatedAs = call[d].treatedAs
             /\ call'[d].view = call[d].view
             /\ sent'[d]["execute"] = "success" <=> sent[d]["execute"] = "success"
             /\ call'[d].main \notin {"idle", "read"} =>
                   call[d].main \notin {"idle", "read"}
  BY DEF StepOf, Quiet
<1>3. \A id : Counted(id)' = Counted(id) /\ Paying(id)' = Paying(id)
  BY <1>2 DEF Counted, Paying
<1>4. ChainCounts'
  BY <1>3 DEF ExecutionInv, ChainCounts, Quiet, InitialMade
<1>5. RecordCounts'
  BY <1>2, <1>3 DEF ExecutionInv, RecordCounts, Quiet
<1>6. InitialFirst'
  <2> SUFFICES ASSUME NEW id \in WithInitial,
                      HasRow(id, "initial", {"success"})' \/ Counted(id)' # {}
               PROVE  HasInitial(id)'
    BY DEF InitialFirst
  <2>1. HasInitial(id) => HasInitial(id)'
    BY <1>2 DEF HasInitial
  <2>2. HasRow(id, "initial", {"success"}) \/ Counted(id) # {} => HasInitial(id)
    BY DEF ExecutionInv, InitialFirst
  <2>3. CASE HasRow(id, "initial", {"success"})'
    <3>1. PICK d \in Execution : /\ call'[d].id = id
                                 /\ row'[d].type = "initial"
                                 /\ row'[d].status = "success"
      BY <2>3 DEF HasRow
    <3>2. call[d].id = id
      BY <1>2, <3>1
    <3>3. \/ row[d].type = "initial" /\ row[d].status = "success"
          \/ call[d].treatedAs # "none"
      BY <3>1 DEF StepOf, Quiet
    <3>4. call[d].treatedAs \in {"none", "regular", "initial"}
      BY DEF ExecutionInv, ExecutionTypeOK, CallType
    <3>5. \/ HasRow(id, "initial", {"success"})
          \/ d \in Counted(id)
          \/ HasInitial(id)
      BY <3>2, <3>3, <3>4 DEF HasRow, Counted, HasInitial
    <3> QED BY <3>5, <2>1, <2>2
  <2>4. CASE Counted(id)' # {}
    BY <2>4, <1>3, <2>1, <2>2
  <2> QED BY <2>3, <2>4
<1> QED BY <1>1, <1>4, <1>5, <1>6 DEF ExecutionInv, StepOf

-----------------------------------------------------------------------------
(* The quiet steps of executePullPayment() itself.                          *)

LEMMA CallUpdated ==
    ASSUME ExecutionTypeOK, NEW e \in Execution, NEW c \in CallType,
           call' = [call EXCEPT ![e] = c]
    PROVE  /\ call' \in [Execution -> CallType]
           /\ call'[e] = c
           /\ \A d \in Execution \ {e} : call'[d] = call[d]
BY DEF ExecutionTypeOK


\* Call e becomes c, which counts as much as before.
LEMMA QuietUpdate ==
    ASSUME ExecutionInv, NEW e \in Execution, NEW c \in CallType,
           call' = [call EXCEPT ![e] = c],
           c.id = call[e].id, c.treatedAs = call[e].treatedAs,
           c.view = call[e].view,
           c.main \notin {"idle", "read"} => call[e].main \notin {"idle", "read"},
           CallOK(c, sent'[e]["execute"]),
           UNCHANGED <<record, due, chainVars>>,
           sent' \in [Execution ->
                         [Kind -> {"none", "pending", "success", "reverted"}]],
           sent'[e]["execute"] = "success" <=> sent[e]["execute"] = "success",
           row' \in [Execution -> RowType],
           RowOK(row'[e], sent'[e]["execute"]),
           row'[e].type = "initial" /\ row'[e].status = "success" =>
              \/ row[e].type = "initial" /\ row[e].status = "success"
              \/ call[e].treatedAs # "none",
           \A d \in Execution \ {e} : sent'[d] = sent[d] /\ row'[d] = row[d]
    PROVE  ExecutionInv'
<1>0. ExecutionTypeOK
  BY DEF ExecutionInv
<1>1. /\ call' \in [Execution -> CallType]
      /\ call'[e] = c
      /\ \A d \in Execution \ {e} : call'[d] = call[d]
  BY <1>0, CallUpdated
<1>2. ExecutionTypeOK'
  BY <1>0, <1>1 DEF ExecutionTypeOK, chainVars
<1>3. StepOf(e)
  BY <1>1, <1>2 DEF StepOf
<1>4. Quiet(e)
  BY <1>1 DEF Quiet, chainVars
<1> QED BY <1>3, <1>4, QuietStep

\* The same for a step that leaves the rows and the transactions alone.
LEMMA QuietCall ==
    ASSUME ExecutionInv, NEW e \in Execution, NEW c \in CallType,
           call' = [call EXCEPT ![e] = c],
           c.id = call[e].id, c.treatedAs = call[e].treatedAs,
           c.view = call[e].view,
           c.main \notin {"idle", "read"} => call[e].main \notin {"idle", "read"},
           CallOK(c, sent[e]["execute"]),
           UNCHANGED <<record, row, sent, chainVars, due>>
    PROVE  ExecutionInv'
<1>1. RowOK(row[e], sent[e]["execute"])
  BY DEF ExecutionInv, RowsTellTruth, RowOK
<1>2. /\ row \in [Execution -> RowType]
      /\ sent \in [Execution ->
                      [Kind -> {"none", "pending", "success", "reverted"}]]
  BY DEF ExecutionInv, ExecutionTypeOK
<1> QED BY <1>1, <1>2, QuietUpdate

LEMMA getTxCountStep ==
    ASSUME ExecutionInv, NEW e \in Execution, getTxCount(e)
    PROVE  ExecutionInv'
<1> DEFINE c == [call[e] EXCEPT !.main = "send", !.nonce = nonces[call[e].id]]
<1>0. call[e] \in CallType /\ CallOK(call[e], sent[e]["execute"])
  BY DEF ExecutionInv, ExecutionTypeOK, CallsOK
<1>1. call[e].id \in Payment /\ nonces[call[e].id] \in Nat
  BY <1>0 DEF getTxCount, CallOK, ExecutionInv, ExecutionTypeOK
<1>2. /\ c \in CallType
      /\ c.main = "send" /\ c.id = call[e].id /\ c.view = call[e].view
      /\ c.treatedAs = call[e].treatedAs /\ c.handling = call[e].handling
  BY <1>0, <1>1 DEF CallType, Main
<1>3. /\ call[e].main = "nonce"
      /\ call' = [call EXCEPT ![e] = c]
      /\ UNCHANGED <<record, row, sent, chainVars, due>>
  BY DEF getTxCount
<1> HIDE DEF c
<1>4. CallOK(c, sent[e]["execute"])
  BY <1>0, <1>2, <1>3 DEF CallOK
<1> QED BY <1>2, <1>3, <1>4, QuietCall
LEMMA RejectStep ==
    ASSUME ExecutionInv, NEW e \in Execution, Reject(e)
    PROVE  ExecutionInv'
<1> DEFINE c == [call[e] EXCEPT !.main = "rejected"]
<1>0. call[e] \in CallType /\ CallOK(call[e], sent[e]["execute"])
  BY DEF ExecutionInv, ExecutionTypeOK, CallsOK
<1>2. /\ c \in CallType
      /\ c.id = call[e].id /\ c.view = call[e].view
      /\ c.treatedAs = call[e].treatedAs
      /\ c.main = "rejected" /\ c.handling = call[e].handling
  BY <1>0 DEF CallType, Main, Recording
<1>3. /\ call[e].main \in {"nonce", "send"}
      /\ call' = [call EXCEPT ![e] = c]
      /\ UNCHANGED <<record, row, sent, chainVars, due>>
  BY DEF Reject
<1> HIDE DEF c
<1>4. CallOK(c, sent[e]["execute"])
  BY <1>0, <1>2, <1>3 DEF CallOK
<1> QED BY <1>2, <1>3, <1>4, QuietCall

LEMMA CatchRevertStep ==
    ASSUME ExecutionInv, NEW e \in Execution, CatchRevert(e)
    PROVE  ExecutionInv'
<1> DEFINE c == [call[e] EXCEPT !.main = "failed"]
<1>0. call[e] \in CallType /\ CallOK(call[e], sent[e]["execute"])
  BY DEF ExecutionInv, ExecutionTypeOK, CallsOK
<1>2. /\ c \in CallType
      /\ c.id = call[e].id /\ c.view = call[e].view
      /\ c.treatedAs = call[e].treatedAs
      /\ c.main = "failed" /\ c.handling = call[e].handling
  BY <1>0 DEF CallType, Main, Recording
<1>3. /\ call[e].main = "sent" /\ sent[e]["execute"] = "reverted"
      /\ call' = [call EXCEPT ![e] = c]
      /\ UNCHANGED <<record, row, sent, chainVars, due>>
  BY DEF CatchRevert
<1> HIDE DEF c
<1>4. CallOK(c, sent[e]["execute"])
  BY <1>0, <1>2, <1>3 DEF CallOK
<1> QED BY <1>2, <1>3, <1>4, QuietCall

LEMMA GiveUpStep ==
    ASSUME ExecutionInv, NEW e \in Execution, GiveUp(e)
    PROVE  ExecutionInv'
<1> DEFINE c == [call[e] EXCEPT !.main = "rejected"]
<1>0. call[e] \in CallType /\ CallOK(call[e], sent[e]["execute"])
  BY DEF ExecutionInv, ExecutionTypeOK, CallsOK
<1>2. /\ c \in CallType
      /\ c.id = call[e].id /\ c.view = call[e].view
      /\ c.treatedAs = call[e].treatedAs
      /\ c.main = "rejected" /\ c.handling = call[e].handling
  BY <1>0 DEF CallType, Main, Recording
<1>3. /\ call[e].main = "sent"
      /\ call' = [call EXCEPT ![e] = c]
      /\ UNCHANGED <<record, row, sent, chainVars, due>>
  BY DEF GiveUp
<1> HIDE DEF c
<1>4. CallOK(c, sent[e]["execute"])
  BY <1>0, <1>2, <1>3 DEF CallOK
<1> QED BY <1>2, <1>3, <1>4, QuietCall

LEMMA RecordCheckStep ==
    ASSUME ExecutionInv, NEW e \in Execution, RecordCheck(e)
    PROVE  ExecutionInv'
<1> DEFINE t == IF HasRow(call[e].id, "initial", RowStatus)
                THEN "execute" ELSE "initial"
           c == [call[e] EXCEPT !.recording = "create", !.type = t]
<1>0. call[e] \in CallType /\ CallOK(call[e], sent[e]["execute"])
  BY DEF ExecutionInv, ExecutionTypeOK, CallsOK
<1>1. t \in {"execute", "initial"}
  OBVIOUS
<1>3. /\ call' = [call EXCEPT ![e] = c]
      /\ UNCHANGED <<record, row, sent, chainVars, due>>
  BY DEF RecordCheck
<1> HIDE DEF t
<1>2. /\ c \in CallType
      /\ c.id = call[e].id /\ c.view = call[e].view
      /\ c.treatedAs = call[e].treatedAs
      /\ c.main = call[e].main /\ c.handling = call[e].handling
  BY <1>0, <1>1 DEF CallType, Recording
<1> HIDE DEF c
<1>4. CallOK(c, sent[e]["execute"])
  BY <1>0, <1>2 DEF CallOK
<1> QED BY <1>2, <1>3, <1>4, QuietCall

LEMMA createTransactionStep ==
    ASSUME ExecutionInv, NEW e \in Execution, createTransaction(e)
    PROVE  ExecutionInv'
<1> DEFINE c == [call[e] EXCEPT !.recording = "done"]
           r == [type |-> call[e].type, status |-> "pending"]
<1>0. /\ call[e] \in CallType /\ CallOK(call[e], sent[e]["execute"])
      /\ row \in [Execution -> RowType]
      /\ sent \in [Execution ->
                      [Kind -> {"none", "pending", "success", "reverted"}]]
  BY DEF ExecutionInv, ExecutionTypeOK, CallsOK
<1>2. /\ c \in CallType
      /\ c.id = call[e].id /\ c.view = call[e].view
      /\ c.treatedAs = call[e].treatedAs
      /\ c.main = call[e].main /\ c.handling = call[e].handling
  BY <1>0 DEF CallType, Recording
<1>3. /\ call' = [call EXCEPT ![e] = c]
      /\ row' = [row EXCEPT ![e] = r]
      /\ UNCHANGED <<record, sent, chainVars, due>>
  BY DEF createTransaction
<1>5. r \in RowType /\ r.status = "pending"
  BY <1>0 DEF RowType, RowStatus, CallType
<1> HIDE DEF c, r
<1>4. CallOK(c, sent[e]["execute"])
  BY <1>0, <1>2 DEF CallOK
<1>6. /\ row' \in [Execution -> RowType]
      /\ row'[e] = r
      /\ \A d \in Execution \ {e} : row'[d] = row[d]
  BY <1>0, <1>3, <1>5
<1>7. RowOK(row'[e], sent'[e]["execute"])
  BY <1>5, <1>6 DEF RowOK
<1> QED BY <1>0, <1>2, <1>3, <1>4, <1>5, <1>6, <1>7, QuietUpdate

LEMMA executeSignedTransactionStep ==
    ASSUME ExecutionInv, NEW e \in Execution, executeSignedTransaction(e)
    PROVE  ExecutionInv'
<1> DEFINE r == IF call[e].id \in WithInitial THEN "check" ELSE "create"
           c == [call[e] EXCEPT !.main = "sent", !.recording = r]
<1>0. /\ call[e] \in CallType /\ CallOK(call[e], sent[e]["execute"])
      /\ row \in [Execution -> RowType]
      /\ sent \in [Execution ->
                      [Kind -> {"none", "pending", "success", "reverted"}]]
      /\ RowOK(row[e], sent[e]["execute"])
  BY DEF ExecutionInv, ExecutionTypeOK, CallsOK, RowsTellTruth, RowOK
<1>1. r \in {"check", "create"}
  OBVIOUS
<1>3. /\ call' = [call EXCEPT ![e] = c]
      /\ call[e].main = "send"
      /\ sent' = [sent EXCEPT ![e]["execute"] = "pending"]
      /\ UNCHANGED <<record, row, chainVars, due>>
  BY DEF executeSignedTransaction
<1> HIDE DEF r
<1>2. /\ c \in CallType
      /\ c.id = call[e].id /\ c.view = call[e].view
      /\ c.treatedAs = call[e].treatedAs
      /\ c.main = "sent" /\ c.handling = call[e].handling
  BY <1>0, <1>1 DEF CallType, Recording, Main
<1> HIDE DEF c
<1>4. CallOK(c, "pending")
  BY <1>0, <1>2, <1>3 DEF CallOK
<1>5. /\ sent[e]["execute"] = "none"
      /\ sent' \in [Execution ->
                       [Kind -> {"none", "pending", "success", "reverted"}]]
      /\ sent'[e]["execute"] = "pending"
      /\ \A d \in Execution \ {e} : sent'[d] = sent[d]
  BY <1>0, <1>3 DEF Kind, CallOK
<1>6. RowOK(row'[e], sent'[e]["execute"])
  BY <1>0, <1>3, <1>5 DEF RowOK
<1> QED BY <1>0, <1>2, <1>3, <1>4, <1>5, <1>6, QuietUpdate

-----------------------------------------------------------------------------
(* Updates of the rows.                                                     *)

LEMMA RowUpdated ==
    ASSUME row \in [Execution -> RowType], NEW e \in Execution,
           NEW s \in RowStatus, updateTransaction(e, s)
    PROVE  /\ row' \in [Execution -> RowType]
           /\ \A d \in Execution \ {e} : row'[d] = row[d]
           /\ row'[e].status = s \/ row'[e] = NoRow
<1>1. CASE row[e] = NoRow
  BY <1>1 DEF updateTransaction
<1>2. CASE row[e] # NoRow
  BY <1>2 DEF updateTransaction, RowType
<1> QED BY <1>1, <1>2

LEMMA FailRowStep ==
    ASSUME ExecutionInv, NEW e \in Execution, FailRow(e)
    PROVE  ExecutionInv'
<1> DEFINE c == [call[e] EXCEPT !.main = "returned"]
<1>0. /\ call[e] \in CallType /\ CallOK(call[e], sent[e]["execute"])
      /\ row \in [Execution -> RowType]
      /\ sent \in [Execution ->
                      [Kind -> {"none", "pending", "success", "reverted"}]]
  BY DEF ExecutionInv, ExecutionTypeOK, CallsOK
<1>2. /\ c \in CallType
      /\ c.id = call[e].id /\ c.view = call[e].view
      /\ c.treatedAs = call[e].treatedAs
      /\ c.main = "returned" /\ c.handling = call[e].handling
  BY <1>0 DEF CallType, Main
<1>3. /\ call' = [call EXCEPT ![e] = c]
      /\ call[e].main = "failed"
      /\ updateTransaction(e, "failed")
      /\ UNCHANGED <<record, sent, chainVars, due>>
  BY DEF FailRow
<1> HIDE DEF c
<1>4. CallOK(c, sent[e]["execute"]) /\ sent[e]["execute"] = "reverted"
  BY <1>0, <1>2, <1>3 DEF CallOK
<1>5. "failed" \in RowStatus
  BY DEF RowStatus
<1>6. /\ row' \in [Execution -> RowType]
      /\ \A d \in Execution \ {e} : row'[d] = row[d]
      /\ row'[e].status = "failed" \/ row'[e] = NoRow
  BY <1>0, <1>3, <1>5, RowUpdated
<1>7. row'[e].status # "success" /\ RowOK(row'[e], sent'[e]["execute"])
  BY <1>3, <1>4, <1>6 DEF RowOK, NoRow
<1> QED BY <1>0, <1>2, <1>3, <1>4, <1>6, <1>7, QuietUpdate
-----------------------------------------------------------------------------
(* The receipt's handler, once the receipt is taken for one payment.        *)

\* What the handler may still come to.
Later == {"initial", "pma", "balance", "nonce", "send", "sent", "done", "rejected"}

\* From c the handler moved on to d.
MovesOn(c, d) == /\ d \in CallType
                 /\ d.id = c.id /\ d.view = c.view /\ d.main = c.main
                 /\ d.treatedAs = c.treatedAs
                 /\ d.handling \in Later

LEMMA AutomatedMovesOn ==
    ASSUME NEW c \in CallType PROVE MovesOn(c, Automated(c))
<1>1. CASE automatedCashOut[c.id]
  BY <1>1 DEF Automated, MovesOn, CallType, Handling, Later
<1>2. CASE ~automatedCashOut[c.id]
  BY <1>2 DEF Automated, MovesOn, CallType, Handling, Later
<1> QED BY <1>1, <1>2

LEMMA AfterPMAMovesOn ==
    ASSUME NEW c \in CallType PROVE MovesOn(c, AfterPMA(c))
<1>1. CASE c.phase = "last"
  BY <1>1 DEF AfterPMA, MovesOn, CallType, Handling, Later
<1>2. CASE c.phase # "last"
  BY <1>2 DEF AfterPMA, MovesOn, CallType, Handling, Later
<1> QED BY <1>1, <1>2

LEMMA FailedMovesOn ==
    ASSUME NEW c \in CallType PROVE MovesOn(c, Failed(c))
<1>1. CASE c.kind = "eth"
  BY <1>1 DEF Failed, MovesOn, CallType, Handling, Later
<1>2. CASE c.kind # "eth" /\ c.phase = "last" /\ c.id \in WithInitial
  BY <1>2 DEF Failed, MovesOn, CallType, Handling, Later
<1>3. CASE c.kind # "eth" /\ ~(c.phase = "last" /\ c.id \in WithInitial)
  BY <1>3 DEF Failed, MovesOn, CallType, Handling, Later
<1> QED BY <1>1, <1>2, <1>3

\* Moving on agrees with the call's other strands.
LEMMA MovesOnOK ==
    ASSUME NEW c, NEW d, NEW s, CallOK(c, s), MovesOn(c, d),
           c.handling \notin {"off", "check"}
    PROVE  CallOK(d, s)
BY DEF CallOK, MovesOn, Later

LEMMA MovesOnStep ==
    ASSUME ExecutionInv, NEW e \in Execution, NEW c, MovesOn(call[e], c),
           call[e].handling \notin {"off", "check"},
           call' = [call EXCEPT ![e] = c],
           UNCHANGED <<record, row, sent, chainVars, due>>
    PROVE  ExecutionInv'
<1>1. CallOK(call[e], sent[e]["execute"])
  BY DEF ExecutionInv, CallsOK
<1>2. CallOK(c, sent[e]["execute"])
  BY <1>1, MovesOnOK
<1> QED BY <1>2, QuietCall DEF MovesOn

\* A row is set to success for a transaction that succeeded.
LEMMA SuccessRowStep ==
    ASSUME ExecutionInv, NEW e \in Execution, NEW c, MovesOn(call[e], c),
           call[e].handling \in {"row", "initial"},
           call' = [call EXCEPT ![e] = c],
           updateTransaction(e, "success"),
           UNCHANGED <<record, sent, chainVars, due>>
    PROVE  ExecutionInv'
<1>1. /\ CallOK(call[e], sent[e]["execute"])
      /\ row \in [Execution -> RowType]
      /\ sent \in [Execution ->
                      [Kind -> {"none", "pending", "success", "reverted"}]]
  BY DEF ExecutionInv, CallsOK, ExecutionTypeOK
<1>2. /\ CallOK(c, sent[e]["execute"])
      /\ sent[e]["execute"] = "success" /\ call[e].treatedAs # "none"
  BY <1>1, MovesOnOK DEF CallOK
<1>3. /\ row' \in [Execution -> RowType]
      /\ \A d \in Execution \ {e} : row'[d] = row[d]
      /\ row'[e].status = "success" \/ row'[e] = NoRow
  BY <1>1, RowUpdated DEF RowStatus
<1>4. RowOK(row'[e], sent'[e]["execute"])
  BY <1>2, <1>3 DEF RowOK, NoRow
<1> QED BY <1>1, <1>2, <1>3, <1>4, QuietUpdate DEF MovesOn

CashingOut == {"pma", "balance", "nonce", "send", "sent"}

LEMMA HandlerMovesOn ==
    ASSUME ExecutionInv, NEW e \in Execution,
           \/ ReceiptRow(e) \/ InitialRow(e) \/ cashOutPMA(e) \/ getBalance(e)
           \/ CashOutNonce(e) \/ CashOutSend(e) \/ CashOutFails(e)
           \/ CashOutReceipt(e)
    PROVE  /\ \E c : MovesOn(call[e], c) /\ call' = [call EXCEPT ![e] = c]
           /\ call[e].handling \in CashingOut \cup {"row", "initial"}
           /\ UNCHANGED <<record, chainVars>>
<1> DEFINE C == call[e]
<1>1. C \in CallType /\ CallOK(C, sent[e]["execute"])
  BY DEF ExecutionInv, ExecutionTypeOK, CallsOK
<1>2. /\ C.handling \in CashingOut \cup {"row", "initial"}
      /\ UNCHANGED <<record, chainVars>>
  BY DEF ReceiptRow, InitialRow, cashOutPMA, getBalance, CashOutNonce,
         CashOutSend, CashOutFails, CashOutReceipt, CashingOut
<1>3. tokens[C.id] \in Nat /\ nonces[C.id] \in Nat
  BY <1>1, <1>2 DEF CallOK, CashingOut, ExecutionInv, ExecutionTypeOK
<1>4. CASE getBalance(e)
  <2> DEFINE c == [C EXCEPT !.handling = "nonce", !.amount = tokens[C.id]]
  <2>1. MovesOn(C, c)
    BY <1>1, <1>3 DEF MovesOn, CallType, Handling, Later
  <2>. QED
    BY <1>2, <1>4, <2>1 DEF getBalance
<1>5. CASE CashOutNonce(e)
  <2> DEFINE c == [C EXCEPT !.handling = "send", !.nonce = nonces[C.id]]
  <2>1. MovesOn(C, c)
    BY <1>1, <1>3 DEF MovesOn, CallType, Handling, Later
  <2>. QED
    BY <1>2, <1>5, <2>1 DEF CashOutNonce
<1>6. CASE CashOutSend(e)
  <2> DEFINE c == [C EXCEPT !.handling = "sent", !.moving = C.amount]
  <2>1. MovesOn(C, c)
    BY <1>1 DEF MovesOn, CallType, Handling, Later
  <2>. QED
    BY <1>2, <1>6, <2>1 DEF CashOutSend
<1>7. CASE cashOutPMA(e)
  <2> DEFINE c == [C EXCEPT !.handling = "balance", !.kind = "pma"]
  <2>1. call' = [call EXCEPT ![e] = c] \/ call' = [call EXCEPT ![e] = AfterPMA(C)]
    BY <1>7 DEF cashOutPMA
  <2>2. MovesOn(C, c)
    BY <1>1 DEF MovesOn, CallType, Handling, Later
  <2>. QED
    BY <1>1, <1>2, <2>1, <2>2, AfterPMAMovesOn
<1>8. CASE ReceiptRow(e)
  <2> DEFINE c == [C EXCEPT !.handling = "pma", !.phase = "last"]
  <2>1. call' = [call EXCEPT ![e] = c] \/ call' = [call EXCEPT ![e] = Automated(C)]
    BY <1>8 DEF ReceiptRow
  <2>2. MovesOn(C, c)
    BY <1>1 DEF MovesOn, CallType, Handling, Later
  <2>. QED
    BY <1>1, <1>2, <2>1, <2>2, AutomatedMovesOn
<1>9. CASE InitialRow(e) \/ CashOutFails(e) \/ CashOutReceipt(e)
  <2>1. \/ call' = [call EXCEPT ![e] = AfterPMA(C)]
        \/ call' = [call EXCEPT ![e] = Automated(C)]
        \/ call' = [call EXCEPT ![e] = Failed(C)]
    BY <1>9 DEF InitialRow, CashOutFails, CashOutReceipt
  <2>. QED
    BY <1>1, <1>2, <2>1, AfterPMAMovesOn, AutomatedMovesOn, FailedMovesOn
<1>. QED
  BY <1>4, <1>5, <1>6, <1>7, <1>8, <1>9

LEMMA SuccessStep ==
    ASSUME ExecutionInv, NEW e \in Execution, ReceiptRow(e) \/ InitialRow(e)
    PROVE  ExecutionInv'
<1>1. PICK c : MovesOn(call[e], c) /\ call' = [call EXCEPT ![e] = c]
  BY HandlerMovesOn
<1>2. /\ call[e].handling \in {"row", "initial"}
      /\ updateTransaction(e, "success")
      /\ UNCHANGED <<record, sent, chainVars, due>>
  BY DEF ReceiptRow, InitialRow
<1>. QED
  BY <1>1, <1>2, SuccessRowStep

LEMMA CashOutStep ==
    ASSUME ExecutionInv, NEW e \in Execution,
           \/ cashOutPMA(e) \/ getBalance(e) \/ CashOutNonce(e)
           \/ CashOutFails(e) \/ CashOutReceipt(e)
    PROVE  ExecutionInv'
<1>1. PICK c : MovesOn(call[e], c) /\ call' = [call EXCEPT ![e] = c]
  BY HandlerMovesOn
<1>2. /\ UNCHANGED <<record, row, sent, chainVars, due>>
      /\ call[e].handling \notin {"off", "check"}
  BY DEF cashOutPMA, getBalance, CashOutNonce, CashOutFails, CashOutReceipt
<1>. QED
  BY <1>1, <1>2, MovesOnStep

LEMMA CashOutSendStep ==
    ASSUME ExecutionInv, NEW e \in Execution, CashOutSend(e)
    PROVE  ExecutionInv'
<1> DEFINE c == [call[e] EXCEPT !.handling = "sent", !.moving = call[e].amount]
<1>0. /\ call[e] \in CallType /\ CallOK(call[e], sent[e]["execute"])
      /\ row \in [Execution -> RowType]
      /\ sent \in [Execution ->
                      [Kind -> {"none", "pending", "success", "reverted"}]]
      /\ RowOK(row[e], sent[e]["execute"])
  BY DEF ExecutionInv, ExecutionTypeOK, CallsOK, RowsTellTruth, RowOK
<1>1. /\ call' = [call EXCEPT ![e] = c]
      /\ call[e].handling = "send"
      /\ sent' = [sent EXCEPT ![e][call[e].kind] = "pending"]
      /\ UNCHANGED <<record, row, chainVars, due>>
  BY DEF CashOutSend
<1>2. MovesOn(call[e], c)
  BY <1>0 DEF MovesOn, CallType, Handling, Later
<1> HIDE DEF c
<1>3. CallOK(c, sent[e]["execute"])
  BY <1>0, <1>1, <1>2, MovesOnOK
<1>4. call[e].kind \in {"pma", "eth"}
  BY <1>0 DEF CallType
<1>5. /\ sent' \in [Execution ->
                      [Kind -> {"none", "pending", "success", "reverted"}]]
      /\ sent'[e]["execute"] = sent[e]["execute"]
      /\ \A d \in Execution \ {e} : sent'[d] = sent[d]
  BY <1>0, <1>1, <1>4 DEF Kind
<1> QED BY <1>0, <1>1, <1>2, <1>3, <1>5, QuietUpdate DEF MovesOn

LEMMA NoncesMined ==
    ASSUME nonces \in [Payment -> Nat], NEW e, NEW k, NEW r, Mined(e, k, r)
    PROVE  nonces' \in [Payment -> Nat]
<1> DEFINE p == call[e].id
<1>1. nonces' = [nonces EXCEPT ![p] = nonces[p] + 1]
  BY DEF Mined
<1> HIDE DEF p
<1>2. \A q \in Payment : nonces[q] + 1 \in Nat
  OBVIOUS
<1>3. CASE p \in Payment
  BY <1>1, <1>2, <1>3
<1>4. CASE p \notin Payment
  BY <1>1, <1>4
<1> QED BY <1>3, <1>4

LEMMA MineCashOutStep ==
    ASSUME ExecutionInv, NEW e \in Execution, MineCashOut(e)
    PROVE  ExecutionInv'
<1>0. /\ ExecutionTypeOK
      /\ CallOK(call[e], sent[e]["execute"])
      /\ RowOK(row[e], sent[e]["execute"])
  BY DEF ExecutionInv, CallsOK, RowsTellTruth, RowOK
<1>1. UNCHANGED <<record, row, call, due, initial, left>>
  BY DEF MineCashOut
<1>2. PICK k \in {"pma", "eth"}, r \in {"success", "reverted"} : Mined(e, k, r)
  BY DEF MineCashOut
<1>3. /\ sent' \in [Execution ->
                      [Kind -> {"none", "pending", "success", "reverted"}]]
      /\ sent'[e]["execute"] = sent[e]["execute"]
      /\ \A d \in Execution \ {e} : sent'[d] = sent[d]
  BY <1>0, <1>2 DEF ExecutionTypeOK, Kind, Mined
<1>4. nonces' \in [Payment -> Nat]
  BY <1>0, <1>2, NoncesMined DEF ExecutionTypeOK
<1>5. ether' \in [Payment -> BOOLEAN]
  BY <1>0 DEF ExecutionTypeOK, MineCashOut
<1>6. tokens' \in [Payment -> Nat]
  <2>1. call[e].moving \in Nat
    BY <1>0 DEF ExecutionTypeOK, CallType
  <2>2. \/ tokens' = tokens
        \/ /\ tokens' = [tokens EXCEPT ![call[e].id] = @ - call[e].moving]
           /\ call[e].moving <= tokens[call[e].id]
    BY DEF MineCashOut
  <2> QED BY <2>1, <2>2, <1>0 DEF ExecutionTypeOK
<1>7. ExecutionTypeOK'
  BY <1>0, <1>1, <1>3, <1>4, <1>5, <1>6 DEF ExecutionTypeOK
<1>8. StepOf(e) /\ Quiet(e)
  BY <1>0, <1>1, <1>3, <1>7 DEF StepOf, Quiet
<1> QED BY <1>8, QuietStep

-----------------------------------------------------------------------------
(* Counting calls.                                                          *)

LEMMA CallsFinite ==
    ASSUME NEW S, S \subseteq Execution
    PROVE  IsFiniteSet(S) /\ Cardinality(S) \in Nat
<1>1. MaxExecutions \in Nat
  BY ExecutionAssumption
<1>2. IsFiniteSet(Execution)
  BY <1>1, FS_Interval DEF Execution
<1> QED BY <1>2, FS_Subset, FS_CardinalityType

LEMMA CallAdded ==
    ASSUME NEW S, S \subseteq Execution, NEW e \in Execution
    PROVE  /\ Cardinality(S \cup {e}) =
                IF e \in S THEN Cardinality(S) ELSE Cardinality(S) + 1
           /\ Cardinality(S) =
                IF e \in S THEN Cardinality(S \ {e}) + 1
                ELSE Cardinality(S \ {e})
           /\ Cardinality(S) \in Nat /\ Cardinality(S \ {e}) \in Nat
<1>1. /\ IsFiniteSet(S) /\ Cardinality(S) \in Nat
      /\ Cardinality(S \ {e}) \in Nat
  BY CallsFinite
<1>2. CASE e \in S
  <2>1. S \cup {e} = S
    BY <1>2
  <2>2. Cardinality(S \ {e}) = Cardinality(S) - 1
    BY <1>1, <1>2, FS_RemoveElement
  <2>3. Cardinality(S) = Cardinality(S \ {e}) + 1
    BY <1>1, <2>2
  <2>4. Cardinality(S \cup {e}) = Cardinality(S)
    BY <2>1
  <2> QED BY <1>1, <1>2, <2>3, <2>4
<1>3. CASE e \notin S
  <2>1. S \ {e} = S
    BY <1>3
  <2>2. Cardinality(S \cup {e}) = Cardinality(S) + 1
    BY <1>1, <1>3, FS_AddElement
  <2> QED BY <1>1, <1>3, <2>1, <2>2
<1> QED BY <1>2, <1>3

LEMMA FewerCalls ==
    ASSUME NEW S, NEW T, S \subseteq T, T \subseteq Execution
    PROVE  Cardinality(S) <= Cardinality(T)
BY CallsFinite, FS_Subset

\* Receipts taken for regular payments are not more than these payments.
LEMMA CountedBound ==
    ASSUME ExecutionInv, NEW id \in Payment
    PROVE  Cardinality(Counted(id)) <= NumberOfPayments[id] - left[id]
<1>1. \A e \in Execution : call[e].treatedAs # "none" =>
         sent[e]["execute"] = "success"
  BY DEF ExecutionInv, CallsOK, CallOK
<1>2. Counted(id) \subseteq Paying(id) /\ Paying(id) \subseteq Execution
  BY <1>1 DEF Counted, Paying
<1>3. /\ left[id] \in Nat /\ NumberOfPayments[id] \in Nat
      /\ left[id] <= NumberOfPayments[id]
      /\ Cardinality(Paying(id)) =
            NumberOfPayments[id] - left[id] + InitialMade(id)
  BY ExecutionAssumption DEF ExecutionInv, ExecutionTypeOK, ChainCounts
<1>4. /\ Cardinality(Counted(id)) \in Nat
      /\ Cardinality(Counted(id)) <= Cardinality(Paying(id))
  BY <1>2, CallsFinite, FewerCalls
<1>5. CASE id \notin WithInitial
  BY <1>3, <1>4, <1>5 DEF InitialMade
<1>6. CASE Counted(id) = {}
  BY <1>3, <1>6, FS_EmptySet
<1>7. CASE id \in WithInitial /\ Counted(id) # {}
  <2>1. PICK w \in Execution : call[w].id = id /\ call[w].treatedAs = "initial"
    BY <1>7 DEF ExecutionInv, InitialFirst, HasInitial
  <2>2. w \in Paying(id) /\ w \notin Counted(id)
    BY <1>1, <2>1 DEF Paying, Counted
  <2>3. /\ Counted(id) \cup {w} \subseteq Paying(id)
        /\ Counted(id) \subseteq Execution
    BY <1>2, <2>2
  <2>4. Cardinality(Counted(id) \cup {w}) = Cardinality(Counted(id)) + 1
    BY <2>2, <2>3, CallAdded
  <2>5. Cardinality(Counted(id) \cup {w}) <= Cardinality(Paying(id))
    BY <1>2, <2>3, FewerCalls
  <2>6. InitialMade(id) \in {0, 1}
    BY DEF InitialMade
  <2> QED BY <1>3, <1>4, <2>4, <2>5, <2>6
<1> QED BY <1>5, <1>6, <1>7

-----------------------------------------------------------------------------
(* The steps that count.                                                    *)

LEMMA CallStep ==
    ASSUME ExecutionInv, NEW e \in Execution, NEW id \in Payment, Call(e, id)
    PROVE  ExecutionInv'
<1> DEFINE c == [call[e] EXCEPT !.id = id, !.main = "read"]
<1>0. /\ call[e] \in CallType /\ CallOK(call[e], sent[e]["execute"])
      /\ RowOK(row[e], sent[e]["execute"]) /\ ExecutionTypeOK
  BY DEF ExecutionInv, ExecutionTypeOK, CallsOK, RowsTellTruth, RowOK
<1>1. /\ call' = [call EXCEPT ![e] = c]
      /\ call[e].main = "idle"
      /\ UNCHANGED <<record, row, sent, chainVars, due>>
  BY DEF Call, Execution
<1>2. /\ c \in CallType
      /\ c.id = id /\ c.main = "read" /\ c.handling = call[e].handling
      /\ c.treatedAs = call[e].treatedAs /\ c.view = call[e].view
  BY <1>0 DEF CallType, Main
<1> HIDE DEF c
<1>3. /\ call' \in [Execution -> CallType]
      /\ call'[e] = c
      /\ \A d \in Execution \ {e} : call'[d] = call[d]
  BY <1>0, <1>1, <1>2, CallUpdated
<1>4. /\ call[e].treatedAs = "none" /\ sent[e]["execute"] = "none"
      /\ row[e].status # "success"
  BY <1>0, <1>1 DEF CallOK, RowOK
<1>5. CallOK(c, sent[e]["execute"])
  BY <1>0, <1>1, <1>2 DEF CallOK
<1>6. StepOf(e)
  BY <1>0, <1>1, <1>3, <1>5 DEF StepOf, ExecutionTypeOK, chainVars
<1>7. CallsOK' /\ RowsTellTruth'
  BY <1>6, StepKeepsCalls
<1>8. \A p : Counted(p)' = Counted(p) /\ Paying(p)' = Paying(p)
  BY <1>1, <1>2, <1>3, <1>4 DEF Counted, Paying
<1>9. ChainCounts'
  BY <1>1, <1>8 DEF ExecutionInv, ChainCounts, InitialMade, chainVars
<1>10. RecordCounts'
  BY <1>1, <1>2, <1>3, <1>8 DEF ExecutionInv, RecordCounts
<1>11. InitialFirst'
  <2> SUFFICES ASSUME NEW p \in WithInitial,
                      HasRow(p, "initial", {"success"})' \/ Counted(p)' # {}
               PROVE  HasInitial(p)'
    BY DEF InitialFirst
  <2>1. HasRow(p, "initial", {"success"})' => HasRow(p, "initial", {"success"})
    BY <1>1, <1>3, <1>4 DEF HasRow
  <2>2. HasInitial(p)
    BY <2>1, <1>8 DEF ExecutionInv, InitialFirst
  <2> QED BY <2>2, <1>2, <1>3, <1>4 DEF HasInitial
<1> QED BY <1>6, <1>7, <1>9, <1>10, <1>11 DEF ExecutionInv, StepOf

LEMMA ReadRecordStep ==
    ASSUME ExecutionInv, NEW e \in Execution, ReadRecord(e)
    PROVE  ExecutionInv'
<1> DEFINE C == call[e]
           c == [C EXCEPT !.main = "nonce", !.view = record[C.id]]
<1>0. /\ C \in CallType /\ CallOK(C, sent[e]["execute"])
      /\ RowOK(row[e], sent[e]["execute"]) /\ ExecutionTypeOK
  BY DEF ExecutionInv, ExecutionTypeOK, CallsOK, RowsTellTruth, RowOK
<1>1. /\ call' = [call EXCEPT ![e] = c]
      /\ C.main = "read"
      /\ UNCHANGED <<record, row, sent, chainVars, due>>
  BY DEF ReadRecord
<1>2. C.id \in Payment /\ record[C.id] \in RecordType /\ C.treatedAs = "none"
  BY <1>0, <1>1 DEF CallOK, ExecutionTypeOK
<1>3. /\ c \in CallType
      /\ c.id = C.id /\ c.main = "nonce" /\ c.handling = C.handling
      /\ c.treatedAs = C.treatedAs /\ c.view = record[C.id]
  BY <1>0, <1>2 DEF CallType, Main
<1> HIDE DEF c
<1>4. /\ call' \in [Execution -> CallType]
      /\ call'[e] = c
      /\ \A d \in Execution \ {e} : call'[d] = call[d]
  BY <1>0, <1>1, <1>3, CallUpdated
<1>5. CallOK(c, sent[e]["execute"])
  BY <1>0, <1>1, <1>3 DEF CallOK
<1>6. StepOf(e)
  BY <1>0, <1>1, <1>4, <1>5 DEF StepOf, ExecutionTypeOK, chainVars
<1>7. CallsOK' /\ RowsTellTruth'
  BY <1>6, StepKeepsCalls
<1>8. \A p : Counted(p)' = Counted(p) /\ Paying(p)' = Paying(p)
  BY <1>1, <1>3, <1>4 DEF Counted, Paying
<1>9. ChainCounts'
  BY <1>1, <1>8 DEF ExecutionInv, ChainCounts, InitialMade, chainVars
<1>10. RecordCounts'
  <2>1. Counted(C.id) \ {e} = Counted(C.id)
    BY <1>2 DEF Counted
  <2>2. NumberOfPayments[C.id] <=
           record[C.id].numberOfPayments + Cardinality(Counted(C.id) \ {e})
    BY <1>2, <2>1 DEF ExecutionInv, RecordCounts
  <2> QED BY <2>2, <1>1, <1>3, <1>4, <1>8 DEF ExecutionInv, RecordCounts
<1>11. InitialFirst'
  BY <1>1, <1>3, <1>4, <1>8 DEF ExecutionInv, InitialFirst, HasRow, HasInitial
<1> QED BY <1>6, <1>7, <1>9, <1>10, <1>11 DEF ExecutionInv, StepOf

\* The receipt of call e is taken for that of a regular payment.
LEMMA TakenForRegular ==
    ASSUME ExecutionInv, NEW e \in Execution, NEW c \in CallType,
           call' = [call EXCEPT ![e] = c],
           c.id = call[e].id, c.view = call[e].view,
           c.treatedAs = "regular", call[e].treatedAs = "none",
           call[e].main \notin {"idle", "read"},
           c.id \in WithInitial => HasInitial(c.id),
           CallOK(c, sent[e]["execute"]),
           UNCHANGED <<record, row, sent, chainVars, due>>
    PROVE  ExecutionInv'
<1>0. RowOK(row[e], sent[e]["execute"]) /\ ExecutionTypeOK
  BY DEF ExecutionInv, RowsTellTruth, RowOK
<1>1. /\ call' \in [Execution -> CallType]
      /\ call'[e] = c
      /\ \A d \in Execution \ {e} : call'[d] = call[d]
  BY <1>0, CallUpdated
<1>2. StepOf(e)
  BY <1>0, <1>1 DEF StepOf, ExecutionTypeOK, chainVars
<1>3. CallsOK' /\ RowsTellTruth'
  BY <1>2, StepKeepsCalls
<1>4. \A p : Paying(p)' = Paying(p)
  BY <1>1 DEF Paying
<1>5. ChainCounts'
  BY <1>4 DEF ExecutionInv, ChainCounts, InitialMade, chainVars
<1>6. \A p : Counted(p)' = IF p = c.id THEN Counted(p) \cup {e} ELSE Counted(p)
  BY <1>1 DEF Counted
<1>7. \A p, d : /\ Counted(p) \subseteq Counted(p)'
                /\ Counted(p)' \subseteq Execution
                /\ Counted(p) \ {d} \subseteq Counted(p)' \ {d}
                /\ Counted(p)' \ {d} \subseteq Execution
  BY <1>6 DEF Counted
<1>8. \A p, d : /\ Cardinality(Counted(p)) <= Cardinality(Counted(p)')
                /\ Cardinality(Counted(p) \ {d}) <=
                      Cardinality(Counted(p)' \ {d})
                /\ Cardinality(Counted(p)) \in Nat
                /\ Cardinality(Counted(p)') \in Nat
                /\ Cardinality(Counted(p) \ {d}) \in Nat
                /\ Cardinality(Counted(p)' \ {d}) \in Nat
  <2> SUFFICES ASSUME NEW p, NEW d
               PROVE  /\ Cardinality(Counted(p)) <= Cardinality(Counted(p)')
                      /\ Cardinality(Counted(p) \ {d}) <=
                            Cardinality(Counted(p)' \ {d})
                      /\ Cardinality(Counted(p)) \in Nat
                      /\ Cardinality(Counted(p)') \in Nat
                      /\ Cardinality(Counted(p) \ {d}) \in Nat
                      /\ Cardinality(Counted(p)' \ {d}) \in Nat
    OBVIOUS
  <2> DEFINE S == Counted(p)
             T == Counted(p)'
  <2>1. /\ S \subseteq T /\ T \subseteq Execution
        /\ S \ {d} \subseteq T \ {d} /\ T \ {d} \subseteq Execution
    BY <1>7
  <2> HIDE DEF S, T
  <2>2. /\ Cardinality(S) <= Cardinality(T)
        /\ Cardinality(S \ {d}) <= Cardinality(T \ {d})
    BY <2>1, FewerCalls
  <2>3. /\ Cardinality(S) \in Nat /\ Cardinality(T) \in Nat
        /\ Cardinality(S \ {d}) \in Nat /\ Cardinality(T \ {d}) \in Nat
    BY <2>1, CallsFinite
  <2> QED BY <2>2, <2>3 DEF S, T
<1>9. RecordCounts'
  <2>1. ASSUME NEW p \in Payment
        PROVE  (NumberOfPayments[p] <=
                  record[p].numberOfPayments + Cardinality(Counted(p)))'
    <3>1. /\ NumberOfPayments[p] \in Nat /\ record[p].numberOfPayments \in Nat
          /\ record' = record
      BY <1>0, ExecutionAssumption DEF ExecutionTypeOK, RecordType
    <3>2. NumberOfPayments[p] <=
             record[p].numberOfPayments + Cardinality(Counted(p))
      BY DEF ExecutionInv, RecordCounts
    <3>3. /\ Cardinality(Counted(p)) <= Cardinality(Counted(p)')
          /\ Cardinality(Counted(p)) \in Nat /\ Cardinality(Counted(p)') \in Nat
      BY <1>8
    <3> QED BY <3>1, <3>2, <3>3
  <2>2. ASSUME NEW d \in Execution, call'[d].main \notin {"idle", "read"}
        PROVE  (NumberOfPayments[call[d].id] <=
                  call[d].view.numberOfPayments
                  + Cardinality(Counted(call[d].id) \ {d}))'
    <3>1. /\ call'[d].id = call[d].id /\ call'[d].view = call[d].view
          /\ call[d].main \notin {"idle", "read"}
      BY <1>1, <2>2
    <3>2. PICK p \in Payment : p = call[d].id
      BY <3>1 DEF ExecutionInv, CallsOK, CallOK
    <3>3. /\ NumberOfPayments[p] \in Nat
          /\ call[d].view.numberOfPayments \in Nat
      BY <1>0, ExecutionAssumption DEF ExecutionTypeOK, CallType, RecordType
    <3>4. NumberOfPayments[p] <=
             call[d].view.numberOfPayments + Cardinality(Counted(p) \ {d})
      BY <3>1, <3>2 DEF ExecutionInv, RecordCounts
    <3>5. /\ Cardinality(Counted(p) \ {d}) <= Cardinality(Counted(p)' \ {d})
          /\ Cardinality(Counted(p) \ {d}) \in Nat
          /\ Cardinality(Counted(p)' \ {d}) \in Nat
      BY <1>8
    <3>6. NumberOfPayments[p] <=
             call[d].view.numberOfPayments + Cardinality(Counted(p)' \ {d})
      BY <3>3, <3>4, <3>5
    <3> QED BY <3>1, <3>2, <3>6
  <2> QED BY <2>1, <2>2 DEF RecordCounts
<1>10. InitialFirst'
  <2> SUFFICES ASSUME NEW p \in WithInitial,
                      HasRow(p, "initial", {"success"})' \/ Counted(p)' # {}
               PROVE  HasInitial(p)'
    BY DEF InitialFirst
  <2>1. HasRow(p, "initial", {"success"})' => HasRow(p, "initial", {"success"})
    BY <1>1 DEF HasRow
  <2>2. HasInitial(p)
    BY <2>1, <1>6 DEF ExecutionInv, InitialFirst
  <2>3. HasInitial(p) => HasInitial(p)'
    BY <1>1 DEF HasInitial
  <2> QED BY <2>2, <2>3
<1> QED BY <1>2, <1>3, <1>5, <1>9, <1>10 DEF ExecutionInv, StepOf

\* The receipt of call e is taken for that of the initial payment.
LEMMA TakenForInitial ==
    ASSUME ExecutionInv, NEW e \in Execution, NEW c \in CallType,
           call' = [call EXCEPT ![e] = c],
           c.id = call[e].id, c.view = call[e].view,
           c.treatedAs = "initial", call[e].treatedAs = "none",
           call[e].main \notin {"idle", "read"},
           CallOK(c, sent[e]["execute"]),
           UNCHANGED <<record, row, sent, chainVars, due>>
    PROVE  ExecutionInv'
<1>0. RowOK(row[e], sent[e]["execute"]) /\ ExecutionTypeOK
  BY DEF ExecutionInv, RowsTellTruth, RowOK
<1>1. /\ call' \in [Execution -> CallType]
      /\ call'[e] = c
      /\ \A d \in Execution \ {e} : call'[d] = call[d]
  BY <1>0, CallUpdated
<1>2. StepOf(e)
  BY <1>0, <1>1 DEF StepOf, ExecutionTypeOK, chainVars
<1>3. CallsOK' /\ RowsTellTruth'
  BY <1>2, StepKeepsCalls
<1>4. \A p : Paying(p)' = Paying(p) /\ Counted(p)' = Counted(p)
  BY <1>1 DEF Paying, Counted
<1>5. ChainCounts'
  BY <1>4 DEF ExecutionInv, ChainCounts, InitialMade, chainVars
<1>6. \A d \in Execution : /\ call'[d].id = call[d].id
                            /\ call'[d].view = call[d].view
                            /\ (call'[d].main \notin {"idle", "read"} =>
                                  call[d].main \notin {"idle", "read"})
                            /\ (call[d].treatedAs = "initial" =>
                                  call'[d].treatedAs = "initial")
  BY <1>1
<1>7. RecordCounts'
  BY <1>4, <1>6 DEF ExecutionInv, RecordCounts
<1>8. InitialFirst'
  <2> SUFFICES ASSUME NEW p \in WithInitial,
                      HasRow(p, "initial", {"success"})' \/ Counted(p)' # {}
               PROVE  HasInitial(p)'
    BY DEF InitialFirst
  <2>1. HasInitial(p)
    BY <1>4, <1>6 DEF ExecutionInv, InitialFirst, HasRow
  <2> QED BY <2>1, <1>6 DEF HasInitial
<1> QED BY <1>2, <1>3, <1>5, <1>7, <1>8 DEF ExecutionInv, StepOf

LEMMA GetReceiptStep ==
    ASSUME ExecutionInv, NEW e \in Execution, GetReceipt(e)
    PROVE  ExecutionInv'
<1> DEFINE C == call[e]
           h == IF C.id \in WithInitial THEN "check" ELSE "record"
           t == IF C.id \in WithInitial THEN "none" ELSE "regular"
           c == [C EXCEPT !.main = "returned", !.handling = h, !.treatedAs = t]
<1>0. C \in CallType /\ CallOK(C, sent[e]["execute"])
  BY DEF ExecutionInv, ExecutionTypeOK, CallsOK
<1>1. /\ call' = [call EXCEPT ![e] = c]
      /\ C.main = "sent" /\ sent[e]["execute"] = "success"
      /\ UNCHANGED <<record, row, sent, chainVars, due>>
  BY DEF GetReceipt
<1>2. C.handling = "off" /\ C.treatedAs = "none" /\ C.id \in Payment
  BY <1>0, <1>1 DEF CallOK
<1>3. h \in {"check", "record"} /\ t \in {"none", "regular"}
  OBVIOUS
<1>4. /\ C.id \in WithInitial => h = "check" /\ t = "none"
      /\ C.id \notin WithInitial => h = "record" /\ t = "regular"
  OBVIOUS
<1> HIDE DEF h, t
<1>5. /\ c \in CallType
      /\ c.id = C.id /\ c.view = C.view /\ c.main = "returned"
      /\ c.handling = h /\ c.treatedAs = t
  <2>1. "returned" \in Main /\ h \in Handling
    BY <1>3 DEF Main, Handling
  <2>2. t \in {"none", "regular", "initial"}
    BY <1>3
  <2> QED BY <1>0, <2>1, <2>2 DEF CallType
<1> HIDE DEF c
<1>6. CallOK(c, sent[e]["execute"])
  BY <1>1, <1>2, <1>4, <1>5 DEF CallOK
<1>7. CASE C.id \in WithInitial
  BY <1>1, <1>2, <1>4, <1>5, <1>6, <1>7, QuietCall
<1>8. CASE C.id \notin WithInitial
  BY <1>1, <1>2, <1>4, <1>5, <1>6, <1>8, TakenForRegular
<1> QED BY <1>7, <1>8

LEMMA ReceiptCheckStep ==
    ASSUME ExecutionInv, NEW e \in Execution, ReceiptCheck(e)
    PROVE  ExecutionInv'
<1> DEFINE C == call[e]
<1>0. C \in CallType /\ CallOK(C, sent[e]["execute"])
  BY DEF ExecutionInv, ExecutionTypeOK, CallsOK
<1>1. /\ C.handling = "check"
      /\ UNCHANGED <<record, row, sent, chainVars, due>>
  BY DEF ReceiptCheck
<1>2. /\ C.main = "returned" /\ C.treatedAs = "none"
      /\ C.id \in WithInitial /\ sent[e]["execute"] = "success"
  BY <1>0, <1>1 DEF CallOK
<1>3. CASE HasRow(C.id, "initial", {"success"})
  <2> DEFINE c == [C EXCEPT !.handling = "record", !.treatedAs = "regular"]
  <2>1. call' = [call EXCEPT ![e] = c]
    BY <1>3 DEF ReceiptCheck
  <2>2. /\ c \in CallType
        /\ c.id = C.id /\ c.view = C.view /\ c.main = C.main
        /\ c.handling = "record" /\ c.treatedAs = "regular"
    BY <1>0 DEF CallType, Handling
  <2> HIDE DEF c
  <2>3. CallOK(c, sent[e]["execute"])
    BY <1>0, <1>2, <2>2 DEF CallOK
  <2>4. HasInitial(c.id)
    BY <1>2, <1>3, <2>2 DEF ExecutionInv, InitialFirst
  <2> QED BY <1>1, <1>2, <2>1, <2>2, <2>3, <2>4, TakenForRegular
<1>4. CASE ~HasRow(C.id, "initial", {"success"})
  <2> DEFINE c == [C EXCEPT !.handling = "initial", !.treatedAs = "initial"]
  <2>1. call' = [call EXCEPT ![e] = c]
    BY <1>4 DEF ReceiptCheck
  <2>2. /\ c \in CallType
        /\ c.id = C.id /\ c.view = C.view /\ c.main = C.main
        /\ c.handling = "initial" /\ c.treatedAs = "initial"
    BY <1>0 DEF CallType, Handling
  <2> HIDE DEF c
  <2>3. CallOK(c, sent[e]["execute"])
    BY <1>0, <1>2, <2>2 DEF CallOK
  <2> QED BY <1>1, <1>2, <2>1, <2>2, <2>3, TakenForInitial
<1> QED BY <1>3, <1>4

LEMMA PaidOK ==
    ASSUME NEW v \in RecordType, v.numberOfPayments >= 1
    PROVE  /\ Paid(v) \in RecordType
           /\ Paid(v).numberOfPayments = v.numberOfPayments - 1
<1> DEFINE s == IF v.numberOfPayments = 1 THEN "done" ELSE v.status
           n == v.numberOfPayments - 1
<1>1. s \in {"running", "done"} /\ n \in Nat
  BY DEF RecordType
<1>2. Paid(v) = [v EXCEPT !.numberOfPayments = n, !.status = s]
  BY Zenon DEF Paid
<1> HIDE DEF s, n
<1>3. Paid(v) \in RecordType /\ Paid(v).numberOfPayments = n
  BY <1>1, <1>2 DEF RecordType
<1> QED BY <1>3 DEF n

\* The record is lowered relative to the one the call began with, which
\* leaves out only this payment.
LEMMA ReceiptRecordStep ==
    ASSUME ExecutionInv, NEW e \in Execution, ReceiptRecord(e)
    PROVE  ExecutionInv'
<1> DEFINE C == call[e]
           c == [C EXCEPT !.handling = "row"]
<1>0. /\ C \in CallType /\ CallOK(C, sent[e]["execute"])
      /\ RowOK(row[e], sent[e]["execute"]) /\ ExecutionTypeOK
  BY DEF ExecutionInv, ExecutionTypeOK, CallsOK, RowsTellTruth, RowOK
<1>1. /\ call' = [call EXCEPT ![e] = c]
      /\ C.handling = "record"
      /\ UNCHANGED <<row, sent, chainVars, due>>
  BY DEF ReceiptRecord
<1>2. C.main = "returned" /\ C.treatedAs = "regular"
  BY <1>0, <1>1 DEF CallOK
<1>3. PICK p \in Payment : p = C.id
  BY <1>0, <1>2 DEF CallOK
<1>4. /\ c \in CallType
      /\ c.id = C.id /\ c.view = C.view /\ c.main = C.main
      /\ c.handling = "row" /\ c.treatedAs = C.treatedAs
  BY <1>0 DEF CallType, Handling
<1> HIDE DEF c
<1>5. /\ call' \in [Execution -> CallType]
      /\ call'[e] = c
      /\ \A d \in Execution \ {e} : call'[d] = call[d]
  BY <1>0, <1>1, <1>4, CallUpdated
<1>6. PICK n \in Nat : n = C.view.numberOfPayments
  BY <1>0 DEF CallType, RecordType
<1>7. /\ NumberOfPayments[p] \in Nat /\ left[p] \in Nat
      /\ NumberOfPayments[p] <= n + Cardinality(Counted(p) \ {e})
      /\ Cardinality(Counted(p)) <= NumberOfPayments[p] - left[p]
  <2>1. /\ NumberOfPayments[p] \in Nat /\ left[p] \in Nat
    BY <1>0, ExecutionAssumption DEF ExecutionTypeOK
  <2>2. NumberOfPayments[p] <= n + Cardinality(Counted(p) \ {e})
    BY <1>2, <1>3, <1>6 DEF ExecutionInv, RecordCounts
  <2> QED BY <2>1, <2>2, CountedBound
<1>8. /\ Cardinality(Counted(p)) = Cardinality(Counted(p) \ {e}) + 1
      /\ Cardinality(Counted(p)) \in Nat
      /\ Cardinality(Counted(p) \ {e}) \in Nat
  <2>1. Counted(p) \subseteq Execution /\ e \in Counted(p)
    BY <1>2, <1>3 DEF Counted
  <2> QED BY <2>1, CallAdded
<1>9. n >= 1 /\ NumberOfPayments[p] <= (n - 1) + Cardinality(Counted(p))
  BY <1>7, <1>8
<1>10. /\ Paid(C.view) \in RecordType
       /\ Paid(C.view).numberOfPayments = n - 1
  <2>1. C.view \in RecordType
    BY <1>0 DEF CallType
  <2> QED BY <1>6, <1>9, <2>1, PaidOK
<1>11. /\ record' \in [Payment -> RecordType]
       /\ record'[p].numberOfPayments = n - 1
       /\ \A q \in Payment \ {p} : record'[q] = record[q]
  <2>1. record' = [record EXCEPT ![p] = Paid(C.view)]
    BY <1>3 DEF ReceiptRecord
  <2> QED BY <1>0, <1>10, <2>1 DEF ExecutionTypeOK
<1>12. CallOK(c, sent[e]["execute"])
  BY <1>0, <1>2, <1>4 DEF CallOK
<1>13. StepOf(e)
  BY <1>0, <1>1, <1>5, <1>11, <1>12 DEF StepOf, ExecutionTypeOK, chainVars
<1>14. CallsOK' /\ RowsTellTruth'
  BY <1>13, StepKeepsCalls
<1>15. \A q : Counted(q)' = Counted(q) /\ Paying(q)' = Paying(q)
  BY <1>1, <1>4, <1>5 DEF Counted, Paying
<1>16. ChainCounts'
  BY <1>1, <1>15 DEF ExecutionInv, ChainCounts, InitialMade, chainVars
<1>17. RecordCounts'
  <2>1. ASSUME NEW q \in Payment
        PROVE  (NumberOfPayments[q] <=
                  record[q].numberOfPayments + Cardinality(Counted(q)))'
    <3>1. CASE q = p
      BY <3>1, <1>9, <1>11, <1>15
    <3>2. CASE q # p
      <4>1. NumberOfPayments[q] <=
               record[q].numberOfPayments + Cardinality(Counted(q))
        BY DEF ExecutionInv, RecordCounts
      <4> QED BY <3>2, <4>1, <1>11, <1>15
    <3> QED BY <3>1, <3>2
  <2>2. \A d \in Execution : /\ call'[d].id = call[d].id
                              /\ call'[d].view = call[d].view
                              /\ call'[d].main = call[d].main
    BY <1>4, <1>5
  <2> QED BY <2>1, <2>2, <1>15 DEF ExecutionInv, RecordCounts
<1>18. InitialFirst'
  BY <1>1, <1>4, <1>5, <1>15 DEF ExecutionInv, InitialFirst, HasRow, HasInitial
<1> QED BY <1>13, <1>14, <1>16, <1>17, <1>18 DEF ExecutionInv, StepOf

\* The payments on chain.
LEMMA MineExecutionStep ==
    ASSUME ExecutionInv, NEW e \in Execution, MineExecution(e)
    PROVE  ExecutionInv'
<1>0. /\ ExecutionTypeOK
      /\ CallOK(call[e], sent[e]["execute"])
      /\ RowOK(row[e], sent[e]["execute"])
      /\ sent[e]["execute"] = "pending"
      /\ UNCHANGED <<record, row, call, ether, due>>
  BY DEF ExecutionInv, CallsOK, RowsTellTruth, RowOK, MineExecution
<1>1. PICK p \in Payment : p = call[e].id
  BY <1>0 DEF CallOK
<1>2. PICK r \in {"success", "reverted"} : Mined(e, "execute", r)
  BY DEF MineExecution
<1>3. /\ sent' \in [Execution ->
                      [Kind -> {"none", "pending", "success", "reverted"}]]
      /\ sent'[e]["execute"] = r
      /\ \A d \in Execution \ {e} : sent'[d] = sent[d]
  BY <1>0, <1>2 DEF ExecutionTypeOK, Kind, Mined
<1>4. nonces' \in [Payment -> Nat]
  BY <1>0, <1>2, NoncesMined DEF ExecutionTypeOK
<1>5. call[e].handling = "off" /\ call[e].main \notin {"idle", "failed"}
  BY <1>0 DEF CallOK
<1>6. CallOK(call[e], sent'[e]["execute"]) /\ RowOK(row[e], sent'[e]["execute"])
  BY <1>0, <1>3, <1>5 DEF CallOK, RowOK
<1>7. CASE UNCHANGED <<initial, left, tokens>> /\ r = "reverted"
  <2>1. ExecutionTypeOK'
    BY <1>0, <1>3, <1>4, <1>7 DEF ExecutionTypeOK
  <2>2. StepOf(e) /\ Quiet(e)
    BY <1>0, <1>3, <1>6, <1>7, <2>1 DEF StepOf, Quiet
  <2> QED BY <2>2, QuietStep
<1>8. CASE /\ Allows(p) /\ r = "success"
           /\ initial' = [initial EXCEPT ![p] = FALSE]
           /\ left' = IF initial[p] THEN left ELSE [left EXCEPT ![p] = @ - 1]
           /\ tokens' = [tokens EXCEPT ![p] = @ + 1]
  <2>1. /\ NumberOfPayments[p] \in Nat /\ left[p] \in Nat /\ due[p] \in Nat
        /\ left[p] <= NumberOfPayments[p] /\ due[p] <= NumberOfPayments[p]
    BY <1>0, ExecutionAssumption DEF ExecutionTypeOK, ExecutionInv, ChainCounts
  <2>2. ~initial[p] => left[p] >= 1
    BY <1>8, <2>1 DEF Allows
  <2>3. left' \in [Payment -> Nat]
    <3>1. CASE initial[p]
      BY <1>0, <1>8, <3>1 DEF ExecutionTypeOK
    <3>2. CASE ~initial[p]
      <4>1. left' = [left EXCEPT ![p] = left[p] - 1] /\ left[p] - 1 \in Nat
        BY <1>8, <2>1, <2>2, <3>2
      <4> QED BY <1>0, <4>1 DEF ExecutionTypeOK
    <3> QED BY <3>1, <3>2
  <2>4. tokens' \in [Payment -> Nat] /\ initial' \in [Payment -> BOOLEAN]
    BY <1>0, <1>8 DEF ExecutionTypeOK
  <2>5. ExecutionTypeOK'
    BY <1>0, <1>3, <1>4, <2>3, <2>4 DEF ExecutionTypeOK
  <2>6. StepOf(e)
    BY <1>0, <1>3, <1>6, <2>5 DEF StepOf
  <2>7. CallsOK' /\ RowsTellTruth'
    BY <2>6, StepKeepsCalls
  <2>8. /\ \A q : Counted(q)' = Counted(q)
        /\ \A q : Paying(q)' = IF q = p THEN Paying(q) \cup {e} ELSE Paying(q)
        /\ e \notin Paying(p)
    BY <1>0, <1>1, <1>3, <1>8 DEF Counted, Paying
  <2>9. Cardinality(Paying(p)') = Cardinality(Paying(p)) + 1
    <3>1. Paying(p) \subseteq Execution
      BY DEF Paying
    <3> QED BY <3>1, <2>8, CallAdded
  <2>10. ChainCounts'
    <3> SUFFICES
          ASSUME NEW q \in Payment
          PROVE  (/\ left[q] <= NumberOfPayments[q]
                  /\ due[q] <= NumberOfPayments[q]
                  /\ initial[q] => /\ q \in WithInitial
                                   /\ left[q] = NumberOfPayments[q]
                  /\ Cardinality(Paying(q)) =
                        NumberOfPayments[q] - left[q] + InitialMade(q))'
      BY DEF ChainCounts
    <3>1. /\ left[q] <= NumberOfPayments[q]
          /\ due[q] <= NumberOfPayments[q]
          /\ initial[q] => q \in WithInitial /\ left[q] = NumberOfPayments[q]
          /\ Cardinality(Paying(q)) =
                NumberOfPayments[q] - left[q] + InitialMade(q)
      BY DEF ExecutionInv, ChainCounts
    <3>2. CASE q # p
      <4>1. /\ left'[q] = left[q] /\ due'[q] = due[q]
            /\ initial'[q] = initial[q] /\ Paying(q)' = Paying(q)
        BY <1>0, <1>8, <2>8, <3>2 DEF ExecutionTypeOK
      <4>2. InitialMade(q)' = InitialMade(q)
        BY <4>1 DEF InitialMade
      <4> QED BY <3>1, <4>1, <4>2
    <3>3. CASE q = p /\ initial[p]
      <4>1. /\ left'[q] = left[q] /\ due'[q] = due[q] /\ ~initial'[q]
            /\ q \in WithInitial
        BY <1>0, <1>8, <3>1, <3>3 DEF ExecutionTypeOK
      <4>2. InitialMade(q) = 0 /\ InitialMade(q)' = 1
        BY <3>3, <4>1 DEF InitialMade
      <4>3. Cardinality(Paying(q)') = Cardinality(Paying(q)) + 1
        BY <2>9, <3>3
      <4> QED BY <2>1, <3>1, <3>3, <4>1, <4>2, <4>3
    <3>4. CASE q = p /\ ~initial[p]
      <4>1. /\ left'[q] = left[q] - 1 /\ due'[q] = due[q] /\ ~initial'[q]
        BY <1>0, <1>8, <3>4 DEF ExecutionTypeOK
      <4>2. InitialMade(q)' = InitialMade(q) /\ InitialMade(q) \in {0, 1}
        BY <3>4, <4>1 DEF InitialMade
      <4>3. Cardinality(Paying(q)') = Cardinality(Paying(q)) + 1
        BY <2>9, <3>4
      <4> QED BY <2>1, <3>1, <3>4, <4>1, <4>2, <4>3
    <3> QED BY <3>2, <3>3, <3>4
  <2>11. RecordCounts'
    BY <1>0, <2>8 DEF ExecutionInv, RecordCounts
  <2>12. InitialFirst'
    BY <1>0, <2>8 DEF ExecutionInv, InitialFirst, HasRow, HasInitial
  <2> QED BY <2>5, <2>7, <2>10, <2>11, <2>12 DEF ExecutionInv
<1> QED
  <2>1. sent'[e]["execute"] = "success" => r = "success"
    BY <1>3
  <2>2. \/ UNCHANGED <<initial, left, tokens>> /\ Mined(e, "execute", "reverted")
        \/ /\ Allows(p) /\ Mined(e, "execute", "success")
           /\ initial' = [initial EXCEPT ![p] = FALSE]
           /\ left' = IF initial[p] THEN left ELSE [left EXCEPT ![p] = @ - 1]
           /\ tokens' = [tokens EXCEPT ![p] = @ + 1]
    BY <1>1 DEF MineExecution
  <2>3. /\ Mined(e, "execute", "reverted") => r = "reverted"
        /\ Mined(e, "execute", "success") => r = "success"
    BY <1>0, <1>3 DEF ExecutionTypeOK, Kind, Mined
  <2> QED BY <1>7, <1>8, <2>2, <2>3

LEMMA FallDueStep ==
    ASSUME ExecutionInv, NEW id \in Payment, FallDue(id)
    PROVE  ExecutionInv'
<1>1. /\ due[id] < NumberOfPayments[id]
      /\ due' = [due EXCEPT ![id] = @ + 1]
      /\ UNCHANGED <<record, row, call, sent, chainVars>>
  BY DEF FallDue
<1>2. ExecutionTypeOK' /\ \A q \in Payment : due'[q] <= NumberOfPayments[q]
  <2>1. /\ ExecutionTypeOK
        /\ \A q \in Payment : due[q] <= NumberOfPayments[q]
    BY DEF ExecutionInv, ChainCounts
  <2>2. due[id] \in Nat /\ NumberOfPayments[id] \in Nat
    BY <2>1, ExecutionAssumption DEF ExecutionTypeOK
  <2>3. due[id] + 1 <= NumberOfPayments[id] /\ due[id] + 1 \in Nat
    BY <1>1, <2>2
  <2>4. /\ due' \in [Payment -> Nat]
        /\ due'[id] = due[id] + 1
        /\ \A q \in Payment \ {id} : due'[q] = due[q]
    BY <1>1, <2>1, <2>3 DEF ExecutionTypeOK
  <2>5. ExecutionTypeOK'
    BY <1>1, <2>1, <2>4 DEF ExecutionTypeOK, chainVars
  <2> QED BY <2>1, <2>3, <2>4, <2>5
<1>3. \A q : Counted(q)' = Counted(q) /\ Paying(q)' = Paying(q)
  BY <1>1 DEF Counted, Paying
<1>4. ChainCounts'
  BY <1>1, <1>2, <1>3 DEF ExecutionInv, ChainCounts, InitialMade, chainVars
<1>5. RecordCounts'
  BY <1>1, <1>3 DEF ExecutionInv, RecordCounts
<1>6. CallsOK' /\ RowsTellTruth' /\ InitialFirst'
  BY <1>1, <1>3 DEF ExecutionInv, CallsOK, RowsTellTruth, InitialFirst, HasRow,
                    HasInitial
<1> QED BY <1>2, <1>4, <1>5, <1>6 DEF ExecutionInv

-----------------------------------------------------------------------------
LEMMA ExecutionInitOK == ExecutionInit => ExecutionInv
<1> SUFFICES ASSUME ExecutionInit PROVE ExecutionInv
  OBVIOUS
<1>1. NoCall \in CallType /\ NoRow \in RowType
  BY DEF NoCall, CallType, NewRecord, RecordType, NoRow, RowType, Main,
         Recording, Handling
<1>2. /\ \A e \in Execution : call[e] = NoCall /\ row[e] = NoRow
      /\ \A e \in Execution : sent[e]["execute"] = "none"
  BY DEF ExecutionInit, Kind
<1>3. ExecutionTypeOK
  BY <1>1, ExecutionAssumption
  DEF ExecutionInit, ExecutionTypeOK, RecordType, NewRecord
<1>4. CallsOK /\ RowsTellTruth
  BY <1>2 DEF CallsOK, CallOK, RowsTellTruth, NoCall, NoRow
<1>5. \A id : Counted(id) = {} /\ Paying(id) = {}
  BY <1>2 DEF Counted, Paying, NoCall
<1>6. InitialFirst
  BY <1>2, <1>5 DEF InitialFirst, HasRow, NoRow
<1>7. \A id \in Payment : NumberOfPayments[id] \in Nat
  BY ExecutionAssumption
<1>8. ChainCounts
  <2> SUFFICES ASSUME NEW id \in Payment
               PROVE  /\ left[id] <= NumberOfPayments[id]
                      /\ due[id] <= NumberOfPayments[id]
                      /\ initial[id] => /\ id \in WithInitial
                                        /\ left[id] = NumberOfPayments[id]
                      /\ Cardinality(Paying(id)) =
                            NumberOfPayments[id] - left[id] + InitialMade(id)
    BY DEF ChainCounts
  <2>1. initial[id] <=> id \in WithInitial
    BY Zenon DEF ExecutionInit
  <2>2. InitialMade(id) = 0
    BY <2>1 DEF InitialMade
  <2>3. left[id] = NumberOfPayments[id] /\ due[id] = 0
    BY DEF ExecutionInit
  <2>4. Cardinality(Paying(id)) = 0
    BY <1>5, FS_EmptySet
  <2> QED BY <1>7, <2>1, <2>2, <2>3, <2>4
<1>9. RecordCounts
  <2>1. \A e \in Execution : call[e].main = "idle"
    BY <1>2 DEF NoCall
  <2>2. \A id \in Payment : record[id].numberOfPayments = NumberOfPayments[id]
    BY DEF ExecutionInit, NewRecord
  <2> QED BY <2>1, <2>2, <1>5, <1>7, FS_EmptySet DEF RecordCounts
<1> QED BY <1>3, <1>4, <1>6, <1>8, <1>9 DEF ExecutionInv

LEMMA ExecutionStepOK ==
    ASSUME ExecutionInv, [ExecutionNext]_executionVars PROVE ExecutionInv'
<1>1. ASSUME NEW e \in Execution, NEW id \in Payment, Call(e, id)
      PROVE  ExecutionInv'
  BY <1>1, CallStep
<1>2. ASSUME NEW e \in Execution, Executed(e) \/ Reject(e) \/ GiveUp(e)
      PROVE  ExecutionInv'
  BY <1>2, ReadRecordStep, getTxCountStep, executeSignedTransactionStep,
     GetReceiptStep, CatchRevertStep, FailRowStep, RejectStep, GiveUpStep
  DEF Executed
<1>3. ASSUME NEW e \in Execution, Recorded(e)
      PROVE  ExecutionInv'
  BY <1>3, RecordCheckStep, createTransactionStep DEF Recorded
<1>4. ASSUME NEW e \in Execution, Handled(e) \/ CashOutFails(e)
      PROVE  ExecutionInv'
  BY <1>4, ReceiptCheckStep, ReceiptRecordStep, SuccessStep, CashOutStep, CashOutSendStep DEF Handled
<1>5. ASSUME NEW e \in Execution, MineExecution(e) \/ MineCashOut(e)
      PROVE  ExecutionInv'
  BY <1>5, MineExecutionStep, MineCashOutStep
<1>6. ASSUME NEW id \in Payment, FallDue(id)
      PROVE  ExecutionInv'
  BY <1>6, FallDueStep
<1>7. CASE UNCHANGED executionVars
  <2>1. UNCHANGED <<record, row, call, sent, chainVars, due>>
    BY <1>7 DEF executionVars
  <2>2. \A q : Counted(q)' = Counted(q) /\ Paying(q)' = Paying(q)
    BY <2>1 DEF Counted, Paying
  <2> QED BY <2>1, <2>2
      DEF ExecutionInv, ExecutionTypeOK, CallsOK, RowsTellTruth, InitialFirst,
          HasRow, HasInitial, ChainCounts, InitialMade, RecordCounts, chainVars
<1> QED BY <1>1, <1>2, <1>3, <1>4, <1>5, <1>6, <1>7 DEF ExecutionNext

(* The strengthened invariant of executePullPayment(): how many payments    *)
(* each record, and each copy of one that a call still holds, accounts for. *)
THEOREM ExecutionInvariant == ExecutionSpec => []ExecutionInv
BY ExecutionInitOK, ExecutionStepOK, PTL DEF ExecutionSpec

(* The variables keep their types; above all a record's numberOfPayments    *)
(* never falls below zero (BlockchainTxReceiptHandler.ts:15).               *)
THEOREM ExecutionTypesAlwaysOK == ExecutionSpec => []ExecutionTypeOK
BY ExecutionInvariant, PTL DEF ExecutionInv

(* The stale records that receipt handlers write back never claim fewer     *)
(* payments than the contract has left, however many calls overlap.         *)
THEOREM RecordIsNeverBehind == ExecutionSpec => []RecordNeverBehind
<1>1. ExecutionInv => RecordNeverBehind
  <2> SUFFICES ASSUME ExecutionInv, NEW id \in Payment
               PROVE  left[id] <= record[id].numberOfPayments
    BY DEF RecordNeverBehind
  <2>1. /\ left[id] \in Nat /\ record[id].numberOfPayments \in Nat
        /\ NumberOfPayments[id] \in Nat
    BY ExecutionAssumption DEF ExecutionInv, ExecutionTypeOK, RecordType
  <2>2. NumberOfPayments[id] <=
           record[id].numberOfPayments + Cardinality(Counted(id))
    BY DEF ExecutionInv, RecordCounts
  <2>3. Cardinality(Counted(id)) \in Nat
    BY CallsFinite DEF Counted
  <2>4. Cardinality(Counted(id)) <= NumberOfPayments[id] - left[id]
    BY CountedBound
  <2> QED BY <2>1, <2>2, <2>3, <2>4
<1> QED BY <1>1, ExecutionInvariant, PTL

(* A row says success or failed only of a transaction that succeeded or     *)
(* was reverted, whichever of its two writers comes first.                  *)
THEOREM RowsAlwaysTellTruth == ExecutionSpec => []RowsTellTruth
BY ExecutionInvariant, PTL DEF ExecutionInv

-----------------------------------------------------------------------------
(* Done is done.  The call whose receipt ends the pull payment began with a *)
(* record of one payment left, so every other regular payment had been      *)
(* executed, handled and written by then: the contract is through with the  *)
(* pull payment, and nobody is left who would write its record again.       *)

\* Calls that have lowered the record.
Written(id) == {e \in Counted(id) : call[e].handling # "record"}

\* RecordCounts, of what has been written: no update is lost unnoticed.
WrittenCounts ==
    /\ \A id \in Payment :
          NumberOfPayments[id] <=
             record[id].numberOfPayments + Cardinality(Written(id))
    /\ \A e \in Execution : call[e].main \notin {"idle", "read"} =>
          NumberOfPayments[call[e].id] <=
             call[e].view.numberOfPayments
             + Cardinality(Written(call[e].id) \ {e})

\* The contract is through with the pull payment.
Through(id) == left[id] = 0 /\ ~initial[id]

\* The call that ended the pull payment.
EndedBy(c) == /\ c.treatedAs = "regular"
              /\ c.handling # "record"
              /\ c.view.numberOfPayments = 1

LEMMA WrittenIsFinite ==
    ASSUME NEW id, NEW e
    PROVE  /\ Cardinality(Written(id)) \in Nat
           /\ Cardinality(Written(id) \ {e}) \in Nat
           /\ Cardinality(Written(id)') \in Nat
           /\ Cardinality(Written(id)' \ {e}) \in Nat
<1>1. /\ Written(id) \subseteq Execution /\ Written(id) \ {e} \subseteq Execution
      /\ Written(id)' \subseteq Execution /\ Written(id)' \ {e} \subseteq Execution
  BY DEF Written, Counted
<1>. QED
  BY <1>1, CallsFinite

\* Once as many calls have written as there are regular payments, all that
\* were executed have.
LEMMA EnoughWritten ==
    ASSUME ExecutionInv, NEW id \in Payment,
           NumberOfPayments[id] <= Cardinality(Written(id))
    PROVE  Through(id) /\ Written(id) = Counted(id)
<1>1. NumberOfPayments[id] \in Nat \ {0} /\ left[id] \in Nat
  BY ExecutionAssumption DEF ExecutionInv, ExecutionTypeOK
<1>2. /\ Written(id) \subseteq Counted(id) /\ Counted(id) \subseteq Execution
      /\ Written(id) \subseteq Execution
  BY DEF Written, Counted
<1>3. /\ Cardinality(Counted(id)) <= NumberOfPayments[id] - left[id]
      /\ Cardinality(Counted(id)) \in Nat /\ Cardinality(Written(id)) \in Nat
  BY <1>2, CountedBound, CallsFinite
<1>4. Cardinality(Written(id)) <= Cardinality(Counted(id))
  BY <1>2, FewerCalls
<1>5. left[id] = 0 /\ Cardinality(Written(id)) = Cardinality(Counted(id))
  BY <1>1, <1>3, <1>4
<1>6. Written(id) = Counted(id)
  <2>1. IsFiniteSet(Counted(id)) /\ Written(id) \in SUBSET Counted(id)
    BY <1>2, CallsFinite
  <2>. QED
    BY <1>5, <2>1, FS_Subset
<1>7. ~initial[id]
  BY <1>1, <1>5 DEF ExecutionInv, ChainCounts
<1>. QED
  BY <1>5, <1>6, <1>7 DEF Through

\* When the call that ended the pull payment has written its record, every
\* regular payment is executed and written.
LEMMA AllWritten ==
    ASSUME ExecutionInv, WrittenCounts, NEW e \in Execution, EndedBy(call[e]),
           NEW id \in Payment, id = call[e].id
    PROVE  Through(id) /\ Written(id) = Counted(id)
<1>1. CallOK(call[e], sent[e]["execute"]) /\ call[e] \in CallType
  BY DEF ExecutionInv, CallsOK, ExecutionTypeOK
<1>2. call[e].main \notin {"idle", "read"}
  BY <1>1 DEF EndedBy, CallOK
<1>3. e \in Written(id) /\ Written(id) \subseteq Execution
  BY DEF Written, Counted, EndedBy
<1>4. NumberOfPayments[id] <= 1 + Cardinality(Written(id) \ {e})
  BY <1>2 DEF WrittenCounts, EndedBy
<1>5. Cardinality(Written(id)) = Cardinality(Written(id) \ {e}) + 1
      /\ Cardinality(Written(id)) \in Nat /\ Cardinality(Written(id) \ {e}) \in Nat
  BY <1>3, CallAdded
<1>6. NumberOfPayments[id] \in Nat
  BY ExecutionAssumption
<1>. QED
  BY <1>4, <1>5, <1>6, EnoughWritten

\* So nobody is left who would write it once more.
LEMMA NobodyWrites ==
    ASSUME ExecutionInv, WrittenCounts, NEW e \in Execution, EndedBy(call[e]),
           NEW d \in Execution, call[d].id = call[e].id
    PROVE  call[d].handling # "record"
<1>1. CallOK(call[e], sent[e]["execute"]) /\ CallOK(call[d], sent[d]["execute"])
  BY DEF ExecutionInv, CallsOK
<1>2. PICK id \in Payment : id = call[e].id
  BY <1>1 DEF EndedBy, CallOK
<1>3. Written(id) = Counted(id)
  BY <1>2, AllWritten
<1>4. call[d].handling = "record" => d \in Counted(id)
  BY <1>1, <1>2 DEF CallOK, Counted
<1>. QED
  BY <1>3, <1>4 DEF Written

\* A step un-writes no call, and changes a record or the view of a call only
\* to one that counts what is written.
LEMMA WrittenKept ==
    ASSUME ExecutionInv, ExecutionInv', WrittenCounts,
           \A q \in Payment : Written(q) \subseteq Written(q)',
           \A q \in Payment :
              \/ record'[q] = record[q]
              \/ (NumberOfPayments[q] <=
                     record[q].numberOfPayments + Cardinality(Written(q)))',
           \A d \in Execution : call'[d].main \notin {"idle", "read"} =>
              \/ /\ call[d].main \notin {"idle", "read"}
                 /\ call'[d].id = call[d].id
                 /\ call'[d].view = call[d].view
              \/ (NumberOfPayments[call[d].id] <=
                     call[d].view.numberOfPayments
                     + Cardinality(Written(call[d].id) \ {d}))'
    PROVE  WrittenCounts'
<1>1. ASSUME NEW q \in Payment, NEW e
      PROVE  /\ Cardinality(Written(q)) <= Cardinality(Written(q)')
             /\ Cardinality(Written(q) \ {e}) <= Cardinality(Written(q)' \ {e})
  <2>1. /\ Written(q) \subseteq Written(q)' /\ Written(q)' \subseteq Execution
        /\ Written(q) \ {e} \subseteq Written(q)' \ {e}
        /\ Written(q)' \ {e} \subseteq Execution
    BY DEF Written, Counted
  <2>. QED
    BY <2>1, FewerCalls
<1>2. ASSUME NEW q \in Payment, record'[q] = record[q]
      PROVE  (NumberOfPayments[q] <=
                record[q].numberOfPayments + Cardinality(Written(q)))'
  <2>1. NumberOfPayments[q] <= record[q].numberOfPayments + Cardinality(Written(q))
    BY DEF WrittenCounts
  <2>2. NumberOfPayments[q] \in Nat /\ record[q].numberOfPayments \in Nat
    BY ExecutionAssumption DEF ExecutionInv, ExecutionTypeOK, RecordType
  <2>3. Cardinality(Written(q)) <= Cardinality(Written(q)')
        /\ Cardinality(Written(q)) \in Nat /\ Cardinality(Written(q)') \in Nat
    BY <1>1, WrittenIsFinite
  <2>. QED
    BY <1>2, <2>1, <2>2, <2>3
<1>3. ASSUME NEW d \in Execution, call'[d].main \notin {"idle", "read"},
             call[d].main \notin {"idle", "read"},
             call'[d].id = call[d].id, call'[d].view = call[d].view
      PROVE  (NumberOfPayments[call[d].id] <=
                call[d].view.numberOfPayments
                + Cardinality(Written(call[d].id) \ {d}))'
  <2>1. /\ call[d].main \notin {"idle", "read"}
        /\ call'[d].id = call[d].id /\ call'[d].view = call[d].view
    BY <1>3
  <2>2. PICK q \in Payment : q = call[d].id
    BY <2>1 DEF ExecutionInv, CallsOK, CallOK
  <2>3. NumberOfPayments[q] <=
           call[d].view.numberOfPayments + Cardinality(Written(q) \ {d})
    BY <2>1, <2>2 DEF WrittenCounts
  <2>4. NumberOfPayments[q] \in Nat /\ call[d].view.numberOfPayments \in Nat
    BY ExecutionAssumption DEF ExecutionInv, ExecutionTypeOK, CallType, RecordType
  <2>5. Cardinality(Written(q) \ {d}) <= Cardinality(Written(q)' \ {d})
        /\ Cardinality(Written(q) \ {d}) \in Nat
        /\ Cardinality(Written(q)' \ {d}) \in Nat
    BY <1>1, WrittenIsFinite
  <2>6. NumberOfPayments[q] <=
           call[d].view.numberOfPayments + Cardinality(Written(q)' \ {d})
    BY <2>3, <2>4, <2>5
  <2>. QED
    BY <2>1, <2>2, <2>6
<1>. QED
  BY <1>2, <1>3 DEF WrittenCounts

\* A step of call C that lowers no record and reads none.
Keeps(C, c) ==
    /\ c.main \notin {"idle", "read"} => /\ C.main \notin {"idle", "read"}
                                         /\ c.id = C.id /\ c.view = C.view
    /\ C.treatedAs = "regular" /\ C.handling # "record" =>
          c.treatedAs = "regular" /\ c.handling # "record" /\ c.id = C.id

LEMMA KeepsWritten ==
    ASSUME ExecutionInv, ExecutionInv', WrittenCounts, NEW e \in Execution,
           NEW c, Keeps(call[e], c), call' = [call EXCEPT ![e] = c],
           UNCHANGED record
    PROVE  WrittenCounts'
<1>1. \A d \in Execution : call'[d] = IF d = e THEN c ELSE call[d]
  BY DEF ExecutionInv, ExecutionTypeOK
<1>2. \A q \in Payment : Written(q) \subseteq Written(q)'
  BY <1>1 DEF Written, Counted, Keeps
<1>3. \A d \in Execution : call'[d].main \notin {"idle", "read"} =>
         /\ call[d].main \notin {"idle", "read"}
         /\ call'[d].id = call[d].id
         /\ call'[d].view = call[d].view
  BY <1>1 DEF Keeps
<1>. QED
  BY <1>2, <1>3, WrittenKept

\* An update of call C that moves only its strands other than handling.
MainUpdate(C, c) ==
    /\ c.main \notin {"idle", "read"} => C.main \notin {"idle", "read"}
    /\ c.id = C.id /\ c.view = C.view
    /\ c.treatedAs = C.treatedAs /\ c.handling = C.handling
    /\ c.phase = C.phase /\ c.kind = C.kind
    /\ c.amount = C.amount /\ c.moving = C.moving

LEMMA MainStrand ==
    ASSUME ExecutionInv, NEW e \in Execution,
           \/ getTxCount(e) \/ Reject(e) \/ CatchRevert(e) \/ GiveUp(e)
           \/ FailRow(e) \/ RecordCheck(e) \/ createTransaction(e)
           \/ executeSignedTransaction(e)
    PROVE  /\ \E c : MainUpdate(call[e], c) /\ call' = [call EXCEPT ![e] = c]
           /\ UNCHANGED <<record, chainVars>>
<1>1. call[e] \in CallType
  BY DEF ExecutionInv, ExecutionTypeOK
<1>2. UNCHANGED <<record, chainVars>>
  BY DEF getTxCount, Reject, CatchRevert, GiveUp, FailRow, RecordCheck,
         createTransaction, executeSignedTransaction
<1>3. CASE getTxCount(e)
  <2> DEFINE c == [call[e] EXCEPT !.main = "send", !.nonce = nonces[call[e].id]]
  <2>1. MainUpdate(call[e], c)
    BY <1>1, <1>3 DEF MainUpdate, CallType, getTxCount
  <2>. QED
    BY <1>2, <1>3, <2>1 DEF getTxCount
<1>4. CASE Reject(e) \/ GiveUp(e)
  <2> DEFINE c == [call[e] EXCEPT !.main = "rejected"]
  <2>1. MainUpdate(call[e], c)
    BY <1>1, <1>4 DEF MainUpdate, CallType, Reject, GiveUp
  <2>. QED
    BY <1>2, <1>4, <2>1 DEF Reject, GiveUp
<1>5. CASE CatchRevert(e)
  <2> DEFINE c == [call[e] EXCEPT !.main = "failed"]
  <2>1. MainUpdate(call[e], c)
    BY <1>1, <1>5 DEF MainUpdate, CallType, CatchRevert
  <2>. QED
    BY <1>2, <1>5, <2>1 DEF CatchRevert
<1>6. CASE FailRow(e)
  <2> DEFINE c == [call[e] EXCEPT !.main = "returned"]
  <2>1. MainUpdate(call[e], c)
    BY <1>1, <1>6 DEF MainUpdate, CallType, FailRow
  <2>. QED
    BY <1>2, <1>6, <2>1 DEF FailRow
<1>7. CASE createTransaction(e)
  <2> DEFINE c == [call[e] EXCEPT !.recording = "done"]
  <2>1. MainUpdate(call[e], c)
    BY <1>1 DEF MainUpdate, CallType
  <2>. QED
    BY <1>2, <1>7, <2>1 DEF createTransaction
<1>8. CASE RecordCheck(e)
  <2> DEFINE t == IF HasRow(call[e].id, "initial", RowStatus)
                  THEN "execute" ELSE "initial"
             c == [call[e] EXCEPT !.recording = "create", !.type = t]
  <2>1. call' = [call EXCEPT ![e] = c]
    BY <1>8 DEF RecordCheck
  <2> HIDE DEF t
  <2>2. MainUpdate(call[e], c)
    BY <1>1 DEF MainUpdate, CallType
  <2>. QED
    BY <1>2, <2>1, <2>2
<1>9. CASE executeSignedTransaction(e)
  <2> DEFINE r == IF call[e].id \in WithInitial THEN "check" ELSE "create"
             c == [call[e] EXCEPT !.main = "sent", !.recording = r]
  <2>1. call' = [call EXCEPT ![e] = c] /\ call[e].main = "send"
    BY <1>9 DEF executeSignedTransaction
  <2> HIDE DEF r
  <2>2. MainUpdate(call[e], c)
    BY <1>1, <2>1 DEF MainUpdate, CallType
  <2>. QED
    BY <1>2, <2>1, <2>2
<1>. QED
  BY <1>3, <1>4, <1>5, <1>6, <1>7, <1>8, <1>9

LEMMA ReceiptTaken ==
    ASSUME ExecutionInv, NEW e \in Execution, GetReceipt(e) \/ ReceiptCheck(e)
    PROVE  \E c : /\ call' = [call EXCEPT ![e] = c]
                  /\ c.id = call[e].id /\ c.view = call[e].view
                  /\ c.handling \in {"check", "record", "initial"}
                  /\ c.handling # "record" => c.treatedAs # "regular"
<1>1. call[e] \in CallType
  BY DEF ExecutionInv, ExecutionTypeOK
<1>2. CASE GetReceipt(e)
  <2> DEFINE C == call[e]
             h == IF C.id \in WithInitial THEN "check" ELSE "record"
             t == IF C.id \in WithInitial THEN "none" ELSE "regular"
             c == [C EXCEPT !.main = "returned", !.handling = h, !.treatedAs = t]
  <2>1. call' = [call EXCEPT ![e] = c]
    BY <1>2 DEF GetReceipt
  <2>2. h \in {"check", "record"} /\ (h # "record" => t # "regular")
    OBVIOUS
  <2> HIDE DEF h, t
  <2>3. c.id = C.id /\ c.view = C.view /\ c.handling = h /\ c.treatedAs = t
    BY <1>1 DEF CallType
  <2>. QED
    BY <2>1, <2>2, <2>3
<1>3. CASE ReceiptCheck(e)
  <2> DEFINE C == call[e]
             c == [C EXCEPT !.handling = "record", !.treatedAs = "regular"]
             d == [C EXCEPT !.handling = "initial", !.treatedAs = "initial"]
  <2>1. call' = [call EXCEPT ![e] = c] \/ call' = [call EXCEPT ![e] = d]
    BY <1>3 DEF ReceiptCheck
  <2>2. /\ c.id = C.id /\ c.view = C.view /\ c.handling = "record"
        /\ d.id = C.id /\ d.view = C.view
        /\ d.handling = "initial" /\ d.treatedAs = "initial"
    BY <1>1 DEF CallType
  <2>. QED
    BY <2>1, <2>2
<1>. QED
  BY <1>2, <1>3

LEMMA ReadRecordWritten ==
    ASSUME ExecutionInv, ExecutionInv', WrittenCounts, NEW e \in Execution,
           ReadRecord(e)
    PROVE  WrittenCounts'
<1> DEFINE c == [call[e] EXCEPT !.main = "nonce", !.view = record[call[e].id]]
<1>1. call[e] \in CallType /\ CallOK(call[e], sent[e]["execute"])
  BY DEF ExecutionInv, ExecutionTypeOK, CallsOK
<1>2. call' = [call EXCEPT ![e] = c] /\ call[e].main = "read" /\ UNCHANGED record
  BY DEF ReadRecord
<1>3. call[e].treatedAs = "none"
  BY <1>1, <1>2 DEF CallOK
<1>4. PICK p \in Payment : p = call[e].id
  BY <1>1, <1>2 DEF CallOK
<1>5. c.id = p /\ c.view = record[p] /\ c.treatedAs = "none"
  BY <1>1, <1>3, <1>4 DEF CallType
<1> HIDE DEF c
<1>6. \A d \in Execution : call'[d] = IF d = e THEN c ELSE call[d]
  BY <1>2 DEF ExecutionInv, ExecutionTypeOK
<1>7. \A q : Written(q)' = Written(q) /\ e \notin Written(q)
  BY <1>3, <1>5, <1>6 DEF Written, Counted
<1>8. (NumberOfPayments[call[e].id] <=
         call[e].view.numberOfPayments + Cardinality(Written(call[e].id) \ {e}))'
  <2>1. NumberOfPayments[p] <= record[p].numberOfPayments + Cardinality(Written(p))
    BY DEF WrittenCounts
  <2>2. Written(p)' \ {e} = Written(p)
    BY <1>7
  <2>. QED
    BY <1>5, <1>6, <2>1, <2>2
<1>. QED
  BY <1>2, <1>6, <1>7, <1>8, WrittenKept

\* What the receipt of a regular payment does to its record.
LEMMA ReceiptRecordWrites ==
    ASSUME ExecutionInv, WrittenCounts, NEW e \in Execution, ReceiptRecord(e),
           NEW p \in Payment, p = call[e].id
    PROVE  /\ \E c :
                 /\ \A d \in Execution : call'[d] = IF d = e THEN c ELSE call[d]
                 /\ c.id = p /\ c.view = call[e].view /\ c.main = call[e].main
                 /\ c.handling = "row" /\ c.treatedAs = "regular"
           /\ \A q : Written(q)' =
                 IF q = p THEN Written(q) \cup {e} ELSE Written(q)
           /\ call[e].view.numberOfPayments \in Nat \ {0}
           /\ record'[p].numberOfPayments = call[e].view.numberOfPayments - 1
           /\ NumberOfPayments[p] <=
                 record'[p].numberOfPayments + Cardinality(Written(p)')
           /\ \A q \in Payment \ {p} : record'[q] = record[q]
<1> DEFINE C == call[e]
           c == [C EXCEPT !.handling = "row"]
<1>1. /\ C \in CallType /\ CallOK(C, sent[e]["execute"]) /\ ExecutionTypeOK
  BY DEF ExecutionInv, ExecutionTypeOK, CallsOK
<1>2. /\ call' = [call EXCEPT ![e] = c]
      /\ C.handling = "record"
  BY DEF ReceiptRecord
<1>3. C.main = "returned" /\ C.treatedAs = "regular"
  BY <1>1, <1>2 DEF CallOK
<1>4. /\ c.id = C.id /\ c.view = C.view /\ c.main = C.main
      /\ c.handling = "row" /\ c.treatedAs = C.treatedAs
  BY <1>1 DEF CallType
<1> HIDE DEF c
<1>5. \A d \in Execution : call'[d] = IF d = e THEN c ELSE call[d]
  BY <1>1, <1>2 DEF ExecutionTypeOK
<1>6. PICK n \in Nat : n = C.view.numberOfPayments
  BY <1>1 DEF CallType, RecordType
<1>7. /\ \A q : Written(q)' = IF q = p THEN Written(q) \cup {e} ELSE Written(q)
      /\ e \notin Written(p) /\ Written(p) \subseteq Execution
  BY <1>2, <1>3, <1>4, <1>5 DEF Written, Counted
<1>8. /\ NumberOfPayments[p] <= n + Cardinality(Written(p))
      /\ Cardinality(Written(p)') = Cardinality(Written(p)) + 1
      /\ NumberOfPayments[p] \in Nat /\ Cardinality(Written(p)) \in Nat
  <2>1. Written(p) \ {e} = Written(p)
    BY <1>7
  <2>2. NumberOfPayments[p] <= n + Cardinality(Written(p) \ {e})
    BY <1>3, <1>6 DEF WrittenCounts
  <2>3. Cardinality(Written(p) \cup {e}) = Cardinality(Written(p)) + 1
        /\ Cardinality(Written(p)) \in Nat
    BY <1>7, CallAdded
  <2>4. NumberOfPayments[p] \in Nat
    BY ExecutionAssumption
  <2>. QED
    BY <1>7, <2>1, <2>2, <2>3, <2>4
<1>9. n >= 1
  <2>1. /\ NumberOfPayments[p] <= n + Cardinality(Counted(p) \ {e})
        /\ Cardinality(Counted(p)) <= NumberOfPayments[p] - left[p]
        /\ left[p] \in Nat
    BY <1>1, <1>3, <1>6, CountedBound
       DEF ExecutionInv, RecordCounts, ExecutionTypeOK
  <2>2. /\ Cardinality(Counted(p)) = Cardinality(Counted(p) \ {e}) + 1
        /\ Cardinality(Counted(p) \ {e}) \in Nat
    <3>1. Counted(p) \subseteq Execution /\ e \in Counted(p)
      BY <1>3 DEF Counted
    <3>. QED
      BY <3>1, CallAdded
  <2>. QED
    BY <1>8, <2>1, <2>2
<1>10. Paid(C.view).numberOfPayments = n - 1
  <2>1. C.view \in RecordType
    BY <1>1 DEF CallType
  <2>. QED
    BY <1>6, <1>9, <2>1, PaidOK
<1>11. /\ record'[p].numberOfPayments = n - 1
       /\ \A q \in Payment \ {p} : record'[q] = record[q]
  <2>1. record' = [record EXCEPT ![p] = Paid(C.view)]
    BY DEF ReceiptRecord
  <2>. QED
    BY <1>1, <1>10, <2>1 DEF ExecutionTypeOK
<1>12. NumberOfPayments[p] <= record'[p].numberOfPayments + Cardinality(Written(p)')
  BY <1>8, <1>9, <1>11
<1>. QED
  BY <1>3, <1>4, <1>5, <1>6, <1>7, <1>9, <1>11, <1>12

LEMMA ReceiptRecordWritten ==
    ASSUME ExecutionInv, ExecutionInv', WrittenCounts, NEW e \in Execution,
           ReceiptRecord(e)
    PROVE  WrittenCounts'
<1>1. CallOK(call[e], sent[e]["execute"]) /\ call[e].handling = "record"
  BY DEF ExecutionInv, CallsOK, ReceiptRecord
<1>2. PICK p \in Payment : p = call[e].id
  BY <1>1 DEF CallOK
<1>3. PICK c :
         /\ \A d \in Execution : call'[d] = IF d = e THEN c ELSE call[d]
         /\ c.id = p /\ c.view = call[e].view /\ c.main = call[e].main
  BY <1>2, ReceiptRecordWrites
<1>4. /\ \A q : Written(q)' = IF q = p THEN Written(q) \cup {e} ELSE Written(q)
      /\ NumberOfPayments[p] <=
            record'[p].numberOfPayments + Cardinality(Written(p)')
      /\ \A q \in Payment \ {p} : record'[q] = record[q]
  BY <1>2, ReceiptRecordWrites
<1>5. \A q \in Payment : Written(q) \subseteq Written(q)'
  BY <1>4
<1>6. \A q \in Payment :
         \/ record'[q] = record[q]
         \/ (NumberOfPayments[q] <=
               record[q].numberOfPayments + Cardinality(Written(q)))'
  BY <1>4
<1>7. \A d \in Execution : /\ call'[d].main = call[d].main
                           /\ call'[d].id = call[d].id
                           /\ call'[d].view = call[d].view
  BY <1>2, <1>3
<1>. QED
  BY <1>5, <1>6, <1>7, WrittenKept

LEMMA WrittenStepOK ==
    ASSUME ExecutionInv, ExecutionInv', WrittenCounts,
           [ExecutionNext]_executionVars
    PROVE  WrittenCounts'
<1>1. ASSUME NEW e \in Execution, NEW id \in Payment, Call(e, id)
      PROVE  WrittenCounts'
  <2> DEFINE c == [call[e] EXCEPT !.id = id, !.main = "read"]
  <2>1. /\ call[e] \in CallType /\ CallOK(call[e], sent[e]["execute"])
        /\ call[e].main = "idle"
    BY <1>1 DEF ExecutionInv, ExecutionTypeOK, CallsOK, Call, Execution
  <2>2. Keeps(call[e], c)
    BY <2>1 DEF Keeps, CallOK, CallType
  <2>. QED
    BY <1>1, <2>2, KeepsWritten DEF Call
<1>2. ASSUME NEW e \in Execution,
             \/ getTxCount(e) \/ Reject(e) \/ CatchRevert(e) \/ GiveUp(e)
             \/ FailRow(e) \/ RecordCheck(e) \/ createTransaction(e)
             \/ executeSignedTransaction(e)
      PROVE  WrittenCounts'
  <2>1. PICK c : MainUpdate(call[e], c) /\ call' = [call EXCEPT ![e] = c]
    BY <1>2, MainStrand
  <2>2. UNCHANGED record
    BY <1>2, MainStrand
  <2>3. Keeps(call[e], c)
    BY <2>1 DEF MainUpdate, Keeps
  <2>. QED
    BY <2>1, <2>2, <2>3, KeepsWritten
<1>3. ASSUME NEW e \in Execution, GetReceipt(e) \/ ReceiptCheck(e)
      PROVE  WrittenCounts'
  <2>1. PICK c : /\ call' = [call EXCEPT ![e] = c]
                 /\ c.id = call[e].id /\ c.view = call[e].view
    BY <1>3, ReceiptTaken
  <2>2. UNCHANGED record /\ CallOK(call[e], sent[e]["execute"])
    BY <1>3 DEF GetReceipt, ReceiptCheck, ExecutionInv, CallsOK
  <2>3. call[e].main \in {"sent", "returned"} /\ call[e].treatedAs = "none"
    BY <1>3, <2>2 DEF GetReceipt, ReceiptCheck, CallOK
  <2>4. Keeps(call[e], c)
    BY <2>1, <2>3 DEF Keeps
  <2>. QED
    BY <2>1, <2>2, <2>4, KeepsWritten
<1>4. ASSUME NEW e \in Execution,
             \/ ReceiptRow(e) \/ InitialRow(e) \/ cashOutPMA(e) \/ getBalance(e)
             \/ CashOutNonce(e) \/ CashOutSend(e) \/ CashOutFails(e)
             \/ CashOutReceipt(e)
      PROVE  WrittenCounts'
  <2>1. PICK c : MovesOn(call[e], c) /\ call' = [call EXCEPT ![e] = c]
    BY <1>4, HandlerMovesOn
  <2>2. UNCHANGED record
    BY <1>4, HandlerMovesOn
  <2>3. Keeps(call[e], c)
    BY <2>1 DEF MovesOn, Keeps, Later
  <2>. QED
    BY <2>1, <2>2, <2>3, KeepsWritten
<1>5. ASSUME UNCHANGED <<record, call>>
      PROVE  WrittenCounts'
  <2>1. \A q : Written(q)' = Written(q)
    BY <1>5 DEF Written, Counted
  <2>. QED
    BY <1>5, <2>1 DEF WrittenCounts
<1>6. ASSUME NEW e \in Execution, MineExecution(e) \/ MineCashOut(e)
      PROVE  WrittenCounts'
  BY <1>5, <1>6 DEF MineExecution, MineCashOut
<1>7. ASSUME NEW id \in Payment, FallDue(id)
      PROVE  WrittenCounts'
  BY <1>5, <1>7 DEF FallDue
<1>8. CASE UNCHANGED executionVars
  BY <1>5, <1>8 DEF executionVars
<1>. QED
  BY <1>1, <1>2, <1>3, <1>4, <1>6, <1>7, <1>8, ReadRecordWritten,
     ReceiptRecordWritten DEF ExecutionNext, Executed, Recorded, Handled

LEMMA WrittenInitOK == ExecutionInit => WrittenCounts
<1>1. SUFFICES ASSUME ExecutionInit PROVE WrittenCounts
  OBVIOUS
<1>2. \A e \in Execution : call[e] = NoCall
  BY <1>1 DEF ExecutionInit
<1>3. \A id : Cardinality(Written(id)) = 0
  <2>1. \A id : Written(id) = {}
    BY <1>2 DEF Written, Counted, NoCall
  <2>. QED
    BY <2>1, FS_EmptySet
<1>4. \A e \in Execution : call[e].main = "idle"
  BY <1>2 DEF NoCall
<1>5. \A id \in Payment :
         NumberOfPayments[id] <= record[id].numberOfPayments + 0
  <2>1. \A id \in Payment : /\ record[id].numberOfPayments = NumberOfPayments[id]
                            /\ NumberOfPayments[id] \in Nat
    BY <1>1, ExecutionAssumption DEF ExecutionInit, NewRecord
  <2>. QED
    BY <2>1
<1>. QED
  BY <1>3, <1>4, <1>5 DEF WrittenCounts

(* No update of a record is lost unnoticed: every record, and every copy of *)
(* one that a call still holds, accounts for the payments written so far.   *)
THEOREM WrittenInvariant == ExecutionSpec => []WrittenCounts
<1>1. ExecutionInv /\ ExecutionInv' /\ WrittenCounts /\ [ExecutionNext]_executionVars
         => WrittenCounts'
  BY WrittenStepOK
<1>. QED
  BY <1>1, WrittenInitOK, ExecutionInvariant, PTL DEF ExecutionSpec

\* Who writes records, who reads them, and who moves tokens.
LEMMA StepTouches ==
    ASSUME ExecutionInv, [ExecutionNext]_executionVars
    PROVE  /\ UNCHANGED record \/ \E e \in Execution : ReceiptRecord(e)
           /\ \A e \in Execution :
                 call'[e].view = call[e].view \/ ReadRecord(e)
           /\ \/ UNCHANGED tokens
              \/ \E e \in Execution : MineExecution(e) \/ MineCashOut(e)
<1> DEFINE Kept == /\ UNCHANGED <<record, tokens>>
                   /\ \A d \in Execution : call'[d].view = call[d].view
<1>1. ASSUME NEW e \in Execution, NEW c, c.view = call[e].view,
             call' = [call EXCEPT ![e] = c]
      PROVE  \A d \in Execution : call'[d].view = call[d].view
  BY <1>1 DEF ExecutionInv, ExecutionTypeOK
<1>2. ASSUME NEW e \in Execution, NEW id \in Payment, Call(e, id)
      PROVE  Kept
  <2> DEFINE c == [call[e] EXCEPT !.id = id, !.main = "read"]
  <2>1. /\ call' = [call EXCEPT ![e] = c] /\ UNCHANGED <<record, tokens>>
        /\ call[e] \in CallType
    BY <1>2 DEF Call, chainVars, ExecutionInv, ExecutionTypeOK
  <2>2. c.view = call[e].view
    BY <2>1 DEF CallType
  <2>. QED
    BY <1>1, <2>1, <2>2
<1>3. ASSUME NEW e \in Execution, ReadRecord(e)
      PROVE  /\ UNCHANGED <<record, tokens>>
             /\ \A d \in Execution \ {e} : call'[d].view = call[d].view
  BY <1>3 DEF ReadRecord, chainVars, ExecutionInv, ExecutionTypeOK
<1>4. ASSUME NEW e \in Execution,
             \/ getTxCount(e) \/ Reject(e) \/ CatchRevert(e) \/ GiveUp(e)
             \/ FailRow(e) \/ RecordCheck(e) \/ createTransaction(e)
             \/ executeSignedTransaction(e)
      PROVE  Kept
  <2>1. PICK c : MainUpdate(call[e], c) /\ call' = [call EXCEPT ![e] = c]
    BY <1>4, MainStrand
  <2>2. UNCHANGED <<record, tokens>>
    BY <1>4, MainStrand DEF chainVars
  <2>. QED
    BY <1>1, <2>1, <2>2 DEF MainUpdate
<1>5. ASSUME NEW e \in Execution, GetReceipt(e) \/ ReceiptCheck(e)
      PROVE  Kept
  <2>1. PICK c : call' = [call EXCEPT ![e] = c] /\ c.view = call[e].view
    BY <1>5, ReceiptTaken
  <2>2. UNCHANGED <<record, tokens>>
    BY <1>5 DEF GetReceipt, ReceiptCheck, chainVars
  <2>. QED
    BY <1>1, <2>1, <2>2
<1>6. ASSUME NEW e \in Execution,
             \/ ReceiptRow(e) \/ InitialRow(e) \/ cashOutPMA(e) \/ getBalance(e)
             \/ CashOutNonce(e) \/ CashOutSend(e) \/ CashOutFails(e)
             \/ CashOutReceipt(e)
      PROVE  Kept
  <2>1. PICK c : MovesOn(call[e], c) /\ call' = [call EXCEPT ![e] = c]
    BY <1>6, HandlerMovesOn
  <2>2. UNCHANGED <<record, tokens>>
    BY <1>6, HandlerMovesOn DEF chainVars
  <2>. QED
    BY <1>1, <2>1, <2>2 DEF MovesOn
<1>7. ASSUME NEW e \in Execution, ReceiptRecord(e)
      PROVE  UNCHANGED tokens /\ \A d \in Execution : call'[d].view = call[d].view
  <2> DEFINE c == [call[e] EXCEPT !.handling = "row"]
  <2>1. /\ call' = [call EXCEPT ![e] = c] /\ UNCHANGED tokens
        /\ call[e] \in CallType
    BY <1>7 DEF ReceiptRecord, chainVars, ExecutionInv, ExecutionTypeOK
  <2>2. c.view = call[e].view
    BY <2>1 DEF CallType
  <2>. QED
    BY <1>1, <2>1, <2>2
<1>8. ASSUME NEW e \in Execution, MineExecution(e) \/ MineCashOut(e)
      PROVE  UNCHANGED <<record, call>>
  BY <1>8 DEF MineExecution, MineCashOut
<1>9. ASSUME NEW id \in Payment, FallDue(id)
      PROVE  Kept
  BY <1>9 DEF FallDue, chainVars
<1>10. CASE UNCHANGED executionVars
  BY <1>10 DEF executionVars, chainVars
<1> HIDE DEF Kept
<1>11. Kept => UNCHANGED <<record, tokens>> /\ \A d \in Execution : call'[d].view = call[d].view
  BY DEF Kept
<1>12. ASSUME NEW e \in Execution, NEW id \in Payment, Call(e, id) PROVE Kept
  BY <1>2, <1>12
<1>. QED
  BY <1>3, <1>4, <1>5, <1>6, <1>7, <1>8, <1>9, <1>10, <1>11, <1>12
     DEF ExecutionNext, Executed, Recorded, Handled

\* A record that says done has no payment left, nor has any copy of it.
DoneCounts ==
    /\ \A id \in Payment :
          record[id].status = "done" => record[id].numberOfPayments = 0
    /\ \A e \in Execution :
          call[e].view.status = "done" => call[e].view.numberOfPayments = 0

LEMMA DoneStepOK ==
    ASSUME ExecutionInv, WrittenCounts, DoneCounts, [ExecutionNext]_executionVars
    PROVE  DoneCounts'
<1>1. ASSUME NEW id \in Payment, record'[id].status = "done"
      PROVE  record'[id].numberOfPayments = 0
  <2>1. CASE record'[id] = record[id]
    BY <1>1, <2>1 DEF DoneCounts
  <2>2. CASE record'[id] # record[id]
    <3>1. PICK e \in Execution : ReceiptRecord(e)
      BY <2>2, StepTouches
    <3>2. CallOK(call[e], sent[e]["execute"]) /\ call[e].handling = "record"
      BY <3>1 DEF ExecutionInv, CallsOK, ReceiptRecord
    <3>3. PICK p \in Payment : p = call[e].id
      BY <3>2 DEF CallOK
    <3>4. /\ call[e].view.numberOfPayments \in Nat \ {0}
          /\ record'[p].numberOfPayments = call[e].view.numberOfPayments - 1
          /\ \A q \in Payment \ {p} : record'[q] = record[q]
      BY <3>1, <3>3, ReceiptRecordWrites
    <3>5. id = p
      BY <2>2, <3>4
    <3>6. record'[p] = Paid(call[e].view) /\ call[e].view \in RecordType
      BY <3>1, <3>3 DEF ReceiptRecord, ExecutionInv, ExecutionTypeOK, CallType
    <3>7. call[e].view.status = "done" \/ call[e].view.numberOfPayments = 1
      BY <1>1, <3>5, <3>6 DEF Paid, RecordType
    <3>. QED
      BY <3>4, <3>5, <3>7 DEF DoneCounts
  <2>. QED
    BY <2>1, <2>2
<1>2. ASSUME NEW e \in Execution, call'[e].view.status = "done"
      PROVE  call'[e].view.numberOfPayments = 0
  <2>1. CASE call'[e].view = call[e].view
    BY <1>2, <2>1 DEF DoneCounts
  <2>2. CASE ReadRecord(e)
    <3>1. CallOK(call[e], sent[e]["execute"]) /\ call[e] \in CallType
      BY DEF ExecutionInv, ExecutionTypeOK, CallsOK
    <3>2. call[e].id \in Payment
      BY <2>2, <3>1 DEF ReadRecord, CallOK
    <3>3. call'[e].view = record[call[e].id]
      BY <2>2, <3>1 DEF ReadRecord, CallType, ExecutionInv, ExecutionTypeOK
    <3>. QED
      BY <1>2, <3>2, <3>3 DEF DoneCounts
  <2>. QED
    BY <2>1, <2>2, StepTouches
<1>. QED
  BY <1>1, <1>2 DEF DoneCounts

LEMMA DoneInitOK == ExecutionInit => DoneCounts
BY DEF ExecutionInit, DoneCounts, NewRecord, NoCall

LEMMA DoneAlwaysCounts == ExecutionSpec => []DoneCounts
<1>1. ExecutionInv /\ WrittenCounts /\ DoneCounts /\ [ExecutionNext]_executionVars
         => DoneCounts'
  BY DoneStepOK
<1>. QED
  BY <1>1, DoneInitOK, ExecutionInvariant, WrittenInvariant, PTL DEF ExecutionSpec

LEMMA DoneStep ==
    ASSUME ExecutionInv, WrittenCounts, DoneCounts, [ExecutionNext]_executionVars,
           NEW id \in Payment, record[id].status = "done"
    PROVE  record'[id] = record[id] /\ tokens'[id] <= tokens[id]
<1>1. Through(id) /\ Written(id) = Counted(id)
  <2>1. NumberOfPayments[id] <= 0 + Cardinality(Written(id))
    BY DEF DoneCounts, WrittenCounts
  <2>2. Cardinality(Written(id)) \in Nat
    BY WrittenIsFinite
  <2>. QED
    BY <2>1, <2>2, EnoughWritten
<1>2. record'[id] = record[id]
  <2>1. SUFFICES ASSUME record'[id] # record[id] PROVE FALSE
    OBVIOUS
  <2>2. PICK e \in Execution : ReceiptRecord(e)
    BY <2>1, StepTouches
  <2>3. call[e].id = id
    BY <2>1, <2>2 DEF ReceiptRecord, ExecutionInv, ExecutionTypeOK
  <2>4. CallOK(call[e], sent[e]["execute"]) /\ call[e].handling = "record"
    BY <2>2 DEF ReceiptRecord, ExecutionInv, CallsOK
  <2>5. e \in Counted(id)
    BY <2>3, <2>4 DEF CallOK, Counted
  <2>. QED
    BY <1>1, <2>4, <2>5 DEF Written
<1>3. tokens[id] \in Nat /\ tokens \in [Payment -> Nat]
  BY DEF ExecutionInv, ExecutionTypeOK
<1>4. CASE UNCHANGED tokens
  BY <1>2, <1>3, <1>4
<1>5. ASSUME NEW e \in Execution, MineExecution(e)
      PROVE  tokens'[id] <= tokens[id]
  <2>1. \/ UNCHANGED tokens
        \/ Allows(call[e].id) /\ tokens' = [tokens EXCEPT ![call[e].id] = @ + 1]
    BY <1>5 DEF MineExecution
  <2>2. ~Allows(id)
    <3>1. /\ NumberOfPayments[id] \in Nat /\ due[id] \in Nat
          /\ due[id] <= NumberOfPayments[id]
      BY ExecutionAssumption DEF ExecutionTypeOK, ExecutionInv, ChainCounts
    <3>. QED
      BY <1>1, <3>1 DEF Allows, Through
  <2>. QED
    BY <1>3, <2>1, <2>2
<1>6. ASSUME NEW e \in Execution, MineCashOut(e)
      PROVE  tokens'[id] <= tokens[id]
  <2>1. PICK m \in Nat : m = call[e].moving
    BY DEF ExecutionInv, ExecutionTypeOK, CallType
  <2>2. \/ UNCHANGED tokens
        \/ m <= tokens[call[e].id] /\ tokens' = [tokens EXCEPT ![call[e].id] = @ - m]
    BY <1>6, <2>1 DEF MineCashOut
  <2>. QED
    BY <1>3, <2>2
<1>. QED
  BY <1>2, <1>4, <1>5, <1>6, StepTouches

(* Done is done: no receipt handler that began with an older record writes  *)
(* it back over one that says done (BlockchainTxReceiptHandler.ts:26), and  *)
(* nothing more is collected, however many calls overlap.                   *)
THEOREM DoneStaysDone == ExecutionSpec => DoneForGood
<1>1. ExecutionInv /\ WrittenCounts /\ DoneCounts /\ [ExecutionNext]_executionVars
         => [\A id \in Payment : record[id].status = "done" =>
                record'[id] = record[id] /\ tokens'[id] <= tokens[id]]_executionVars
  BY DoneStep
<1>. QED
  BY <1>1, DoneAlwaysCounts, ExecutionInvariant, WrittenInvariant, PTL
     DEF ExecutionSpec, DoneForGood

-----------------------------------------------------------------------------
(* The end of a merchant address.  Once a call has ended the pull payment,  *)
(* no more PMA will come in, and what the cash-out of PMA takes is all      *)
(* there is, unless the cash-out frequency skips it.  Only then does the    *)
(* cash-out of ETH begin.                                                   *)

Drained(id) == Through(id) /\ (tokens[id] = 0 \/ LastCashOutSkipped(id))

\* The cash-out at the end of the payment's life.
InLast(c) == c.phase = "last" /\ c.handling \in CashingOut

\* What call c, with transactions s, may rely on.
CashOutOK(c, s) ==
    /\ c.handling = "off" => s["pma"] = "none" /\ s["eth"] = "none"
    /\ InLast(c) => EndedBy(c)
    /\ EndedBy(c) => record[c.id].numberOfPayments = 0
    /\ c.handling = "balance" => c.kind = "pma"
    /\ InLast(c) /\ c.kind = "pma" =>
          /\ c.handling \in {"nonce", "send"} => tokens[c.id] <= c.amount
          /\ c.handling = "sent" =>
                /\ s["pma"] = "pending" => tokens[c.id] <= c.moving
                /\ s["pma"] = "success" => tokens[c.id] = 0
    /\ c.handling \in {"nonce", "send", "sent"} /\ c.kind = "eth" =>
          Drained(c.id)
    /\ s["eth"] # "none" => Drained(c.id)

CashOutInv ==
    /\ \A e \in Execution : CashOutOK(call[e], sent[e])
    /\ \A id \in Payment : ~ether[id] => Drained(id)

\* What call c relies on stays true when others act.
LEMMA OthersKeepCashOut ==
    ASSUME NEW c, NEW s, CashOutOK(c, s),
           Drained(c.id) => Drained(c.id)',
           InLast(c) => tokens[c.id] \in Nat /\ tokens'[c.id] \in Nat
                        /\ tokens'[c.id] <= tokens[c.id]
                        /\ c.amount \in Nat /\ c.moving \in Nat,
           EndedBy(c) => record'[c.id].numberOfPayments
                            = record[c.id].numberOfPayments
    PROVE  CashOutOK(c, s)'
BY DEF CashOutOK, InLast, EndedBy

\* A step of call e that leaves the chain and the records alone.
LEMMA OneCallActs ==
    ASSUME ExecutionInv, CashOutInv, NEW e \in Execution,
           NEW c, call' = [call EXCEPT ![e] = c],
           NEW s, sent'[e] = s, \A d \in Execution \ {e} : sent'[d] = sent[d],
           UNCHANGED <<record, chainVars>>,
           CashOutOK(c, s)
    PROVE  CashOutInv'
<1>1. \A d \in Execution : call'[d] = IF d = e THEN c ELSE call[d]
  BY DEF ExecutionInv, ExecutionTypeOK
<1>2. UNCHANGED <<record, tokens, left, initial, ether>>
  BY DEF chainVars
<1>3. ASSUME NEW d \in Execution PROVE CashOutOK(call[d], sent[d])'
  <2>1. PICK x, y : x = call'[d] /\ y = sent'[d]
    OBVIOUS
  <2>2. CashOutOK(x, y)
    BY <1>1, <2>1 DEF CashOutInv
  <2>3. CashOutOK(x, y)'
    BY <1>2, <2>2 DEF CashOutOK, Drained, Through
  <2>. QED
    BY <2>1, <2>3 DEF CashOutOK, InLast, EndedBy
<1>4. \A id \in Payment : ~ether'[id] => Drained(id)'
  BY <1>2 DEF CashOutInv, Drained, Through
<1>. QED
  BY <1>3, <1>4 DEF CashOutInv

\* The strands other than handling leave what a call relies on alone.
LEMMA MainCashOut ==
    ASSUME ExecutionInv, CashOutInv, NEW e \in Execution,
           \/ getTxCount(e) \/ Reject(e) \/ CatchRevert(e) \/ GiveUp(e)
           \/ FailRow(e) \/ RecordCheck(e) \/ createTransaction(e)
           \/ executeSignedTransaction(e)
    PROVE  CashOutInv'
<1>1. PICK c : MainUpdate(call[e], c) /\ call' = [call EXCEPT ![e] = c]
  BY MainStrand
<1>2. UNCHANGED <<record, chainVars>>
  BY MainStrand
<1>3. CashOutOK(call[e], sent[e])
  BY DEF CashOutInv
<1>4. PICK s : /\ s = sent'[e]
               /\ s["pma"] = sent[e]["pma"] /\ s["eth"] = sent[e]["eth"]
               /\ \A d \in Execution \ {e} : sent'[d] = sent[d]
  <2>1. \/ UNCHANGED sent
        \/ sent' = [sent EXCEPT ![e]["execute"] = "pending"]
    BY DEF getTxCount, Reject, CatchRevert, GiveUp, FailRow, RecordCheck,
           createTransaction, executeSignedTransaction
  <2>2. sent \in [Execution ->
                     [Kind -> {"none", "pending", "success", "reverted"}]]
    BY DEF ExecutionInv, ExecutionTypeOK
  <2>. QED
    BY <2>1, <2>2 DEF Kind
<1>5. CashOutOK(c, s)
  BY <1>1, <1>3, <1>4 DEF CashOutOK, InLast, EndedBy, MainUpdate
<1>. QED
  BY <1>1, <1>2, <1>4, <1>5, OneCallActs

LEMMA CallCashOut ==
    ASSUME ExecutionInv, CashOutInv, NEW e \in Execution,
           NEW id \in Payment, Call(e, id)
    PROVE  CashOutInv'
<1> DEFINE c == [call[e] EXCEPT !.id = id, !.main = "read"]
<1>1. /\ call[e] \in CallType /\ CallOK(call[e], sent[e]["execute"])
      /\ CashOutOK(call[e], sent[e])
  BY DEF ExecutionInv, ExecutionTypeOK, CallsOK, CashOutInv
<1>2. /\ call' = [call EXCEPT ![e] = c]
      /\ call[e].main = "idle"
      /\ UNCHANGED <<record, sent, chainVars>>
  BY DEF Call, Execution
<1>3. c.main = "read" /\ c.handling = "off" /\ c.treatedAs = "none"
  BY <1>1, <1>2 DEF CallOK, CallType
<1>4. call[e].treatedAs = "none" /\ call[e].handling = "off"
  BY <1>1, <1>2 DEF CallOK
<1> HIDE DEF c
<1>5. CashOutOK(c, sent[e])
  BY <1>1, <1>3, <1>4 DEF CashOutOK, InLast, CashingOut, EndedBy
<1>. QED
  BY <1>2, <1>5, OneCallActs

LEMMA ReadRecordCashOut ==
    ASSUME ExecutionInv, CashOutInv, NEW e \in Execution, ReadRecord(e)
    PROVE  CashOutInv'
<1> DEFINE c == [call[e] EXCEPT !.main = "nonce", !.view = record[call[e].id]]
<1>1. /\ call[e] \in CallType /\ CallOK(call[e], sent[e]["execute"])
      /\ CashOutOK(call[e], sent[e])
  BY DEF ExecutionInv, ExecutionTypeOK, CallsOK, CashOutInv
<1>2. /\ call' = [call EXCEPT ![e] = c]
      /\ call[e].main = "read"
      /\ UNCHANGED <<record, sent, chainVars>>
  BY DEF ReadRecord
<1>3. call[e].treatedAs = "none" /\ call[e].handling = "off"
  BY <1>1, <1>2 DEF CallOK
<1>4. c.handling = "off" /\ c.treatedAs = "none"
  BY <1>1, <1>3 DEF CallType
<1> HIDE DEF c
<1>5. CashOutOK(c, sent[e])
  BY <1>1, <1>3, <1>4 DEF CashOutOK, InLast, CashingOut, EndedBy
<1>. QED
  BY <1>2, <1>5, OneCallActs

-----------------------------------------------------------------------------
(* The steps of the receipt's handler.                                      *)

LEMMA ReceiptCashOut ==
    ASSUME ExecutionInv, CashOutInv, NEW e \in Execution,
           GetReceipt(e) \/ ReceiptCheck(e)
    PROVE  CashOutInv'
<1>1. CallOK(call[e], sent[e]["execute"]) /\ CashOutOK(call[e], sent[e])
  BY DEF ExecutionInv, CallsOK, CashOutInv
<1>2. UNCHANGED <<record, sent, chainVars>>
  BY DEF GetReceipt, ReceiptCheck
<1>3. call[e].handling \in {"off", "check"} /\ call[e].treatedAs = "none"
  BY <1>1 DEF GetReceipt, ReceiptCheck, CallOK
<1>4. PICK c : /\ call' = [call EXCEPT ![e] = c]
               /\ c.id = call[e].id /\ c.view = call[e].view
               /\ c.handling \in {"check", "record", "initial"}
               /\ c.handling # "record" => c.treatedAs # "regular"
  BY ReceiptTaken
<1>5. CashOutOK(c, sent[e])
  BY <1>1, <1>3, <1>4 DEF CashOutOK, InLast, CashingOut, EndedBy
<1>. QED
  BY <1>2, <1>4, <1>5, OneCallActs

\* The handler comes to a point where nothing is asked of it.
LEMMA HandlerRests ==
    ASSUME NEW C, NEW c, NEW s, CashOutOK(C, s), MovesOn(C, c),
           C.handling \in Later \cup {"row"},
           c.handling \in {"initial", "pma", "done", "rejected"}, ~InLast(c)
    PROVE  CashOutOK(c, s)
BY DEF CashOutOK, MovesOn, EndedBy, Later

LEMMA AutomatedRests ==
    ASSUME NEW C \in CallType
    PROVE  /\ Automated(C).handling \in {"pma", "done"}
           /\ ~InLast(Automated(C))
<1>1. CASE automatedCashOut[C.id]
  BY <1>1 DEF Automated, CallType, InLast
<1>2. CASE ~automatedCashOut[C.id]
  BY <1>2 DEF Automated, CallType, InLast, CashingOut
<1>. QED
  BY <1>1, <1>2

\* A cash-out of PMA that fails ends the handler or goes on with the row; one
\* of ETH is tried again.
LEMMA FailedCashOutOK ==
    ASSUME NEW C \in CallType, NEW s, CashOutOK(C, s),
           C.handling \in {"send", "sent"}
    PROVE  CashOutOK(Failed(C), s)
<1>1. CASE C.kind = "eth"
  <2>1. /\ Failed(C).handling = "nonce" /\ Failed(C).kind = "eth"
        /\ Failed(C).id = C.id /\ Failed(C).view = C.view
        /\ Failed(C).treatedAs = C.treatedAs /\ Failed(C).phase = C.phase
    BY <1>1 DEF Failed, CallType
  <2>2. InLast(Failed(C)) <=> InLast(C)
    BY <2>1 DEF InLast, CashingOut
  <2>3. EndedBy(Failed(C)) <=> EndedBy(C)
    BY <2>1 DEF EndedBy
  <2>. QED
    BY <1>1, <2>1, <2>2, <2>3 DEF CashOutOK
<1>2. CASE C.kind # "eth"
  <2>1. Failed(C).handling \in {"initial", "rejected"}
    BY <1>2 DEF Failed, CallType
  <2>2. ~InLast(Failed(C))
    BY <2>1 DEF InLast, CashingOut
  <2>. QED
    BY <2>1, <2>2, FailedMovesOn, HandlerRests DEF Later
<1>. QED
  BY <1>1, <1>2

LEMMA RowCashOut ==
    ASSUME ExecutionInv, CashOutInv, NEW e \in Execution,
           ReceiptRow(e) \/ InitialRow(e)
    PROVE  CashOutInv'
<1> DEFINE C == call[e]
<1>1. /\ C \in CallType /\ CallOK(C, sent[e]["execute"])
      /\ CashOutOK(C, sent[e])
  BY DEF ExecutionInv, ExecutionTypeOK, CallsOK, CashOutInv
<1>2. UNCHANGED <<record, sent, chainVars>> /\ C.handling \in {"row", "initial"}
  BY DEF ReceiptRow, InitialRow
<1>3. C.handling \in Later \cup {"row"}
  BY <1>2 DEF Later
<1>4. CASE call' = [call EXCEPT ![e] = Automated(C)]
  <2>1. CashOutOK(Automated(C), sent[e])
    BY <1>1, <1>3, AutomatedMovesOn, AutomatedRests, HandlerRests
  <2>. QED
    BY <1>1, <1>2, <1>4, <2>1, OneCallActs
<1>5. CASE ReceiptRow(e) /\ C.view.numberOfPayments = 1
  <2> DEFINE c == [C EXCEPT !.handling = "pma", !.phase = "last"]
  <2>1. MovesOn(C, c) /\ c.handling = "pma" /\ c.phase = "last" /\ c.kind = C.kind
    BY <1>1 DEF MovesOn, CallType, Handling, Later
  <2>2. call' = [call EXCEPT ![e] = c]
    BY <1>5 DEF ReceiptRow
  <2>3. C.handling = "row" /\ C.treatedAs = "regular"
    BY <1>1, <1>5 DEF ReceiptRow, CallOK
  <2> HIDE DEF c
  <2>4. EndedBy(C) /\ EndedBy(c)
    BY <1>5, <2>1, <2>3 DEF EndedBy, MovesOn
  <2>5. CashOutOK(c, sent[e])
    BY <1>1, <2>1, <2>4 DEF CashOutOK, MovesOn
  <2>. QED
    BY <1>2, <2>1, <2>2, <2>5, OneCallActs
<1>6. ReceiptRow(e) /\ C.view.numberOfPayments # 1 =>
         call' = [call EXCEPT ![e] = Automated(C)]
  BY DEF ReceiptRow
<1>7. InitialRow(e) => call' = [call EXCEPT ![e] = Automated(C)]
  BY DEF InitialRow
<1>. QED
  BY <1>4, <1>5, <1>6, <1>7

LEMMA cashOutPMACashOut ==
    ASSUME ExecutionInv, WrittenCounts, CashOutInv,
           NEW e \in Execution, cashOutPMA(e)
    PROVE  CashOutInv'
<1> DEFINE C == call[e]
<1>1. /\ C \in CallType /\ CallOK(C, sent[e]["execute"])
      /\ CashOutOK(C, sent[e])
  BY DEF ExecutionInv, ExecutionTypeOK, CallsOK, CashOutInv
<1>2. UNCHANGED <<record, sent, chainVars>> /\ C.handling = "pma"
  BY DEF cashOutPMA
<1>3. C.handling \in Later \cup {"row"}
  BY <1>2 DEF Later
<1>4. PICK p \in Payment : p = C.id
  BY <1>1, <1>2 DEF CallOK
<1>5. CASE CashOutDue(C.id)
  <2> DEFINE c == [C EXCEPT !.handling = "balance", !.kind = "pma"]
  <2>1. MovesOn(C, c) /\ c.handling = "balance" /\ c.kind = "pma" /\ c.phase = C.phase
    BY <1>1 DEF MovesOn, CallType, Handling, Later
  <2>2. call' = [call EXCEPT ![e] = c]
    BY <1>5 DEF cashOutPMA
  <2> HIDE DEF c
  <2>3. InLast(c) <=> InLast(C)
    BY <1>2, <2>1 DEF InLast, CashingOut
  <2>4. EndedBy(c) <=> EndedBy(C)
    BY <1>2, <2>1 DEF EndedBy, MovesOn
  <2>5. CashOutOK(c, sent[e])
    BY <1>1, <2>1, <2>3, <2>4 DEF CashOutOK, MovesOn
  <2>. QED
    BY <1>2, <2>1, <2>2, <2>5, OneCallActs
<1>6. CASE ~CashOutDue(C.id)
  <2>1. call' = [call EXCEPT ![e] = AfterPMA(C)]
    BY <1>6 DEF cashOutPMA
  <2>2. CASE C.phase # "last"
    <3>1. AfterPMA(C).handling = "done"
      BY <1>1, <2>2 DEF AfterPMA, CallType
    <3>2. CashOutOK(AfterPMA(C), sent[e])
      BY <1>1, <1>3, <3>1, AfterPMAMovesOn, HandlerRests DEF InLast, CashingOut
    <3>. QED
      BY <1>1, <1>2, <2>1, <3>2, OneCallActs
  <2>3. CASE C.phase = "last"
    <3> DEFINE c == AfterPMA(C)
    <3>1. InLast(C) /\ EndedBy(C) /\ record[p].numberOfPayments = 0
      BY <1>1, <1>2, <1>4, <2>3 DEF InLast, CashingOut, CashOutOK
    <3>2. Drained(p)
      <4>1. NumberOfPayments[p] - 0 = NumberOfPayments[p]
        BY ExecutionAssumption
      <4>2. LastCashOutSkipped(p)
        BY <1>4, <1>6, <3>1, <4>1 DEF LastCashOutSkipped, CashOutDue
      <4>3. Through(p)
        BY <1>4, <3>1, AllWritten
      <4>. QED
        BY <4>2, <4>3 DEF Drained
    <3>3. MovesOn(C, c) /\ c.handling = "nonce" /\ c.kind = "eth"
      BY <1>1, <1>3, <2>3, AfterPMAMovesOn DEF AfterPMA, CallType
    <3> HIDE DEF c
    <3>4. EndedBy(c)
      BY <3>1, <3>3 DEF EndedBy, MovesOn
    <3>5. CashOutOK(c, sent[e])
      BY <1>1, <1>4, <3>1, <3>2, <3>3, <3>4 DEF CashOutOK, MovesOn
    <3>. QED
      BY <1>2, <2>1, <3>3, <3>5, OneCallActs DEF c
  <2>. QED
    BY <2>2, <2>3
<1>. QED
  BY <1>5, <1>6

LEMMA CashOutStepCashOut ==
    ASSUME ExecutionInv, CashOutInv, NEW e \in Execution,
           getBalance(e) \/ CashOutNonce(e) \/ CashOutFails(e)
    PROVE  CashOutInv'
<1> DEFINE C == call[e]
<1>1. /\ C \in CallType /\ CallOK(C, sent[e]["execute"])
      /\ CashOutOK(C, sent[e])
  BY DEF ExecutionInv, ExecutionTypeOK, CallsOK, CashOutInv
<1>2. /\ UNCHANGED <<record, sent, chainVars>>
      /\ C.handling \in {"balance", "nonce", "send", "sent"}
  BY DEF getBalance, CashOutNonce, CashOutFails
<1>3. PICK p \in Payment : p = C.id
  BY <1>1, <1>2 DEF CallOK
<1>4. tokens[p] \in Nat /\ nonces[p] \in Nat
  BY DEF ExecutionInv, ExecutionTypeOK
<1>5. CASE getBalance(e)
  <2> DEFINE c == [C EXCEPT !.handling = "nonce", !.amount = tokens[C.id]]
  <2>1. /\ MovesOn(C, c) /\ c.handling = "nonce" /\ c.kind = C.kind
        /\ c.phase = C.phase /\ c.amount = tokens[p]
    BY <1>1, <1>3, <1>4 DEF MovesOn, CallType, Handling, Later
  <2>2. call' = [call EXCEPT ![e] = c] /\ C.handling = "balance"
    BY <1>5 DEF getBalance
  <2> HIDE DEF c
  <2>3. InLast(c) <=> InLast(C)
    BY <2>1, <2>2 DEF InLast, CashingOut
  <2>4. EndedBy(c) <=> EndedBy(C)
    BY <2>1, <2>2 DEF EndedBy, MovesOn
  <2>5. tokens[c.id] <= c.amount
    BY <1>3, <1>4, <2>1 DEF MovesOn
  <2>6. CashOutOK(c, sent[e])
    BY <1>1, <2>1, <2>2, <2>3, <2>4, <2>5 DEF CashOutOK, MovesOn
  <2>. QED
    BY <1>2, <2>1, <2>2, <2>6, OneCallActs
<1>6. CASE CashOutNonce(e)
  <2> DEFINE c == [C EXCEPT !.handling = "send", !.nonce = nonces[C.id]]
  <2>1. /\ MovesOn(C, c) /\ c.handling = "send" /\ c.kind = C.kind
        /\ c.phase = C.phase /\ c.amount = C.amount
    BY <1>1, <1>3, <1>4 DEF MovesOn, CallType, Handling, Later
  <2>2. call' = [call EXCEPT ![e] = c] /\ C.handling = "nonce"
    BY <1>6 DEF CashOutNonce
  <2> HIDE DEF c
  <2>3. InLast(c) <=> InLast(C)
    BY <2>1, <2>2 DEF InLast, CashingOut
  <2>4. EndedBy(c) <=> EndedBy(C)
    BY <2>1, <2>2 DEF EndedBy, MovesOn
  <2>5. CashOutOK(c, sent[e])
    BY <1>1, <2>1, <2>2, <2>3, <2>4 DEF CashOutOK, MovesOn
  <2>. QED
    BY <1>2, <2>1, <2>2, <2>5, OneCallActs
<1>7. CASE CashOutFails(e)
  <2>1. call' = [call EXCEPT ![e] = Failed(C)] /\ C.handling \in {"send", "sent"}
    BY <1>7 DEF CashOutFails
  <2>2. CashOutOK(Failed(C), sent[e])
    BY <1>1, <2>1, FailedCashOutOK
  <2>. QED
    BY <1>1, <1>2, <2>1, <2>2, OneCallActs
<1>. QED
  BY <1>5, <1>6, <1>7

\* The cash-out of PMA that ends a pull payment's life took all there was.
LEMMA CashOutReceiptCashOut ==
    ASSUME ExecutionInv, WrittenCounts, CashOutInv, NEW e \in Execution,
           CashOutReceipt(e)
    PROVE  CashOutInv'
<1> DEFINE C == call[e]
           s == sent[e]
<1>1. /\ C \in CallType /\ CallOK(C, s["execute"]) /\ CashOutOK(C, s)
  BY DEF ExecutionInv, ExecutionTypeOK, CallsOK, CashOutInv
<1>2. UNCHANGED <<record, sent, chainVars>> /\ C.handling = "sent"
  BY DEF CashOutReceipt
<1>3. C.handling \in Later \cup {"row"}
  BY <1>2 DEF Later
<1>4. PICK p \in Payment : p = C.id
  BY <1>1, <1>2 DEF CallOK
<1>5. CASE call' = [call EXCEPT ![e] = Failed(C)]
  <2>1. CashOutOK(Failed(C), s)
    BY <1>1, <1>2, FailedCashOutOK
  <2>. QED
    BY <1>1, <1>2, <1>5, <2>1, OneCallActs
<1>6. CASE call' = [call EXCEPT ![e] = Automated(C)]
  <2>1. CashOutOK(Automated(C), s)
    BY <1>1, <1>3, AutomatedMovesOn, AutomatedRests, HandlerRests
  <2>. QED
    BY <1>1, <1>2, <1>6, <2>1, OneCallActs
<1>7. CASE /\ call' = [call EXCEPT ![e] = AfterPMA(C)]
           /\ C.kind = "pma" /\ s["pma"] = "success"
  <2>1. CASE C.phase # "last"
    <3>1. AfterPMA(C).handling = "done"
      BY <1>1, <2>1 DEF AfterPMA, CallType
    <3>2. CashOutOK(AfterPMA(C), s)
      BY <1>1, <1>3, <3>1, AfterPMAMovesOn, HandlerRests DEF InLast, CashingOut
    <3>. QED
      BY <1>1, <1>2, <1>7, <3>2, OneCallActs
  <2>2. CASE C.phase = "last"
    <3> DEFINE c == AfterPMA(C)
    <3>1. InLast(C) /\ EndedBy(C)
      BY <1>1, <1>2, <2>2 DEF InLast, CashingOut, CashOutOK
    <3>2. Drained(p)
      <4>1. tokens[p] = 0
        BY <1>1, <1>2, <1>4, <1>7, <3>1 DEF CashOutOK
      <4>2. Through(p)
        BY <1>4, <3>1, AllWritten
      <4>. QED
        BY <4>1, <4>2 DEF Drained
    <3>3. MovesOn(C, c) /\ c.handling = "nonce" /\ c.kind = "eth"
      BY <1>1, <2>2, AfterPMAMovesOn DEF AfterPMA, CallType
    <3> HIDE DEF c
    <3>4. EndedBy(c)
      BY <3>1, <3>3 DEF EndedBy, MovesOn
    <3>5. CashOutOK(c, s)
      BY <1>1, <1>4, <3>1, <3>2, <3>3, <3>4 DEF CashOutOK, MovesOn
    <3>. QED
      BY <1>2, <1>7, <3>3, <3>5, OneCallActs DEF c
  <2>. QED
    BY <2>1, <2>2
<1>8. \/ call' = [call EXCEPT ![e] = Failed(C)]
      \/ call' = [call EXCEPT ![e] = Automated(C)]
      \/ /\ call' = [call EXCEPT ![e] = AfterPMA(C)]
         /\ C.kind = "pma" /\ s["pma"] = "success"
  <2>1. CASE C.kind = "pma"
    BY <2>1 DEF CashOutReceipt
  <2>2. CASE C.kind # "pma"
    BY <2>2 DEF CashOutReceipt
  <2>. QED
    BY <2>1, <2>2
<1>. QED
  BY <1>5, <1>6, <1>7, <1>8

LEMMA CashOutSendCashOut ==
    ASSUME ExecutionInv, CashOutInv, NEW e \in Execution,
           CashOutSend(e)
    PROVE  CashOutInv'
<1> DEFINE C == call[e]
           c == [C EXCEPT !.handling = "sent", !.moving = C.amount]
<1>1. /\ C \in CallType /\ CallOK(C, sent[e]["execute"])
      /\ CashOutOK(C, sent[e])
      /\ sent \in [Execution ->
                      [Kind -> {"none", "pending", "success", "reverted"}]]
  BY DEF ExecutionInv, ExecutionTypeOK, CallsOK, CashOutInv
<1>2. /\ call' = [call EXCEPT ![e] = c] /\ C.handling = "send"
      /\ sent' = [sent EXCEPT ![e][C.kind] = "pending"]
      /\ UNCHANGED <<record, chainVars>>
  BY DEF CashOutSend
<1>3. /\ MovesOn(C, c) /\ c.handling = "sent" /\ c.kind = C.kind
      /\ c.phase = C.phase /\ c.moving = C.amount
  BY <1>1 DEF MovesOn, CallType, Handling, Later
<1> HIDE DEF c
<1>4. PICK k \in {"pma", "eth"} : k = C.kind
  BY <1>1 DEF CallType
<1>5. PICK s : /\ s = sent'[e] /\ s[k] = "pending"
               /\ \A j \in {"pma", "eth"} \ {k} : s[j] = sent[e][j]
  BY <1>1, <1>2, <1>4 DEF Kind
<1>6. \A d \in Execution \ {e} : sent'[d] = sent[d]
  BY <1>1, <1>2
<1>7. InLast(c) <=> InLast(C)
  BY <1>2, <1>3 DEF InLast, CashingOut
<1>8. EndedBy(c) <=> EndedBy(C)
  BY <1>2, <1>3 DEF EndedBy, MovesOn
<1>9. CashOutOK(c, s)
  <2>1. CASE k = "pma"
    BY <1>1, <1>2, <1>3, <1>4, <1>5, <1>7, <1>8, <2>1 DEF CashOutOK, MovesOn
  <2>2. CASE k = "eth"
    BY <1>1, <1>2, <1>3, <1>4, <1>5, <1>7, <1>8, <2>2 DEF CashOutOK, MovesOn
  <2>. QED
    BY <2>1, <2>2
<1>. QED
  BY <1>2, <1>3, <1>5, <1>6, <1>9, OneCallActs

LEMMA ReceiptRecordCashOut ==
    ASSUME ExecutionInv, WrittenCounts, CashOutInv, NEW e \in Execution,
           ReceiptRecord(e)
    PROVE  CashOutInv'
<1>1. /\ CallOK(call[e], sent[e]["execute"]) /\ CashOutOK(call[e], sent[e])
      /\ call[e].handling = "record" /\ UNCHANGED <<sent, chainVars>>
  BY DEF ExecutionInv, CallsOK, CashOutInv, ReceiptRecord
<1>2. PICK p \in Payment : p = call[e].id
  BY <1>1 DEF CallOK
<1>3. PICK c :
         /\ \A d \in Execution : call'[d] = IF d = e THEN c ELSE call[d]
         /\ c.id = p /\ c.view = call[e].view /\ c.handling = "row"
  BY <1>2, ReceiptRecordWrites
<1>4. /\ call[e].view.numberOfPayments \in Nat
      /\ record'[p].numberOfPayments = call[e].view.numberOfPayments - 1
      /\ \A q \in Payment \ {p} : record'[q] = record[q]
  BY <1>2, ReceiptRecordWrites
<1>5. UNCHANGED <<sent, tokens, left, initial, ether>>
  BY <1>1 DEF chainVars
<1>6. ASSUME NEW d \in Execution PROVE CashOutOK(call[d], sent[d])'
  <2>1. CASE d = e
    <3>1. PICK x, y : x = call'[d] /\ y = sent'[d]
      OBVIOUS
    <3>2. x = c /\ y = sent[e]
      BY <1>3, <1>5, <2>1, <3>1
    <3>3. EndedBy(c) => record'[c.id].numberOfPayments = 0
      BY <1>3, <1>4 DEF EndedBy
    <3>4. y["eth"] # "none" => Drained(c.id)
      BY <1>1, <1>2, <1>3, <3>2 DEF CashOutOK
    <3>5. CashOutOK(x, y)'
      BY <1>3, <1>5, <3>2, <3>3, <3>4
         DEF CashOutOK, InLast, CashingOut, Drained, Through
    <3>. QED
      BY <3>1, <3>5 DEF CashOutOK, InLast, EndedBy
  <2>2. CASE d # e
    <3>1. PICK x, y : x = call'[d] /\ y = sent'[d]
      OBVIOUS
    <3>2. x = call[d] /\ y = sent[d]
      BY <1>3, <1>5, <2>2, <3>1
    <3>3. CashOutOK(x, y)
      BY <3>2 DEF CashOutInv
    <3>4. EndedBy(x) => record'[x.id] = record[x.id]
      <4>1. SUFFICES ASSUME EndedBy(x) PROVE record'[x.id] = record[x.id]
        OBVIOUS
      <4>2. PICK q \in Payment : q = x.id
        BY <3>2, <4>1 DEF EndedBy, ExecutionInv, CallsOK, CallOK
      <4>3. q # p
        BY <1>1, <1>2, <3>2, <4>1, <4>2, NobodyWrites
      <4>. QED
        BY <1>4, <4>2, <4>3
    <3>5. CashOutOK(x, y)'
      BY <1>5, <3>3, <3>4 DEF CashOutOK, Drained, Through
    <3>. QED
      BY <3>1, <3>5 DEF CashOutOK, InLast, EndedBy
  <2>. QED
    BY <2>1, <2>2
<1>7. \A id \in Payment : ~ether'[id] => Drained(id)'
  BY <1>5 DEF CashOutInv, Drained, Through
<1>. QED
  BY <1>6, <1>7 DEF CashOutInv

-----------------------------------------------------------------------------
(* The steps of the chain.                                                  *)

\* A step that changes no call and no record.
LEMMA ChainCashOut ==
    ASSUME CashOutInv, UNCHANGED <<record, call>>,
           \A id \in Payment : Drained(id) => Drained(id)',
           \A id \in Payment : ~ether'[id] => ~ether[id] \/ Drained(id),
           \A d \in Execution : CashOutOK(call[d], sent[d])'
    PROVE  CashOutInv'
<1>1. \A id \in Payment : ~ether'[id] => Drained(id)'
  BY DEF CashOutInv
<1>. QED
  BY <1>1 DEF CashOutInv

\* What a call relies on when the chain does not touch its transactions but
\* for executePullPayment()'s.
LEMMA UntouchedCashOut ==
    ASSUME ExecutionInv, ExecutionInv', CashOutInv,
           UNCHANGED <<record, call>>, NEW d \in Execution,
           sent'[d]["pma"] = sent[d]["pma"], sent'[d]["eth"] = sent[d]["eth"],
           \A id \in Payment : Drained(id) => Drained(id)',
           InLast(call[d]) => tokens'[call[d].id] <= tokens[call[d].id]
    PROVE  CashOutOK(call[d], sent[d])'
<1>1. PICK c, s, t : c = call[d] /\ s = sent[d] /\ t = sent'[d]
  OBVIOUS
<1>2. CashOutOK(c, s) /\ c \in CallType /\ CallOK(c, s["execute"])
  BY <1>1 DEF CashOutInv, ExecutionInv, ExecutionTypeOK, CallsOK
<1>3. CASE c.main = "idle"
  <2>1. c.handling = "off" /\ c.treatedAs = "none"
    BY <1>2, <1>3 DEF CallOK
  <2>2. CashOutOK(c, t)'
    BY <1>1, <1>2, <2>1 DEF CashOutOK, InLast, CashingOut, EndedBy
  <2>. QED
    BY <1>1, <2>2 DEF CashOutOK, InLast, EndedBy
<1>4. CASE c.main # "idle"
  <2>1. PICK p \in Payment : p = c.id
    BY <1>2, <1>4 DEF CallOK
  <2>2. /\ tokens[p] \in Nat /\ tokens'[p] \in Nat
        /\ c.amount \in Nat /\ c.moving \in Nat
    BY <1>2 DEF ExecutionInv, ExecutionTypeOK, CallType
  <2>3. CashOutOK(c, s)'
    BY <1>1, <1>2, <2>1, <2>2, OthersKeepCashOut
  <2>4. CashOutOK(c, t)'
    BY <1>1, <2>3 DEF CashOutOK
  <2>. QED
    BY <1>1, <2>4 DEF CashOutOK, InLast, EndedBy
<1>. QED
  BY <1>3, <1>4

\* The contract executes no pull payment that it is through with.
LEMMA MineExecutionCashOut ==
    ASSUME ExecutionInv, ExecutionInv', WrittenCounts, CashOutInv,
           NEW e \in Execution, MineExecution(e)
    PROVE  CashOutInv'
<1>1. /\ ExecutionTypeOK /\ CallOK(call[e], sent[e]["execute"])
      /\ sent[e]["execute"] = "pending"
      /\ UNCHANGED <<record, row, call, ether, due>>
  BY DEF ExecutionInv, CallsOK, MineExecution
<1>2. PICK p \in Payment : p = call[e].id
  BY <1>1 DEF CallOK
<1>3. /\ \A d \in Execution \ {e} : sent'[d] = sent[d]
      /\ sent'[e]["pma"] = sent[e]["pma"] /\ sent'[e]["eth"] = sent[e]["eth"]
  BY <1>1 DEF ExecutionTypeOK, Kind, Mined, MineExecution
<1>4. CASE UNCHANGED <<initial, left, tokens>>
  <2>1. \A id \in Payment : Drained(id) => Drained(id)'
    BY <1>4 DEF Drained, Through
  <2>2. ASSUME NEW d \in Execution PROVE CashOutOK(call[d], sent[d])'
    <3>1. sent'[d]["pma"] = sent[d]["pma"] /\ sent'[d]["eth"] = sent[d]["eth"]
      BY <1>3
    <3>2. InLast(call[d]) => tokens'[call[d].id] <= tokens[call[d].id]
      <4>1. SUFFICES ASSUME InLast(call[d])
                     PROVE  tokens'[call[d].id] <= tokens[call[d].id]
        OBVIOUS
      <4>2. CashOutOK(call[d], sent[d]) /\ CallOK(call[d], sent[d]["execute"])
        BY DEF CashOutInv, ExecutionInv, CallsOK
      <4>3. PICK q \in Payment : q = call[d].id
        BY <4>1, <4>2 DEF InLast, CashingOut, CallOK
      <4>4. tokens[q] \in Nat
        BY <1>1 DEF ExecutionTypeOK
      <4>. QED
        BY <1>4, <4>3, <4>4
    <3>. QED
      BY <1>1, <2>1, <3>1, <3>2, UntouchedCashOut
  <2>. QED
    BY <1>1, <2>1, <2>2, ChainCashOut
<1>5. CASE /\ Allows(p)
           /\ initial' = [initial EXCEPT ![p] = FALSE]
           /\ left' = IF initial[p] THEN left ELSE [left EXCEPT ![p] = @ - 1]
           /\ tokens' = [tokens EXCEPT ![p] = @ + 1]
  <2>1. ~Through(p)
    <3>1. /\ NumberOfPayments[p] \in Nat /\ due[p] \in Nat
          /\ due[p] <= NumberOfPayments[p]
      BY <1>1, ExecutionAssumption DEF ExecutionTypeOK, ExecutionInv, ChainCounts
    <3>. QED
      BY <1>5, <3>1 DEF Allows, Through
  <2>2. \A q \in Payment \ {p} : /\ left'[q] = left[q] /\ initial'[q] = initial[q]
                                 /\ tokens'[q] = tokens[q]
    BY <1>1, <1>5 DEF ExecutionTypeOK
  <2>3. \A id \in Payment : Drained(id) => Drained(id)'
    BY <2>1, <2>2 DEF Drained, Through
  <2>4. ASSUME NEW d \in Execution PROVE CashOutOK(call[d], sent[d])'
    <3>1. sent'[d]["pma"] = sent[d]["pma"] /\ sent'[d]["eth"] = sent[d]["eth"]
      BY <1>3
    <3>2. InLast(call[d]) => tokens'[call[d].id] <= tokens[call[d].id]
      <4>1. SUFFICES ASSUME InLast(call[d])
                     PROVE  tokens'[call[d].id] <= tokens[call[d].id]
        OBVIOUS
      <4>2. CashOutOK(call[d], sent[d]) /\ CallOK(call[d], sent[d]["execute"])
        BY DEF CashOutInv, ExecutionInv, CallsOK
      <4>3. PICK q \in Payment : q = call[d].id
        BY <4>1, <4>2 DEF InLast, CashingOut, CallOK
      <4>4. Through(q)
        BY <4>1, <4>2, <4>3, AllWritten DEF CashOutOK
      <4>5. tokens'[q] = tokens[q] /\ tokens[q] \in Nat
        BY <1>1, <2>1, <2>2, <4>4 DEF ExecutionTypeOK
      <4>. QED
        BY <4>3, <4>5
    <3>. QED
      BY <1>1, <2>3, <3>1, <3>2, UntouchedCashOut
  <2>. QED
    BY <1>1, <2>3, <2>4, ChainCashOut
<1>6. \/ UNCHANGED <<initial, left, tokens>>
      \/ /\ Allows(p)
         /\ initial' = [initial EXCEPT ![p] = FALSE]
         /\ left' = IF initial[p] THEN left ELSE [left EXCEPT ![p] = @ - 1]
         /\ tokens' = [tokens EXCEPT ![p] = @ + 1]
  BY <1>2 DEF MineExecution
<1>. QED
  BY <1>4, <1>5, <1>6

\* A cash-out of PMA leaves less, and none if it moves as much as there is.
LEMMA MineCashOutCashOut ==
    ASSUME ExecutionInv, ExecutionInv', CashOutInv, NEW e \in Execution,
           MineCashOut(e)
    PROVE  CashOutInv'
<1>1. /\ ExecutionTypeOK /\ CallOK(call[e], sent[e]["execute"])
      /\ CashOutOK(call[e], sent[e]) /\ call[e] \in CallType
      /\ UNCHANGED <<record, row, call, due, initial, left>>
  BY DEF ExecutionInv, ExecutionTypeOK, CallsOK, CashOutInv, MineCashOut
<1>2. sent[e]["pma"] = "pending" \/ sent[e]["eth"] = "pending"
  BY DEF MineCashOut
<1>3. PICK p \in Payment : p = call[e].id
  BY <1>1, <1>2 DEF CallOK, CashOutOK
<1>4. PICK m \in Nat : m = call[e].moving
  BY <1>1 DEF CallType
<1>5. /\ \A q \in Payment : tokens[q] \in Nat /\ tokens'[q] \in Nat
      /\ ether \in [Payment -> BOOLEAN]
  BY DEF ExecutionInv, ExecutionTypeOK
<1>6. \/ /\ sent[e]["pma"] = "pending" /\ m <= tokens[p]
         /\ Mined(e, "pma", "success") /\ UNCHANGED ether
         /\ tokens' = [tokens EXCEPT ![p] = @ - m]
      \/ /\ sent[e]["pma"] = "pending" /\ Mined(e, "pma", "reverted")
         /\ UNCHANGED <<ether, tokens>>
      \/ /\ sent[e]["eth"] = "pending" /\ Mined(e, "eth", "success")
         /\ ether' = [ether EXCEPT ![p] = FALSE]
         /\ UNCHANGED tokens
  BY <1>3, <1>4 DEF MineCashOut
<1>7. \A q \in Payment : tokens'[q] <= tokens[q]
  <2>1. \/ UNCHANGED tokens
        \/ tokens' = [tokens EXCEPT ![p] = tokens[p] - m] /\ m <= tokens[p]
    BY <1>6
  <2>. QED
    BY <1>1, <1>5, <2>1 DEF ExecutionTypeOK
<1>8. \A id \in Payment : Drained(id) => Drained(id)'
  BY <1>1, <1>5, <1>7 DEF Drained, Through
<1>9. \A id \in Payment : ~ether'[id] => ~ether[id] \/ Drained(id)
  <2>1. sent[e]["eth"] = "pending" => Drained(p)
    BY <1>1, <1>3 DEF CashOutOK
  <2>2. UNCHANGED ether \/ /\ sent[e]["eth"] = "pending"
                           /\ ether' = [ether EXCEPT ![p] = FALSE]
    BY <1>6
  <2>. QED
    BY <1>5, <2>1, <2>2
<1>10. \A d \in Execution \ {e} : sent'[d] = sent[d]
  BY <1>1, <1>6 DEF ExecutionTypeOK, Mined
<1>11. ASSUME NEW d \in Execution \ {e} PROVE CashOutOK(call[d], sent[d])'
  <2>1. InLast(call[d]) => tokens'[call[d].id] <= tokens[call[d].id]
    <3>1. CallOK(call[d], sent[d]["execute"])
      BY DEF ExecutionInv, CallsOK
    <3>2. InLast(call[d]) => call[d].id \in Payment
      BY <3>1 DEF InLast, CashingOut, CallOK
    <3>. QED
      BY <1>7, <3>2
  <2>. QED
    BY <1>1, <1>8, <1>10, <2>1, UntouchedCashOut
<1>12. CashOutOK(call[e], sent[e])'
  <2>1. PICK c, s, t : c = call[e] /\ s = sent[e] /\ t = sent'[e]
    OBVIOUS
  <2>2. CashOutOK(c, s)'
    <3>1. InLast(c) => /\ tokens[c.id] \in Nat /\ tokens'[c.id] \in Nat
                       /\ tokens'[c.id] <= tokens[c.id]
                       /\ c.amount \in Nat /\ c.moving \in Nat
      BY <1>1, <1>3, <1>5, <1>7, <2>1 DEF CallType
    <3>2. Drained(c.id) => Drained(c.id)'
      BY <1>3, <1>8, <2>1
    <3>. QED
      BY <1>1, <2>1, <3>1, <3>2, OthersKeepCashOut
  <2>3. \/ /\ s["pma"] = "pending" /\ t["pma"] = "success" /\ t["eth"] = s["eth"]
           /\ m <= tokens[p] /\ tokens'[p] = tokens[p] - m
        \/ s["pma"] = "pending" /\ t["pma"] = "reverted" /\ t["eth"] = s["eth"]
        \/ s["eth"] = "pending" /\ t["eth"] = "success" /\ t["pma"] = s["pma"]
    BY <1>1, <1>6, <2>1 DEF ExecutionTypeOK, Kind, Mined
  <2>4. s["pma"] = "pending" /\ c.handling = "sent" /\ InLast(c) /\ c.kind = "pma"
           => tokens[p] <= m
    BY <1>1, <1>3, <1>4, <2>1 DEF CashOutOK
  <2>5. t["pma"] = "success" /\ c.handling = "sent" /\ InLast(c) /\ c.kind = "pma"
           => tokens'[c.id] = 0
    <3>1. s["pma"] = "success" => t["pma"] = s["pma"]
      BY <2>3
    <3>2. CASE s["pma"] = "pending" /\ t["pma"] = "success"
      BY <1>3, <1>4, <1>5, <2>1, <2>3, <2>4, <3>2
    <3>3. CASE s["pma"] = t["pma"]
      BY <2>2, <3>3 DEF CashOutOK
    <3>. QED
      BY <2>3, <3>2, <3>3
  <2>6. t["pma"] = "pending" => s["pma"] = "pending"
    BY <2>3
  <2>7. t["eth"] # "none" => s["eth"] # "none"
    BY <2>3
  <2>8. c.handling # "off"
    BY <1>1, <2>1, <2>3 DEF CashOutOK
  <2>9. CashOutOK(c, t)'
    BY <2>2, <2>5, <2>6, <2>7, <2>8 DEF CashOutOK, InLast
  <2>. QED
    BY <1>1, <2>1, <2>9 DEF CashOutOK, InLast, EndedBy
<1>. QED
  BY <1>1, <1>8, <1>9, <1>11, <1>12, ChainCashOut

LEMMA NoCashOut ==
    ASSUME ExecutionInv, CashOutInv,
           UNCHANGED <<record, call, sent, nonces, ether, tokens, initial, left>>
    PROVE  CashOutInv'
BY DEF CashOutInv, CashOutOK, InLast, EndedBy, Drained, Through

LEMMA CashOutInitOK == ExecutionInit => CashOutInv
<1>1. SUFFICES ASSUME ExecutionInit PROVE CashOutInv
  OBVIOUS
<1>2. \A e \in Execution : call[e] = NoCall /\ sent[e] = [k \in Kind |-> "none"]
  BY <1>1 DEF ExecutionInit
<1>3. ASSUME NEW e \in Execution PROVE CashOutOK(call[e], sent[e])
  BY <1>2 DEF CashOutOK, InLast, CashingOut, EndedBy, NoCall, Kind
<1>4. \A id \in Payment : ether[id]
  BY <1>1, Zenon DEF ExecutionInit
<1>. QED
  BY <1>3, <1>4 DEF CashOutInv

LEMMA CashOutStepOK ==
    ASSUME ExecutionInv, ExecutionInv', WrittenCounts, CashOutInv,
           [ExecutionNext]_executionVars
    PROVE  CashOutInv'
<1>1. ASSUME NEW e \in Execution, NEW id \in Payment, Call(e, id)
      PROVE  CashOutInv'
  BY <1>1, CallCashOut
<1>2. ASSUME NEW e \in Execution, Executed(e) \/ Reject(e) \/ GiveUp(e)
      PROVE  CashOutInv'
  BY <1>2, ReadRecordCashOut, MainCashOut, ReceiptCashOut
     DEF Executed
<1>3. ASSUME NEW e \in Execution, Recorded(e)
      PROVE  CashOutInv'
  BY <1>3, MainCashOut DEF Recorded
<1>4. ASSUME NEW e \in Execution, Handled(e) \/ CashOutFails(e)
      PROVE  CashOutInv'
  BY <1>4, ReceiptCashOut, ReceiptRecordCashOut, RowCashOut, cashOutPMACashOut,
     CashOutStepCashOut, CashOutSendCashOut, CashOutReceiptCashOut DEF Handled
<1>5. ASSUME NEW e \in Execution, MineExecution(e) \/ MineCashOut(e)
      PROVE  CashOutInv'
  BY <1>5, MineExecutionCashOut, MineCashOutCashOut
<1>6. ASSUME NEW id \in Payment, FallDue(id)
      PROVE  CashOutInv'
  BY <1>6, NoCashOut DEF FallDue, chainVars
<1>7. CASE UNCHANGED executionVars
  BY <1>7, NoCashOut DEF executionVars, chainVars
<1>. QED
  BY <1>1, <1>2, <1>3, <1>4, <1>5, <1>6, <1>7 DEF ExecutionNext

(* The record that a cash-out at the end of a pull payment's life reads has *)
(* no payment left, the contract is through with it then, and the transfer  *)
(* takes all the PMA there is.                                              *)
THEOREM CashOutInvariant == ExecutionSpec => []CashOutInv
<1>1. ExecutionInit => CashOutInv
  BY CashOutInitOK
<1>2. ExecutionInv /\ ExecutionInv' /\ WrittenCounts /\ CashOutInv
         /\ [ExecutionNext]_executionVars
         => CashOutInv'
  BY CashOutStepOK
<1>. QED
  BY <1>1, <1>2, ExecutionInvariant, WrittenInvariant, PTL DEF ExecutionSpec

(* Whatever the cash-out frequency, a merchant address gives its ether away *)
(* only when the contract has executed the last payment                     *)
(* (BlockchainTxReceiptHandler.ts:40-44).                                   *)
THEOREM EtherAlwaysLasts == ExecutionSpec => []EtherLastsToTheEnd
<1>1. CashOutInv => EtherLastsToTheEnd
  BY DEF CashOutInv, Drained, Through, EtherLastsToTheEnd
<1>. QED
  BY <1>1, CashOutInvariant, PTL

(* An address without ether holds PMA only if its frequency skips the last  *)
(* cash-out, however the calls overlap and fail (CashOutController.ts:23).  *)
THEOREM TokensStrandedOnlyBySkip == ExecutionSpec => []StrandedOnlyBySkip
<1>1. ASSUME CashOutInv, ExecutionTypeOK PROVE StrandedOnlyBySkip
  BY <1>1 DEF CashOutInv, Drained, StrandedOnlyBySkip, ExecutionTypeOK
<1>2. ExecutionInv => ExecutionTypeOK
  BY DEF ExecutionInv
<1>. QED
  BY <1>1, <1>2, CashOutInvariant, ExecutionInvariant, PTL
=============================================================================
