----------------------- MODULE MCPullPaymentExecution -----------------------
(* Small instances of PullPaymentExecution.  The one pull payment has an    *)
(* initial payment and is cashed out after every execution; the other has   *)
(* none and is cashed out at every second one only, which skips the         *)
(* cash-out at the end of its one payment.                                  *)
EXTENDS PullPaymentExecution

CONSTANTS Payments, Initial

MCNumberOfPayments == [id \in Payment |-> Payments]
MCWithInitial == Initial
MCAutomated == [id \in Payment |-> id \in Initial]
MCFrequency == [id \in Payment |-> IF id \in Initial THEN 1 ELSE 2]

\* Bound: the calls of a behaviour are all for one pull payment.  No address,
\* record or row is shared by two.
OneAtATime == \E id \in Payment : \A other \in Payment \ {id} :
    due[other] = 0 /\ \A e \in Execution : call[e].id # other
=============================================================================
