---------------------------- MODULE MCScheduler ----------------------------
(* Small instances of Scheduler.                                            *)
EXTENDS Scheduler

CONSTANTS Payments, Period

MCNumberOfPayments == [id \in PullPaymentID |-> Payments]
MCStartTimestamp == [id \in PullPaymentID |-> 1]
MCFrequency == [id \in PullPaymentID |-> Period]
=============================================================================
