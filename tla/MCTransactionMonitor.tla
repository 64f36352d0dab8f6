----------------------- MODULE MCTransactionMonitor -----------------------
(***************************************************************************)
(* An instance of TransactionMonitor for TLC: a registration is monitored  *)
(* twice, by one poll that asks at a time; a cancellation once, by polls   *)
(* that overlap.                                                           *)
(***************************************************************************)
EXTENDS TransactionMonitor

MCMaxPolls == [k \in Kinds |-> IF k = "cancel" THEN 2 ELSE 1]
MCMaxWatches == [k \in Kinds |-> IF k = "register" THEN 2 ELSE 1]
=============================================================================
