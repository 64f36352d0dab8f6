---------------------------- MODULE SerialQueue ----------------------------
(***************************************************************************)
(* What the schedule queue promises to Scheduler.restart: the pull         *)
(* payments handed to it are served in the order they were handed over,    *)
(* one after the other, and every one of them is served in the end.        *)
(***************************************************************************)
EXTENDS Naturals, Sequences

CONSTANTS PullPaymentID,   \* the pull payments that can be queued
          Burst            \* most entries handed over in one go

VARIABLE todo              \* entries not served yet; the first is being served

Copies(id, k) == [i \in 1..k |-> id]

Init == todo = <<>>

\* k entries for the same pull payment join the end of the line.
Submit(id, k) == todo' = todo \o Copies(id, k)

\* The entry at the head of the line has been served.
Serve == todo # <<>> /\ todo' = Tail(todo)

Next == Serve \/ \E id \in PullPaymentID, k \in 1..Burst : Submit(id, k)

Safety == Init /\ [][Next]_todo

Spec == Safety /\ WF_todo(Serve)
=============================================================================
