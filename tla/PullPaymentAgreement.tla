------------------------ MODULE PullPaymentAgreement ------------------------
(***************************************************************************)
(* What the pull payment contract promises a client: for every pair of a   *)
(* client and a beneficiary one agreement, on terms the client signed,     *)
(* under which the beneficiary collects an initial payment at most once    *)
(* and regular payments that are never early, never more than agreed and,  *)
(* once the client has cancelled, only those due before the cancellation.  *)
(* How the promise is kept is the business of PullPaymentContract.         *)
(***************************************************************************)
EXTENDS Naturals

CONSTANTS
    Pair,   \* a client and a beneficiary
    Terms,  \* the terms the clients have signed
    None    \* no agreement yet

VARIABLES
    now,       \* the time of the last block
    agreement  \* per pair: None, or the agreement in force

agreementVars == <<now, agreement>>

\* The date of the next regular payment of agreement a.
DueDate(a) == a.terms.startTimestamp + a.made * a.terms.frequency

\* What is due on that date was due before the client cancelled, if ever.
InForce(a) == a.cancelled = 0 \/ DueDate(a) < a.cancelled

Open(p) == agreement[p] # None /\ agreement[p].made < agreement[p].terms.numberOfPayments

AgreementInit == now = 1 /\ agreement = [p \in Pair |-> None]

Agree(p, t) ==
    /\ agreement' = [agreement EXCEPT ![p] =
                        [terms |-> t, made |-> 0, cancelled |-> 0,
                         initialDue |-> t.initialPaymentAmountInCents > 0]]
    /\ UNCHANGED now

CollectInitial(p) ==
    /\ Open(p) /\ InForce(agreement[p])
    /\ agreement[p].initialDue
    /\ agreement' = [agreement EXCEPT ![p].initialDue = FALSE]
    /\ UNCHANGED now

CollectRegular(p) ==
    /\ Open(p) /\ InForce(agreement[p])
    /\ ~agreement[p].initialDue
    /\ DueDate(agreement[p]) <= now
    /\ agreement' = [agreement EXCEPT ![p].made = @ + 1]
    /\ UNCHANGED now

Cancel(p) ==
    /\ Open(p) /\ agreement[p].cancelled = 0
    /\ agreement' = [agreement EXCEPT ![p].cancelled = now]
    /\ UNCHANGED now

Pass == now' > now /\ UNCHANGED agreement

AgreementNext ==
    \/ \E p \in Pair : \/ \E t \in Terms : Agree(p, t)
                       \/ CollectInitial(p) \/ CollectRegular(p) \/ Cancel(p)
    \/ Pass

AgreementSpec == AgreementInit /\ [][AgreementNext]_agreementVars
=============================================================================
