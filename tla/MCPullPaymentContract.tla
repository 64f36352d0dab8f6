----------------------- MODULE MCPullPaymentContract -----------------------
(* Small instances of the pull payment contract for TLC.                    *)
EXTENDS PullPaymentContract

CONSTANTS usd

TermsOf(initial, fiat, frequency, number, start) ==
    [currency |-> usd, initialPaymentAmountInCents |-> initial,
     fiatAmountInCents |-> fiat, frequency |-> frequency,
     numberOfPayments |-> number, startTimestamp |-> start]

\* A recurring payment and one with an initial payment.
TwoTerms == {TermsOf(0, 1, 2, 2, 1), TermsOf(1, 2, 1, 2, 2)}
=============================================================================
