------------------------ MODULE PullPaymentContract ------------------------
(***************************************************************************)
(* The PumaPayPullPayment contract (contracts/contracts.sol): executors    *)
(* register and delete pull payments their clients signed, beneficiaries   *)
(* execute them, the owner sets the rates and the executors.  A call is    *)
(* one atomic step; a call whose require() fails, or that cannot transfer  *)
(* the ether or the tokens it has to, is reverted and is no step at all.   *)
(*                                                                         *)
(* A signature is modelled by what it allows: terms can only be registered *)
(* for a pair if the client signed them.  It does not cover the paymentID  *)
(* or earlier registrations, so signed terms may be registered again.      *)
(***************************************************************************)
EXTENDS Naturals, FiniteSets

CONSTANTS
    Client, Beneficiary, \* addresses that pay and are paid
    Operator,            \* addresses that may be owner or executor
    FirstOwner,          \* the address that deployed the contract
    Contract,            \* the contract's own address
    PaymentID, Currency,
    None,                \* no payment ID, no currency, no address, no terms
    Terms,               \* terms the clients have signed
    Rate,                \* exchange rates the owner sets
    Unit,                \* ONE_ETHER * DECIMAL_FIXER
    FIAT_TO_CENT_FIXER,
    OneEther,            \* 1 ether, in units of the smallest sum modelled
    Minimum,             \* MINIMUM_AMOUN_OF_ETH_FOR_OPARATORS
    InitialEther,        \* ether of every operator and of the contract
    InitialTokens,       \* PMA of every client
    Allowance,           \* sums a client lets the contract transfer
    Modulus,             \* 2^256: uint256 arithmetic wraps
    MaxEther,            \* bound: the contract is topped up while nobody has more
    MaxTime              \* bound: last second of the clock

Pair == Client \X Beneficiary

TermsType == [currency : Currency,
              initialPaymentAmountInCents : Nat,
              fiatAmountInCents : Nat \ {0},
              frequency : Nat \ {0},
              numberOfPayments : Nat \ {0},
              startTimestamp : Nat \ {0}]

\* An agreement of the abstract specification, which None is not.
AgreementType == [terms : TermsType, made : Nat, cancelled : Nat,
                  initialDue : BOOLEAN]

ASSUME ContractAssumption ==
    /\ Terms \subseteq TermsType
    /\ \A t \in Terms : t.startTimestamp < Modulus /\ t.frequency < Modulus
    /\ FirstOwner \in Operator
    /\ Contract \notin Operator
    /\ None \notin Operator \cup TermsType \cup AgreementType
    /\ Client \cap Beneficiary = {}
    /\ Rate \subseteq Nat
    /\ Unit \in Nat
    /\ FIAT_TO_CENT_FIXER \in Nat \ {0}
    /\ OneEther \in Nat /\ Minimum \in Nat /\ OneEther > Minimum
    /\ InitialEther \in Nat /\ InitialTokens \in Nat
    /\ Allowance \subseteq Nat
    /\ Modulus \in Nat \ {0}
    /\ MaxTime \in Nat /\ MaxEther \in Nat

VARIABLES
    now,           \* the time of the last block
    owner,
    executors,
    exchangeRates,
    pullPayments,  \* per pair, the PullPayment struct
    eth,           \* ether of the operators and of the contract
    balances,      \* PMA of the clients and the beneficiaries
    allowed,       \* PMA each client lets the contract transfer
    agreed,        \* history: the terms last registered for the pair
    charged        \* history: cents charged since they were registered

adminVars == <<owner, executors, exchangeRates>>
tokenVars == <<balances, allowed>>
paymentVars == <<pullPayments, agreed, charged>>
contractVars == <<now, adminVars, paymentVars, eth, tokenVars>>

Account == Client \cup Beneficiary

\* The struct's fields that the control flow reads or a property is about.
PullPayment == [paymentID : PaymentID \cup {None},
                currency : Currency \cup {None},
                initialPaymentAmountInCents : Nat,
                fiatAmountInCents : Nat,
                frequency : Nat,
                numberOfPayments : Nat,
                startTimestamp : Nat,
                nextPaymentTimestamp : Nat,
                lastPaymentTimestamp : Nat,
                cancelTimestamp : Nat]

NoPullPayment == [paymentID |-> None, currency |-> None,
                  initialPaymentAmountInCents |-> 0, fiatAmountInCents |-> 0,
                  frequency |-> 0, numberOfPayments |-> 0, startTimestamp |-> 0,
                  nextPaymentTimestamp |-> 0, lastPaymentTimestamp |-> 0,
                  cancelTimestamp |-> 0]

ContractInit ==
    /\ now = 1
    /\ owner = FirstOwner
    /\ executors = {}
    /\ exchangeRates = [c \in Currency |-> 0]
    /\ pullPayments = [p \in Pair |-> NoPullPayment]
    /\ eth = [a \in Operator \cup {Contract} |-> InitialEther]
    /\ balances = [a \in Account |-> IF a \in Client THEN InitialTokens ELSE 0]
    /\ allowed = [c \in Client |-> 0]
    /\ agreed = [p \in Pair |-> None]
    /\ charged = [p \in Pair |-> 0]

-----------------------------------------------------------------------------
(* Funding of the operators.                                                *)

\* A mutant of isFundingNeeded: the boundary counts as enough.
FundingNeededBelow(e, a) == e[a] < Minimum

isFundingNeeded(e, a) == e[a] <= Minimum

\* Balances e after address.transfer(1 ether), which needs HasEther(e).
HasEther(e) == e[Contract] >= OneEther
SendEther(e, a) == [e EXCEPT ![Contract] = @ - OneEther, ![a] = @ + OneEther]

\* The check every operator's call ends with.
FundIfNeeded(e, a) ==
    \/ isFundingNeeded(e, a) /\ HasEther(e) /\ eth' = SendEther(e, a)
    \/ ~isFundingNeeded(e, a) /\ eth' = e

-----------------------------------------------------------------------------
(* Calls of the owner.                                                      *)

addExecutor(x) ==
    /\ owner # None
    /\ x \notin executors
    /\ HasEther(eth)
    /\ executors' = executors \cup {x}
    /\ FundIfNeeded(SendEther(eth, x), owner)
    /\ UNCHANGED <<now, owner, exchangeRates, paymentVars, tokenVars>>

removeExecutor(x) ==
    /\ owner # None
    /\ x \in executors
    /\ executors' = executors \ {x}
    /\ FundIfNeeded(eth, owner)
    /\ UNCHANGED <<now, owner, exchangeRates, paymentVars, tokenVars>>

setRate(c, r) ==
    /\ owner # None
    /\ exchangeRates' = [exchangeRates EXCEPT ![c] = r]
    /\ FundIfNeeded(eth, owner)
    /\ UNCHANGED <<now, owner, executors, paymentVars, tokenVars>>

\* transferOwnership() to an operator, renounceOwnership() to None.
transferOwnership(a) ==
    /\ owner # None
    /\ owner' = a
    /\ UNCHANGED <<now, executors, exchangeRates, paymentVars, eth, tokenVars>>

-----------------------------------------------------------------------------
(* Calls of the executors.                                                  *)

doesPaymentExist(v) == /\ v.currency # None
                       /\ v.fiatAmountInCents > 0
                       /\ v.frequency > 0
                       /\ v.startTimestamp > 0
                       /\ v.numberOfPayments > 0
                       /\ v.nextPaymentTimestamp > 0

\* A mutant of Registered: the dates of the earlier payment are kept.
RegisteredOver(t, id, v) ==
    [v EXCEPT !.paymentID = id, !.currency = t.currency,
              !.initialPaymentAmountInCents = t.initialPaymentAmountInCents,
              !.fiatAmountInCents = t.fiatAmountInCents,
              !.frequency = t.frequency,
              !.numberOfPayments = t.numberOfPayments,
              !.startTimestamp = t.startTimestamp,
              !.nextPaymentTimestamp = IF @ = 0 THEN t.startTimestamp ELSE @,
              !.cancelTimestamp = 0]

\* The struct v after terms t were registered with payment ID id.
Registered(t, id, v) ==
    [v EXCEPT !.paymentID = id, !.currency = t.currency,
              !.initialPaymentAmountInCents = t.initialPaymentAmountInCents,
              !.fiatAmountInCents = t.fiatAmountInCents,
              !.frequency = t.frequency,
              !.numberOfPayments = t.numberOfPayments,
              !.startTimestamp = t.startTimestamp,
              !.nextPaymentTimestamp = t.startTimestamp,
              !.lastPaymentTimestamp = 0,
              !.cancelTimestamp = 0]

registerPullPayment(x, p, t, id) ==
    /\ x \in executors
    /\ pullPayments' = [pullPayments EXCEPT ![p] = Registered(t, id, @)]
    /\ agreed' = [agreed EXCEPT ![p] = t]
    /\ charged' = [charged EXCEPT ![p] = 0]
    /\ FundIfNeeded(eth, x)
    /\ UNCHANGED <<now, adminVars, tokenVars>>

\* The client may have signed a deletion of any of its payments at any time.
deletePullPayment(x, p) ==
    /\ x \in executors
    /\ doesPaymentExist(pullPayments[p])
    /\ pullPayments[p].cancelTimestamp = 0
    /\ pullPayments' = [pullPayments EXCEPT ![p].cancelTimestamp = now]
    /\ FundIfNeeded(eth, x)
    /\ UNCHANGED <<now, adminVars, agreed, charged, tokenVars>>

-----------------------------------------------------------------------------
(* Execution by the beneficiary.                                            *)

\* A mutant of isValidPullPaymentRequest: any cancelled payment may go on
\* if it has fallen due.
ValidWhenDue(v) ==
    /\ \/ v.initialPaymentAmountInCents > 0
       \/ now >= v.startTimestamp /\ now >= v.nextPaymentTimestamp
    /\ v.numberOfPayments > 0
    /\ v.cancelTimestamp = 0 \/ v.cancelTimestamp >= v.startTimestamp

isValidPullPaymentRequest(v) ==
    /\ \/ v.initialPaymentAmountInCents > 0
       \/ now >= v.startTimestamp /\ now >= v.nextPaymentTimestamp
    /\ v.numberOfPayments > 0
    /\ v.cancelTimestamp = 0 \/ v.cancelTimestamp > v.nextPaymentTimestamp

calculatePMAFromFiat(cents, c) ==
    (((Unit * cents) % Modulus) \div exchangeRates[c]) \div FIAT_TO_CENT_FIXER

\* A mutant of TransferFrom: only the allowance is checked.
TransferAllowed(p, amount) ==
    /\ amount <= allowed[p[1]]
    /\ balances' = [balances EXCEPT ![p[1]] = @ - amount, ![p[2]] = @ + amount]
    /\ allowed' = [allowed EXCEPT ![p[1]] = @ - amount]

\* token.transferFrom(client, beneficiary, amount)
TransferFrom(p, amount) ==
    /\ amount <= balances[p[1]]
    /\ amount <= allowed[p[1]]
    /\ balances' = [balances EXCEPT ![p[1]] = @ - amount, ![p[2]] = @ + amount]
    /\ allowed' = [allowed EXCEPT ![p[1]] = @ - amount]

\* A mutant of AfterExecution: the initial payment stays due.
AfterExecutionKept(v) ==
    IF v.initialPaymentAmountInCents > 0
    THEN [v EXCEPT !.lastPaymentTimestamp = now]
    ELSE [v EXCEPT !.nextPaymentTimestamp = (@ + v.frequency) % Modulus,
                   !.numberOfPayments = @ - 1,
                   !.lastPaymentTimestamp = now]

\* The struct after an execution; the addition of the dates may wrap.
AfterExecution(v) ==
    IF v.initialPaymentAmountInCents > 0
    THEN [v EXCEPT !.initialPaymentAmountInCents = 0,
                   !.lastPaymentTimestamp = now]
    ELSE [v EXCEPT !.nextPaymentTimestamp = (@ + v.frequency) % Modulus,
                   !.numberOfPayments = @ - 1,
                   !.lastPaymentTimestamp = now]

executePullPayment(p, id) ==
    LET v == pullPayments[p]
        cents == IF v.initialPaymentAmountInCents > 0
                 THEN v.initialPaymentAmountInCents ELSE v.fiatAmountInCents
    IN  /\ doesPaymentExist(v)
        /\ isValidPullPaymentRequest(v)
        /\ v.paymentID = id
        /\ exchangeRates[v.currency] # 0
        /\ pullPayments' = [pullPayments EXCEPT ![p] = AfterExecution(@)]
        /\ charged' = [charged EXCEPT ![p] = @ + cents]
        /\ TransferFrom(p, calculatePMAFromFiat(cents, v.currency))
        /\ UNCHANGED <<now, adminVars, agreed, eth>>

-----------------------------------------------------------------------------
(* What the accounts do outside the contract, and time.                     *)

approve(c, n) ==
    /\ allowed' = [allowed EXCEPT ![c] = n]
    /\ UNCHANGED <<now, adminVars, paymentVars, eth, balances>>

transfer(c, n) ==
    /\ n <= balances[c]
    /\ balances' = [balances EXCEPT ![c] = @ - n]
    /\ UNCHANGED <<now, adminVars, paymentVars, eth, allowed>>

\* An operator pays for gas.
PayGas(a) ==
    /\ eth[a] > 0
    /\ eth' = [eth EXCEPT ![a] = @ - 1]
    /\ UNCHANGED <<now, adminVars, paymentVars, tokenVars>>

\* Somebody sends ether to the contract's fallback function.
ReceiveEther ==
    /\ \A a \in DOMAIN eth : eth[a] < MaxEther
    /\ eth' = [eth EXCEPT ![Contract] = @ + 1]
    /\ UNCHANGED <<now, adminVars, paymentVars, tokenVars>>

NextBlock ==
    /\ now < MaxTime
    /\ now' = now + 1
    /\ UNCHANGED <<adminVars, paymentVars, eth, tokenVars>>

-----------------------------------------------------------------------------
OwnerCalls ==
    \/ \E x \in Operator : addExecutor(x) \/ removeExecutor(x)
    \/ \E c \in Currency, r \in Rate : setRate(c, r)

ExecutorCalls(x) == \E p \in Pair :
    \/ \E t \in Terms, id \in PaymentID : registerPullPayment(x, p, t, id)
    \/ deletePullPayment(x, p)

ContractNext ==
    \/ OwnerCalls
    \/ \E a \in Operator \cup {None} : transferOwnership(a)
    \/ \E x \in Operator : ExecutorCalls(x)
    \/ \E p \in Pair, id \in PaymentID : executePullPayment(p, id)
    \/ \E c \in Client, n \in Allowance : approve(c, n) \/ transfer(c, n)
    \/ \E a \in Operator : PayGas(a)
    \/ ReceiveEther
    \/ NextBlock

ContractSpec == ContractInit /\ [][ContractNext]_contractVars

-----------------------------------------------------------------------------
ContractTypeOK ==
    /\ now \in Nat \ {0}
    /\ owner \in Operator \cup {None}
    /\ executors \subseteq Operator
    /\ exchangeRates \in [Currency -> Nat]
    /\ pullPayments \in [Pair -> PullPayment]
    /\ eth \in [Operator \cup {Contract} -> Nat]
    /\ balances \in [Account -> Nat]
    /\ allowed \in [Client -> Nat]
    /\ agreed \in [Pair -> Terms \cup {None}]
    /\ charged \in [Pair -> Nat]

\* The dates of the schedule never reach the end of uint256.
Fits(t) == t.startTimestamp + t.numberOfPayments * t.frequency < Modulus

\* Regular payments made since the terms were registered.
Made(p) == agreed[p].numberOfPayments - pullPayments[p].numberOfPayments

(* A registered pull payment keeps to its schedule however late, often or   *)
(* irregularly it is executed: the next date is the start plus one period   *)
(* per regular payment made (contracts.sol:742-743).                        *)
OnSchedule == \A p \in Pair : agreed[p] # None /\ Fits(agreed[p]) =>
    /\ pullPayments[p].numberOfPayments <= agreed[p].numberOfPayments
    /\ pullPayments[p].nextPaymentTimestamp =
          agreed[p].startTimestamp + Made(p) * agreed[p].frequency

(* The client is charged exactly what was agreed: the initial payment at    *)
(* most once, every regular payment once.                                   *)
ChargedAsAgreed == \A p \in Pair : agreed[p] # None =>
    charged[p] = Made(p) * agreed[p].fiatAmountInCents
                 + IF pullPayments[p].initialPaymentAmountInCents = 0
                   THEN agreed[p].initialPaymentAmountInCents ELSE 0

(* No regular payment is collected before its own date, and none whose date *)
(* is later than the client's cancellation: the date of the last one made   *)
(* is at most the time it was made and at most the time of cancellation.    *)
NeverEarlyNorAfterCancel == \A p \in Pair :
    agreed[p] # None /\ Fits(agreed[p]) /\ Made(p) > 0 =>
        LET v == pullPayments[p]
            due == agreed[p].startTimestamp + (Made(p) - 1) * agreed[p].frequency
        IN  /\ due <= v.lastPaymentTimestamp
            /\ v.cancelTimestamp = 0 \/ due <= v.cancelTimestamp

(* The contract keeps the promise of PullPaymentAgreement.                  *)
agreement == [p \in Pair |->
    IF agreed[p] = None THEN None
    ELSE [terms |-> agreed[p],
          made |-> Made(p),
          cancelled |-> pullPayments[p].cancelTimestamp,
          initialDue |-> pullPayments[p].initialPaymentAmountInCents > 0]]

Agreement == INSTANCE PullPaymentAgreement
KeepsAgreement == Agreement!AgreementSpec

(* A call of the owner or of an executor leaves its caller with more than   *)
(* the minimum an operator should have.                                     *)
CallersStayFunded ==
    [][/\ OwnerCalls => eth'[owner] > Minimum
       /\ \A x \in Operator : ExecutorCalls(x) => eth'[x] > Minimum]_contractVars
=============================================================================
