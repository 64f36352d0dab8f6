--------------------- MODULE PullPaymentContract_proofs ---------------------
(***************************************************************************)
(* Theorems about PullPaymentContract, for every set of clients,           *)
(* beneficiaries, operators and signed terms: the types, the schedule, the *)
(* amounts charged, the limits in time, and, for terms whose dates fit in  *)
(* a uint256, that the contract implements PullPaymentAgreement.           *)
(*                                                                         *)
(* Everything rests on PaymentInv, which relates one pull payment, the     *)
(* terms it was registered with and the cents charged since.               *)
(***************************************************************************)
EXTENDS PullPaymentContract, Integers, TLAPS

-----------------------------------------------------------------------------
(* 1. Arithmetic of the schedule.                                           *)

\* A regular payment's date is before the end of a schedule that fits.
LEMMA ProductGrows ==
    ASSUME NEW f \in Nat, NEW m \in Nat, NEW n \in Nat, m <= n
    PROVE  m * f <= n * f
<1>1. PICK d \in Nat : n = m + d
  <2>1. n - m \in Nat /\ n = m + (n - m)
    OBVIOUS
  <2>. QED
    BY <2>1
<1>2. n * f = m * f + d * f
  BY <1>1
<1>3. d * f \in Nat /\ m * f \in Nat
  OBVIOUS
<1>. QED
  BY <1>2, <1>3

\* Below the modulus an addition does not wrap.
LEMMA NoWrap ==
    ASSUME NEW x \in Nat, NEW m \in Nat \ {0}, x < m
    PROVE  x % m = x
OBVIOUS

LEMMA ModIsNat ==
    ASSUME NEW x \in Nat, NEW m \in Nat \ {0}
    PROVE  x % m \in Nat
OBVIOUS

LEMMA DivIsNat ==
    ASSUME NEW x \in Nat, NEW d \in Nat \ {0}
    PROVE  x \div d \in Nat
OBVIOUS

-----------------------------------------------------------------------------
(* 2. Type correctness.                                                     *)

\* The fields of a struct and of signed terms.
LEMMA TermsFields ==
    ASSUME NEW t \in Terms
    PROVE  /\ t \in TermsType /\ t # None
           /\ t.startTimestamp < Modulus
BY ContractAssumption

LEMMA RegisteredIsPullPayment ==
    ASSUME NEW t \in Terms, NEW id \in PaymentID, NEW v \in PullPayment
    PROVE  Registered(t, id, v) \in PullPayment
BY TermsFields DEF Registered, PullPayment, TermsType

LEMMA ExecutedIsPullPayment ==
    ASSUME NEW v \in PullPayment, v.numberOfPayments > 0, now \in Nat
    PROVE  AfterExecution(v) \in PullPayment
<1> DEFINE next == (v.nextPaymentTimestamp + v.frequency) % Modulus
<1>1. next \in Nat
  BY ContractAssumption, ModIsNat DEF PullPayment
<1>2. v.numberOfPayments - 1 \in Nat
  BY DEF PullPayment
<1> HIDE DEF next
<1>3. CASE v.initialPaymentAmountInCents > 0
  <2>1. [v EXCEPT !.initialPaymentAmountInCents = 0,
                  !.lastPaymentTimestamp = now] \in PullPayment
    BY DEF PullPayment
  <2>. QED
    BY <1>3, <2>1 DEF AfterExecution
<1>4. CASE ~(v.initialPaymentAmountInCents > 0)
  <2>1. [v EXCEPT !.nextPaymentTimestamp = next,
                  !.numberOfPayments = v.numberOfPayments - 1,
                  !.lastPaymentTimestamp = now] \in PullPayment
    BY <1>1, <1>2 DEF PullPayment
  <2>. QED
    BY <1>4, <2>1 DEF AfterExecution, next
<1>. QED
  BY <1>3, <1>4

LEMMA FundingTypes ==
    ASSUME NEW e \in [Operator \cup {Contract} -> Nat], NEW a \in Operator,
           FundIfNeeded(e, a)
    PROVE  eth' \in [Operator \cup {Contract} -> Nat]
<1>1. OneEther \in Nat /\ Contract # a
  BY ContractAssumption
<1>2. HasEther(e) => SendEther(e, a) \in [Operator \cup {Contract} -> Nat]
  BY <1>1 DEF HasEther, SendEther
<1>. QED
  BY <1>2 DEF FundIfNeeded

LEMMA PMAIsNat ==
    ASSUME NEW cents \in Nat, NEW c \in Currency,
           exchangeRates \in [Currency -> Nat], exchangeRates[c] # 0
    PROVE  calculatePMAFromFiat(cents, c) \in Nat
<1>1. (Unit * cents) % Modulus \in Nat
  BY ContractAssumption, ModIsNat
<1>2. ((Unit * cents) % Modulus) \div exchangeRates[c] \in Nat
  BY <1>1, DivIsNat
<1>. QED
  BY <1>2, ContractAssumption, DivIsNat DEF calculatePMAFromFiat

LEMMA TransferTypes ==
    ASSUME ContractTypeOK, NEW p \in Pair, NEW n \in Nat, TransferFrom(p, n)
    PROVE  balances' \in [Account -> Nat] /\ allowed' \in [Client -> Nat]
<1>1. p[1] \in Client /\ p[2] \in Account /\ p[1] # p[2]
  BY ContractAssumption DEF Pair, Account
<1>2. balances' \in [Account -> Nat]
  BY <1>1 DEF ContractTypeOK, TransferFrom, Account
<1>3. allowed' \in [Client -> Nat]
  BY <1>1 DEF ContractTypeOK, TransferFrom
<1>. QED
  BY <1>2, <1>3

LEMMA InitTypes == ContractInit => ContractTypeOK
BY ContractAssumption DEF ContractInit, ContractTypeOK, NoPullPayment, PullPayment

LEMMA OwnerCallsType ==
    ASSUME ContractTypeOK, OwnerCalls
    PROVE  ContractTypeOK'
<1>1. ASSUME NEW x \in Operator, addExecutor(x) PROVE ContractTypeOK'
  <2>1. SendEther(eth, x) \in [Operator \cup {Contract} -> Nat] /\ owner \in Operator
    BY <1>1, ContractAssumption DEF addExecutor, HasEther, SendEther, ContractTypeOK
  <2>2. eth' \in [Operator \cup {Contract} -> Nat]
    BY <1>1, <2>1, FundingTypes DEF addExecutor
  <2>. QED
    BY <1>1, <2>2 DEF addExecutor, ContractTypeOK, paymentVars, tokenVars
<1>2. ASSUME NEW x \in Operator, removeExecutor(x) PROVE ContractTypeOK'
  <2>1. eth' \in [Operator \cup {Contract} -> Nat]
    BY <1>2, FundingTypes DEF removeExecutor, ContractTypeOK
  <2>. QED
    BY <1>2, <2>1 DEF removeExecutor, ContractTypeOK, paymentVars, tokenVars
<1>3. ASSUME NEW c \in Currency, NEW r \in Rate, setRate(c, r)
      PROVE  ContractTypeOK'
  <2>1. eth' \in [Operator \cup {Contract} -> Nat]
    BY <1>3, FundingTypes DEF setRate, ContractTypeOK
  <2>2. exchangeRates' \in [Currency -> Nat]
    BY <1>3, ContractAssumption DEF setRate, ContractTypeOK
  <2>. QED
    BY <1>3, <2>1, <2>2 DEF setRate, ContractTypeOK, paymentVars, tokenVars
<1>. QED
  BY <1>1, <1>2, <1>3 DEF OwnerCalls

LEMMA ExecutorCallsType ==
    ASSUME ContractTypeOK, NEW x \in Operator, ExecutorCalls(x)
    PROVE  ContractTypeOK'
<1>1. ASSUME NEW p \in Pair, NEW t \in Terms, NEW id \in PaymentID,
             registerPullPayment(x, p, t, id)
      PROVE  ContractTypeOK'
  <2>1. eth' \in [Operator \cup {Contract} -> Nat]
    BY <1>1, FundingTypes DEF registerPullPayment, ContractTypeOK
  <2>2. pullPayments' \in [Pair -> PullPayment]
    BY <1>1, RegisteredIsPullPayment DEF registerPullPayment, ContractTypeOK
  <2>3. agreed' \in [Pair -> Terms \cup {None}] /\ charged' \in [Pair -> Nat]
    BY <1>1 DEF registerPullPayment, ContractTypeOK
  <2>. QED
    BY <1>1, <2>1, <2>2, <2>3
       DEF registerPullPayment, ContractTypeOK, adminVars, tokenVars
<1>2. ASSUME NEW p \in Pair, deletePullPayment(x, p) PROVE ContractTypeOK'
  <2>1. eth' \in [Operator \cup {Contract} -> Nat]
    BY <1>2, FundingTypes DEF deletePullPayment, ContractTypeOK
  <2>2. pullPayments' \in [Pair -> PullPayment]
    BY <1>2 DEF deletePullPayment, ContractTypeOK, PullPayment
  <2>. QED
    BY <1>2, <2>1, <2>2 DEF deletePullPayment, ContractTypeOK, adminVars, tokenVars
<1>. QED
  BY <1>1, <1>2 DEF ExecutorCalls

LEMMA ExecutionType ==
    ASSUME ContractTypeOK, NEW p \in Pair, NEW id \in PaymentID,
           executePullPayment(p, id)
    PROVE  ContractTypeOK'
<1> DEFINE v == pullPayments[p]
           cents == IF v.initialPaymentAmountInCents > 0
                    THEN v.initialPaymentAmountInCents ELSE v.fiatAmountInCents
<1>1. v \in PullPayment /\ v.numberOfPayments > 0 /\ v.currency \in Currency
  BY DEF executePullPayment, doesPaymentExist, ContractTypeOK, PullPayment
<1>2. cents \in Nat
  BY <1>1 DEF PullPayment
<1>3. calculatePMAFromFiat(cents, v.currency) \in Nat
  BY <1>1, <1>2, PMAIsNat DEF executePullPayment, ContractTypeOK
<1>4. TransferFrom(p, calculatePMAFromFiat(cents, v.currency))
  BY DEF executePullPayment
<1>5. balances' \in [Account -> Nat] /\ allowed' \in [Client -> Nat]
  BY <1>3, <1>4, TransferTypes
<1>6. pullPayments' \in [Pair -> PullPayment]
  BY <1>1, ExecutedIsPullPayment DEF executePullPayment, ContractTypeOK
<1>7. charged' \in [Pair -> Nat]
  BY <1>2 DEF executePullPayment, ContractTypeOK
<1>. QED
  BY <1>5, <1>6, <1>7 DEF executePullPayment, ContractTypeOK, adminVars

LEMMA OtherStepsType ==
    ASSUME ContractTypeOK,
           \/ \E a \in Operator \cup {None} : transferOwnership(a)
           \/ \E c \in Client, n \in Allowance : approve(c, n) \/ transfer(c, n)
           \/ \E a \in Operator : PayGas(a)
           \/ ReceiveEther \/ NextBlock \/ UNCHANGED contractVars
    PROVE  ContractTypeOK'
<1>1. ASSUME NEW a \in Operator \cup {None}, transferOwnership(a)
      PROVE  ContractTypeOK'
  BY <1>1 DEF transferOwnership, ContractTypeOK, paymentVars, tokenVars
<1>2. ASSUME NEW c \in Client, NEW n \in Allowance, approve(c, n)
      PROVE  ContractTypeOK'
  BY <1>2, ContractAssumption DEF approve, ContractTypeOK, adminVars, paymentVars
<1>3. ASSUME NEW c \in Client, NEW n \in Allowance, transfer(c, n)
      PROVE  ContractTypeOK'
  BY <1>3, ContractAssumption
     DEF transfer, ContractTypeOK, Account, adminVars, paymentVars
<1>4. ASSUME NEW a \in Operator, PayGas(a) PROVE ContractTypeOK'
  BY <1>4 DEF PayGas, ContractTypeOK, adminVars, paymentVars, tokenVars
<1>5. CASE ReceiveEther
  BY <1>5 DEF ReceiveEther, ContractTypeOK, adminVars, paymentVars, tokenVars
<1>6. CASE NextBlock
  BY <1>6 DEF NextBlock, ContractTypeOK, adminVars, paymentVars, tokenVars
<1>7. CASE UNCHANGED contractVars
  BY <1>7 DEF contractVars, ContractTypeOK, adminVars, paymentVars, tokenVars
<1>. QED
  BY <1>1, <1>2, <1>3, <1>4, <1>5, <1>6, <1>7

(* Every variable of the contract keeps its type: in particular no balance, *)
(* allowance or sum of ether ever becomes negative.                         *)
THEOREM ContractTypesAlwaysOK == ContractSpec => []ContractTypeOK
<1>1. ContractTypeOK /\ [ContractNext]_contractVars => ContractTypeOK'
  BY OwnerCallsType, ExecutorCallsType, ExecutionType, OtherStepsType DEF ContractNext
<1>. QED
  BY <1>1, InitTypes, PTL DEF ContractSpec

-----------------------------------------------------------------------------
(* 3. The schedule, the amounts and the limits in time.                     *)

\* The date of the last regular payment made under terms t, m being made.
LastDue(t, m) == t.startTimestamp + (m - 1) * t.frequency

(* What struct v, registered with terms t, and the cents c charged since    *)
(* have in common at time clock.                                            *)
Matches(v, t) ==
    /\ v.fiatAmountInCents = t.fiatAmountInCents
    /\ v.frequency = t.frequency
    /\ v.startTimestamp = t.startTimestamp
    /\ v.numberOfPayments <= t.numberOfPayments
    /\ v.initialPaymentAmountInCents \in {0, t.initialPaymentAmountInCents}
    /\ v.initialPaymentAmountInCents > 0 => v.numberOfPayments = t.numberOfPayments

Charges(v, t, c) ==
    c = (t.numberOfPayments - v.numberOfPayments) * t.fiatAmountInCents
        + IF v.initialPaymentAmountInCents = 0
          THEN t.initialPaymentAmountInCents ELSE 0

Dates(v, t, clock) ==
    LET m == t.numberOfPayments - v.numberOfPayments
    IN  /\ v.lastPaymentTimestamp <= clock
        /\ Fits(t) => v.nextPaymentTimestamp = t.startTimestamp + m * t.frequency
        /\ Fits(t) /\ m > 0 =>
              /\ LastDue(t, m) <= v.lastPaymentTimestamp
              /\ v.cancelTimestamp = 0 \/ LastDue(t, m) <= v.cancelTimestamp

PaymentInv(v, t, c, clock) ==
    IF t = None THEN v = NoPullPayment
    ELSE Matches(v, t) /\ Charges(v, t, c) /\ Dates(v, t, clock)

ContractInv ==
    /\ ContractTypeOK
    /\ \A p \in Pair : PaymentInv(pullPayments[p], agreed[p], charged[p], now)

\* Only time passes.
LEMMA TimeKeepsPayment ==
    ASSUME NEW v \in PullPayment, NEW t \in Terms \cup {None}, NEW c \in Nat,
           NEW clock \in Nat, NEW later \in Nat, clock <= later,
           PaymentInv(v, t, c, clock)
    PROVE  PaymentInv(v, t, c, later)
BY DEF PaymentInv, Dates, PullPayment

LEMMA RegistrationStartsPayment ==
    ASSUME NEW v \in PullPayment, NEW t \in Terms, NEW id \in PaymentID,
           NEW clock \in Nat
    PROVE  PaymentInv(Registered(t, id, v), t, 0, clock)
<1> DEFINE w == Registered(t, id, v)
<1>1. t \in TermsType /\ t # None
  BY TermsFields
<1>2. /\ w.fiatAmountInCents = t.fiatAmountInCents
      /\ w.frequency = t.frequency
      /\ w.startTimestamp = t.startTimestamp
      /\ w.numberOfPayments = t.numberOfPayments
      /\ w.initialPaymentAmountInCents = t.initialPaymentAmountInCents
      /\ w.nextPaymentTimestamp = t.startTimestamp
      /\ w.lastPaymentTimestamp = 0
  BY <1>1 DEF Registered, PullPayment
<1> HIDE DEF w
<1>3. Matches(w, t)
  BY <1>1, <1>2 DEF Matches, TermsType
<1>4. t.numberOfPayments - w.numberOfPayments = 0
  BY <1>1, <1>2 DEF TermsType
<1>5. Charges(w, t, 0)
  BY <1>1, <1>2, <1>4 DEF Charges, TermsType
<1>6. Dates(w, t, clock)
  BY <1>1, <1>2, <1>4 DEF Dates, TermsType
<1>. QED
  BY <1>1, <1>3, <1>5, <1>6 DEF PaymentInv, w

LEMMA DeletionKeepsPayment ==
    ASSUME NEW v \in PullPayment, NEW t \in Terms \cup {None}, NEW c \in Nat,
           NEW clock \in Nat, PaymentInv(v, t, c, clock), v.numberOfPayments > 0
    PROVE  PaymentInv([v EXCEPT !.cancelTimestamp = clock], t, c, clock)
<1> DEFINE w == [v EXCEPT !.cancelTimestamp = clock]
<1>1. t # None /\ t \in TermsType
  BY TermsFields DEF PaymentInv, NoPullPayment
<1>2. /\ w.fiatAmountInCents = v.fiatAmountInCents
      /\ w.frequency = v.frequency
      /\ w.startTimestamp = v.startTimestamp
      /\ w.numberOfPayments = v.numberOfPayments
      /\ w.initialPaymentAmountInCents = v.initialPaymentAmountInCents
      /\ w.nextPaymentTimestamp = v.nextPaymentTimestamp
      /\ w.lastPaymentTimestamp = v.lastPaymentTimestamp
      /\ w.cancelTimestamp = clock
  BY DEF PullPayment
<1> HIDE DEF w
<1>3. Matches(w, t) /\ Charges(w, t, c)
  BY <1>1, <1>2 DEF PaymentInv, Matches, Charges
<1>4. Dates(w, t, clock)
  <2> DEFINE due == LastDue(t, t.numberOfPayments - v.numberOfPayments)
  <2>1. due \in Int /\ v.lastPaymentTimestamp \in Nat
    BY <1>1 DEF LastDue, TermsType, PullPayment
  <2>2. Dates(v, t, clock)
    BY <1>1 DEF PaymentInv
  <2>. QED
    BY <1>2, <2>1, <2>2 DEF Dates
<1>. QED
  BY <1>1, <1>3, <1>4 DEF PaymentInv, w

LEMMA InitialKeepsPayment ==
    ASSUME NEW v \in PullPayment, NEW t \in Terms \cup {None}, NEW c \in Nat,
           now \in Nat, PaymentInv(v, t, c, now), v.numberOfPayments > 0,
           v.initialPaymentAmountInCents > 0
    PROVE  PaymentInv(AfterExecution(v), t, c + v.initialPaymentAmountInCents, now)
<1> DEFINE w == AfterExecution(v)
<1>1. t # None /\ t \in TermsType
  BY TermsFields DEF PaymentInv, NoPullPayment
<1>2. w = [v EXCEPT !.initialPaymentAmountInCents = 0, !.lastPaymentTimestamp = now]
  BY DEF AfterExecution
<1>3. /\ w.fiatAmountInCents = v.fiatAmountInCents
      /\ w.frequency = v.frequency
      /\ w.startTimestamp = v.startTimestamp
      /\ w.numberOfPayments = v.numberOfPayments
      /\ w.initialPaymentAmountInCents = 0
      /\ w.nextPaymentTimestamp = v.nextPaymentTimestamp
      /\ w.lastPaymentTimestamp = now
      /\ w.cancelTimestamp = v.cancelTimestamp
  BY <1>2 DEF PullPayment
<1> HIDE DEF w
<1>4. /\ Matches(v, t) /\ Charges(v, t, c) /\ Dates(v, t, now)
  BY <1>1 DEF PaymentInv
<1>5. /\ v.initialPaymentAmountInCents = t.initialPaymentAmountInCents
      /\ v.numberOfPayments = t.numberOfPayments
      /\ t.numberOfPayments - v.numberOfPayments = 0
  BY <1>1, <1>4 DEF Matches, PullPayment, TermsType
<1>6. Matches(w, t)
  BY <1>3, <1>4, <1>1 DEF Matches, TermsType
<1>7. Charges(w, t, c + v.initialPaymentAmountInCents)
  BY <1>1, <1>3, <1>4, <1>5 DEF Charges, TermsType
<1>8. Dates(w, t, now)
  BY <1>1, <1>3, <1>4, <1>5 DEF Dates, TermsType
<1>. QED
  BY <1>1, <1>6, <1>7, <1>8 DEF PaymentInv, w

\* The next date of a schedule that fits: the addition does not wrap.
LEMMA NextDateFits ==
    ASSUME NEW t \in TermsType, Fits(t), NEW m \in Nat, m < t.numberOfPayments
    PROVE  (t.startTimestamp + m * t.frequency + t.frequency) % Modulus
              = t.startTimestamp + (m + 1) * t.frequency
<1>1. m + 1 \in Nat /\ m + 1 <= t.numberOfPayments
  BY DEF TermsType
<1>2. (m + 1) * t.frequency <= t.numberOfPayments * t.frequency
  BY <1>1, ProductGrows DEF TermsType
<1>3. t.startTimestamp + m * t.frequency + t.frequency
         = t.startTimestamp + (m + 1) * t.frequency
  BY DEF TermsType
<1> DEFINE next == t.startTimestamp + (m + 1) * t.frequency
<1>4. next \in Nat /\ next < Modulus
  <2>1. /\ t.startTimestamp \in Nat
        /\ (m + 1) * t.frequency \in Nat
        /\ t.numberOfPayments * t.frequency \in Nat
    BY <1>1 DEF TermsType
  <2>. QED
    BY <1>2, <2>1, ContractAssumption DEF Fits
<1>5. Modulus \in Nat \ {0}
  BY ContractAssumption
<1> HIDE DEF next
<1>6. next % Modulus = next
  BY <1>4, <1>5, NoWrap
<1>. QED
  BY <1>3, <1>6 DEF next

LEMMA RegularKeepsPayment ==
    ASSUME NEW v \in PullPayment, NEW t \in Terms \cup {None}, NEW c \in Nat,
           now \in Nat, PaymentInv(v, t, c, now), v.numberOfPayments > 0,
           ~(v.initialPaymentAmountInCents > 0), isValidPullPaymentRequest(v)
    PROVE  PaymentInv(AfterExecution(v), t, c + v.fiatAmountInCents, now)
<1> DEFINE w == AfterExecution(v)
           m == t.numberOfPayments - v.numberOfPayments
<1>1. t # None /\ t \in TermsType
  BY TermsFields DEF PaymentInv, NoPullPayment
<1>2. w = [v EXCEPT !.nextPaymentTimestamp =
                        (v.nextPaymentTimestamp + v.frequency) % Modulus,
                    !.numberOfPayments = v.numberOfPayments - 1,
                    !.lastPaymentTimestamp = now]
  BY DEF AfterExecution
<1>3. /\ w.fiatAmountInCents = v.fiatAmountInCents
      /\ w.frequency = v.frequency
      /\ w.startTimestamp = v.startTimestamp
      /\ w.numberOfPayments = v.numberOfPayments - 1
      /\ w.initialPaymentAmountInCents = v.initialPaymentAmountInCents
      /\ w.nextPaymentTimestamp = (v.nextPaymentTimestamp + v.frequency) % Modulus
      /\ w.lastPaymentTimestamp = now
      /\ w.cancelTimestamp = v.cancelTimestamp
  BY <1>2 DEF PullPayment
<1> HIDE DEF w
<1>4. Matches(v, t) /\ Charges(v, t, c) /\ Dates(v, t, now)
  BY <1>1 DEF PaymentInv
<1>5. /\ v.initialPaymentAmountInCents = 0
      /\ m \in Nat /\ m < t.numberOfPayments
      /\ t.numberOfPayments - w.numberOfPayments = m + 1
  BY <1>1, <1>3, <1>4 DEF Matches, PullPayment, TermsType
<1>6. Matches(w, t)
  BY <1>1, <1>3, <1>4, <1>5 DEF Matches, PullPayment, TermsType
<1>7. Charges(w, t, c + v.fiatAmountInCents)
  <2>1. c = m * t.fiatAmountInCents + t.initialPaymentAmountInCents
    BY <1>4, <1>5 DEF Charges
  <2>2. (m + 1) * t.fiatAmountInCents = m * t.fiatAmountInCents + t.fiatAmountInCents
    BY <1>1, <1>5 DEF TermsType
  <2>3. v.fiatAmountInCents = t.fiatAmountInCents
    BY <1>4 DEF Matches
  <2>4. /\ m * t.fiatAmountInCents \in Nat /\ t.fiatAmountInCents \in Nat
        /\ t.initialPaymentAmountInCents \in Nat
    BY <1>1, <1>5 DEF TermsType
  <2> HIDE DEF m
  <2>. QED
    BY <1>3, <1>5, <2>1, <2>2, <2>3, <2>4 DEF Charges
<1>8. Dates(w, t, now)
  <2>1. CASE Fits(t)
    <3>1. /\ v.nextPaymentTimestamp = t.startTimestamp + m * t.frequency
          /\ v.frequency = t.frequency
      BY <1>4, <2>1 DEF Dates, Matches
    <3>2. w.nextPaymentTimestamp = t.startTimestamp + (m + 1) * t.frequency
      BY <1>1, <1>3, <1>5, <2>1, <3>1, NextDateFits
    <3>3. LastDue(t, m + 1) = v.nextPaymentTimestamp
      BY <1>1, <1>5, <3>1 DEF LastDue, TermsType
    <3>4. /\ v.nextPaymentTimestamp <= now
          /\ v.cancelTimestamp = 0 \/ v.nextPaymentTimestamp <= v.cancelTimestamp
      BY <1>5 DEF isValidPullPaymentRequest, PullPayment
    <3> HIDE DEF m
    <3>. QED
      BY <1>3, <1>5, <3>2, <3>3, <3>4 DEF Dates
  <2>2. CASE ~Fits(t)
    BY <1>3, <2>2 DEF Dates
  <2>. QED
    BY <2>1, <2>2
<1>. QED
  BY <1>1, <1>6, <1>7, <1>8 DEF PaymentInv, w

LEMMA ContractInvInit == ContractInit => ContractInv
BY InitTypes DEF ContractInit, ContractInv, PaymentInv

\* A step that leaves pull payments alone and the clock does not run back.
LEMMA PaymentsKept ==
    ASSUME ContractInv, ContractTypeOK', now <= now',
           UNCHANGED paymentVars
    PROVE  ContractInv'
<1>1. ASSUME NEW p \in Pair
      PROVE  PaymentInv(pullPayments'[p], agreed'[p], charged'[p], now')
  <2>1. /\ pullPayments[p] \in PullPayment /\ agreed[p] \in Terms \cup {None}
        /\ charged[p] \in Nat /\ now \in Nat /\ now' \in Nat
    BY DEF ContractInv, ContractTypeOK
  <2>2. PaymentInv(pullPayments[p], agreed[p], charged[p], now)
    BY DEF ContractInv
  <2>. QED
    BY <2>1, <2>2, TimeKeepsPayment DEF paymentVars
<1>. QED
  BY <1>1 DEF ContractInv

\* A step that changes one pull payment and keeps the clock.
LEMMA OnePayment ==
    ASSUME ContractInv, ContractTypeOK', UNCHANGED now, NEW p \in Pair,
           \A q \in Pair \ {p} : /\ pullPayments'[q] = pullPayments[q]
                                 /\ agreed'[q] = agreed[q]
                                 /\ charged'[q] = charged[q],
           PaymentInv(pullPayments'[p], agreed'[p], charged'[p], now)
    PROVE  ContractInv'
<1>1. ASSUME NEW q \in Pair
      PROVE  PaymentInv(pullPayments'[q], agreed'[q], charged'[q], now')
  <2>1. CASE q = p
    BY <2>1
  <2>2. CASE q # p
    BY <2>2 DEF ContractInv
  <2>. QED
    BY <2>1, <2>2
<1>. QED
  BY <1>1 DEF ContractInv

LEMMA ExecutorCallsKeepInv ==
    ASSUME ContractInv, NEW x \in Operator, ExecutorCalls(x)
    PROVE  ContractInv'
<1>0. ContractTypeOK /\ ContractTypeOK'
  BY ExecutorCallsType DEF ContractInv
<1>1. ASSUME NEW p \in Pair, NEW t \in Terms, NEW id \in PaymentID,
             registerPullPayment(x, p, t, id)
      PROVE  ContractInv'
  <2>1. /\ pullPayments' = [pullPayments EXCEPT ![p] = Registered(t, id, pullPayments[p])]
        /\ agreed' = [agreed EXCEPT ![p] = t]
        /\ charged' = [charged EXCEPT ![p] = 0]
        /\ UNCHANGED now
    BY <1>1 DEF registerPullPayment
  <2>2. PaymentInv(Registered(t, id, pullPayments[p]), t, 0, now)
    BY <1>0, RegistrationStartsPayment DEF ContractTypeOK
  <2>. QED
    BY <1>0, <2>1, <2>2, OnePayment DEF ContractTypeOK
<1>2. ASSUME NEW p \in Pair, deletePullPayment(x, p) PROVE ContractInv'
  <2>1. /\ pullPayments' = [pullPayments EXCEPT
                    ![p] = [pullPayments[p] EXCEPT !.cancelTimestamp = now]]
        /\ UNCHANGED <<agreed, charged, now>>
        /\ pullPayments[p].numberOfPayments > 0
    BY <1>2 DEF deletePullPayment, doesPaymentExist
  <2>2. /\ pullPayments[p] \in PullPayment /\ agreed[p] \in Terms \cup {None}
        /\ charged[p] \in Nat /\ now \in Nat
    BY <1>0 DEF ContractTypeOK
  <2>3. PaymentInv([pullPayments[p] EXCEPT !.cancelTimestamp = now],
                   agreed[p], charged[p], now)
    BY <2>1, <2>2, DeletionKeepsPayment DEF ContractInv
  <2>. QED
    BY <1>0, <2>1, <2>3, OnePayment DEF ContractTypeOK
<1>. QED
  BY <1>1, <1>2 DEF ExecutorCalls

LEMMA ExecutionKeepsInv ==
    ASSUME ContractInv, NEW p \in Pair, NEW id \in PaymentID,
           executePullPayment(p, id)
    PROVE  ContractInv'
<1> DEFINE v == pullPayments[p]
           cents == IF v.initialPaymentAmountInCents > 0
                    THEN v.initialPaymentAmountInCents ELSE v.fiatAmountInCents
<1>0. ContractTypeOK /\ ContractTypeOK'
  BY ExecutionType DEF ContractInv
<1>1. /\ pullPayments' = [pullPayments EXCEPT ![p] = AfterExecution(v)]
      /\ charged' = [charged EXCEPT ![p] = charged[p] + cents]
      /\ UNCHANGED <<agreed, now>>
      /\ v.numberOfPayments > 0 /\ isValidPullPaymentRequest(v)
  BY DEF executePullPayment, doesPaymentExist
<1>2. /\ v \in PullPayment /\ agreed[p] \in Terms \cup {None}
      /\ charged[p] \in Nat /\ now \in Nat
      /\ PaymentInv(v, agreed[p], charged[p], now)
  BY <1>0 DEF ContractInv, ContractTypeOK
<1>3. PaymentInv(AfterExecution(v), agreed[p], charged[p] + cents, now)
  <2>1. CASE v.initialPaymentAmountInCents > 0
    BY <1>1, <1>2, <2>1, InitialKeepsPayment
  <2>2. CASE ~(v.initialPaymentAmountInCents > 0)
    BY <1>1, <1>2, <2>2, RegularKeepsPayment
  <2>. QED
    BY <2>1, <2>2
<1> HIDE DEF cents, v
<1>. QED
  BY <1>0, <1>1, <1>3, OnePayment DEF ContractTypeOK

LEMMA OtherStepsKeepInv ==
    ASSUME ContractInv,
           \/ OwnerCalls
           \/ \E a \in Operator \cup {None} : transferOwnership(a)
           \/ \E c \in Client, n \in Allowance : approve(c, n) \/ transfer(c, n)
           \/ \E a \in Operator : PayGas(a)
           \/ ReceiveEther \/ NextBlock \/ UNCHANGED contractVars
    PROVE  ContractInv'
<1>1. ContractTypeOK /\ ContractTypeOK'
  BY OwnerCallsType, OtherStepsType DEF ContractInv
<1>2. UNCHANGED paymentVars
  BY DEF OwnerCalls, addExecutor, removeExecutor, setRate, transferOwnership,
         approve, transfer, PayGas, ReceiveEther, NextBlock, contractVars
<1>3. now' = now \/ now' = now + 1
  BY DEF OwnerCalls, addExecutor, removeExecutor, setRate, transferOwnership,
         approve, transfer, PayGas, ReceiveEther, NextBlock, contractVars
<1>4. now <= now'
  BY <1>1, <1>3 DEF ContractTypeOK
<1>. QED
  BY <1>1, <1>2, <1>4, PaymentsKept

LEMMA ContractInvInductive ==
    ContractInv /\ [ContractNext]_contractVars => ContractInv'
BY ExecutorCallsKeepInv, ExecutionKeepsInv, OtherStepsKeepInv DEF ContractNext

THEOREM ContractInvariant == ContractSpec => []ContractInv
BY ContractInvInit, ContractInvInductive, PTL DEF ContractSpec

\* What the invariant says of a pair with registered terms.
LEMMA Registration ==
    ASSUME ContractInv, NEW p \in Pair, agreed[p] # None
    PROVE  /\ agreed[p] \in TermsType
           /\ pullPayments[p] \in PullPayment
           /\ Matches(pullPayments[p], agreed[p])
           /\ Charges(pullPayments[p], agreed[p], charged[p])
           /\ Dates(pullPayments[p], agreed[p], now)
BY TermsFields DEF ContractInv, ContractTypeOK, PaymentInv

(* The next date is the start plus one period per regular payment made.     *)
THEOREM PaymentsStayOnSchedule == ContractSpec => []OnSchedule
<1>1. ContractInv => OnSchedule
  BY Registration DEF OnSchedule, Matches, Dates, Made
<1>. QED
  BY <1>1, ContractInvariant, PTL

(* The client is charged the agreed initial amount once and the agreed      *)
(* regular amount once per payment made, whatever the terms.                *)
THEOREM ClientsChargedAsAgreed == ContractSpec => []ChargedAsAgreed
<1>1. ContractInv => ChargedAsAgreed
  BY Registration DEF ChargedAsAgreed, Charges, Made
<1>. QED
  BY <1>1, ContractInvariant, PTL

(* No regular payment is made before its date, nor one whose date is later  *)
(* than the cancellation.                                                   *)
THEOREM PaymentsNeverEarly == ContractSpec => []NeverEarlyNorAfterCancel
<1>1. ContractInv => NeverEarlyNorAfterCancel
  BY Registration DEF NeverEarlyNorAfterCancel, Dates, LastDue, Made
<1>. QED
  BY <1>1, ContractInvariant, PTL

-----------------------------------------------------------------------------
(* 4. Funding of the callers.                                               *)

LEMMA FundingSuffices ==
    ASSUME NEW e \in [Operator \cup {Contract} -> Nat], NEW a \in Operator,
           FundIfNeeded(e, a)
    PROVE  eth'[a] > Minimum
<1>1. /\ e[a] \in Nat /\ OneEther \in Nat /\ Minimum \in Nat
      /\ OneEther > Minimum /\ a # Contract
  BY ContractAssumption
<1>2. CASE isFundingNeeded(e, a)
  <2>1. eth' = SendEther(e, a)
    BY <1>2 DEF FundIfNeeded
  <2>2. eth'[a] = e[a] + OneEther
    BY <1>1, <2>1 DEF SendEther
  <2>. QED
    BY <1>1, <2>2
<1>3. CASE ~isFundingNeeded(e, a)
  BY <1>1, <1>3 DEF FundIfNeeded, isFundingNeeded
<1>. QED
  BY <1>2, <1>3

(* Every call an owner or executor makes leaves the caller with more than   *)
(* the minimum, whatever the callers' and the contract's balances were.     *)
THEOREM CallersAlwaysFunded == ContractSpec => CallersStayFunded
<1> DEFINE Funded == /\ OwnerCalls => eth'[owner] > Minimum
                     /\ \A x \in Operator : ExecutorCalls(x) => eth'[x] > Minimum
<1>1. ASSUME ContractTypeOK PROVE Funded
  <2>0. eth \in [Operator \cup {Contract} -> Nat]
    BY <1>1 DEF ContractTypeOK
  <2>1. ASSUME OwnerCalls PROVE eth'[owner] > Minimum
    <3>1. owner \in Operator
      BY <1>1, <2>1 DEF OwnerCalls, addExecutor, removeExecutor, setRate, ContractTypeOK
    <3>2. PICK e \in [Operator \cup {Contract} -> Nat] : FundIfNeeded(e, owner)
      <4>1. ASSUME NEW x \in Operator, addExecutor(x)
            PROVE  SendEther(eth, x) \in [Operator \cup {Contract} -> Nat]
        BY <2>0, <4>1, ContractAssumption DEF addExecutor, HasEther, SendEther
      <4>. QED
        BY <2>0, <2>1, <4>1 DEF OwnerCalls, addExecutor, removeExecutor, setRate
    <3>. QED
      BY <3>1, <3>2, FundingSuffices
  <2>2. ASSUME NEW x \in Operator, ExecutorCalls(x) PROVE eth'[x] > Minimum
    <3>1. FundIfNeeded(eth, x)
      BY <2>2 DEF ExecutorCalls, registerPullPayment, deletePullPayment
    <3>. QED
      BY <2>0, <3>1, FundingSuffices
  <2>. QED
    BY <2>1, <2>2
<1>2. ContractTypeOK => [Funded]_contractVars
  BY <1>1
<1>. QED
  BY <1>2, ContractTypesAlwaysOK, PTL DEF CallersStayFunded

-----------------------------------------------------------------------------
(* 5. The contract implements PullPaymentAgreement.                         *)

AgreementOf(t, v) ==
    IF t = None THEN None
    ELSE [terms |-> t,
          made |-> t.numberOfPayments - v.numberOfPayments,
          cancelled |-> v.cancelTimestamp,
          initialDue |-> v.initialPaymentAmountInCents > 0]

LEMMA AgreementIs ==
    /\ agreement = [p \in Pair |-> AgreementOf(agreed[p], pullPayments[p])]
    /\ agreement' = [p \in Pair |-> AgreementOf(agreed'[p], pullPayments'[p])]
BY DEF agreement, AgreementOf, Made

\* A step that changes the agreement of one pair.
LEMMA OneAgreement ==
    ASSUME NEW p \in Pair, NEW a, a = AgreementOf(agreed'[p], pullPayments'[p]),
           \A q \in Pair \ {p} : /\ pullPayments'[q] = pullPayments[q]
                                 /\ agreed'[q] = agreed[q]
    PROVE  agreement' = [agreement EXCEPT ![p] = a]
BY AgreementIs

LEMMA RegisterAgrees ==
    ASSUME ContractInv, NEW x \in Operator, NEW p \in Pair, NEW t \in Terms,
           NEW id \in PaymentID, registerPullPayment(x, p, t, id)
    PROVE  Agreement!Agree(p, t)
<1> DEFINE w == Registered(t, id, pullPayments[p])
<1>1. /\ pullPayments' = [pullPayments EXCEPT ![p] = w]
      /\ agreed' = [agreed EXCEPT ![p] = t]
      /\ UNCHANGED now
  BY DEF registerPullPayment
<1>2. /\ pullPayments'[p] = w /\ agreed'[p] = t
      /\ \A q \in Pair \ {p} : /\ pullPayments'[q] = pullPayments[q]
                               /\ agreed'[q] = agreed[q]
  BY <1>1 DEF ContractInv, ContractTypeOK
<1>3. /\ w.numberOfPayments = t.numberOfPayments
      /\ w.cancelTimestamp = 0
      /\ w.initialPaymentAmountInCents = t.initialPaymentAmountInCents
      /\ t.numberOfPayments - t.numberOfPayments = 0 /\ t # None
  BY TermsFields DEF Registered, ContractInv, ContractTypeOK, PullPayment, TermsType
<1> HIDE DEF w
<1>4. AgreementOf(t, w) = [terms |-> t, made |-> 0, cancelled |-> 0,
                           initialDue |-> t.initialPaymentAmountInCents > 0]
  BY <1>3 DEF AgreementOf
<1>. QED
  BY <1>1, <1>2, <1>4, OneAgreement DEF Agreement!Agree

\* A pull payment that can be executed or deleted is an open agreement.
LEMMA PaymentIsOpen ==
    ASSUME ContractInv, NEW p \in Pair, doesPaymentExist(pullPayments[p])
    PROVE  /\ agreed[p] # None
           /\ Agreement!Open(p)
           /\ agreement[p] = AgreementOf(agreed[p], pullPayments[p])
           /\ Made(p) \in Nat
           /\ agreement[p] = [terms |-> agreed[p], made |-> Made(p),
                  cancelled |-> pullPayments[p].cancelTimestamp,
                  initialDue |-> pullPayments[p].initialPaymentAmountInCents > 0]
<1>1. agreed[p] # None
  BY DEF doesPaymentExist, ContractInv, PaymentInv, NoPullPayment
<1>2. agreement[p] = AgreementOf(agreed[p], pullPayments[p])
  BY AgreementIs
<1>3. agreement[p] = [terms |-> agreed[p], made |-> Made(p),
                      cancelled |-> pullPayments[p].cancelTimestamp,
                      initialDue |-> pullPayments[p].initialPaymentAmountInCents > 0]
  BY <1>1, <1>2 DEF AgreementOf, Made
<1>4. Made(p) \in Nat /\ Made(p) < agreed[p].numberOfPayments
  BY <1>1, Registration DEF Made, Matches, doesPaymentExist, PullPayment, TermsType
<1>5. agreement[p] # None
  <2>1. pullPayments[p] \in PullPayment /\ agreed[p] \in TermsType
    BY <1>1, Registration
  <2>2. agreement[p] \in AgreementType
    BY <1>3, <1>4, <2>1 DEF AgreementType, PullPayment
  <2>. QED
    BY <2>2, ContractAssumption
<1>. QED
  BY <1>1, <1>2, <1>3, <1>4, <1>5 DEF Agreement!Open

LEMMA DeleteCancels ==
    ASSUME ContractInv, NEW x \in Operator, NEW p \in Pair, deletePullPayment(x, p)
    PROVE  Agreement!Cancel(p)
<1> DEFINE v == pullPayments[p]
           w == [v EXCEPT !.cancelTimestamp = now]
<1>1. /\ pullPayments' = [pullPayments EXCEPT ![p] = w]
      /\ UNCHANGED <<agreed, now>>
      /\ v.cancelTimestamp = 0 /\ doesPaymentExist(v)
  BY DEF deletePullPayment
<1>2. /\ pullPayments'[p] = w /\ agreed'[p] = agreed[p]
      /\ \A q \in Pair \ {p} : /\ pullPayments'[q] = pullPayments[q]
                               /\ agreed'[q] = agreed[q]
  BY <1>1 DEF ContractInv, ContractTypeOK
<1>3. /\ w.numberOfPayments = v.numberOfPayments
      /\ w.cancelTimestamp = now
      /\ w.initialPaymentAmountInCents = v.initialPaymentAmountInCents
  BY DEF ContractInv, ContractTypeOK, PullPayment
<1> HIDE DEF w
<1> DEFINE due == v.initialPaymentAmountInCents > 0
<1>4. /\ agreed[p] # None /\ Agreement!Open(p)
      /\ agreement[p] = [terms |-> agreed[p], made |-> Made(p),
                         cancelled |-> v.cancelTimestamp, initialDue |-> due]
  BY <1>1, PaymentIsOpen
<1>5. AgreementOf(agreed[p], w) = [terms |-> agreed[p], made |-> Made(p),
                                   cancelled |-> now, initialDue |-> due]
  BY <1>3, <1>4 DEF AgreementOf, Made
<1> HIDE DEF due
<1>7. /\ AgreementOf(agreed[p], w) = [agreement[p] EXCEPT !.cancelled = now]
      /\ agreement[p].cancelled = 0
  BY <1>1, <1>4, <1>5
<1>6. agreement' = [agreement EXCEPT ![p] = [agreement[p] EXCEPT !.cancelled = now]]
  BY <1>2, <1>7, OneAgreement
<1>. QED
  BY <1>1, <1>4, <1>6, <1>7 DEF Agreement!Cancel

LEMMA ExecuteCollects ==
    ASSUME ContractInv, \A t \in Terms : Fits(t), NEW p \in Pair,
           NEW id \in PaymentID, executePullPayment(p, id)
    PROVE  Agreement!CollectInitial(p) \/ Agreement!CollectRegular(p)
<1> DEFINE v == pullPayments[p]
           w == AfterExecution(v)
           t == agreed[p]
<1>1. /\ pullPayments' = [pullPayments EXCEPT ![p] = w]
      /\ UNCHANGED <<agreed, now>>
      /\ doesPaymentExist(v) /\ isValidPullPaymentRequest(v)
  BY DEF executePullPayment
<1>2. /\ pullPayments'[p] = w /\ agreed'[p] = t
      /\ \A q \in Pair \ {p} : /\ pullPayments'[q] = pullPayments[q]
                               /\ agreed'[q] = agreed[q]
  BY <1>1 DEF ContractInv, ContractTypeOK
<1>3. /\ t # None /\ Agreement!Open(p) /\ Made(p) \in Nat
      /\ agreement[p] = [terms |-> t, made |-> Made(p),
                         cancelled |-> v.cancelTimestamp,
                         initialDue |-> v.initialPaymentAmountInCents > 0]
  BY <1>1, PaymentIsOpen
<1>4. Fits(t) /\ t \in TermsType /\ v \in PullPayment
  BY <1>3, Registration DEF ContractInv, ContractTypeOK
<1>5. Agreement!DueDate(agreement[p]) = v.nextPaymentTimestamp
  BY <1>3, <1>4, Registration DEF Agreement!DueDate, Dates, Made
<1>6. Agreement!InForce(agreement[p])
  BY <1>1, <1>3, <1>4, <1>5 DEF Agreement!InForce, isValidPullPaymentRequest, PullPayment
<1>7. CASE v.initialPaymentAmountInCents > 0
  <2>1. w = [v EXCEPT !.initialPaymentAmountInCents = 0, !.lastPaymentTimestamp = now]
    BY <1>7 DEF AfterExecution
  <2>2. /\ w.numberOfPayments = v.numberOfPayments
        /\ w.cancelTimestamp = v.cancelTimestamp
        /\ ~(w.initialPaymentAmountInCents > 0)
    BY <1>4, <2>1 DEF PullPayment
  <2> HIDE DEF w
  <2>3. AgreementOf(t, w) = [agreement[p] EXCEPT !.initialDue = FALSE]
    <3>1. (w.initialPaymentAmountInCents > 0) = FALSE
      BY <2>2
    <3>2. AgreementOf(t, w) = [terms |-> t, made |-> Made(p),
                               cancelled |-> v.cancelTimestamp, initialDue |-> FALSE]
      BY <1>3, <2>2, <3>1 DEF AgreementOf, Made
    <3> DEFINE due == v.initialPaymentAmountInCents > 0
    <3>3. agreement[p] = [terms |-> t, made |-> Made(p),
                          cancelled |-> v.cancelTimestamp, initialDue |-> due]
      BY <1>3
    <3>4. \A new : [[terms |-> t, made |-> Made(p), cancelled |-> v.cancelTimestamp,
                     initialDue |-> due] EXCEPT !.initialDue = new]
                   = [terms |-> t, made |-> Made(p), cancelled |-> v.cancelTimestamp,
                      initialDue |-> new]
      <4> HIDE DEF due
      <4>. QED
        OBVIOUS
    <3> HIDE DEF due
    <3>. QED
      BY ONLY <3>2, <3>3, <3>4, Zenon
  <2>4. agreement' = [agreement EXCEPT ![p] = [agreement[p] EXCEPT !.initialDue = FALSE]]
    BY <1>2, <2>3, OneAgreement
  <2>5. agreement[p].initialDue
    <3>1. agreement[p].initialDue = (v.initialPaymentAmountInCents > 0)
      BY <1>3
    <3>. QED
      BY <1>7, <3>1
  <2>. QED
    BY <1>1, <1>3, <1>6, <2>4, <2>5 DEF Agreement!CollectInitial
<1>8. CASE ~(v.initialPaymentAmountInCents > 0)
  <2>1. w = [v EXCEPT !.nextPaymentTimestamp =
                          (v.nextPaymentTimestamp + v.frequency) % Modulus,
                      !.numberOfPayments = v.numberOfPayments - 1,
                      !.lastPaymentTimestamp = now]
    BY <1>8 DEF AfterExecution
  <2>2. /\ w.numberOfPayments = v.numberOfPayments - 1
        /\ w.cancelTimestamp = v.cancelTimestamp
        /\ w.initialPaymentAmountInCents = v.initialPaymentAmountInCents
    BY <1>4, <2>1 DEF PullPayment
  <2>3. t.numberOfPayments - w.numberOfPayments = Made(p) + 1
    BY <1>4, <2>2 DEF Made, PullPayment, TermsType
  <2> HIDE DEF w
  <2>4. AgreementOf(t, w) = [agreement[p] EXCEPT !.made = Made(p) + 1]
    BY <1>3, <2>2, <2>3 DEF AgreementOf
  <2>5. agreement[p].made = Made(p)
    BY <1>3
  <2>6. agreement' = [agreement EXCEPT ![p] =
                         [agreement[p] EXCEPT !.made = agreement[p].made + 1]]
    BY <1>2, <2>4, <2>5, OneAgreement
  <2>7. Agreement!DueDate(agreement[p]) <= now
    BY <1>1, <1>4, <1>5, <1>8
       DEF isValidPullPaymentRequest, PullPayment, ContractInv, ContractTypeOK
  <2>8. ~agreement[p].initialDue
    <3>1. agreement[p].initialDue = (v.initialPaymentAmountInCents > 0)
      BY <1>3
    <3>. QED
      BY <1>8, <3>1
  <2>. QED
    BY <1>1, <1>3, <1>6, <2>6, <2>7, <2>8 DEF Agreement!CollectRegular
<1>. QED
  BY <1>7, <1>8

LEMMA OtherStepsPass ==
    ASSUME ContractInv,
           \/ OwnerCalls
           \/ \E a \in Operator \cup {None} : transferOwnership(a)
           \/ \E c \in Client, n \in Allowance : approve(c, n) \/ transfer(c, n)
           \/ \E a \in Operator : PayGas(a)
           \/ ReceiveEther \/ NextBlock \/ UNCHANGED contractVars
    PROVE  Agreement!Pass \/ UNCHANGED <<now, agreement>>
<1>1. UNCHANGED <<pullPayments, agreed>>
  BY DEF OwnerCalls, addExecutor, removeExecutor, setRate, transferOwnership,
         approve, transfer, PayGas, ReceiveEther, NextBlock, contractVars, paymentVars
<1>2. now' = now \/ now' = now + 1
  BY DEF OwnerCalls, addExecutor, removeExecutor, setRate, transferOwnership,
         approve, transfer, PayGas, ReceiveEther, NextBlock, contractVars
<1>3. UNCHANGED agreement
  BY <1>1, AgreementIs
<1>4. now \in Nat
  BY DEF ContractInv, ContractTypeOK
<1>. QED
  BY <1>2, <1>3, <1>4 DEF Agreement!Pass

(* If the dates of all signed schedules fit in a uint256 the contract       *)
(* implements the promise of PullPaymentAgreement.                          *)
THEOREM ContractKeepsAgreement ==
    ASSUME \A t \in Terms : Fits(t)
    PROVE  ContractSpec => KeepsAgreement
<1>1. ContractInit => Agreement!AgreementInit
  BY AgreementIs DEF ContractInit, Agreement!AgreementInit, AgreementOf
<1>2. ContractInv /\ [ContractNext]_contractVars
         => [Agreement!AgreementNext]_(Agreement!agreementVars)
  <2> SUFFICES ASSUME ContractInv, [ContractNext]_contractVars
               PROVE  [Agreement!AgreementNext]_(Agreement!agreementVars)
    OBVIOUS
  <2>1. ASSUME NEW x \in Operator, ExecutorCalls(x)
        PROVE  Agreement!AgreementNext
    BY <2>1, RegisterAgrees, DeleteCancels DEF ExecutorCalls, Agreement!AgreementNext
  <2>2. ASSUME NEW p \in Pair, NEW id \in PaymentID, executePullPayment(p, id)
        PROVE  Agreement!AgreementNext
    BY <2>2, ExecuteCollects DEF Agreement!AgreementNext
  <2>. QED
    BY <2>1, <2>2, OtherStepsPass
       DEF ContractNext, Agreement!AgreementNext, Agreement!agreementVars
<1>. QED
  BY <1>1, <1>2, ContractInvariant, PTL
     DEF ContractSpec, KeepsAgreement, Agreement!AgreementSpec
=============================================================================
