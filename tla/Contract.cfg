SPECIFICATION ContractSpec
CONSTANTS
    usd = usd
    Client = {c}
    Beneficiary = {b}
    Operator = {o}
    FirstOwner = o
    Contract = contract
    PaymentID = {i, j}
    Currency = {usd}
    None = None
    Terms <- TwoTerms
    Rate = {1}
    Unit = 1
    FIAT_TO_CENT_FIXER = 1
    OneEther = 2
    Minimum = 1
    InitialEther = 2
    InitialTokens = 3
    Allowance = {2, 4}
    Modulus = 8
    MaxEther = 2
    MaxTime = 5
INVARIANTS
    ContractTypeOK
    OnSchedule
    ChargedAsAgreed
    NeverEarlyNorAfterCancel
PROPERTY
    CallersStayFunded
    KeepsAgreement
