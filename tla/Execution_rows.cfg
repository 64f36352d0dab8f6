CONSTANTS
    Payment = {p}
    NoPayment = NoPayment
    NumberOfPayments <- MCNumberOfPayments
    WithInitial <- MCWithInitial
    automatedCashOut <- MCAutomated
    cashOutFrequency <- MCFrequency
    MaxExecutions = 1
    MaxOverlap = 2
    Payments = 1
    Initial = {}
SPECIFICATION FairExecutionSpec
CHECK_DEADLOCK FALSE
PROPERTY EveryRowSettles
