CONSTANTS
    Payment = {p, q}
    NoPayment = NoPayment
    NumberOfPayments <- MCNumberOfPayments
    WithInitial <- MCWithInitial
    automatedCashOut <- MCAutomated
    cashOutFrequency <- MCFrequency
    MaxExecutions = 3
    MaxOverlap = 2
    Payments = 1
    Initial = {p}
SPECIFICATION ExecutionSpec
CONSTRAINT OneAtATime
CHECK_DEADLOCK FALSE
INVARIANTS ExecutionTypeOK RecordNeverBehind RowsTellTruth EtherLastsToTheEnd StrandedOnlyBySkip
PROPERTY DoneForGood
