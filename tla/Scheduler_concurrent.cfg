CONSTANTS
    PullPaymentID = {p1}
    NoID = NoID
    MayThrow = TRUE
    Burst = 3
    QueueLimit = 9
    Payments = 2
    Period = 1
    NumberOfPayments <- MCNumberOfPayments
    StartTimestamp <- MCStartTimestamp
    Frequency <- MCFrequency
    StartWindow = 2
    AwaitCallback = TRUE
    Prompt = TRUE
    MaxTasks = 3
    MaxTime = 3
    MaxStops = 1
    LastCall = 2
    MaxRestarts = 2
SPECIFICATION Spec
INVARIANTS TypeOK NoPaymentForgotten RestartIsExclusive
CHECK_DEADLOCK FALSE
