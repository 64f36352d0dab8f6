CONSTANTS
    PullPaymentID = {p1}
    NoID = NoID
    MayThrow = FALSE
    Burst = 3
    QueueLimit = 9
    Payments = 2
    Period = 2
    NumberOfPayments <- MCNumberOfPayments
    StartTimestamp <- MCStartTimestamp
    Frequency <- MCFrequency
    StartWindow = 2
    AwaitCallback = FALSE
    Prompt = TRUE
    MaxTasks = 3
    MaxTime = 7
    MaxStops = 2
    LastCall = 2
    MaxRestarts = 2
SPECIFICATION SequentialSpec
INVARIANT AllPaymentsCounted
CHECK_DEADLOCK FALSE
