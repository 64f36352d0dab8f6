CONSTANTS
    PullPaymentID = {p1}
    NoID = NoID
    MayThrow = FALSE
    Burst = 3
    QueueLimit = 9
    Payments = 2
    Period = 1
    NumberOfPayments <- MCNumberOfPayments
    StartTimestamp <- MCStartTimestamp
    Frequency <- MCFrequency
    StartWindow = 2
    AwaitCallback = FALSE
    Prompt = TRUE
    MaxTasks = 3
    MaxTime = 7
    MaxStops = 2
    LastCall = 3
    MaxRestarts = 2
SPECIFICATION SequentialSpec
INVARIANTS LedgersAgree OneTimer StopStops RestartedOnce
PROPERTIES StartWithinWindowPays QueueDrains AllPaymentsCollected DoneUntilStopped
CHECK_DEADLOCK FALSE
