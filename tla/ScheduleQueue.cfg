CONSTANTS
    PullPaymentID = {p1, p2}
    NoID = NoID
    MayThrow = FALSE
    Burst = 2
    QueueLimit = 5
SPECIFICATION QueueSpec
INVARIANT DripsMatchQueue
PROPERTIES ExecutionsDoNotOverlap ImplementsSerialQueue
