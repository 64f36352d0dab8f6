SPECIFICATION FundingSpec
CONSTANTS
    Calls = {c, d}
    Addresses = {a}
    Gas = {0, 2, 3}
    Default = 1
    MaxHeight = 2
    MaxFaults = 1
INVARIANTS
    FundingTypeOK
    NoBlockSkipped
    GasRemembered
PROPERTY
    CallsEnd
