SPECIFICATION Spec
CONSTANTS
    early = early
    middle = middle
    late = late
    one = one
    other = other
    here = here
    there = there
    busy = busy
    internal = internal
    NoContent = NoContent
    NoCode = NoCode
    Id = {early, middle, late}
    Content = {one}
    Session = {here, there}
    SessionOf <- MCSessionOf
    Birth <- MCBirth
    Code = {busy, internal}
    ReceiptCode = {busy}
    Ambiguous = {internal}
    Capacity = 2
    Retention = 1
    Grace = 1
    JoinInFlight = TRUE
    MaxStepBack = 1
    MaxClock = 4
    MaxWaiting = 1
INVARIANTS
    AtMostOnce
    NotFoundMeansNeverCalled
    ReadsItsOwnFile
PROPERTIES
    ContractSpec
