SPECIFICATION FairSpec
CONSTANTS
    first = first
    second = second
    phone = phone
    NoRequest = NoRequest
    NoRecord = NoRecord
    Request = {first, second}
    Device = {phone}
    Owner <- MCOwner
    To <- MCTo
    First = 1
    MaxRecords = 2
    MaxBoots = 2
    MaxFailures = 2
CHECK_DEADLOCK FALSE
INVARIANTS
    InstallsOnce
    WordIsKept
PROPERTIES
    DoneIsTrue
    EndIsKnown
