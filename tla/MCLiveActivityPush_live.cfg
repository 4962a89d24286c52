SPECIFICATION FairSpec
CONSTANTS
    phone1 = phone1
    phone2 = phone2
    NoSlot = NoSlot
    NoFlush = NoFlush
    Device = {phone1, phone2}
    MaxRegistrations = 2
    MaxChanges = 1
    MaxMishaps = 1
    MaxCredentials = 2
CHECK_DEADLOCK FALSE
INVARIANTS
    LastWordHolds
PROPERTIES
    OverStaysOver
    CredentialIsKept
    EndIsDelivered
