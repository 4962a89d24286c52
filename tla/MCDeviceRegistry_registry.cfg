SPECIFICATION Spec
CONSTANTS
    NoToken = NoToken
    NotifyScope = notify
    notify = notify
    phone = phone
    tablet = tablet
    old = old
    Device = {phone, tablet}
    Token = {old}
    MaxDevices = 2
    Scope = {notify}
    LegacyFull <- MCLegacy
    MaxStores = 2
    MaxChanges = 5
    MaxPushes = 1
SYMMETRY MCSymmetry
INVARIANTS
    NothingUnsaved
    OneOwnerPerToken
    RevokedIsNoTarget
