SPECIFICATION AccessSpec
CONSTANTS
    phone = phone
    tablet = tablet
    s1 = s1
    s2 = s2
    s3 = s3
    NoDevice = NoDevice
    Device = {phone, tablet}
    Socket = {s1, s2, s3}
    Scope = {"read"}
SYMMETRY MCSymmetry
INVARIANTS
    AuthorityIsCurrent
