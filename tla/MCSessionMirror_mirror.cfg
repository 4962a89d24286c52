SPECIFICATION Spec
CONSTANTS
    chat = chat
    approval = approval
    question = question
    phone1 = phone1
    phone2 = phone2
    reading1 = reading1
    reading2 = reading2
    NoRow = NoRow
    Session = {chat}
    Request = {approval, question}
    SessionOf <- MCSessionOf
    Kind <- MCKind
    Phone = {phone1, phone2}
    Reading = {reading1, reading2}
    MaxChanges = 2
    TransportFails = {approval}
    FirstStates = {"absent", "idle"}
SYMMETRY Symmetry
INVARIANTS
    PhoneMirrorsList
    MirrorCatchesUp
    CardsAreAnswerable
    BadgeIsRight
