SPECIFICATION LiveSpec
CONSTANTS
    l1 = l1
    l2 = l2
    l3 = l3
    NoListener = NoListener
    NoTarget = NoTarget
    Listener = {l1, l2, l3}
    Port = {3098, 3598}
    MaxChanges = 3
    LoadFails = TRUE
    ListenFails = TRUE
CHECK_DEADLOCK FALSE
INVARIANTS
    OneListener
    NothingStaysOpen
    StatusIsRight
PROPERTIES
    ChangesAreApplied
