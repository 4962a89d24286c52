SPECIFICATION LiveSpec
CONSTANTS
    i1 = i1
    i2 = i2
    h1 = h1
    h2 = h2
    NoSupervisor = NoSupervisor
    NoHelper = NoHelper
    NoTarget = NoTarget
    Supervisor = {i1, i2}
    Helper = {h1, h2}
    Settings = {"a", "b"}
    Reported = {"online", "login_required"}
    MaxChanges = 2
CHECK_DEADLOCK FALSE
INVARIANTS
    NoOrphan
    FunnelIsTended
PROPERTIES
    HelperComesBack
