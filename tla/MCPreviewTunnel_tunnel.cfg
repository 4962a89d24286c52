SPECIFICATION Spec
CONSTANTS
    one = one
    web = web
    Stream = {one}
    Port = {web}
    Reserved = {}
    MaxStreams = 2
    Window = 2
    MaxSendWindow = 2
    HighWater = 1
    Honesty = {TRUE, FALSE}
    Cancels = TRUE
    MaxOpens = 2
    MaxBytes = 3
    MaxQueue = 2
INVARIANTS
    WindowsConserved
    StreamsDoNotMix
    EofMeansComplete
    NoSocketLeaks
