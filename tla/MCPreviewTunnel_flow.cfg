SPECIFICATION FairSpec
CONSTANTS
    one = one
    web = web
    Stream = {one}
    Port = {web}
    Reserved = {}
    MaxStreams = 1
    Window = 2
    MaxSendWindow = 2
    HighWater = 1
    Honesty = {TRUE}
    Cancels = FALSE
    MaxOpens = 1
    MaxBytes = 4
    MaxQueue = 2
PROPERTIES
    FlowGoesOn
