SPECIFICATION MCSpec
CONSTANTS
    e1 = e1
    e2 = e2
    k1 = k1
    tui = tui
    cli = cli
    Endpoints = {e1, e2}
    Kinds = {k1}
    Wants <- MCWants
    Loops = {tui}
    Hands = {cli}
    Limit <- MCLimit
    Delay <- MCDelay
    MaxQueued = 2
    MaxByHand = 1
    Tasks = {t1}
    MRs = {1}
    Pipelines = {1, 2}
    ParentOf <- MCParentOf
    MRStatus = {"opened", "merged"}
    PipelineStatus = {"failed", "success"}
    NoOne = NoOne
    Second = 2
    Tolerance = 2
    MaxTime = 3
    MaxHooks = 3
    MaxSyncs = 1
    MaxWrites = 1
INVARIANT
    DeliveredWasReceived
PROPERTIES
    EveryDeliveryIsAttempted
    RecordNeverGoesBack
CHECK_DEADLOCK FALSE
