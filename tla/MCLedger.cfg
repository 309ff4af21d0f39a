SPECIFICATION FairSpec
CONSTANTS
    r1 = r1
    r2 = r2
    org = org
    tenant = tenant
    beat = beat
    Replicas <- MCReplicas
    Keys <- MCKeys
    Unique <- MCUnique
    Org = org
    Tenant = tenant
    Shared = TRUE
    MaxBatch = 2
    MaxLog = 3
    MaxOps = 3
INVARIANTS
    ReplayNeverFails
    CacheIsReplayOfPrefix
    AnswersAreTrue
PROPERTIES
    ImplementsAtomicLedger
    EveryInstanceCatchesUp
