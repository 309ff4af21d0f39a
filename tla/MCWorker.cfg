SPECIFICATION MCSpec
CONSTANTS
    q1 = q1
    q2 = q2
    w1 = w1
    w2 = w2
    t1 = t1
    Requests = {q1, q2}
    Workers = {w1, w2}
    Lease = 1
    MaxAttempts = 2
    Leases = {0, 1, 2}
    Tasks = {t1}
    TaskOf <- MCTaskOf
    Mapped <- MCMapped
    Office = {1}
    Sandbox = "docker"
    PushConfigured = TRUE
    MaxRuns = 2
    MaxKills = 1
    n1 = n1
    n2 = n2
    h1 = h1
    h2 = h2
    k1 = k1
    k2 = k2
    u1 = u1
    m1 = m1
    m2 = m2
    Unset = Unset
    Malformed = Malformed
    Garbage = Garbage
    Executor = "anthropic"
    People = {h1, h2}
    Names <- MCNames
    FirstName <- MCFirstName
    Credentials <- MCCredentials
    MasterKeys = {m1, m2}
    MaxChanges = 3
INVARIANTS
    AcceptedPlanStays
    
PROPERTIES
    RequestsAreServed
    ReportIsNotRedone
    FlightsEnd
    HandedOutIsTheWish
CHECK_DEADLOCK FALSE
