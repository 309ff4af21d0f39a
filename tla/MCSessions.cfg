SPECIFICATION MCSpec
CONSTANTS
    Replicas = {r1, r2}
    Users = {u1}
    Employees = {u1}
    Tokens = {c1, c2}
    Slots = {s1}
    NoOne = NoOne
    MaxCommits = 3
    MaxLogins = 1
    Listing <- MCListing
    SlugOf <- MCSlugOf
    Root = "t0"
    DefaultSlug = "default"
    Blob = "blob"
    NoTenant = "nobody"
    MaxEvents = 3
INVARIANTS
    ServedWasLive
    CutoverKeepsTheFleet
PROPERTIES
    SessionsGoToActiveHumans
SYMMETRY Symmetry
CHECK_DEADLOCK FALSE
