SPECIFICATION MCSpec
CONSTANTS
    alice = alice
    bob = bob
    ann = ann
    ben = ben
    t1 = t1
    Humans = {alice, bob}
    Agents = {ann, ben}
    Teams = {}
    OwnerOf <- MCOwnerOf
    TeamOf <- MCTeamOf
    Requester = bob
    TaskIds = {t1}
    FirstTasks = {t1}
    DependsOn <- MCOneDependsOn
    Assignments <- MCAssignments
    Dates = {1}
    Manual = manual
    Proofs <- MCProofs
    Resources = {t1}
    Drafts <- MCDrafts
    Second = 2
    TTLs = {1}
    AllowedActions = {"Retry", "Fork", "Ground"}
    MaxLeases = 2
    MaxClock = 6
INVARIANTS
    RecoveryTree
    NoConflictingClaims
    LandedWorkWasExclusive
    PilotIsActor
PROPERTIES
    ClearanceEnds
CHECK_DEADLOCK FALSE
