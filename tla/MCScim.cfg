SPECIFICATION MCSpec
CONSTANTS
    Humans = {2, 3}
    Agents = {1}
    Teams = {t1, t2}
    Names <- MCNames
    TeamNames = {core, ops}
    Subjects = {"s1"}
    Grants = {"tenant_admin", "member"}
    NoOne = NoOne
    AdminTeam = core
    MaxAccounts = 2
    MaxRequests = 5
INVARIANTS
    NamesAreUnambiguous
    DeletedStaysOut
    OneBootstrapToken
PROPERTIES
    AdministratorRemains
CHECK_DEADLOCK FALSE
