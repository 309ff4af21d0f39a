SPECIFICATION MCSpec
CONSTANTS
    h1 = h1  h2 = h2  g2 = g2  g1 = g1  t1 = t1
    Humans = {h1, h2}
    Agents = {}
    Teams = {g1, g2}
    OwnerOf <- OwnerOfDef
    TeamOf <- TeamOfDef
    Requester = h1
    Owner = h2
    Tasks = {t1}
    DependsOn <- DependsOnDef
    Due <- DueDef
    NoOne = NoOne
    StaleAfter = 1
    EscalateAfter = 1
    MaxTime = 2
    MaxMoves = 3
    MaxRenamings = 2
    ChatUsers = {x1}
    Clicks = {c1}
    BoundTo <- BoundToDef
    Window = 0
    Suspended = {g2}
    MaxMessages = 1
    MaxRecipients = 1
INVARIANTS
    EscalationsFollowAttentions
    EachClickActsOnce
PROPERTY
    BlockedIsEscalated
CHECK_DEADLOCK FALSE
