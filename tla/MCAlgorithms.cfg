SPECIFICATION MCSpec
CONSTANTS
    Keys = {once, beat}
    Unique = {once}
    MaxLen = 4
    DayLength = 6
    WeekLength = 3
    MaxSearchDays = 7
    People <- MCPeople
    Teams <- MCTeams
    Nobody = 0
    ModelPlans <- MCPlans
    Shapes <- MCShapes
    Spans <- MCSpans
    Efforts = {5}
    Moments = {0, 13}
    MaxEdits = 2
    MaxTasks = 4
INVARIANTS
    BatchProjectsLikeReplay
    WorkingTimeIsExact
    ScheduleIsFeasible
    CriticalPathExplainsFinish
    EqualsShareThePlan
CHECK_DEADLOCK FALSE
