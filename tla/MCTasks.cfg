SPECIFICATION RunSpec
CONSTANTS
    alice = alice
    bob = bob
    ann = ann
    t1 = t1
    t2 = t2
    t3 = t3
    Humans = {alice, bob}
    Agents = {ann}
    Teams = {}
    OwnerOf <- MCOwnerOf
    TeamOf <- MCTeamOf
    Requester = alice
    TaskIds = {t1, t2, t3}
    FirstTasks = {t1, t2}
    DependsOn <- MCDependsOn
    Assignments <- MCAssignments
    Dates = {1, 2}
    Manual = manual
    Execution = execution
    Proofs = {manual, execution}
    Processes = {cli}
    Executors = {ann}
INVARIANTS
    CompletedFlowIsDone
    DependenciesDoneBeforeWork
PROPERTIES
    TerminalTaskGetsNoEvidence
CHECK_DEADLOCK FALSE
