---------------------------- MODULE TasksProofs -----------------------------
(***************************************************************************)
(* Proofs about what changes tasks: people and local runs, for any tasks    *)
(* with any dependencies, any people and any number of processes that run   *)
(* tasks; and remote flights, for any people and agents, tasks and          *)
(* resources, manifests, clearances and recoveries. The flights' lemmas    *)
(* come second.                                                            *)
(*                                                                         *)
(* Two flights that conflict are kept apart by their claims, which the     *)
(* control plane records and lets lapse: KeptApart says in which ways a    *)
(* flight can be over when one that conflicts with it may start, and is     *)
(* what the two properties about resources rest on.                        *)
(***************************************************************************)
EXTENDS LocalRun, Flights, TLAPS

Work == {"InProgress", "Submitted", "Completed"}

(* Nothing is sent out and no change proposed before the flow is approved.     *)
DraftIsProposed ==
    flow = "Draft" => /\ proposals = {}
                      /\ \A t \in TaskIds : status[t] \in {"Absent", "Proposed"}

(* What a task of the flow depends on is in the flow: ensure_dependencies_    *)
(* complete looks only at those.                                            *)
DependenciesPresent ==
    \A t \in TaskIds : status[t] # "Absent" =>
        \A d \in DependsOn[t] : status[d] # "Absent"

(* Every task of the flow is done; there may be none.                        *)
AllDone(s) == \A t \in TaskIds : s[t] \in {"Absent", "Completed"}

(* With its last task a flow is completed, so one that is not has work left.  *)
OpenFlowHasWork ==
    (flow # "Completed" /\ AllDone(status)) => \A t \in TaskIds : status[t] = "Absent"

CompletedFlowHasTasks ==
    flow = "Completed" => \E t \in TaskIds : status[t] # "Absent"

(* A change is proposed for a flow with work left, and adds tasks with all     *)
(* that they depend on: what its approval relies on, if the flow is still     *)
(* the one it was computed from.                                            *)
ProposalsSound ==
    \A c \in proposals :
        /\ AllDone(c.base) => \A t \in TaskIds : c.base[t] = "Absent"
        /\ \A t \in c.adds : \A d \in DependsOn[t] : d \in c.adds \/ c.base[d] # "Absent"

(* What CompletedFlowIsDone and DependenciesDoneBeforeWork need besides.      *)
TaskFacts ==
    /\ DraftIsProposed
    /\ DependenciesPresent
    /\ OpenFlowHasWork
    /\ CompletedFlowHasTasks
    /\ ProposalsSound
    /\ CompletedFlowIsDone
    /\ DependenciesDoneBeforeWork

(* The second commit of run_task, if its head check passes, finds the task as  *)
(* the first left it.                                                       *)
CurrentRunFindsItsTask ==
    \A u \in Processes :
        StillCurrent(u) =>
            /\ status[run[u].task] \in {"Accepted", "InProgress", "Blocked"}
            /\ run[u].mode = "Execute" => status[run[u].task] = "InProgress"

RunInv == RunTypeOK /\ TaskFacts /\ CurrentRunFindsItsTask

-----------------------------------------------------------------------------
(* The operations on a task that is in the flow, sent out and not completed:   *)
(* accept, reject, start, block, submit, complete, reassign and the two       *)
(* commits of run_task move one task from one status to another.            *)
Moves(t, s) ==
    /\ status' = [status EXCEPT ![t] = s]
    /\ status[t] \notin {"Absent", "Proposed", "Completed"}
    /\ s \in TaskStatus \ {"Absent", "Proposed"}
    /\ s \in Work => status[t] \in Work \/ DependenciesComplete(t)
    /\ proposals' = proposals
    /\ IF s = "Completed"
       THEN flow' = IF \A u \in Present \ {t} : status[u] = "Completed"
                    THEN "Completed" ELSE flow
       ELSE flow' \in {flow, "Active"}

(* Moving one task keeps the facts.                                          *)
LEMMA MoveKeepsFacts ==
    ASSUME TaskTypeOK, TaskFacts, NEW t \in TaskIds, NEW s, Moves(t, s)
    PROVE  TaskFacts'
<1> USE TasksAssumption
<1>1. /\ status'[t] = s
      /\ \A u \in TaskIds : u # t => status'[u] = status[u]
      /\ \A u \in TaskIds : status'[u] = "Absent" <=> status[u] = "Absent"
  BY DEF Moves, TaskTypeOK
<1>2. flow # "Draft" /\ flow # "Completed"
  BY DEF Moves, TaskFacts, DraftIsProposed, CompletedFlowIsDone, Present
<1>3. DraftIsProposed'
  BY <1>2 DEF Moves, DraftIsProposed
<1>4. DependenciesPresent'
  BY <1>1 DEF TaskFacts, DependenciesPresent
<1>5. OpenFlowHasWork' /\ CompletedFlowIsDone' /\ CompletedFlowHasTasks'
  <2>1. CASE s = "Completed"
    <3>1. CASE \A u \in Present \ {t} : status[u] = "Completed"
      BY <1>1, <2>1, <3>1
      DEF Moves, OpenFlowHasWork, CompletedFlowIsDone, CompletedFlowHasTasks, Present
    <3>2. CASE ~ \A u \in Present \ {t} : status[u] = "Completed"
      <4>1. PICK u \in TaskIds : u # t /\ status[u] \notin {"Absent", "Completed"}
        BY <3>2 DEF Present
      <4>2. ~ AllDone(status')
        BY <1>1, <4>1 DEF AllDone
      <4>3. flow' # "Completed"
        BY <1>2, <2>1, <3>2 DEF Moves
      <4> QED
        BY <4>2, <4>3 DEF OpenFlowHasWork, CompletedFlowIsDone, CompletedFlowHasTasks
    <3> QED
      BY <3>1, <3>2
  <2>2. CASE s # "Completed"
    <3>1. ~ AllDone(status')
      BY <1>1, <2>2 DEF AllDone, Moves
    <3>2. flow' # "Completed"
      BY <1>2, <2>2 DEF Moves
    <3> QED
      BY <3>1, <3>2 DEF OpenFlowHasWork, CompletedFlowIsDone, CompletedFlowHasTasks
  <2> QED
    BY <2>1, <2>2
<1>6. ProposalsSound'
  BY DEF Moves, TaskFacts, ProposalsSound, AllDone
<1>7. DependenciesDoneBeforeWork'
  <2> SUFFICES ASSUME NEW u \in TaskIds, status'[u] \in Work, NEW d \in DependsOn[u]
               PROVE  status'[d] = "Completed"
    BY DEF DependenciesDoneBeforeWork, Work
  <2>1. d \in TaskIds
    OBVIOUS
  <2>2. status[d] = "Completed"
    <3>1. CASE status[u] \in Work
      BY <3>1 DEF TaskFacts, DependenciesDoneBeforeWork, Work
    <3>2. CASE status[u] \notin Work
      <4>1. u = t /\ DependenciesComplete(t)
        BY <1>1, <3>2 DEF Moves
      <4>2. status[d] # "Absent"
        BY <2>1, <4>1 DEF TaskFacts, DependenciesPresent, Moves
      <4> QED
        BY <2>1, <4>1, <4>2 DEF DependenciesComplete, Present
    <3> QED
      BY <3>1, <3>2
  <2>3. d # t
    BY <2>2 DEF Moves
  <2> QED
    BY <1>1, <2>1, <2>2, <2>3
<1> QED
  BY <1>3, <1>4, <1>5, <1>6, <1>7 DEF TaskFacts

(* Steps that touch neither the tasks nor the flow nor the proposals.          *)
LEMMA QuietKeepsFacts ==
    ASSUME TaskFacts, UNCHANGED <<flow, status, proposals>>
    PROVE  TaskFacts'
  BY DEF TaskFacts, DraftIsProposed, DependenciesPresent, OpenFlowHasWork, AllDone,
         CompletedFlowHasTasks, ProposalsSound, CompletedFlowIsDone, Present,
         DependenciesDoneBeforeWork

(* approve_flow: everything was proposed and is now assigned.                 *)
LEMMA ApproveKeepsFacts ==
    ASSUME TaskTypeOK, TaskFacts, ApproveFlow
    PROVE  TaskFacts'
<1>1. \A t \in TaskIds : \/ status[t] = "Absent" /\ status'[t] = "Absent"
                         \/ status[t] = "Proposed" /\ status'[t] = "Assigned"
  BY DEF ApproveFlow, TaskFacts, DraftIsProposed, Present
<1>2. flow' = "Approved" /\ proposals' = proposals
  BY DEF ApproveFlow
<1>3. DependenciesPresent' /\ DependenciesDoneBeforeWork'
  BY <1>1, TasksAssumption
  DEF TaskFacts, DependenciesPresent, DependenciesDoneBeforeWork, DraftIsProposed
<1>4. OpenFlowHasWork'
  BY <1>1 DEF OpenFlowHasWork, AllDone
<1>5. ProposalsSound'
  BY <1>2 DEF TaskFacts, ProposalsSound, AllDone
<1> QED
  BY <1>2, <1>3, <1>4, <1>5
  DEF TaskFacts, DraftIsProposed, CompletedFlowHasTasks, CompletedFlowIsDone

(* propose_flow_change: on a flow under way, with what the tasks depend on.     *)
LEMMA ProposeKeepsFacts ==
    ASSUME TaskTypeOK, TaskFacts, NEW adds \in SUBSET TaskIds, ProposeFlowChange(adds)
    PROVE  TaskFacts'
<1>1. UNCHANGED <<flow, status>>
  BY DEF ProposeFlowChange
<1>2. ProposalsSound'
  <2> DEFINE c == [adds |-> adds, base |-> status, baseP80 |-> p80]
  <2>1. proposals' = {c} /\ c.base = status /\ c.adds = adds
    BY DEF ProposeFlowChange
  <2>2. AllDone(c.base) => \A t \in TaskIds : c.base[t] = "Absent"
    BY <2>1 DEF ProposeFlowChange, TaskFacts, OpenFlowHasWork
  <2>3. \A t \in c.adds : \A d \in DependsOn[t] : d \in c.adds \/ c.base[d] # "Absent"
    BY <2>1, TasksAssumption DEF ProposeFlowChange, Present
  <2> HIDE DEF c
  <2> QED
    BY <2>1, <2>2, <2>3 DEF ProposalsSound, AllDone
<1>3. flow # "Draft"
  BY DEF ProposeFlowChange
<1> QED
  BY <1>1, <1>2, <1>3
  DEF TaskFacts, DraftIsProposed, DependenciesPresent, OpenFlowHasWork, AllDone,
      CompletedFlowHasTasks, CompletedFlowIsDone, Present, DependenciesDoneBeforeWork

(* approve_flow_change: the flow is the one the preview was computed from, so  *)
(* it is not completed, and nothing that exists is replaced.                *)
LEMMA ApproveChangeKeepsFacts ==
    ASSUME TaskTypeOK, TaskFacts, NEW c \in proposals, ApproveFlowChange(c)
    PROVE  TaskFacts'
<1>1. c.base = status /\ c.adds \subseteq TaskIds /\ flow' = flow
  BY DEF ApproveFlowChange, BaseUnchanged, TaskTypeOK
<1>2. \A t \in c.adds : status[t] = "Absent" /\ status'[t] = "Assigned"
  BY <1>1 DEF ApproveFlowChange, Present
<1>3. \A t \in TaskIds : t \notin c.adds => status'[t] = status[t]
  BY DEF ApproveFlowChange
<1>4. flow # "Completed"
  <2> SUFFICES ASSUME flow = "Completed"
               PROVE  FALSE
    OBVIOUS
  <2>1. AllDone(status)
    BY DEF TaskFacts, CompletedFlowIsDone, Present, AllDone
  <2>2. \A t \in TaskIds : status[t] = "Absent"
    BY <1>1, <2>1 DEF TaskFacts, ProposalsSound
  <2> QED
    BY <2>2 DEF TaskFacts, CompletedFlowHasTasks
<1>5. DraftIsProposed'
  BY <1>1 DEF TaskFacts, DraftIsProposed
<1>6. DependenciesPresent'
  <2> SUFFICES ASSUME NEW t \in TaskIds, status'[t] # "Absent", NEW d \in DependsOn[t]
               PROVE  status'[d] # "Absent"
    BY DEF DependenciesPresent
  <2>1. d \in TaskIds
    BY TasksAssumption
  <2>2. d \in c.adds \/ status[d] # "Absent"
    BY <1>1, <1>3 DEF TaskFacts, ProposalsSound, DependenciesPresent
  <2> QED
    BY <1>2, <1>3, <2>1, <2>2
<1>7. OpenFlowHasWork'
  BY <1>1, <1>2, <1>3, <1>4 DEF TaskFacts, OpenFlowHasWork, AllDone
<1>8. ProposalsSound'
  BY DEF ApproveFlowChange, TaskFacts, ProposalsSound, AllDone
<1>9. DependenciesDoneBeforeWork'
  <2> SUFFICES ASSUME NEW t \in TaskIds, status'[t] \in Work, NEW d \in DependsOn[t]
               PROVE  status'[d] = "Completed"
    BY DEF DependenciesDoneBeforeWork, Work
  <2>1. status[d] = "Completed" /\ d \in TaskIds
    BY <1>2, <1>3, TasksAssumption DEF TaskFacts, DependenciesDoneBeforeWork, Work
  <2> QED
    BY <1>2, <1>3, <2>1
<1> QED
  BY <1>1, <1>4, <1>5, <1>6, <1>7, <1>8, <1>9
  DEF TaskFacts, CompletedFlowHasTasks, CompletedFlowIsDone

(* Withdrawing a proposal leaves the others sound.                           *)
LEMMA RejectChangeKeepsFacts ==
    ASSUME TaskTypeOK, TaskFacts, NEW c \in proposals, RejectFlowChange(c)
    PROVE  TaskFacts'
<1>1. UNCHANGED <<flow, status>> /\ proposals' \subseteq proposals
  BY DEF RejectFlowChange
<1> QED
  BY <1>1
  DEF TaskFacts, DraftIsProposed, DependenciesPresent, OpenFlowHasWork, AllDone, ProposalsSound,
      CompletedFlowHasTasks, CompletedFlowIsDone, Present, DependenciesDoneBeforeWork

-----------------------------------------------------------------------------
(* Every operation of the task lifecycle keeps the types.                    *)
LEMMA TaskStepTypeOK ==
    ASSUME TaskTypeOK, TaskNext
    PROVE  TaskTypeOK'
<1> USE TasksAssumption
<1>1. CASE ApproveFlow
  BY <1>1 DEF ApproveFlow, TaskTypeOK, TaskStatus
<1>2. ASSUME NEW t \in TaskIds,
             \/ AcceptTask(t) \/ RejectTask(t) \/ StartTask(t) \/ BlockTask(t)
             \/ SubmitTask(t) \/ CompleteTask(t)
      PROVE  TaskTypeOK'
  BY <1>2 DEF AcceptTask, RejectTask, StartTask, BlockTask, SubmitTask, CompleteTask,
              TaskTypeOK, TaskStatus
<1>3. ASSUME NEW t \in TaskIds, AddEvidence(t) \/ NegotiateTask(t)
      PROVE  TaskTypeOK'
  BY <1>3 DEF AddEvidence, NegotiateTask, TaskTypeOK
<1>4. ASSUME NEW adds \in SUBSET TaskIds, ProposeFlowChange(adds)
      PROVE  TaskTypeOK'
  BY <1>4 DEF ProposeFlowChange, TaskTypeOK
<1>5. ASSUME NEW c \in proposals, ApproveFlowChange(c) \/ RejectFlowChange(c)
      PROVE  TaskTypeOK'
  BY <1>5 DEF ApproveFlowChange, RejectFlowChange, TaskTypeOK, TaskStatus
<1>6. ASSUME NEW t \in TaskIds, NEW a \in Assignments, ReassignTask(t, a)
      PROVE  TaskTypeOK'
  BY <1>6 DEF ReassignTask, TaskTypeOK, TaskStatus
<1> QED
  BY <1>1, <1>2, <1>3, <1>4, <1>5, <1>6 DEF TaskNext, FlowStep

(* Every operation of the task lifecycle keeps the facts.                    *)
LEMMA TaskStepFacts ==
    ASSUME TaskTypeOK, TaskFacts, TaskNext
    PROVE  TaskFacts'
<1>1. ASSUME NEW t \in TaskIds, AcceptTask(t)
      PROVE  Moves(t, "Accepted")
  BY <1>1 DEF AcceptTask, Moves, TaskStatus, Work
<1>2. ASSUME NEW t \in TaskIds, RejectTask(t)
      PROVE  Moves(t, "Rejected")
  BY <1>2 DEF RejectTask, Moves, TaskStatus, Work
<1>3. ASSUME NEW t \in TaskIds, StartTask(t)
      PROVE  Moves(t, "InProgress")
  BY <1>3 DEF StartTask, Moves, TaskStatus
<1>4. ASSUME NEW t \in TaskIds, BlockTask(t)
      PROVE  Moves(t, "Blocked")
  BY <1>4 DEF BlockTask, Moves, TaskStatus, Work
<1>5. ASSUME NEW t \in TaskIds, SubmitTask(t)
      PROVE  Moves(t, "Submitted")
  BY <1>5 DEF SubmitTask, Moves, TaskStatus, Work
<1>6. ASSUME NEW t \in TaskIds, CompleteTask(t)
      PROVE  Moves(t, "Completed")
  BY <1>6 DEF CompleteTask, Moves, TaskStatus, Work
<1>7. ASSUME NEW t \in TaskIds, NEW a \in Assignments, ReassignTask(t, a)
      PROVE  Moves(t, "Assigned")
  BY <1>7 DEF ReassignTask, Moves, TaskStatus, Work
<1>8. ASSUME NEW t \in TaskIds, AddEvidence(t) \/ NegotiateTask(t)
      PROVE  UNCHANGED <<flow, status, proposals>>
  BY <1>8 DEF AddEvidence, NegotiateTask
<1> QED
  BY <1>1, <1>2, <1>3, <1>4, <1>5, <1>6, <1>7, <1>8, MoveKeepsFacts, QuietKeepsFacts,
     ApproveKeepsFacts, ProposeKeepsFacts, ApproveChangeKeepsFacts, RejectChangeKeepsFacts
  DEF TaskNext, FlowStep

-----------------------------------------------------------------------------
(* What a waiting process waits for.                                         *)
LEMMA RunType ==
    ASSUME RunTypeOK, NEW u \in Processes, Running(u)
    PROVE  /\ run[u] \in [task : TaskIds, mode : {"Plan", "Execute"}, current : BOOLEAN]
           /\ run[u].task \in TaskIds
           /\ run[u].mode \in {"Plan", "Execute"}
           /\ [run[u] EXCEPT !.current = FALSE]
                 \in [task : TaskIds, mode : {"Plan", "Execute"}, current : BOOLEAN]
<1>1. run[u] \in [task : TaskIds, mode : {"Plan", "Execute"}, current : BOOLEAN]
  BY DEF RunTypeOK, Running
<1> QED
  BY <1>1

(* A process that was overtaken is not current.                              *)
LEMMA OvertakenRun ==
    ASSUME RunTypeOK, NEW u \in Processes
    PROVE  /\ Overtaken(u) \in {NoRun} \cup
                 [task : TaskIds, mode : {"Plan", "Execute"}, current : BOOLEAN]
           /\ Overtaken(u) = NoRun \/ Overtaken(u).current = FALSE
<1>1. CASE Running(u)
  BY <1>1, RunType DEF Overtaken
<1>2. CASE ~ Running(u)
  BY <1>2 DEF Overtaken
<1> QED
  BY <1>1, <1>2

(* The flow at first, and nobody running anything.                           *)
LEMMA RunInitInv == RunInit => RunInv
<1> SUFFICES ASSUME RunInit
             PROVE  RunInv
  OBVIOUS
<1> USE TasksAssumption DEF RunInit, TaskInit
<1>1. RunTypeOK
  BY DEF RunTypeOK, TaskTypeOK, TaskStatus
<1>2. DraftIsProposed /\ DependenciesPresent /\ OpenFlowHasWork
  BY DEF DraftIsProposed, DependenciesPresent, OpenFlowHasWork, AllDone
<1>3. CompletedFlowHasTasks /\ ProposalsSound /\ CompletedFlowIsDone
      /\ DependenciesDoneBeforeWork
  BY DEF CompletedFlowHasTasks, ProposalsSound, CompletedFlowIsDone,
         DependenciesDoneBeforeWork
<1>4. CurrentRunFindsItsTask
  BY DEF CurrentRunFindsItsTask, StillCurrent, Running
<1> QED
  BY <1>1, <1>2, <1>3, <1>4 DEF RunInv, TaskFacts

(* An operation of somebody else overtakes every waiting process.             *)
LEMMA TaskStepInv ==
    ASSUME RunInv, TaskNext, run' = [u \in Processes |-> Overtaken(u)]
    PROVE  RunInv'
<1>1. TaskTypeOK' /\ TaskFacts'
  BY TaskStepTypeOK, TaskStepFacts DEF RunInv, RunTypeOK
<1>2. RunTypeOK'
  BY <1>1, OvertakenRun DEF RunInv, RunTypeOK
<1>3. CurrentRunFindsItsTask'
  BY OvertakenRun DEF RunInv, CurrentRunFindsItsTask, StillCurrent, Running
<1> QED
  BY <1>1, <1>2, <1>3 DEF RunInv

(* run_task, first commit.                                                   *)
LEMMA StartRunInv ==
    ASSUME RunInv, NEW u \in Processes, NEW t \in TaskIds, NEW mode \in {"Plan", "Execute"},
           StartRun(u, t, mode)
    PROVE  RunInv'
<1> DEFINE r == [task |-> t, mode |-> mode, current |-> TRUE]
<1>1. /\ run'[u] = r
      /\ \A v \in Processes : v # u => run'[v] = Overtaken(v)
  BY DEF StartRun
<1>2. TaskTypeOK'
  BY DEF RunInv, RunTypeOK, StartRun, TaskTypeOK, TaskStatus
<1>3. TaskFacts'
  <2>1. CASE mode = "Execute"
    <3>1. Moves(t, "InProgress")
      BY <2>1 DEF StartRun, Moves, TaskStatus
    <3> QED
      BY <3>1, MoveKeepsFacts DEF RunInv, RunTypeOK
  <2>2. CASE mode # "Execute"
    BY <2>2, QuietKeepsFacts DEF StartRun, RunInv
  <2> QED
    BY <2>1, <2>2
<1>4. RunTypeOK'
  BY <1>2, OvertakenRun DEF StartRun, RunInv, RunTypeOK
<1>5. CurrentRunFindsItsTask'
  <2> SUFFICES ASSUME NEW v \in Processes, StillCurrent(v)'
               PROVE  /\ status'[run'[v].task] \in {"Accepted", "InProgress", "Blocked"}
                      /\ run'[v].mode = "Execute" => status'[run'[v].task] = "InProgress"
    BY DEF CurrentRunFindsItsTask
  <2>1. v = u
    BY <1>1, OvertakenRun DEF RunInv, StillCurrent, Running
  <2>2. run'[v].task = t /\ run'[v].mode = mode
    BY <1>1, <2>1
  <2>3. /\ mode = "Execute" => status'[t] = "InProgress"
        /\ mode # "Execute" => status'[t] \in {"Accepted", "InProgress", "Blocked"}
    BY DEF StartRun, RunInv, RunTypeOK, TaskTypeOK
  <2> QED
    BY <2>2, <2>3
<1> QED
  BY <1>3, <1>4, <1>5 DEF RunInv

(* A process that ends its run overtakes the others.                          *)
LEMMA EndedRuns ==
    ASSUME RunInv, TaskTypeOK', NEW u \in Processes, run' = Ended(u)
    PROVE  RunTypeOK' /\ CurrentRunFindsItsTask'
<1>1. \A v \in Processes :
          /\ run'[v] \in {NoRun} \cup
                [task : TaskIds, mode : {"Plan", "Execute"}, current : BOOLEAN]
          /\ run'[v] = NoRun \/ run'[v].current = FALSE
  BY OvertakenRun DEF Ended, RunInv
<1>2. RunTypeOK'
  BY <1>1 DEF RunTypeOK, Ended
<1> QED
  BY <1>1, <1>2 DEF CurrentRunFindsItsTask, StillCurrent, Running

(* run_task, second commit after a success.                                  *)
LEMMA FinishRunInv ==
    ASSUME RunInv, NEW u \in Processes, FinishRun(u)
    PROVE  RunInv'
<1>1. run[u].task \in TaskIds
  BY RunType DEF FinishRun, StillCurrent, RunInv
<1>2. TaskTypeOK'
  BY <1>1, LocalRunAssumption DEF FinishRun, RunInv, RunTypeOK, TaskTypeOK
<1>3. TaskFacts'
  BY QuietKeepsFacts DEF FinishRun, RunInv
<1> QED
  BY <1>2, <1>3, EndedRuns DEF FinishRun, RunInv

(* run_task, second commit after a failure: the task is the one that started, *)
(* so a completed one is not blocked.                                       *)
LEMMA CrashRunInv ==
    ASSUME RunInv, NEW u \in Processes, CrashRun(u)
    PROVE  RunInv'
<1>1. run[u].task \in TaskIds /\ run[u].mode \in {"Plan", "Execute"}
  BY RunType DEF CrashRun, StillCurrent, RunInv
<1>2. TaskTypeOK'
  BY <1>1 DEF CrashRun, RunInv, RunTypeOK, TaskTypeOK, TaskStatus
<1>3. TaskFacts'
  <2>1. CASE run[u].mode = "Execute"
    <3>1. status[run[u].task] = "InProgress"
      BY <2>1 DEF CrashRun, RunInv, CurrentRunFindsItsTask
    <3>2. Moves(run[u].task, "Blocked")
      BY <2>1, <3>1 DEF CrashRun, Moves, TaskStatus, Work
    <3> QED
      BY <1>1, <3>2, MoveKeepsFacts DEF RunInv, RunTypeOK
  <2>2. CASE run[u].mode # "Execute"
    BY <2>2, QuietKeepsFacts DEF CrashRun, RunInv
  <2> QED
    BY <2>1, <2>2
<1> QED
  BY <1>2, <1>3, EndedRuns DEF CrashRun, RunInv

(* The outcome is lost.                                                      *)
LEMMA LoseRunInv ==
    ASSUME RunInv, NEW u \in Processes, LoseRun(u)
    PROVE  RunInv'
<1>1. UNCHANGED taskVars /\ run' = [run EXCEPT ![u] = NoRun]
  BY DEF LoseRun
<1>2. TaskFacts'
  BY <1>1, QuietKeepsFacts DEF RunInv, taskVars
<1>3. RunTypeOK'
  BY <1>1 DEF RunInv, RunTypeOK, TaskTypeOK, taskVars
<1>4. \A v \in Processes : run'[v] = run[v] \/ run'[v] = NoRun
  BY <1>1 DEF RunInv, RunTypeOK
<1>5. CurrentRunFindsItsTask'
  BY <1>1, <1>4 DEF RunInv, CurrentRunFindsItsTask, StillCurrent, Running, taskVars
<1> QED
  BY <1>2, <1>3, <1>5 DEF RunInv

(* Nothing changes.                                                          *)
LEMMA RunStutterInv ==
    ASSUME RunInv, UNCHANGED runVars
    PROVE  RunInv'
<1>1. UNCHANGED <<flow, status, assigned, evidence, p80, proposals, run>>
  BY DEF runVars, taskVars
<1>2. TaskFacts'
  BY <1>1, QuietKeepsFacts DEF RunInv
<1> QED
  BY <1>1, <1>2
  DEF RunInv, RunTypeOK, TaskTypeOK, CurrentRunFindsItsTask, StillCurrent, Running

-----------------------------------------------------------------------------
(* Tasks and local runs keep the inductive invariant.                        *)
THEOREM RunInvariant == RunSpec => []RunInv
<1>1. RunInv /\ [RunNext]_runVars => RunInv'
  BY TaskStepInv, StartRunInv, FinishRunInv, CrashRunInv, LoseRunInv, RunStutterInv DEF RunNext
<1> QED
  BY RunInitInv, <1>1, PTL DEF RunSpec

(* complete_task, approve_flow_change and the late outcomes of run_task         *)
(* together leave nothing to do in a completed flow.                        *)
THEOREM CompletedFlowsAreDone == RunSpec => []CompletedFlowIsDone
<1>1. RunInv => CompletedFlowIsDone
  BY DEF RunInv, TaskFacts
<1> QED
  BY RunInvariant, <1>1, PTL

(* No work is under way or done before what it depends on, for any graph of     *)
(* dependencies (start_task, run_task, reassign_task, approve_flow_change).   *)
THEOREM DependenciesComeFirst == RunSpec => []DependenciesDoneBeforeWork
<1>1. RunInv => DependenciesDoneBeforeWork
  BY DEF RunInv, TaskFacts
<1> QED
  BY RunInvariant, <1>1, PTL

(* Neither a person nor a local run that ends late adds evidence to a task     *)
(* that was completed or rejected (add_evidence, run_task).                  *)
THEOREM TerminalTasksGetNoEvidence == RunSpec => TerminalTaskGetsNoEvidence
<1> DEFINE Closed == \A t \in TaskIds : IsTerminal(status[t]) => evidence'[t] = evidence[t]
<1>1. ASSUME RunInv, [RunNext]_runVars
      PROVE  [Closed]_taskVars
  <2>1. ASSUME NEW t \in TaskIds, AddEvidence(t)
        PROVE  Closed
    BY <1>1, <2>1 DEF AddEvidence, RunInv, RunTypeOK, TaskTypeOK
  <2>2. ASSUME TaskNext, \A t \in TaskIds : ~ AddEvidence(t)
        PROVE  Closed
    BY <2>2 DEF TaskNext, FlowStep, ApproveFlow, AcceptTask, RejectTask, StartTask, BlockTask,
                SubmitTask, CompleteTask, NegotiateTask, ProposeFlowChange,
                ApproveFlowChange, RejectFlowChange, ReassignTask
  <2>3. ASSUME NEW u \in Processes, FinishRun(u)
        PROVE  Closed
    <3>1. status[run[u].task] \in {"Accepted", "InProgress", "Blocked"}
      BY <1>1, <2>3 DEF FinishRun, RunInv, CurrentRunFindsItsTask
    <3> QED
      BY <1>1, <2>3, <3>1 DEF FinishRun, RunInv, RunTypeOK, TaskTypeOK, IsTerminal
  <2>4. ASSUME NEW u \in Processes,
               \/ \E t \in TaskIds, mode \in {"Plan", "Execute"} : StartRun(u, t, mode)
               \/ CrashRun(u) \/ LoseRun(u)
        PROVE  Closed
    BY <2>4 DEF StartRun, CrashRun, LoseRun, taskVars
  <2>5. ASSUME UNCHANGED runVars
        PROVE  UNCHANGED taskVars
    BY <2>5 DEF runVars
  <2>6. CASE TaskNext
    <3> HIDE DEF Closed
    <3>1. Closed
      BY <2>6, <2>1, <2>2
    <3> QED
      BY <3>1
  <2>7. CASE RunNext /\ ~ TaskNext
    <3> HIDE DEF Closed
    <3>1. Closed
      BY <2>7, <2>3, <2>4 DEF RunNext
    <3> QED
      BY <3>1
  <2> QED
    BY <1>1, <2>5, <2>6, <2>7
<1> QED
  BY RunInvariant, <1>1, PTL DEF RunSpec, TerminalTaskGetsNoEvidence

-----------------------------------------------------------------------------
(***************************************************************************)
(* Remote flights.                                                         *)
(***************************************************************************)

(* Leases are numbered in the order of their issue, and a decision names a    *)
(* child that was issued with it.                                           *)
IssuedInOrder ==
    /\ \A k, l \in LeaseIds : k < l /\ Issued(l) => Issued(k)
    /\ \A e \in decisions : e.child # 0 => Issued(e.child)

(* A flight that may take off or is in the air holds all that it claimed.     *)
OpenFlightsHold ==
    \A l \in LeaseIds :
        leases[l].status \in {"Authorized", "Active"} => Acquired(l, leases[l]) \subseteq held

(* The work of a flight that landed: after the claim, before now, and less    *)
(* than a second over the fuel.                                             *)
WorkedBetween(l) ==
    /\ leases[l].flown \in Nat \X Nat
    /\ leases[l].claimed <= leases[l].flown[1]
    /\ leases[l].flown[1] <= leases[l].flown[2]
    /\ leases[l].flown[2] <= now
    /\ leases[l].flown[2] < leases[l].flown[1] + Ticks(leases[l].duration) + Second

LandedInTime == \A l \in LeaseIds : leases[l].status = "Landed" => WorkedBetween(l)

Conflict(k, l) ==
    \E r \in DOMAIN leases[k].claims \cap DOMAIN leases[l].claims :
        leases[k].claims[r] \/ leases[l].claims[r]

(* When a flight starts, or could.                                          *)
Start(l) == IF leases[l].status = "Authorized" THEN now ELSE leases[l].claimed

(* Before l may start, k is over: it did no work, its claims have run out,     *)
(* or it landed.                                                            *)
OverBefore(k, l) ==
    \/ leases[k].status \in {"Crashed", "Revoked", "Expired"}
    \/ leases[k].expires + Ticks(leases[k].duration) <= Start(l)
    \/ leases[k].status = "Landed" /\ leases[k].flown[2] <= Start(l)

(* A conflicting clearance is only issued once the earlier one is over.       *)
KeptApart ==
    \A k, l \in LeaseIds :
        (/\ k < l
         /\ leases[l].status \in {"Authorized", "Active", "Landed"}
         /\ Conflict(k, l))
        => OverBefore(k, l)

(* What is said of leases, claims and decisions only.                       *)
LeaseFacts ==
    /\ IssuedInOrder
    /\ RecoveryTree
    /\ NoConflictingClaims
    /\ OpenFlightsHold
    /\ LandedInTime
    /\ KeptApart

Inv == TypeOK /\ DraftIsProposed /\ PilotIsActor /\ LeaseFacts

-----------------------------------------------------------------------------
(* Seconds make ticks.                                                      *)
LEMMA TicksType ==
    ASSUME NEW n \in Nat
    PROVE  Ticks(n) \in Nat
  BY FlightsAssumption DEF Ticks

LEMMA UntilType ==
    ASSUME TypeOK, NEW ttl \in TTLs
    PROVE  Until(ttl) \in Nat
<1>1. ttl \in Nat /\ now \in Nat
  BY FlightsAssumption DEF TypeOK
<1> QED
  BY <1>1, TicksType DEF Until

(* num_seconds: what takes no more than n whole seconds takes less than n + 1.  *)
LEMMA WholeSeconds ==
    ASSUME NEW from \in Nat, NEW to \in Nat, NEW n \in Nat, from <= to,
           ~ ((to - from) \div Second > n)
    PROVE  to < from + Ticks(n) + Second
<1>1. Second \in Nat \ {0}
  BY FlightsAssumption
<1>2. PICK q \in Int : q = (to - from) \div Second
  BY <1>1
<1>3. to - from < Second * q + Second
  BY <1>1, <1>2
<1>4. q <= n
  BY <1>2
<1>5. Second * (n - q) >= 0
  BY <1>1, <1>4
<1>6. Second * q <= n * Second /\ Second * q \in Int /\ n * Second \in Int
  BY <1>1, <1>5
<1> QED
  BY <1>1, <1>3, <1>6 DEF Ticks

(* What a lease that was issued looks like.                                  *)
LEMMA LeaseType ==
    ASSUME TypeOK, NEW l \in LeaseIds
    PROVE  /\ leases[l].status # "None" => leases[l] \in LeaseRecord
           /\ leases[l].status = "None" => leases[l] = NoLease
  BY DEF TypeOK, NoLease, LeaseRecord, Terminal

(* What never changes of a lease.                                            *)
SameManifest(a, b) ==
    /\ a.task = b.task /\ a.worker = b.worker /\ a.expires = b.expires
    /\ a.claims = b.claims /\ a.duration = b.duration /\ a.maxAttempts = b.maxAttempts
    /\ a.parent = b.parent /\ a.root = b.root /\ a.attempt = b.attempt

(* What may happen to a lease in a step.                                     *)
Advances(l) ==
    \/ leases'[l] = leases[l]
    \/ /\ leases[l].status = "Authorized"
       /\ SameManifest(leases'[l], leases[l])
       /\ leases'[l].status \in {"Revoked", "Expired"}
    \/ /\ leases[l].status = "Authorized"
       /\ SameManifest(leases'[l], leases[l])
       /\ leases'[l].status = "Active" /\ leases'[l].claimed = now
    \/ /\ leases[l].status = "Active"
       /\ SameManifest(leases'[l], leases[l])
       /\ leases'[l].status = "Crashed"
    \/ /\ leases[l].status = "Active"
       /\ SameManifest(leases'[l], leases[l])
       /\ leases'[l].status = "Landed" /\ leases'[l].claimed = leases[l].claimed
       /\ WorkedBetween(l)'

(* Time does not go back, and stands still while anything else happens.        *)
TimePasses == now' >= now /\ now' \in Nat /\ (now' = now \/ leases' = leases)

(* Leases of a step in which none is issued: nothing of the order, the tree,    *)
(* the work done and the separation is lost.                                *)
LEMMA AdvanceKeepsTree ==
    ASSUME TypeOK, IssuedInOrder, RecoveryTree, \A l \in LeaseIds : Advances(l),
           \A e \in decisions' \ decisions : e.child = 0, decisions \subseteq decisions'
    PROVE  IssuedInOrder' /\ RecoveryTree'
<1>1. \A l \in LeaseIds : Issued(l)' <=> Issued(l)
  BY DEF Advances, Issued
<1>2. IssuedInOrder'
  <2>1. \A k, l \in LeaseIds : k < l /\ Issued(l)' => Issued(k)'
    BY <1>1 DEF IssuedInOrder
  <2>2. \A e \in decisions' : e.child # 0 => Issued(e.child)'
    BY <1>1 DEF IssuedInOrder, TypeOK
  <2> QED
    BY <2>1, <2>2 DEF IssuedInOrder
<1>3. \A l \in LeaseIds :
          /\ Issued(l) => SameManifest(leases'[l], leases[l])
          /\ leases[l].status \in Terminal => leases'[l].status = leases[l].status
  BY DEF Advances, SameManifest, Terminal
<1>4. \A l \in LeaseIds : {e \in decisions' : e.child = l} = {e \in decisions : e.child = l}
  BY FlightsAssumption DEF LeaseIds
<1>5. RecoveryTree'
  <2> SUFFICES ASSUME NEW l \in LeaseIds, Issued(l)'
               PROVE  (IF leases[l].parent = 0
                       THEN leases[l].root = l /\ leases[l].attempt = 1
                       ELSE LET p == leases[leases[l].parent]
                            IN  /\ leases[l].parent < l
                                /\ p.status \in Terminal
                                /\ leases[l].attempt = p.attempt + 1
                                /\ leases[l].attempt <= leases[l].maxAttempts
                                /\ leases[l].root = p.root
                                /\ leases[l].task = p.task /\ leases[l].worker = p.worker
                                /\ {e \in decisions : e.child = l}
                                       = {[parent |-> leases[l].parent, child |-> l]})'
    BY DEF RecoveryTree
  <2>1. Issued(l) /\ SameManifest(leases'[l], leases[l])
    BY <1>1, <1>3
  <2>2. CASE leases[l].parent = 0
    BY <2>1, <2>2 DEF RecoveryTree, SameManifest
  <2>3. CASE leases[l].parent # 0
    <3>1. leases[l].parent \in LeaseIds
      BY <2>1, <2>3, LeaseType DEF LeaseRecord, Issued
    <3>2. leases[leases[l].parent].status \in Terminal
      BY <2>1, <2>3 DEF RecoveryTree
    <3>3. /\ SameManifest(leases'[leases[l].parent], leases[leases[l].parent])
          /\ leases'[leases[l].parent].status \in Terminal
      BY <1>3, <3>1, <3>2 DEF Issued, Terminal
    <3> QED
      BY <1>4, <2>1, <2>3, <3>3 DEF RecoveryTree, SameManifest
  <2> QED
    BY <2>2, <2>3
<1> QED
  BY <1>2, <1>5

(* Flights that land do so after their claim and within their fuel.            *)
LEMMA AdvanceKeepsLanded ==
    ASSUME TypeOK, LandedInTime, TimePasses, NEW l \in LeaseIds, Advances(l),
           leases'[l].status = "Landed"
    PROVE  WorkedBetween(l)'
<1>1. CASE leases'[l] = leases[l]
  BY <1>1 DEF LandedInTime, WorkedBetween, TimePasses, TypeOK
<1>2. CASE leases'[l] # leases[l]
  BY <1>2 DEF Advances
<1> QED
  BY <1>1, <1>2

(* Flights that were kept apart stay so.                                    *)
LEMMA AdvanceKeepsApart ==
    ASSUME TypeOK, LandedInTime, KeptApart, TimePasses,
           NEW k \in LeaseIds, NEW l \in LeaseIds, k < l, Issued(k),
           Advances(k), Advances(l),
           leases'[l].status \in {"Authorized", "Active", "Landed"}, Conflict(k, l)'
    PROVE  OverBefore(k, l)'
<1>1. leases[l].status \in {"Authorized", "Active", "Landed"}
  BY DEF Advances
<1>2. /\ leases[k] \in LeaseRecord /\ leases[l] \in LeaseRecord
      /\ SameManifest(leases'[k], leases[k]) /\ SameManifest(leases'[l], leases[l])
  BY <1>1, LeaseType DEF Advances, SameManifest, Issued
<1>3. Start(l) <= Start(l)' /\ Start(l) \in Nat /\ Start(l)' \in Nat
  <2>1. leases[l].claimed \in Nat /\ now \in Nat
    BY <1>2 DEF LeaseRecord, TypeOK
  <2> QED
    BY <1>1, <2>1 DEF Advances, Start, TimePasses
<1>4. OverBefore(k, l)
  BY <1>1, <1>2 DEF KeptApart, Conflict, SameManifest
<1>5. CASE leases[k].expires + Ticks(leases[k].duration) <= Start(l)
  <2>1. leases[k].expires \in Nat /\ Ticks(leases[k].duration) \in Nat
    BY <1>2, TicksType DEF LeaseRecord
  <2> QED
    BY <1>2, <1>3, <1>5, <2>1 DEF OverBefore, SameManifest
<1>6. CASE leases[k].status \in {"Crashed", "Revoked", "Expired"}
  BY <1>6 DEF Advances, OverBefore
<1>7. CASE leases[k].status = "Landed" /\ leases[k].flown[2] <= Start(l)
  <2>1. leases'[k] = leases[k] /\ leases[k].flown[2] \in Nat
    BY <1>7 DEF Advances, LandedInTime, WorkedBetween
  <2> QED
    BY <1>3, <1>7, <2>1 DEF OverBefore
<1> QED
  BY <1>4, <1>5, <1>6, <1>7 DEF OverBefore

(* A step that issues no lease and frees only claims of flights that are over.   *)
LEMMA AdvanceFacts ==
    ASSUME TypeOK, LeaseFacts, TimePasses, \A l \in LeaseIds : Advances(l),
           \A e \in decisions' \ decisions : e.child = 0, decisions \subseteq decisions',
           held' \subseteq held,
           \A h \in held : leases'[h.flight].status \in {"Authorized", "Active"} => h \in held'
    PROVE  LeaseFacts'
<1>1. IssuedInOrder' /\ RecoveryTree'
  BY AdvanceKeepsTree DEF LeaseFacts
<1>2. NoConflictingClaims'
  <2>1. now \in Nat /\ now' \in Nat /\ now' >= now /\ \A h \in held : h.expires \in Nat
    BY DEF TypeOK, TimePasses
  <2> QED
    BY <2>1 DEF LeaseFacts, NoConflictingClaims
<1>3. OpenFlightsHold'
  <2> SUFFICES ASSUME NEW l \in LeaseIds, leases'[l].status \in {"Authorized", "Active"}
               PROVE  Acquired(l, leases[l])' \subseteq held'
    BY DEF OpenFlightsHold
  <2>1. /\ leases[l].status \in {"Authorized", "Active"}
        /\ SameManifest(leases'[l], leases[l])
    BY DEF Advances, SameManifest
  <2>2. Acquired(l, leases[l])' = Acquired(l, leases[l])
    BY <2>1 DEF Acquired, SameManifest
  <2>3. \A h \in Acquired(l, leases[l]) : h \in held /\ h.flight = l
    BY <2>1 DEF LeaseFacts, OpenFlightsHold, Acquired
  <2> QED
    BY <2>2, <2>3
<1>4. LandedInTime'
  BY AdvanceKeepsLanded DEF LeaseFacts, LandedInTime
<1>5. KeptApart'
  <2> SUFFICES ASSUME NEW k \in LeaseIds, NEW l \in LeaseIds, k < l,
                      leases'[l].status \in {"Authorized", "Active", "Landed"}, Conflict(k, l)'
               PROVE  OverBefore(k, l)'
    BY DEF KeptApart
  <2>1. Issued(k)
    BY DEF LeaseFacts, IssuedInOrder, Issued, Advances
  <2> QED
    BY <2>1, AdvanceKeepsApart DEF LeaseFacts
<1> QED
  BY <1>1, <1>2, <1>3, <1>4, <1>5 DEF LeaseFacts

(* Expiry, which the reaper and every issuing handler perform.                *)
LEMMA ReapedLease ==
    ASSUME TypeOK, NEW l \in LeaseIds
    PROVE  \/ ~ Due(l) /\ Reaped[l] = leases[l]
           \/ /\ Due(l) /\ leases[l].status = "Authorized" /\ Reaped[l] \in LeaseRecord
              /\ Reaped[l].status = "Expired" /\ SameManifest(Reaped[l], leases[l])
<1>1. CASE Due(l)
  <2>1. leases[l] \in LeaseRecord
    BY <1>1, LeaseType DEF Due
  <2>2. Reaped[l] = [leases[l] EXCEPT !.status = "Expired"]
    BY <1>1 DEF Reaped
  <2> QED
    BY <1>1, <2>1, <2>2 DEF LeaseRecord, SameManifest, Terminal, Due
<1>2. CASE ~ Due(l)
  BY <1>2 DEF Reaped
<1> QED
  BY <1>1, <1>2

(* A new clearance is issued only where it conflicts with nothing that is not   *)
(* over: authorize_remote_flight_with_manifest and recover_remote_flight.    *)
LEMMA IssueFacts ==
    ASSUME TypeOK, LeaseFacts, now' = now, NEW l \in LeaseIds, NEW lease \in LeaseRecord,
           lease.status = "Authorized", Issue(l, lease),
           decisions \subseteq decisions', \A e \in decisions' \ decisions : e.child = l
    PROVE  /\ IssuedInOrder' /\ NoConflictingClaims' /\ OpenFlightsHold'
           /\ LandedInTime' /\ KeptApart'
<1>1. /\ leases'[l] = lease
      /\ \A k \in LeaseIds \ {l} : leases'[k] = Reaped[k]
      /\ held' = HeldAfterReaping \cup Acquired(l, lease)
      /\ NextLease(l)
      /\ Available(lease.claims)
  BY DEF Issue, Reaped
<1>2. TimePasses
  BY DEF TimePasses, TypeOK
<1>3. \A k \in LeaseIds \ {l} : Advances(k)
  BY <1>1, ReapedLease DEF Advances
<1>4. \A k \in LeaseIds \ {l} : Issued(k)' <=> Issued(k)
  BY <1>3 DEF Advances, Issued
<1>5. \A k \in LeaseIds : Issued(k) <=> k < l
  <2>1. \A k \in LeaseIds : k < l => Issued(k)
    BY <1>1, FlightsAssumption DEF NextLease, LeaseIds
  <2>2. \A k \in LeaseIds : Issued(k) => k < l
    BY <1>1, FlightsAssumption DEF NextLease, LeaseFacts, IssuedInOrder, LeaseIds
  <2> QED
    BY <2>1, <2>2
<1>6. IssuedInOrder'
  <2>1. \A j, k \in LeaseIds : j < k /\ Issued(k)' => Issued(j)'
    <3> SUFFICES ASSUME NEW j \in LeaseIds, NEW k \in LeaseIds, j < k, Issued(k)'
                 PROVE  Issued(j)'
      OBVIOUS
    <3>1. k <= l
      BY <1>4, <1>5, FlightsAssumption DEF LeaseIds
    <3>2. j < l
      BY <3>1, FlightsAssumption DEF LeaseIds
    <3> QED
      BY <1>4, <1>5, <3>2, FlightsAssumption DEF LeaseIds
  <2>2. Issued(l)'
    BY <1>1 DEF Issued
  <2>3. \A e \in decisions' : e.child # 0 => Issued(e.child)'
    BY <1>4, <2>2 DEF LeaseFacts, IssuedInOrder, TypeOK
  <2> QED
    BY <2>1, <2>3 DEF IssuedInOrder
<1>7. NoConflictingClaims'
  <2>1. \A h \in Acquired(l, lease) :
            h.flight = l /\ h.resource \in DOMAIN lease.claims
                         /\ h.exclusive = lease.claims[h.resource]
    BY DEF Acquired
  <2>2. \A g \in HeldAfterReaping, h \in Acquired(l, lease) :
            g.expires > now /\ g.resource = h.resource => ~ (g.exclusive \/ h.exclusive)
    BY <1>1, <2>1 DEF Available
  <2>3. HeldAfterReaping \subseteq held
    BY DEF HeldAfterReaping
  <2> QED
    BY <1>1, <2>1, <2>2, <2>3 DEF NoConflictingClaims, LeaseFacts
<1>8. OpenFlightsHold'
  <2> SUFFICES ASSUME NEW k \in LeaseIds, leases'[k].status \in {"Authorized", "Active"}
               PROVE  Acquired(k, leases'[k]) \subseteq held'
    BY DEF OpenFlightsHold, Acquired
  <2>1. CASE k = l
    BY <1>1, <2>1
  <2>2. CASE k # l
    <3>1. ~ Due(k) /\ leases'[k] = leases[k]
      BY <1>1, <2>2, ReapedLease
    <3>2. \A h \in Acquired(k, leases[k]) : h \in held /\ h.flight = k
      BY <3>1 DEF LeaseFacts, OpenFlightsHold, Acquired
    <3> QED
      BY <1>1, <3>1, <3>2 DEF HeldAfterReaping
  <2> QED
    BY <2>1, <2>2
<1>9. LandedInTime'
  BY <1>1, <1>2, <1>3, AdvanceKeepsLanded DEF LeaseFacts, LandedInTime
<1>10. KeptApart'
  <2> SUFFICES ASSUME NEW j \in LeaseIds, NEW k \in LeaseIds, j < k,
                      leases'[k].status \in {"Authorized", "Active", "Landed"}, Conflict(j, k)'
               PROVE  OverBefore(j, k)'
    BY DEF KeptApart
  <2>1. k <= l /\ j # l /\ Issued(j)
    <3>1. Issued(k)'
      BY DEF Issued
    <3>2. k <= l
      BY <1>4, <1>5, <3>1, FlightsAssumption DEF LeaseIds
    <3>3. j < l
      BY <3>2, FlightsAssumption DEF LeaseIds
    <3> QED
      BY <1>5, <3>2, <3>3, FlightsAssumption DEF LeaseIds
  <2>2. CASE k # l
    BY <1>2, <1>3, <2>1, <2>2, AdvanceKeepsApart DEF LeaseFacts
  <2>3. CASE k = l
    <3>1. Start(k)' = now
      BY <1>1, <2>3 DEF Start
    <3>2. leases[j] \in LeaseRecord
      BY <2>1, LeaseType DEF Issued
    <3>3. CASE Due(j)
      BY <1>1, <2>1, <3>3, ReapedLease DEF OverBefore
    <3>4. CASE ~ Due(j) /\ leases[j].status \in {"Authorized", "Active"}
      <4>1. leases'[j] = leases[j]
        BY <1>1, <2>1, <3>4, ReapedLease
      <4>2. PICK r \in DOMAIN leases[j].claims \cap DOMAIN lease.claims :
                     leases[j].claims[r] \/ lease.claims[r]
        BY <1>1, <2>3, <4>1 DEF Conflict
      <4> DEFINE h == [flight |-> j, resource |-> r, exclusive |-> leases[j].claims[r],
                       expires |-> leases[j].expires + Ticks(leases[j].duration)]
      <4>3. h \in Acquired(j, leases[j])
        BY <4>2 DEF Acquired
      <4>4. h \in HeldAfterReaping
        BY <3>4, <4>3 DEF LeaseFacts, OpenFlightsHold, HeldAfterReaping
      <4>5. ~ (leases[j].expires + Ticks(leases[j].duration) > now)
        BY <1>1, <4>2, <4>4 DEF Available
      <4>6. leases[j].expires + Ticks(leases[j].duration) <= now
        <5>1. leases[j].expires \in Nat /\ Ticks(leases[j].duration) \in Nat /\ now \in Nat
          BY <3>2, TicksType DEF LeaseRecord, TypeOK
        <5> QED
          BY <4>5, <5>1
      <4> QED
        BY <3>1, <4>1, <4>6 DEF OverBefore
    <3>5. CASE ~ Due(j) /\ leases[j].status = "Landed"
      <4>1. leases'[j] = leases[j]
        BY <1>1, <2>1, <3>5, ReapedLease
      <4>2. leases[j].flown[2] <= now
        BY <3>5 DEF LeaseFacts, LandedInTime, WorkedBetween
      <4> QED
        BY <3>1, <3>5, <4>1, <4>2 DEF OverBefore
    <3>6. CASE ~ Due(j) /\ leases[j].status \in {"Crashed", "Revoked", "Expired"}
      BY <1>1, <2>1, <3>6, ReapedLease DEF OverBefore
    <3> QED
      BY <3>2, <3>3, <3>4, <3>5, <3>6 DEF LeaseRecord, Terminal
  <2> QED
    BY <2>2, <2>3
<1> QED
  BY <1>6, <1>7, <1>8, <1>9, <1>10

(* A flight's place in the recovery tree.                                    *)
InTree(l) ==
    IF leases[l].parent = 0
    THEN leases[l].root = l /\ leases[l].attempt = 1
    ELSE LET p == leases[leases[l].parent]
         IN  /\ leases[l].parent < l
             /\ p.status \in Terminal
             /\ leases[l].attempt = p.attempt + 1
             /\ leases[l].attempt <= leases[l].maxAttempts
             /\ leases[l].root = p.root
             /\ leases[l].task = p.task /\ leases[l].worker = p.worker
             /\ {e \in decisions : e.child = l} = {[parent |-> leases[l].parent, child |-> l]}

(* Issuing a lease leaves the places of the others.                          *)
LEMMA IssueKeepsTree ==
    ASSUME TypeOK, LeaseFacts, now' = now, NEW l \in LeaseIds, NEW lease \in LeaseRecord,
           lease.status = "Authorized", Issue(l, lease),
           decisions \subseteq decisions', \A e \in decisions' \ decisions : e.child = l,
           InTree(l)'
    PROVE  RecoveryTree'
<1>1. /\ \A k \in LeaseIds \ {l} : leases'[k] = Reaped[k]
      /\ leases'[l] = lease
      /\ ~ Issued(l)
  BY DEF Issue, Reaped, NextLease
<1>2. \A k \in LeaseIds \ {l} :
          /\ Issued(k)' <=> Issued(k)
          /\ Issued(k) => SameManifest(leases'[k], leases[k])
          /\ leases[k].status \in Terminal => leases'[k].status = leases[k].status
  BY <1>1, ReapedLease DEF SameManifest, Issued, Terminal
<1>3. \A k \in LeaseIds \ {l} : {e \in decisions' : e.child = k} = {e \in decisions : e.child = k}
  OBVIOUS
<1>4. ASSUME NEW k \in LeaseIds, k # l, Issued(k)'
      PROVE  InTree(k)'
  <2>1. Issued(k) /\ SameManifest(leases'[k], leases[k])
    BY <1>2, <1>4
  <2>2. InTree(k)
    BY <2>1 DEF LeaseFacts, RecoveryTree, InTree
  <2>3. CASE leases[k].parent = 0
    BY <2>1, <2>2, <2>3 DEF InTree, SameManifest
  <2>4. CASE leases[k].parent # 0
    <3>1. leases[k].parent \in LeaseIds
      BY <2>1, <2>4, LeaseType DEF LeaseRecord, Issued
    <3>2. leases[leases[k].parent].status \in Terminal
      BY <2>2, <2>4 DEF InTree
    <3>3. leases[k].parent # l
      BY <1>1, <3>2 DEF Issued, Terminal
    <3>4. /\ SameManifest(leases'[leases[k].parent], leases[leases[k].parent])
          /\ leases'[leases[k].parent].status \in Terminal
      BY <1>2, <3>1, <3>2, <3>3 DEF Issued, Terminal
    <3> QED
      BY <1>3, <1>4, <2>1, <2>2, <2>4, <3>4 DEF InTree, SameManifest
  <2> QED
    BY <2>3, <2>4
<1> QED
  BY <1>4 DEF RecoveryTree, InTree

(* The types after issuing a lease.                                          *)
LEMMA IssueTypeOK ==
    ASSUME TypeOK, NEW l \in LeaseIds, NEW lease \in LeaseRecord, Issue(l, lease),
           UNCHANGED <<taskVars, now>>,
           decisions' \subseteq [parent : LeaseIds, child : LeaseIds \cup {0}]
    PROVE  TypeOK'
<1>1. TaskTypeOK'
  BY DEF TypeOK, TaskTypeOK, taskVars
<1>2. leases' \in [LeaseIds -> LeaseRecord \cup {NoLease}]
  <2>1. \A k \in LeaseIds : Reaped[k] \in LeaseRecord \cup {NoLease}
    BY ReapedLease DEF TypeOK
  <2>2. Reaped \in [LeaseIds -> LeaseRecord \cup {NoLease}]
    BY <2>1 DEF Reaped
  <2> QED
    BY <2>2 DEF Issue
<1>3. held' \subseteq [flight : LeaseIds, resource : Resources, exclusive : BOOLEAN, expires : Nat]
  <2>1. /\ lease.expires + Ticks(lease.duration) \in Nat
        /\ lease.claims \in Claims
    <3>1. lease.expires \in Nat /\ Ticks(lease.duration) \in Nat
      BY TicksType DEF LeaseRecord
    <3> QED
      BY <3>1 DEF LeaseRecord
  <2>2. PICK S \in SUBSET Resources : lease.claims \in [S -> BOOLEAN]
    BY <2>1 DEF Claims
  <2>3. \A r \in DOMAIN lease.claims : r \in Resources /\ lease.claims[r] \in BOOLEAN
    BY <2>2
  <2>4. Acquired(l, lease)
           \subseteq [flight : LeaseIds, resource : Resources, exclusive : BOOLEAN, expires : Nat]
    BY <2>1, <2>3 DEF Acquired
  <2> QED
    BY <2>4 DEF Issue, TypeOK, HeldAfterReaping
<1> QED
  BY <1>1, <1>2, <1>3 DEF TypeOK

(* Who flies stays an actor of the task when the tasks stay as they are and no  *)
(* flight takes off.                                                        *)
LEMMA QuietPilots ==
    ASSUME TypeOK, PilotIsActor, UNCHANGED taskVars,
           \A l \in LeaseIds : leases'[l].status = "Active" => leases'[l] = leases[l]
    PROVE  PilotIsActor'
  BY DEF PilotIsActor, taskVars

(* The draft is left alone.                                                 *)
LEMMA QuietDraft ==
    ASSUME DraftIsProposed, UNCHANGED taskVars
    PROVE  DraftIsProposed'
  BY DEF DraftIsProposed, taskVars

-----------------------------------------------------------------------------
(* build_flight_manifest makes a manifest of any draft.                      *)
LEMMA ManifestType ==
    ASSUME NEW t \in TaskIds, NEW ttl \in TTLs, NEW d \in Drafts
    PROVE  /\ Manifest(t, ttl, d).claims \in Claims
           /\ Manifest(t, ttl, d).duration \in Nat \ {0}
           /\ Manifest(t, ttl, d).maxAttempts \in Nat
<1> USE FlightsAssumption
<1>1. d \in [claims : Claims, duration : Nat, maxAttempts : Nat]
  OBVIOUS
<1>2. [r \in {t} |-> TRUE] \in [{t} -> BOOLEAN] /\ {t} \in SUBSET Resources
  OBVIOUS
<1>3. [r \in {t} |-> TRUE] \in Claims
  BY <1>2 DEF Claims
<1> QED
  BY <1>1, <1>3 DEF Manifest

(* authorize_remote_flight_with_manifest: a root of the recovery tree.        *)
LEMMA AuthorizeInv ==
    ASSUME Inv, NEW l \in LeaseIds, NEW t \in TaskIds, NEW human \in Humans,
           NEW worker \in Agents, NEW ttl \in TTLs, NEW d \in Drafts,
           Authorize(l, t, human, worker, ttl, d)
    PROVE  Inv'
<1> DEFINE m == Manifest(t, ttl, d)
           lease == [status |-> "Authorized", task |-> t, worker |-> worker,
                     by |-> human, expires |-> Until(ttl), claimed |-> 0,
                     claims |-> m.claims, duration |-> m.duration,
                     maxAttempts |-> m.maxAttempts, flown |-> <<>>,
                     parent |-> 0, root |-> l, attempt |-> 1]
<1>1. lease \in LeaseRecord
  <2>1. m.maxAttempts \in 1 .. 10
    BY DEF Authorize, ValidManifest
  <2>2. Until(ttl) \in Nat
    BY UntilType DEF Inv
  <2>3. m.claims \in Claims /\ m.duration \in Nat \ {0}
    BY ManifestType
  <2> HIDE DEF m
  <2> QED
    BY <2>1, <2>2, <2>3 DEF LeaseRecord
<1>2. Issue(l, lease) /\ UNCHANGED <<taskVars, now, decisions>>
  BY DEF Authorize
<1>3. lease.status = "Authorized" /\ lease.parent = 0 /\ lease.root = l /\ lease.attempt = 1
  OBVIOUS
<1> HIDE DEF lease
<1>4. TypeOK'
  BY <1>1, <1>2, IssueTypeOK DEF Inv, TypeOK
<1>5. DraftIsProposed'
  BY <1>2, QuietDraft DEF Inv
<1>6. leases'[l] = lease /\ \A k \in LeaseIds \ {l} : leases'[k] = Reaped[k]
  BY <1>2 DEF Issue, Reaped
<1>7. PilotIsActor'
  <2>1. \A k \in LeaseIds : leases'[k].status = "Active" => leases'[k] = leases[k]
    BY <1>3, <1>6, ReapedLease DEF Inv
  <2> QED
    BY <1>2, <2>1, QuietPilots DEF Inv
<1>8. InTree(l)'
  BY <1>3, <1>6 DEF InTree
<1>9. LeaseFacts'
  BY <1>1, <1>2, <1>3, <1>8, IssueFacts, IssueKeepsTree DEF Inv, LeaseFacts
<1> QED
  BY <1>4, <1>5, <1>7, <1>9 DEF Inv

(* recover_remote_flight: a child of a flight that is over.                   *)
LEMMA RecoverInv ==
    ASSUME Inv, NEW l \in LeaseIds, NEW parent \in LeaseIds, NEW action \in AllowedActions,
           NEW human \in Humans, NEW ttl \in TTLs, Recover(l, parent, action, human, ttl)
    PROVE  Inv'
<1> DEFINE p == Reaped[parent]
           lease == [p EXCEPT !.status = "Authorized", !.by = human,
                              !.expires = Until(ttl), !.claimed = 0,
                              !.flown = <<>>, !.parent = parent, !.attempt = @ + 1]
<1>1. /\ p \in LeaseRecord
      /\ p.status \in Terminal
  BY LeaseType, ReapedLease DEF Recover, Issued, Inv, Terminal
<1>2. p.attempt < p.maxAttempts
  BY DEF Recover, Attempts
<1>3. /\ Issue(l, lease)
      /\ decisions' = decisions \cup {[parent |-> parent, child |-> l]}
      /\ UNCHANGED <<taskVars, now>>
  BY DEF Recover
<1>4. parent < l /\ parent # l /\ ~ Issued(l)
  <2>1. ~ Issued(l) /\ Issued(parent)
    BY <1>3 DEF Issue, NextLease, Recover
  <2> QED
    BY <2>1, FlightsAssumption DEF Inv, LeaseFacts, IssuedInOrder, LeaseIds
<1>5. leases'[parent] = p
  BY <1>3, <1>4 DEF Issue, Reaped
<1> HIDE DEF p
<1>6. /\ lease \in LeaseRecord /\ lease.status = "Authorized"
      /\ lease.parent = parent /\ lease.attempt = p.attempt + 1
      /\ lease.maxAttempts = p.maxAttempts /\ lease.root = p.root
      /\ lease.task = p.task /\ lease.worker = p.worker
  <2>1. Until(ttl) \in Nat
    BY UntilType DEF Inv
  <2>2. /\ p.task \in TaskIds /\ p.worker \in Agents /\ p.claims \in Claims
        /\ p.duration \in Nat \ {0} /\ p.maxAttempts \in 1 .. 10
        /\ p.root \in LeaseIds /\ p.attempt + 1 \in Nat \ {0}
    BY <1>1 DEF LeaseRecord
  <2>3. /\ lease.status = "Authorized" /\ lease.task = p.task /\ lease.worker = p.worker
        /\ lease.by = human /\ lease.expires = Until(ttl) /\ lease.claimed = 0
        /\ lease.claims = p.claims /\ lease.duration = p.duration
        /\ lease.maxAttempts = p.maxAttempts /\ lease.flown = <<>>
        /\ lease.parent = parent /\ lease.root = p.root /\ lease.attempt = p.attempt + 1
    BY <1>1 DEF LeaseRecord
  <2>4. lease = [lease EXCEPT !.status = lease.status] /\ DOMAIN lease = DOMAIN p
    BY <1>1 DEF LeaseRecord
  <2> HIDE DEF lease
  <2> QED
    BY <1>1, <2>1, <2>2, <2>3, <2>4 DEF LeaseRecord
<1> HIDE DEF lease
<1>7. TypeOK'
  BY <1>3, <1>6, IssueTypeOK DEF Inv, TypeOK
<1>8. DraftIsProposed'
  BY <1>3, QuietDraft DEF Inv
<1>9. leases'[l] = lease /\ \A k \in LeaseIds \ {l} : leases'[k] = Reaped[k]
  BY <1>3 DEF Issue, Reaped
<1>10. PilotIsActor'
  <2>1. \A k \in LeaseIds : leases'[k].status = "Active" => leases'[k] = leases[k]
    BY <1>6, <1>9, ReapedLease DEF Inv
  <2> QED
    BY <1>3, <2>1, QuietPilots DEF Inv
<1>11. InTree(l)'
  <2>1. {e \in decisions' : e.child = l} = {[parent |-> parent, child |-> l]}
    <3>1. l # 0
      BY FlightsAssumption DEF LeaseIds
    <3>2. \A e \in decisions : e.child # l
      BY <1>4, <3>1 DEF Inv, LeaseFacts, IssuedInOrder
    <3> QED
      BY <1>3, <3>2
  <2>2. lease.attempt <= lease.maxAttempts
    BY <1>1, <1>2, <1>6, SMTT(30) DEF LeaseRecord
  <2>3. parent # 0
    BY FlightsAssumption DEF LeaseIds
  <2> QED
    BY <1>1, <1>4, <1>5, <1>6, <1>9, <2>1, <2>2, <2>3 DEF InTree
<1>12. LeaseFacts'
  <2>1. decisions \subseteq decisions' /\ \A e \in decisions' \ decisions : e.child = l
    BY <1>3
  <2> QED
    BY <1>3, <1>6, <1>11, <2>1, IssueFacts, IssueKeepsTree DEF Inv, LeaseFacts
<1> QED
  BY <1>7, <1>8, <1>10, <1>12 DEF Inv

-----------------------------------------------------------------------------
(* Leases and claims are left alone.                                         *)
LEMMA QuietFlights ==
    ASSUME TypeOK, LeaseFacts, UNCHANGED flightVars
    PROVE  LeaseFacts'
<1>1. TimePasses /\ \A l \in LeaseIds : Advances(l)
  BY DEF TimePasses, Advances, TypeOK, flightVars
<1> QED
  BY <1>1, AdvanceFacts DEF flightVars

(* The operations of the task lifecycle keep the types.                      *)
LEMMA FlowStepTypeOK ==
    ASSUME TaskTypeOK, FlowStep \/ \E t \in TaskIds, a \in Assignments : ReassignTask(t, a)
    PROVE  TaskTypeOK'
<1> USE TasksAssumption
<1>1. CASE ApproveFlow
  BY <1>1 DEF ApproveFlow, TaskTypeOK, TaskStatus
<1>2. ASSUME NEW t \in TaskIds,
             \/ AcceptTask(t) \/ RejectTask(t) \/ StartTask(t) \/ BlockTask(t)
             \/ SubmitTask(t) \/ CompleteTask(t)
      PROVE  TaskTypeOK'
  BY <1>2 DEF AcceptTask, RejectTask, StartTask, BlockTask, SubmitTask, CompleteTask,
              TaskTypeOK, TaskStatus
<1>3. ASSUME NEW t \in TaskIds, AddEvidence(t) \/ NegotiateTask(t)
      PROVE  TaskTypeOK'
  BY <1>3 DEF AddEvidence, NegotiateTask, TaskTypeOK
<1>4. ASSUME NEW adds \in SUBSET TaskIds, ProposeFlowChange(adds)
      PROVE  TaskTypeOK'
  BY <1>4 DEF ProposeFlowChange, TaskTypeOK
<1>5. ASSUME NEW c \in proposals, ApproveFlowChange(c) \/ RejectFlowChange(c)
      PROVE  TaskTypeOK'
  BY <1>5 DEF ApproveFlowChange, RejectFlowChange, TaskTypeOK, TaskStatus
<1>6. ASSUME NEW t \in TaskIds, NEW a \in Assignments, ReassignTask(t, a)
      PROVE  TaskTypeOK'
  BY <1>6 DEF ReassignTask, TaskTypeOK, TaskStatus
<1> QED
  BY <1>1, <1>2, <1>3, <1>4, <1>5, <1>6 DEF FlowStep

(* No operation of the task lifecycle takes a task out of the hands of who     *)
(* flies for it: once it was started it can be blocked, submitted or completed. *)
LEMMA FlowStepInv ==
    ASSUME Inv, FlowStep, UNCHANGED flightVars
    PROVE  Inv'
<1> DEFINE flying == {"InProgress", "Blocked", "Submitted", "Completed"}
<1>1. TaskTypeOK
  BY DEF Inv, TypeOK
<1>2. TypeOK'
  BY <1>1, FlowStepTypeOK DEF Inv, TypeOK, flightVars
<1>3. DraftIsProposed'
  <2>1. CASE ApproveFlow
    BY <2>1 DEF ApproveFlow, DraftIsProposed
  <2>2. ASSUME NEW t \in TaskIds,
               \/ AcceptTask(t) \/ RejectTask(t) \/ StartTask(t) \/ BlockTask(t)
               \/ SubmitTask(t) \/ CompleteTask(t)
        PROVE  flow' # "Draft"
    BY <2>2 DEF AcceptTask, RejectTask, StartTask, BlockTask, SubmitTask, CompleteTask,
                Inv, DraftIsProposed
  <2>3. ASSUME NEW t \in TaskIds, AddEvidence(t) \/ NegotiateTask(t)
        PROVE  UNCHANGED <<flow, status, proposals>>
    BY <2>3 DEF AddEvidence, NegotiateTask
  <2>4. ASSUME NEW adds \in SUBSET TaskIds, ProposeFlowChange(adds)
        PROVE  flow' # "Draft"
    BY <2>4 DEF ProposeFlowChange
  <2>5. ASSUME NEW c \in proposals, ApproveFlowChange(c) \/ RejectFlowChange(c)
        PROVE  flow' # "Draft"
    BY <2>5 DEF ApproveFlowChange, RejectFlowChange, Inv, DraftIsProposed
  <2> QED
    BY <2>1, <2>2, <2>3, <2>4, <2>5 DEF FlowStep, Inv, DraftIsProposed
<1>4. \A t \in TaskIds : status[t] \in flying => status'[t] \in flying
  <2>1. CASE ApproveFlow
    BY <2>1 DEF ApproveFlow, Inv, DraftIsProposed
  <2>2. ASSUME NEW u \in TaskIds,
               \/ AcceptTask(u) \/ RejectTask(u) \/ StartTask(u) \/ BlockTask(u)
               \/ AddEvidence(u) \/ SubmitTask(u) \/ CompleteTask(u) \/ NegotiateTask(u)
        PROVE  \A t \in TaskIds : status[t] \in flying => status'[t] \in flying
    BY <1>1, <2>2 DEF AcceptTask, RejectTask, StartTask, BlockTask, AddEvidence, SubmitTask,
                CompleteTask, NegotiateTask, TaskTypeOK
  <2>3. ASSUME NEW adds \in SUBSET TaskIds, ProposeFlowChange(adds)
        PROVE  \A t \in TaskIds : status[t] \in flying => status'[t] \in flying
    BY <2>3 DEF ProposeFlowChange
  <2>4. ASSUME NEW c \in proposals, ApproveFlowChange(c) \/ RejectFlowChange(c)
        PROVE  \A t \in TaskIds : status[t] \in flying => status'[t] \in flying
    BY <2>4 DEF ApproveFlowChange, RejectFlowChange, Present
  <2> QED
    BY <2>1, <2>2, <2>3, <2>4 DEF FlowStep
<1>5. assigned' = assigned
  BY DEF FlowStep, ApproveFlow, AcceptTask, RejectTask, StartTask, BlockTask, AddEvidence,
         SubmitTask, CompleteTask, NegotiateTask, ProposeFlowChange, ApproveFlowChange,
         RejectFlowChange
<1>6. PilotIsActor'
  <2>1. \A l \in LeaseIds : leases[l].status = "Active" => leases[l].task \in TaskIds
    BY LeaseType DEF Inv, LeaseRecord
  <2> QED
    BY <1>4, <1>5, <2>1 DEF Inv, PilotIsActor, flightVars
<1>7. LeaseFacts'
  BY QuietFlights DEF Inv
<1> QED
  BY <1>2, <1>3, <1>6, <1>7 DEF Inv

(* reassign_task refuses to take a task from a flight in the air.              *)
LEMMA ReassignInv ==
    ASSUME Inv, NEW t \in TaskIds, NEW a \in Assignments, Reassign(t, a)
    PROVE  Inv'
<1>1. ReassignTask(t, a) /\ UNCHANGED flightVars
  BY DEF Reassign
<1>2. TypeOK'
  BY <1>1, FlowStepTypeOK DEF Inv, TypeOK, flightVars
<1>3. DraftIsProposed'
  BY <1>1 DEF ReassignTask, DraftIsProposed
<1>4. PilotIsActor'
  <2> SUFFICES ASSUME NEW l \in LeaseIds, leases'[l].status = "Active"
               PROVE  (/\ IsActor(leases[l].worker, assigned[leases[l].task])
                       /\ status[leases[l].task]
                             \in {"InProgress", "Blocked", "Submitted", "Completed"})'
    BY DEF PilotIsActor
  <2>1. leases[l].status = "Active" /\ leases' = leases
    BY <1>1 DEF flightVars
  <2>2. leases[l].task # t
    BY <2>1 DEF Reassign, Open, Issued
  <2>3. leases[l].task \in TaskIds
    BY <2>1, LeaseType DEF Inv, LeaseRecord
  <2>4. /\ assigned'[leases[l].task] = assigned[leases[l].task]
        /\ status'[leases[l].task] = status[leases[l].task]
    BY <1>1, <2>2, <2>3 DEF ReassignTask, Inv, TypeOK, TaskTypeOK
  <2> QED
    BY <2>1, <2>4 DEF Inv, PilotIsActor
<1>5. LeaseFacts'
  BY <1>1, QuietFlights DEF Inv
<1> QED
  BY <1>2, <1>3, <1>4, <1>5 DEF Inv

(* claim_remote_flight: the agent is an actor of the task when it takes off.     *)
LEMMA ClaimInv ==
    ASSUME Inv, NEW l \in LeaseIds, Claim(l)
    PROVE  Inv'
<1> DEFINE t == leases[l].task
<1>1. /\ leases[l].status = "Authorized" /\ leases[l] \in LeaseRecord
      /\ t \in TaskIds /\ now \in Nat
  BY LeaseType DEF Claim, Claimable, Inv, LeaseRecord, TypeOK
<1>2. /\ leases' = [leases EXCEPT ![l].status = "Active", ![l].claimed = now]
      /\ status' = [status EXCEPT ![t] = "InProgress"]
      /\ Airworthy(t) /\ IsActor(leases[l].worker, assigned[t])
      /\ UNCHANGED <<flow, assigned, evidence, p80, proposals, now, held, decisions>>
  BY DEF Claim
<1>3. /\ leases'[l].status = "Active" /\ leases'[l].claimed = now
      /\ leases'[l] \in LeaseRecord /\ SameManifest(leases'[l], leases[l])
      /\ \A k \in LeaseIds \ {l} : leases'[k] = leases[k]
  BY <1>1, <1>2 DEF LeaseRecord, SameManifest, Inv, TypeOK
<1>4. TypeOK'
  <2>1. TaskTypeOK'
    BY <1>1, <1>2 DEF Inv, TypeOK, TaskTypeOK, TaskStatus
  <2>2. leases' \in [LeaseIds -> LeaseRecord \cup {NoLease}]
    BY <1>2, <1>3 DEF Inv, TypeOK
  <2> QED
    BY <1>2, <2>1, <2>2 DEF Inv, TypeOK
<1>5. DraftIsProposed'
  BY <1>1, <1>2 DEF Inv, DraftIsProposed, Airworthy
<1>6. PilotIsActor'
  <2> SUFFICES ASSUME NEW k \in LeaseIds, leases'[k].status = "Active"
               PROVE  (/\ IsActor(leases[k].worker, assigned[leases[k].task])
                       /\ status[leases[k].task]
                             \in {"InProgress", "Blocked", "Submitted", "Completed"})'
    BY DEF PilotIsActor
  <2>1. CASE k = l
    BY <1>1, <1>2, <1>3, <2>1 DEF SameManifest, Inv, TypeOK, TaskTypeOK
  <2>2. CASE k # l
    <3>1. leases'[k] = leases[k] /\ leases[k].task \in TaskIds
      BY <1>3, <2>2, LeaseType DEF Inv, LeaseRecord
    <3> QED
      BY <1>2, <3>1 DEF Inv, PilotIsActor, TypeOK, TaskTypeOK
  <2> QED
    BY <2>1, <2>2
<1>7. TimePasses /\ \A k \in LeaseIds : Advances(k)
  <2>1. TimePasses
    BY <1>1, <1>2 DEF TimePasses
  <2>2. Advances(l)
    BY <1>1, <1>3 DEF Advances
  <2>3. \A k \in LeaseIds \ {l} : Advances(k)
    BY <1>3 DEF Advances
  <2> QED
    BY <2>1, <2>2, <2>3
<1>8. LeaseFacts'
  BY <1>2, <1>7, AdvanceFacts DEF Inv
<1> QED
  BY <1>4, <1>5, <1>6, <1>8 DEF Inv

(* What a report that lands a flight says about its work.                     *)
LEMMA ReportType ==
    ASSUME TypeOK, NEW l \in LeaseIds, leases[l] \in LeaseRecord, NEW r \in Reports(l)
    PROVE  /\ r.from \in Nat /\ r.to \in Nat
           /\ leases[l].claimed <= r.from /\ r.from <= r.to /\ r.to <= now
<1>1. PICK ok \in BOOLEAN, p \in {w \in (leases[l].claimed .. now) \X (0 .. now) : w[1] <= w[2]},
           n \in {0, 1}, o \in {"kept", "broken"} :
               r = [landed |-> ok, from |-> p[1], to |-> p[2], declared |-> n, output |-> o]
  BY DEF Reports
<1>2. r.from = p[1] /\ r.to = p[2]
  BY <1>1
<1>3. p[1] \in leases[l].claimed .. now /\ p[2] \in 0 .. now /\ p[1] <= p[2]
  OBVIOUS
<1>4. leases[l].claimed \in Nat /\ now \in Nat
  BY DEF LeaseRecord, TypeOK
<1> QED
  BY <1>2, <1>3, <1>4

(* finish_remote_flight: a flight lands within its fuel or is recorded as      *)
(* crashed, and frees what it claimed.                                      *)
LEMMA FinishInv ==
    ASSUME Inv, NEW l \in LeaseIds, NEW r \in Reports(l), Finish(l, r)
    PROVE  Inv'
<1> DEFINE t == leases[l].task
<1>1. /\ leases[l].status = "Active" /\ leases[l] \in LeaseRecord
      /\ t \in TaskIds /\ now \in Nat /\ leases[l].duration \in Nat
  BY LeaseType DEF Finish, Inv, LeaseRecord, TypeOK
<1>2. /\ held' = HeldWithout(l)
      /\ evidence' = [evidence EXCEPT ![t] = @ \cup {l}]
      /\ UNCHANGED <<flow, assigned, p80, proposals, now, decisions>>
      /\ status' \in {status, [status EXCEPT ![t] = "Blocked"]}
  BY DEF Finish
<1>3. /\ \A k \in LeaseIds \ {l} : leases'[k] = leases[k]
      /\ leases'[l] \in LeaseRecord /\ SameManifest(leases'[l], leases[l])
      /\ Advances(l)
      /\ leases'[l].status \in {"Landed", "Crashed"}
  <2>1. CASE EffectiveLanded(l, r)
    <3>1. /\ leases' = [leases EXCEPT ![l].status = "Landed", ![l].flown = <<r.from, r.to>>]
          /\ now' = now
      BY <2>1 DEF Finish
    <3>2. /\ r.from \in Nat /\ r.to \in Nat
          /\ leases[l].claimed <= r.from /\ r.from <= r.to /\ r.to <= now
      BY <1>1, ReportType DEF Inv
    <3>3. r.to < r.from + Ticks(leases[l].duration) + Second
      <4>1. ~ ((r.to - r.from) \div Second > leases[l].duration)
        BY <2>1 DEF EffectiveLanded, FuelExhausted, Measured
      <4> QED
        BY <1>1, <3>2, <4>1, WholeSeconds
    <3> DEFINE w == <<r.from, r.to>>
    <3>4. w \in Nat \X Nat /\ w \in {<<>>} \cup (Nat \X Nat) /\ w[1] = r.from /\ w[2] = r.to
      BY <3>2
    <3>5. leases' = [leases EXCEPT ![l].status = "Landed", ![l].flown = w]
      BY <3>1
    <3> HIDE DEF w
    <3>6. /\ \A k \in LeaseIds \ {l} : leases'[k] = leases[k]
          /\ leases'[l] = [leases[l] EXCEPT !.status = "Landed", !.flown = w]
      BY <3>5 DEF Inv, TypeOK
    <3>7. /\ leases'[l].status = "Landed" /\ leases'[l].flown = w
          /\ leases'[l].claimed = leases[l].claimed
          /\ leases'[l] \in LeaseRecord /\ SameManifest(leases'[l], leases[l])
      BY <1>1, <3>4, <3>6 DEF LeaseRecord, SameManifest, Terminal
    <3>8. WorkedBetween(l)'
      BY <3>1, <3>2, <3>3, <3>4, <3>7 DEF WorkedBetween, SameManifest
    <3> QED
      BY <1>1, <3>6, <3>7, <3>8 DEF Advances
  <2>2. CASE ~ EffectiveLanded(l, r)
    <3>1. leases' = [leases EXCEPT ![l].status = "Crashed"]
      BY <2>2 DEF Finish
    <3>2. /\ \A k \in LeaseIds \ {l} : leases'[k] = leases[k]
          /\ leases'[l] = [leases[l] EXCEPT !.status = "Crashed"]
      BY <3>1 DEF Inv, TypeOK
    <3>3. /\ leases'[l].status = "Crashed"
          /\ leases'[l] \in LeaseRecord /\ SameManifest(leases'[l], leases[l])
      BY <1>1, <3>2 DEF LeaseRecord, SameManifest, Terminal
    <3> QED
      BY <1>1, <3>2, <3>3 DEF Advances
  <2> QED
    BY <2>1, <2>2
<1>4. TypeOK'
  <2>1. TaskTypeOK'
    BY <1>1, <1>2, FlightsAssumption DEF Inv, TypeOK, TaskTypeOK, TaskStatus
  <2>2. leases' \in [LeaseIds -> LeaseRecord \cup {NoLease}]
    <3>1. DOMAIN leases' = LeaseIds /\ leases' = [k \in LeaseIds |-> leases'[k]]
      BY DEF Finish, Inv, TypeOK
    <3> QED
      BY <1>3, <3>1 DEF Inv, TypeOK
  <2> QED
    BY <1>2, <2>1, <2>2 DEF Inv, TypeOK, HeldWithout
<1>5. DraftIsProposed'
  BY <1>1, <1>2 DEF Inv, DraftIsProposed, PilotIsActor
<1>6. PilotIsActor'
  <2> SUFFICES ASSUME NEW k \in LeaseIds, leases'[k].status = "Active"
               PROVE  (/\ IsActor(leases[k].worker, assigned[leases[k].task])
                       /\ status[leases[k].task]
                             \in {"InProgress", "Blocked", "Submitted", "Completed"})'
    BY DEF PilotIsActor
  <2>1. k # l /\ leases'[k] = leases[k] /\ leases[k].task \in TaskIds
    BY <1>3, LeaseType DEF Inv, LeaseRecord
  <2> QED
    BY <1>2, <2>1 DEF Inv, PilotIsActor, TypeOK, TaskTypeOK
<1>7. LeaseFacts'
  <2>1. TimePasses /\ \A k \in LeaseIds : Advances(k)
    BY <1>1, <1>2, <1>3 DEF TimePasses, Advances
  <2>2. /\ held' \subseteq held
        /\ \A h \in held : leases'[h.flight].status \in {"Authorized", "Active"} => h \in held'
    BY <1>2, <1>3 DEF HeldWithout
  <2> QED
    BY <1>2, <2>1, <2>2, AdvanceFacts DEF Inv
<1> QED
  BY <1>4, <1>5, <1>6, <1>7 DEF Inv

(* Steps that end clearances nobody took up, or only record a decision.        *)
LEMMA EndingInv ==
    ASSUME Inv, UNCHANGED <<taskVars, now>>, leases' \in [LeaseIds -> LeaseRecord \cup {NoLease}],
           \A l \in LeaseIds : Advances(l) /\ (leases'[l].status = "Active" => leases'[l] = leases[l]),
           decisions \subseteq decisions', \A e \in decisions' \ decisions : e.child = 0,
           decisions' \subseteq [parent : LeaseIds, child : LeaseIds \cup {0}],
           held' \subseteq held,
           \A h \in held : leases'[h.flight].status \in {"Authorized", "Active"} => h \in held'
    PROVE  Inv'
<1>1. TypeOK'
  BY DEF Inv, TypeOK, TaskTypeOK, taskVars
<1>2. DraftIsProposed' /\ PilotIsActor'
  BY QuietDraft, QuietPilots DEF Inv
<1>3. TimePasses
  BY DEF TimePasses, Inv, TypeOK
<1>4. LeaseFacts'
  BY <1>3, AdvanceFacts DEF Inv
<1> QED
  BY <1>1, <1>2, <1>4 DEF Inv

(* revoke_remote_flight                                                      *)
LEMMA RevokeInv ==
    ASSUME Inv, NEW l \in LeaseIds, Revoke(l)
    PROVE  Inv'
<1>1. leases[l].status = "Authorized" /\ leases[l] \in LeaseRecord
  BY LeaseType DEF Revoke, Inv
<1>2. /\ \A k \in LeaseIds \ {l} : leases'[k] = leases[k]
      /\ leases'[l] = [leases[l] EXCEPT !.status = "Revoked"]
      /\ leases' = [leases EXCEPT ![l] = [leases[l] EXCEPT !.status = "Revoked"]]
      /\ held' = HeldWithout(l)
      /\ UNCHANGED <<taskVars, now, decisions>>
  BY DEF Revoke, Inv, TypeOK
<1>3. /\ leases'[l].status = "Revoked"
      /\ leases'[l] \in LeaseRecord /\ SameManifest(leases'[l], leases[l])
  BY <1>1, <1>2, SMTT(30) DEF LeaseRecord, SameManifest, Terminal
<1>4. leases' \in [LeaseIds -> LeaseRecord \cup {NoLease}]
  BY <1>2, <1>3 DEF Inv, TypeOK
<1>5. \A k \in LeaseIds : Advances(k) /\ (leases'[k].status = "Active" => leases'[k] = leases[k])
  BY <1>1, <1>2, <1>3 DEF Advances
<1>6. /\ held' \subseteq held
      /\ \A h \in held : leases'[h.flight].status \in {"Authorized", "Active"} => h \in held'
  BY <1>2, <1>3 DEF HeldWithout
<1>7. decisions' \subseteq [parent : LeaseIds, child : LeaseIds \cup {0}]
  BY <1>2 DEF Inv, TypeOK
<1> QED
  BY <1>2, <1>4, <1>5, <1>6, <1>7, EndingInv

(* expire_remote_flights, and the decisions that create no child.             *)
LEMMA ReapInv ==
    ASSUME Inv, leases' = Reaped, held' = HeldAfterReaping, UNCHANGED <<taskVars, now>>,
           decisions \subseteq decisions', \A e \in decisions' \ decisions : e.child = 0,
           decisions' \subseteq [parent : LeaseIds, child : LeaseIds \cup {0}]
    PROVE  Inv'
<1>1. \A l \in LeaseIds :
          \/ ~ Due(l) /\ leases'[l] = leases[l]
          \/ /\ Due(l) /\ leases[l].status = "Authorized" /\ leases'[l] \in LeaseRecord
             /\ leases'[l].status = "Expired" /\ SameManifest(leases'[l], leases[l])
  BY ReapedLease DEF Inv
<1>2. leases' \in [LeaseIds -> LeaseRecord \cup {NoLease}]
  BY <1>1 DEF Inv, TypeOK, Reaped
<1>3. \A l \in LeaseIds : Advances(l) /\ (leases'[l].status = "Active" => leases'[l] = leases[l])
  BY <1>1 DEF Advances
<1>4. /\ held' \subseteq held
      /\ \A h \in held : leases'[h.flight].status \in {"Authorized", "Active"} => h \in held'
  BY <1>1 DEF HeldAfterReaping, Inv, TypeOK
<1> QED
  BY <1>2, <1>3, <1>4, EndingInv

(* recover_remote_flight with Ground: expiry and a decision without a child.   *)
LEMMA GroundInv ==
    ASSUME Inv, NEW l \in LeaseIds, Ground(l)
    PROVE  Inv'
<1>1. /\ leases' = Reaped /\ held' = HeldAfterReaping /\ UNCHANGED <<taskVars, now>>
      /\ decisions' = decisions \cup {[parent |-> l, child |-> 0]}
  BY DEF Ground
<1>2. /\ decisions \subseteq decisions' /\ \A e \in decisions' \ decisions : e.child = 0
      /\ decisions' \subseteq [parent : LeaseIds, child : LeaseIds \cup {0}]
  BY <1>1 DEF Inv, TypeOK
<1> QED
  BY <1>1, <1>2, ReapInv

(* Time passes: claims run out, nothing else.                                *)
LEMMA TickInv ==
    ASSUME Inv, Tick
    PROVE  Inv'
<1>1. now' = now + 1 /\ now \in Nat /\ UNCHANGED <<taskVars, leases, held, decisions>>
  BY DEF Tick, Inv, TypeOK
<1>2. TypeOK'
  BY <1>1 DEF Inv, TypeOK, TaskTypeOK, taskVars
<1>3. DraftIsProposed' /\ PilotIsActor'
  BY <1>1, QuietDraft, QuietPilots DEF Inv
<1>4. TimePasses /\ \A l \in LeaseIds : Advances(l)
  BY <1>1 DEF TimePasses, Advances
<1>5. LeaseFacts'
  BY <1>1, <1>4, AdvanceFacts DEF Inv
<1> QED
  BY <1>2, <1>3, <1>5 DEF Inv

(* Nothing changes.                                                          *)
LEMMA StutterInv ==
    ASSUME Inv, UNCHANGED vars
    PROVE  Inv'
<1>1. UNCHANGED taskVars /\ UNCHANGED flightVars
  BY DEF vars
<1>2. TypeOK'
  BY <1>1 DEF Inv, TypeOK, TaskTypeOK, taskVars, flightVars
<1>3. DraftIsProposed' /\ PilotIsActor'
  BY <1>1, QuietDraft, QuietPilots DEF Inv, flightVars
<1>4. LeaseFacts'
  BY <1>1, QuietFlights DEF Inv
<1> QED
  BY <1>2, <1>3, <1>4 DEF Inv

(* Init satisfies the invariant.                                            *)
LEMMA InitInv == Init => Inv
<1> SUFFICES ASSUME Init PROVE Inv
  OBVIOUS
<1>1. \A l \in LeaseIds : leases[l].status = "None"
  BY DEF Init, NoLease
<1>2. TypeOK
  BY TasksAssumption DEF Init, TaskInit, TypeOK, TaskTypeOK, TaskStatus
<1>3. DraftIsProposed
  BY DEF Init, TaskInit, DraftIsProposed
<1>4. PilotIsActor /\ LeaseFacts
  BY <1>1 DEF Init, PilotIsActor, LeaseFacts, IssuedInOrder, RecoveryTree, NoConflictingClaims,
              OpenFlightsHold, LandedInTime, KeptApart, Issued
<1> QED
  BY <1>2, <1>3, <1>4 DEF Inv

-----------------------------------------------------------------------------
(* Flights and tasks keep the inductive invariant.                           *)
THEOREM FlightInvariant == Spec => []Inv
<1>1. ASSUME Inv, Next
      PROVE  Inv'
  <2>1. ASSUME Reap
        PROVE  Inv'
    <3>1. decisions' \subseteq [parent : LeaseIds, child : LeaseIds \cup {0}]
      BY <1>1, <2>1 DEF Reap, Inv, TypeOK
    <3> QED
      BY <1>1, <2>1, <3>1, ReapInv DEF Reap
  <2> QED
    BY <1>1, <2>1, FlowStepInv, ReassignInv, AuthorizeInv, ClaimInv, RevokeInv, GroundInv,
       FinishInv, RecoverInv, TickInv
    DEF Next
<1> QED
  BY InitInv, <1>1, StutterInv, PTL DEF Spec

(* ensure_resource_claims_available, expiry and release keep conflicting        *)
(* claims apart.                                                            *)
THEOREM ClaimsDoNotConflict == Spec => []NoConflictingClaims
<1>1. Inv => NoConflictingClaims
  BY DEF Inv, LeaseFacts
<1> QED
  BY FlightInvariant, <1>1, PTL

(* Claims that last for the latest takeoff plus the fuel, and the fuel check of  *)
(* finish_remote_flight in whole seconds, keep the work of flights that landed *)
(* apart but for less than a second.                                        *)
THEOREM LandedWorkIsExclusive == Spec => []LandedWorkWasExclusive
<1>1. Inv => LandedWorkWasExclusive
  <2>1. ASSUME Inv, NEW k \in LeaseIds, NEW l \in LeaseIds, k < l,
               leases[k].status = "Landed", leases[l].status = "Landed",
               leases[k].flown[1] <= leases[k].expires, Conflict(k, l)
        PROVE  leases[k].flown[2] < leases[l].flown[1] + Second
    <3>1. OverBefore(k, l) /\ WorkedBetween(k) /\ WorkedBetween(l)
      BY <2>1 DEF Inv, LeaseFacts, KeptApart, LandedInTime
    <3>2. /\ leases[k].expires \in Nat /\ leases[k].duration \in Nat /\ leases[l].claimed \in Nat
          /\ Second \in Nat \ {0}
          /\ leases[k].flown[1] \in Nat /\ leases[k].flown[2] \in Nat /\ leases[l].flown[1] \in Nat
      BY <2>1, <3>1, LeaseType, FlightsAssumption DEF Inv, LeaseRecord, WorkedBetween
    <3>3. Start(l) = leases[l].claimed
      BY <2>1 DEF Start
    <3>4. Ticks(leases[k].duration) \in Nat
      BY <3>2, TicksType
    <3> QED
      BY <2>1, <3>1, <3>2, <3>3, <3>4 DEF OverBefore, WorkedBetween
  <2> SUFFICES ASSUME Inv, NEW k \in LeaseIds, NEW l \in LeaseIds, k # l,
                      leases[k].status = "Landed", leases[l].status = "Landed",
                      leases[k].flown[1] <= leases[k].expires,
                      leases[l].flown[1] <= leases[l].expires,
                      NEW r \in DOMAIN leases[k].claims \cap DOMAIN leases[l].claims,
                      leases[k].claims[r] \/ leases[l].claims[r]
               PROVE  \/ leases[k].flown[2] < leases[l].flown[1] + Second
                      \/ leases[l].flown[2] < leases[k].flown[1] + Second
    BY DEF LandedWorkWasExclusive
  <2>2. Conflict(k, l) /\ Conflict(l, k)
    BY DEF Conflict
  <2>3. k < l \/ l < k
    BY FlightsAssumption DEF LeaseIds
  <2> QED
    BY <2>1, <2>2, <2>3
<1> QED
  BY FlightInvariant, <1>1, PTL

(* No reassignment, expiry or recovery leaves a foreign agent flying.         *)
THEOREM PilotsAreActors == Spec => []PilotIsActor
<1>1. Inv => PilotIsActor
  BY DEF Inv
<1> QED
  BY FlightInvariant, <1>1, PTL

(* recover_remote_flight keeps the recovery tree intact.                      *)
THEOREM RecoveryKeepsTree == Spec => []RecoveryTree
<1>1. Inv => RecoveryTree
  BY DEF Inv, LeaseFacts
<1> QED
  BY FlightInvariant, <1>1, PTL

=============================================================================
