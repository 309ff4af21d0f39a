------------------------------- MODULE Tasks --------------------------------
(***************************************************************************)
(* One flow and its tasks: approval by the demand requester, acceptance,   *)
(* execution, evidence, submission and completion by the people assigned,  *)
(* reassignment, estimate negotiation and append-only change requests      *)
(* (application/app/mod.rs, actions.rs, policy.rs, core/state.rs).         *)
(*                                                                         *)
(* Each operation is one step: Ledger.tla shows that an operation is stored *)
(* only if nothing was stored since the state it was decided on.  For      *)
(* propose_flow_change this covers the planner call in its middle; run_task, *)
(* which commits twice, is LocalRun.tla.                                   *)
(*                                                                         *)
(* Left out: titles, PRD text, estimates (only the flow's P80 date is kept, *)
(* because a change request is compared with it) and heartbeats, which     *)
(* only set a time stamp.                                                  *)
(***************************************************************************)
EXTENDS Directory, FiniteSets

CONSTANTS
    TaskIds,        \* every task the flow may ever have
    FirstTasks,     \* those of the landed plan
    DependsOn,      \* Task.depends_on
    Assignments,    \* the assignments the matcher and the requester choose from
    Dates,          \* P80 dates a (re)scheduling may produce
    Proofs,         \* sources of evidence
    Manual          \* the source "a person attached it"

ASSUME TasksAssumption ==
    /\ FirstTasks \subseteq TaskIds
    /\ DependsOn \in [TaskIds -> SUBSET TaskIds]
    /\ \A t \in FirstTasks : DependsOn[t] \subseteq FirstTasks
    /\ Assignments \subseteq Assignment
    /\ Manual \in Proofs

VARIABLES
    flow,           \* Flow.status
    status,         \* Task.status, "Absent" for a task not in the flow (yet)
    assigned,       \* Task.assignment
    evidence,       \* Task.evidence, by source
    p80,            \* Flow.p80_finish
    proposals       \* flow change requests in status Proposed

taskVars == <<flow, status, assigned, evidence, p80, proposals>>

TaskStatus == {"Absent", "Proposed", "Assigned", "Accepted", "InProgress",
               "Blocked", "Submitted", "Completed", "Rejected"}

IsTerminal(s) == s \in {"Completed", "Rejected"}

Present == {t \in TaskIds : status[t] # "Absent"}

HasActor(t) == \E p \in Principals : IsActor(p, assigned[t])

(* Mutant of DependenciesComplete: submitted work counts as done.            *)
DependenciesSubmitted(t) ==
    \A d \in DependsOn[t] \cap Present : status[d] \in {"Submitted", "Completed"}

(* ensure_dependencies_complete *)
DependenciesComplete(t) ==
    \A d \in DependsOn[t] \cap Present : status[d] = "Completed"

TaskInit ==
    /\ flow = "Draft"
    /\ status = [t \in TaskIds |-> IF t \in FirstTasks THEN "Proposed" ELSE "Absent"]
    /\ assigned \in [TaskIds -> Assignments]
    /\ evidence = [t \in TaskIds |-> {}]
    /\ p80 \in Dates
    /\ proposals = {}

-----------------------------------------------------------------------------
(* approve_flow: FlowApproved, then one WorkRequestSent per task.           *)
ApproveFlow ==
    /\ flow = "Draft"
    /\ flow' = "Approved"
    /\ status' = [t \in TaskIds |-> IF t \in Present THEN "Assigned" ELSE status[t]]
    /\ UNCHANGED <<assigned, evidence, p80, proposals>>

(* accept_task: TaskAccepted also makes the flow Active.                    *)
AcceptTask(t) ==
    /\ status[t] = "Assigned"
    /\ HasActor(t)
    /\ status' = [status EXCEPT ![t] = "Accepted"]
    /\ flow' = "Active"
    /\ UNCHANGED <<assigned, evidence, p80, proposals>>

RejectTask(t) ==
    /\ status[t] = "Assigned"
    /\ HasActor(t)
    /\ status' = [status EXCEPT ![t] = "Rejected"]
    /\ UNCHANGED <<flow, assigned, evidence, p80, proposals>>

StartTask(t) ==
    /\ status[t] \in {"Accepted", "Blocked"}
    /\ DependenciesComplete(t)
    /\ HasActor(t)
    /\ status' = [status EXCEPT ![t] = "InProgress"]
    /\ UNCHANGED <<flow, assigned, evidence, p80, proposals>>

BlockTask(t) ==
    /\ status[t] = "InProgress"
    /\ HasActor(t)
    /\ status' = [status EXCEPT ![t] = "Blocked"]
    /\ UNCHANGED <<flow, assigned, evidence, p80, proposals>>

AddEvidence(t) ==
    /\ t \in Present
    /\ ~ IsTerminal(status[t])
    /\ HasActor(t)
    /\ evidence' = [evidence EXCEPT ![t] = @ \cup {Manual}]
    /\ UNCHANGED <<flow, status, assigned, p80, proposals>>

SubmitTask(t) ==
    /\ status[t] = "InProgress"
    /\ HasActor(t)
    /\ evidence[t] # {}
    /\ status' = [status EXCEPT ![t] = "Submitted"]
    /\ UNCHANGED <<flow, assigned, evidence, p80, proposals>>

(* complete_task: by the requester; the last task also completes the flow.  *)
CompleteTask(t) ==
    /\ status[t] = "Submitted"
    /\ status' = [status EXCEPT ![t] = "Completed"]
    /\ flow' = IF \A u \in Present \ {t} : status[u] = "Completed"
               THEN "Completed" ELSE flow
    /\ UNCHANGED <<assigned, evidence, p80, proposals>>

(* negotiate_task: the estimate changes and the flow is rescheduled.        *)
NegotiateTask(t) ==
    /\ status[t] \in {"Assigned", "Accepted", "InProgress", "Blocked"}
    /\ HasActor(t)
    /\ p80' \in Dates
    /\ UNCHANGED <<flow, status, assigned, evidence, proposals>>

(* reassign_task without its test for open flights, which Flights adds.     *)
ReassignTask(t, a) ==
    /\ flow \in {"Approved", "Active"}
    /\ status[t] \in {"Assigned", "Accepted", "InProgress", "Blocked", "Rejected"}
    /\ a.owner # assigned[t].owner
    /\ a.owner \notin a.copilots
    /\ assigned' = [assigned EXCEPT ![t] = a]
    /\ status' = [status EXCEPT ![t] = "Assigned"]
    /\ p80' \in Dates
    /\ UNCHANGED <<flow, evidence, proposals>>

-----------------------------------------------------------------------------
(* propose_flow_change: remembers what the preview was computed from.       *)
ProposeFlowChange(adds) ==
    /\ proposals = {}
    /\ flow \in {"Approved", "Active"}
    /\ adds \cap Present = {}
    /\ \A t \in adds : DependsOn[t] \subseteq adds \cup Present
    /\ proposals' = {[adds |-> adds, base |-> status, baseP80 |-> p80]}
    /\ UNCHANGED <<flow, status, assigned, evidence, p80>>

(* Mutant of BaseUnchanged: compares the schedule and not the tasks.         *)
BaseScheduleUnchanged(c) == c.baseP80 = p80

(* approve_flow_change: only on the flow the preview was computed from; the *)
(* flow's own status is not looked at.                                      *)
BaseUnchanged(c) == c.base = status /\ c.baseP80 = p80

ApproveFlowChange(c) ==
    /\ c \in proposals
    /\ BaseUnchanged(c)
    /\ c.adds \cap Present = {}
    /\ status' = [t \in TaskIds |-> IF t \in c.adds THEN "Assigned" ELSE status[t]]
    /\ p80' \in Dates
    /\ proposals' = proposals \ {c}
    /\ UNCHANGED <<flow, assigned, evidence>>

RejectFlowChange(c) ==
    /\ c \in proposals
    /\ proposals' = proposals \ {c}
    /\ UNCHANGED <<flow, status, assigned, evidence, p80>>

(* Everything but ReassignTask.                                             *)
FlowStep ==
    \/ ApproveFlow
    \/ \E t \in TaskIds :
          \/ AcceptTask(t) \/ RejectTask(t) \/ StartTask(t) \/ BlockTask(t)
          \/ AddEvidence(t) \/ SubmitTask(t) \/ CompleteTask(t) \/ NegotiateTask(t)
    \/ \E adds \in SUBSET TaskIds \ {{}} : ProposeFlowChange(adds)
    \/ \E c \in proposals : ApproveFlowChange(c) \/ RejectFlowChange(c)

TaskNext == FlowStep \/ \E t \in TaskIds, a \in Assignments : ReassignTask(t, a)

TaskSpec == TaskInit /\ [][TaskNext]_taskVars

-----------------------------------------------------------------------------
(* The type of every variable.                                              *)
TaskTypeOK ==
    /\ flow \in {"Draft", "Approved", "Active", "Completed"}
    /\ status \in [TaskIds -> TaskStatus]
    /\ assigned \in [TaskIds -> Assignments]
    /\ evidence \in [TaskIds -> SUBSET Proofs]
    /\ p80 \in Dates
    /\ proposals \subseteq [adds : SUBSET TaskIds,
                            base : [TaskIds -> TaskStatus], baseP80 : Dates]

(* A completed flow has nothing left to do, not even work that a change      *)
(* request approved late would have added: complete_task and                 *)
(* approve_flow_change together.                                            *)
CompletedFlowIsDone ==
    flow = "Completed" => \A t \in Present : status[t] = "Completed"

(* Work is only ever under way, submitted or done once everything it depends *)
(* on is done, and nothing done is reopened behind its back: start_task,     *)
(* reassign_task, approve_flow_change, complete_task.                       *)
DependenciesDoneBeforeWork ==
    \A t \in TaskIds :
        status[t] \in {"InProgress", "Submitted", "Completed"} =>
            \A d \in DependsOn[t] : status[d] = "Completed"

(* "cannot add evidence to a terminal task" (add_evidence): the record on    *)
(* which a task was accepted is closed with it, whoever else works on it.    *)
TerminalTaskGetsNoEvidence ==
    [][\A t \in TaskIds : IsTerminal(status[t]) => evidence'[t] = evidence[t]]_taskVars
=============================================================================
