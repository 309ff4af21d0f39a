------------------------------ MODULE Planning ------------------------------
(***************************************************************************)
(* The planning queue: a demand that a model must decompose is queued, a   *)
(* worker claims it under a lease, runs the model and submits a plan, which *)
(* the control plane lands as a flow (application/app/mod.rs,              *)
(* core/state.rs, interfaces/worker.rs).                                   *)
(*                                                                         *)
(* submit_planning_result commits twice: the plan, then the settlement of  *)
(* the request.  By Ledger.tla each commit is atomic and the second fails  *)
(* if anything was stored after the first: every other commit empties      *)
(* `landed'.  A failed second commit leaves the first in place.            *)
(***************************************************************************)
EXTENDS Integers

CONSTANTS
    Requests,       \* planning requests that may be made
    Workers,        \* worker processes, each with the identity of an agent
    Lease,          \* lease_seconds, in ticks
    MaxAttempts     \* bound: claims per request

ASSUME PlanningAssumption ==
    /\ Lease \in Nat \ {0}
    /\ MaxAttempts \in Nat

VARIABLES
    status,         \* PlanningRequest.status, "None" before the request
    attempt,        \* PlanningRequest.attempt
    lease,          \* ticks until lease_expires_at
    flow,           \* status of the flow of the request's flow_id
    plan,           \* the attempt whose plan the flow holds; 0 for no flow
    job,            \* what each worker is doing: running the model or submitting
    landed,         \* submissions between their commits, not overtaken by another
    told            \* history: attempt whose worker was answered Ok; 0 for none

vars == <<status, attempt, lease, flow, plan, job, landed, told>>

NoJob == [at |-> "idle"]

Init ==
    /\ status = [q \in Requests |-> "None"]
    /\ attempt = [q \in Requests |-> 0]
    /\ lease = [q \in Requests |-> 0]
    /\ flow = [q \in Requests |-> "Absent"]
    /\ plan = [q \in Requests |-> 0]
    /\ job = [w \in Workers |-> NoJob]
    /\ landed = {}
    /\ told = [q \in Requests |-> 0]

Running(w, q) == job[w].at = "running" /\ job[w].request = q

-----------------------------------------------------------------------------
(* request_planning *)
RequestPlanning(q) ==
    /\ status[q] = "None"
    /\ status' = [status EXCEPT ![q] = "Queued"]
    /\ landed' = {}
    /\ UNCHANGED <<attempt, lease, flow, plan, job, told>>

(* Mutant of Claimable: a lease does not expire.                             *)
ClaimableOnce(q) == status[q] = "Queued"

(* claim_planning_request: queued, or claimed under an expired lease.        *)
Claimable(q) == status[q] = "Queued" \/ (status[q] = "Claimed" /\ lease[q] = 0)

(* run_decompose_once up to the model run.                                   *)
Claim(w, q) ==
    /\ job[w] = NoJob
    /\ Claimable(q)
    /\ attempt[q] < MaxAttempts
    /\ status' = [status EXCEPT ![q] = "Claimed"]
    /\ attempt' = [attempt EXCEPT ![q] = @ + 1]
    /\ lease' = [lease EXCEPT ![q] = Lease]
    /\ job' = [job EXCEPT ![w] = [at |-> "running", request |-> q,
                                attempt |-> attempt[q] + 1]]
    /\ landed' = {}
    /\ UNCHANGED <<flow, plan, told>>

(* Mutant of Land: whatever has become of the request.                       *)
LandAlways(w, q) ==
    /\ Running(w, q)
    /\ flow' = [flow EXCEPT ![q] = "Draft"]
    /\ plan' = [plan EXCEPT ![q] = job[w].attempt]
    /\ job' = [job EXCEPT ![w].at = "submitting"]
    /\ landed' = {w}
    /\ UNCHANGED <<status, attempt, lease, told>>

(* submit_planning_result, first commit (land_plan): only the status of the   *)
(* request is tested, not who claimed it; PlanGenerated replaces the flow.   *)
Land(w, q) ==
    /\ Running(w, q)
    /\ status[q] = "Claimed"
    /\ flow' = [flow EXCEPT ![q] = "Draft"]
    /\ plan' = [plan EXCEPT ![q] = job[w].attempt]
    /\ job' = [job EXCEPT ![w].at = "submitting"]
    /\ landed' = {w}
    /\ UNCHANGED <<status, attempt, lease, told>>

(* submit_planning_result, second commit (PlanningSettled), and its answer.   *)
Settle(w, q) ==
    /\ w \in landed
    /\ job[w].request = q
    /\ status' = [status EXCEPT ![q] = "Planned"]
    /\ lease' = [lease EXCEPT ![q] = 0]
    /\ told' = [told EXCEPT ![q] = job[w].attempt]
    /\ job' = [job EXCEPT ![w] = NoJob]
    /\ landed' = {}
    /\ UNCHANGED <<attempt, flow, plan>>

(* The worker, or the control plane while it serves the submission, is lost; *)
(* or the submission is refused: not claimed any more, an invalid plan, a    *)
(* conflict in either commit.                                               *)
GiveUp(w) ==
    /\ job[w] # NoJob
    /\ job' = [job EXCEPT ![w] = NoJob]
    /\ landed' = landed \ {w}
    /\ UNCHANGED <<status, attempt, lease, flow, plan, told>>

(* fail_planning_request, by the worker after a failed run or by anyone.      *)
FailPlanning(q) ==
    /\ status[q] \notin {"None", "Planned"}
    /\ status' = [status EXCEPT ![q] = "Failed"]
    /\ lease' = [lease EXCEPT ![q] = 0]
    /\ landed' = {}
    /\ UNCHANGED <<attempt, flow, plan, told>>

ReportFailure(w, q) ==
    /\ Running(w, q)
    /\ FailPlanning(q)
    /\ job' = [job EXCEPT ![w] = NoJob]

Abandon(q) == FailPlanning(q) /\ UNCHANGED job

(* approve_flow, and whatever is done with the flow from then on.            *)
ApproveFlow(q) ==
    /\ flow[q] = "Draft"
    /\ flow' = [flow EXCEPT ![q] = "Approved"]
    /\ landed' = {}
    /\ UNCHANGED <<status, attempt, lease, plan, job, told>>

Tick ==
    /\ \E q \in Requests : lease[q] > 0
    /\ lease' = [q \in Requests |-> IF lease[q] > 0 THEN lease[q] - 1 ELSE 0]
    /\ UNCHANGED <<status, attempt, flow, plan, job, landed, told>>

Next ==
    \/ \E q \in Requests : RequestPlanning(q) \/ Abandon(q) \/ ApproveFlow(q)
    \/ \E w \in Workers, q \in Requests :
          Claim(w, q) \/ Land(w, q) \/ Settle(w, q) \/ ReportFailure(w, q)
    \/ \E w \in Workers : GiveUp(w)
    \/ Tick

Spec == Init /\ [][Next]_vars

(* Time passes; workers poll the queue, and a run ends one way or the other,  *)
(* because the executor has a timeout.                                      *)
QueueFairness ==
    /\ WF_vars(Tick)
    /\ \A w \in Workers :
          WF_vars(GiveUp(w) \/ \E q \in Requests :
                     Land(w, q) \/ Settle(w, q) \/ ReportFailure(w, q))
    /\ \A q \in Requests : WF_vars(\E w \in Workers : Claim(w, q))

-----------------------------------------------------------------------------
(* The type of every variable.                                              *)
TypeOK ==
    /\ status \in [Requests -> {"None", "Queued", "Claimed", "Planned", "Failed"}]
    /\ attempt \in [Requests -> 0 .. MaxAttempts]
    /\ lease \in [Requests -> 0 .. Lease]
    /\ flow \in [Requests -> {"Absent", "Draft", "Approved"}]
    /\ plan \in [Requests -> 0 .. MaxAttempts]
    /\ job \in [Workers -> {NoJob} \cup
           [at : {"running", "submitting"}, request : Requests, attempt : 1 .. MaxAttempts]]
    /\ landed \subseteq Workers
    /\ told \in [Requests -> 0 .. MaxAttempts]

(* The worker that is told its plan was accepted really has its plan in the   *)
(* flow, and for ever: neither an earlier claimant that wakes up late nor a  *)
(* later one replaces it, and nobody marks the request failed any more.      *)
AcceptedPlanStays ==
    \A q \in Requests :
        /\ told[q] # 0 => plan[q] = told[q]
        /\ told[q] # 0 <=> status[q] = "Planned"

(* A worker that disappears does not block the request: it is planned, failed *)
(* or claimed again until the bound on attempts (claim_planning_request,     *)
(* "the lease expires, so that a lost worker does not block the request").   *)
RequestsAreServed ==
    \A q \in Requests :
        status[q] = "Queued" ~>
            status[q] \in {"Planned", "Failed"} \/ attempt[q] = MaxAttempts

=============================================================================
