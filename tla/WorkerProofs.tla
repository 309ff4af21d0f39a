--------------------------- MODULE WorkerProofs -----------------------------
(***************************************************************************)
(* Proofs about what remote workers do, for any requests, leases, people   *)
(* and keys, any number of worker processes and any bounds: in decompose    *)
(* mode (Planning) a plan whose worker was answered Ok stays; in execute    *)
(* mode (Worker) a saved report is sent and not made again; the keys that   *)
(* workers are handed (ModelKeys) are those that people have stored.        *)
(***************************************************************************)
EXTENDS Worker, ModelKeys, TLAPS

(* A submission between its commits that was not overtaken is for a claimed  *)
(* request, whose flow holds its plan: what the second commit relies on.      *)
LandedIsCurrent ==
    \A w \in landed :
        /\ job[w].at = "submitting"
        /\ status[job[w].request] = "Claimed"
        /\ plan[job[w].request] = job[w].attempt

(* AcceptedPlanStays is preserved by Settle only because of LandedIsCurrent.  *)
Inv == TypeOK /\ LandedIsCurrent /\ AcceptedPlanStays

Job == [at : {"running", "submitting"}, request : Requests, attempt : 1 .. MaxAttempts]

(* What a worker that has a job is doing.                                    *)
LEMMA JobType ==
    ASSUME TypeOK, NEW w \in Workers, job[w] # NoJob
    PROVE  /\ job[w] \in Job
           /\ job[w].request \in Requests
           /\ job[w].attempt \in 1 .. MaxAttempts
<1>1. job[w] \in Job
  BY DEF TypeOK, Job
<1> QED
  BY <1>1 DEF Job

-----------------------------------------------------------------------------
(* The queue is empty at first: nothing is claimed, planned or told.           *)
LEMMA InitInv == Init => Inv
<1> SUFFICES ASSUME Init
             PROVE  Inv
  OBVIOUS
<1>1. TypeOK
  BY PlanningAssumption DEF Init, TypeOK
<1>2. LandedIsCurrent /\ AcceptedPlanStays
  BY DEF Init, LandedIsCurrent, AcceptedPlanStays
<1> QED
  BY <1>1, <1>2 DEF Inv

(* request_planning, fail_planning_request, approve_flow and every worker's    *)
(* steps keep the types.                                                    *)
LEMMA StepTypeOK ==
    ASSUME TypeOK, LandedIsCurrent, [Next]_vars
    PROVE  TypeOK'
<1> USE PlanningAssumption
<1>1. ASSUME NEW q \in Requests, RequestPlanning(q)
      PROVE  TypeOK'
  BY <1>1 DEF TypeOK, RequestPlanning
<1>2. ASSUME NEW q \in Requests, Abandon(q)
      PROVE  TypeOK'
  BY <1>2 DEF TypeOK, Abandon, FailPlanning
<1>3. ASSUME NEW q \in Requests, ApproveFlow(q)
      PROVE  TypeOK'
  BY <1>3 DEF TypeOK, ApproveFlow
<1>4. ASSUME NEW w \in Workers, NEW q \in Requests, Claim(w, q)
      PROVE  TypeOK'
  <2>1. attempt[q] + 1 \in 1 .. MaxAttempts
    BY <1>4 DEF TypeOK, Claim
  <2>2. [at |-> "running", request |-> q, attempt |-> attempt[q] + 1] \in Job
    BY <2>1 DEF Job
  <2>3. job' \in [Workers -> {NoJob} \cup Job]
    BY <1>4, <2>2 DEF TypeOK, Claim, Job
  <2>4. /\ status' \in [Requests -> {"None", "Queued", "Claimed", "Planned", "Failed"}]
        /\ attempt' \in [Requests -> 0 .. MaxAttempts]
        /\ lease' \in [Requests -> 0 .. Lease]
        /\ landed' \subseteq Workers
    BY <1>4, <2>1 DEF TypeOK, Claim
  <2> QED
    BY <1>4, <2>3, <2>4 DEF TypeOK, Claim, Job
<1>5. ASSUME NEW w \in Workers, NEW q \in Requests, Land(w, q)
      PROVE  TypeOK'
  <2>1. job[w] \in Job
    BY <1>5, JobType DEF Land, Running, NoJob
  <2>2. [job[w] EXCEPT !.at = "submitting"] \in Job
    BY <2>1 DEF Job
  <2>3. job' \in [Workers -> {NoJob} \cup Job]
    BY <1>5, <2>2 DEF TypeOK, Land, Job
  <2>4. plan' \in [Requests -> 0 .. MaxAttempts]
    BY <1>5, <2>1 DEF TypeOK, Land, Job
  <2> QED
    BY <1>5, <2>3, <2>4 DEF TypeOK, Land, Job
<1>6. ASSUME NEW w \in Workers, NEW q \in Requests, Settle(w, q)
      PROVE  TypeOK'
  <2>1. job[w] \in Job
    BY <1>6, JobType DEF Settle, LandedIsCurrent, NoJob
  <2> QED
    BY <1>6, <2>1 DEF TypeOK, Settle, Job
<1>7. ASSUME NEW w \in Workers, NEW q \in Requests, ReportFailure(w, q)
      PROVE  TypeOK'
  BY <1>7 DEF TypeOK, ReportFailure, FailPlanning
<1>8. ASSUME NEW w \in Workers, GiveUp(w)
      PROVE  TypeOK'
  BY <1>8 DEF TypeOK, GiveUp
<1>9. ASSUME Tick
      PROVE  TypeOK'
  BY <1>9 DEF TypeOK, Tick
<1> QED
  BY <1>1, <1>2, <1>3, <1>4, <1>5, <1>6, <1>7, <1>8, <1>9 DEF Next, vars, TypeOK

(* A commit of anybody else empties `landed'; a worker that gives up leaves   *)
(* it; and while a submission stays there, its request is not touched.       *)
LEMMA StepLandedIsCurrent ==
    ASSUME TypeOK, LandedIsCurrent, [Next]_vars
    PROVE  LandedIsCurrent'
<1>1. ASSUME NEW q \in Requests, RequestPlanning(q) \/ Abandon(q) \/ ApproveFlow(q)
      PROVE  LandedIsCurrent'
  BY <1>1 DEF RequestPlanning, Abandon, FailPlanning, ApproveFlow, LandedIsCurrent
<1>2. ASSUME NEW w \in Workers, NEW q \in Requests,
             Claim(w, q) \/ Settle(w, q) \/ ReportFailure(w, q)
      PROVE  LandedIsCurrent'
  BY <1>2 DEF Claim, Settle, ReportFailure, FailPlanning, LandedIsCurrent
<1>3. ASSUME NEW w \in Workers, NEW q \in Requests, Land(w, q)
      PROVE  LandedIsCurrent'
  <2>1. job[w] \in Job /\ job[w].request = q /\ status[q] = "Claimed"
    BY <1>3, JobType DEF Land, Running, NoJob
  <2>2. job'[w] = [job[w] EXCEPT !.at = "submitting"]
    BY <1>3 DEF Land, TypeOK
  <2>3. /\ job'[w].at = "submitting"
        /\ job'[w].request = q
        /\ job'[w].attempt = job[w].attempt
    BY <2>1, <2>2 DEF Job
  <2>4. plan'[q] = job[w].attempt /\ status' = status /\ landed' = {w}
    BY <1>3 DEF Land, TypeOK
  <2> QED
    BY <2>1, <2>3, <2>4 DEF LandedIsCurrent
<1>4. ASSUME NEW w \in Workers, GiveUp(w)
      PROVE  LandedIsCurrent'
  <2>1. \A v \in landed' : v \in landed /\ job'[v] = job[v]
    BY <1>4 DEF GiveUp, TypeOK
  <2> QED
    BY <1>4, <2>1 DEF GiveUp, LandedIsCurrent
<1>5. ASSUME Tick
      PROVE  LandedIsCurrent'
  BY <1>5 DEF Tick, LandedIsCurrent
<1> QED
  BY <1>1, <1>2, <1>3, <1>4, <1>5 DEF Next, vars, LandedIsCurrent

(* Only Settle answers Ok, and then for the plan that the flow holds; only    *)
(* Land changes the plan, and then for a request nobody was answered Ok for. *)
LEMMA StepAcceptedPlanStays ==
    ASSUME Inv, [Next]_vars
    PROVE  AcceptedPlanStays'
<1> USE DEF Inv
<1>1. ASSUME NEW q \in Requests, RequestPlanning(q) \/ Abandon(q) \/ ApproveFlow(q)
      PROVE  AcceptedPlanStays'
  BY <1>1 DEF RequestPlanning, Abandon, FailPlanning, ApproveFlow, AcceptedPlanStays, TypeOK
<1>2. ASSUME NEW w \in Workers, NEW q \in Requests, Claim(w, q)
      PROVE  AcceptedPlanStays'
  BY <1>2 DEF Claim, Claimable, AcceptedPlanStays, TypeOK
<1>3. ASSUME NEW w \in Workers, NEW q \in Requests, Land(w, q)
      PROVE  AcceptedPlanStays'
  <2>1. told[q] = 0
    BY <1>3 DEF Land, AcceptedPlanStays
  <2>2. status' = status /\ told' = told /\ \A r \in Requests : r # q => plan'[r] = plan[r]
    BY <1>3 DEF Land, TypeOK
  <2> QED
    BY <2>1, <2>2 DEF AcceptedPlanStays
<1>4. ASSUME NEW w \in Workers, NEW q \in Requests, Settle(w, q)
      PROVE  AcceptedPlanStays'
  <2>1. job[w].request = q /\ job[w].at = "submitting" /\ plan[q] = job[w].attempt
    BY <1>4 DEF Settle, LandedIsCurrent
  <2>2. job[w].attempt # 0
    BY <2>1, JobType DEF NoJob
  <2>3. status'[q] = "Planned" /\ told'[q] = job[w].attempt /\ plan' = plan
    BY <1>4 DEF Settle, TypeOK
  <2>4. \A r \in Requests : r # q => status'[r] = status[r] /\ told'[r] = told[r]
    BY <1>4 DEF Settle, TypeOK
  <2> QED
    BY <2>1, <2>2, <2>3, <2>4 DEF AcceptedPlanStays
<1>5. ASSUME NEW w \in Workers, NEW q \in Requests, ReportFailure(w, q)
      PROVE  AcceptedPlanStays'
  BY <1>5 DEF ReportFailure, FailPlanning, AcceptedPlanStays, TypeOK
<1>6. ASSUME NEW w \in Workers, GiveUp(w)
      PROVE  AcceptedPlanStays'
  BY <1>6 DEF GiveUp, AcceptedPlanStays
<1>7. ASSUME Tick
      PROVE  AcceptedPlanStays'
  BY <1>7 DEF Tick, AcceptedPlanStays
<1> QED
  BY <1>1, <1>2, <1>3, <1>4, <1>5, <1>6, <1>7 DEF Next, vars, AcceptedPlanStays

-----------------------------------------------------------------------------
(* The planning queue keeps its inductive invariant.                         *)
THEOREM PlanningInvariant == Spec => []Inv
<1>1. Inv /\ [Next]_vars => Inv'
  BY StepTypeOK, StepLandedIsCurrent, StepAcceptedPlanStays DEF Inv
<1> QED
  BY InitInv, <1>1, PTL DEF Spec

(* A worker whose submission was answered Ok (submit_planning_result) has its  *)
(* plan in the flow for ever, whatever workers were lost, woke up late or     *)
(* died between the two commits.                                            *)
THEOREM AcceptedPlansStay == Spec => []AcceptedPlanStays
<1>1. Inv => AcceptedPlanStays
  BY DEF Inv
<1> QED
  BY PlanningInvariant, <1>1, PTL

-----------------------------------------------------------------------------
(* Execute mode.                                                            *)

Trees == [there : BOOLEAN, head : SUBSET Nat, work : SUBSET Nat]
Reports == [kind : {"none", "torn", "saved"}, landed : BOOLEAN, base : SUBSET Nat,
            patch : SUBSET Nat]
Slot == [tree : Trees, report : Reports, container : BOOLEAN]

(* A process that is past the test for a saved report and has not saved one. *)
AtWork == {"flying", "ran", "collected", "staging", "reporting"}

(* What a process on its way to a report carries.                           *)
Carries(c) == c \in [at : AtWork, on : Leases, ok : BOOLEAN,
                     base : SUBSET Nat, patch : SUBSET Nat]

DiskOK ==
    /\ runs \in Nat
    /\ disk \in [Workers -> [Leases -> Slot]]
    /\ pilot = [p \in Workers |-> pilot[p]]
    /\ \A p \in Workers :
          /\ pilot[p].at \in AtWork => pilot[p].on \in Leases
          /\ pilot[p].at \in AtWork \ {"flying"} => Carries(pilot[p])

(* Nobody works on a lease whose report is on the same disk.                 *)
NoWorkOnSaved ==
    \A p \in Workers : pilot[p].at \in AtWork => disk[p][pilot[p].on].report.kind = "none"

FlyingInv == DiskOK /\ NoWorkOnSaved

(* What ReportIsNotRedone says of a step.                                   *)
NotRedone ==
    \A p \in Workers, l \in Leases :
        disk[p][l].report.kind = "saved" =>
            /\ disk'[p][l].report = disk[p][l].report
            /\ pilot'[p].at \in {"flying", "ran"} => pilot'[p].on # l

(* What a step may do to the reports on the disks: a report is torn, or it is  *)
(* the one that its process goes on to file.                                *)
NewReports ==
    \A p \in Workers, l \in Leases :
        \/ disk'[p][l].report \in {disk[p][l].report, Torn}
        \/ /\ pilot'[p].at = "filing" /\ pilot'[p].on = l
           /\ disk'[p][l].report = pilot'[p].report

(* A step of one process, on one slot of its disk.                          *)
LEMMA SlotStep ==
    ASSUME FlyingInv, NEW p \in Workers, NEW l \in Leases, NEW c, NEW d \in Slot,
           pilot' = [pilot EXCEPT ![p] = c],
           disk' = [disk EXCEPT ![p] = [disk[p] EXCEPT ![l] = d]],
           runs' \in Nat,
           disk[p][l].report.kind = "saved" => d.report = disk[p][l].report,
           \/ d.report \in {disk[p][l].report, Torn}
           \/ c.at = "filing" /\ c.on = l /\ d.report = c.report,
           c.at \in AtWork => /\ c.on \in Leases
                              /\ disk[p][c.on].report.kind = "none"
                              /\ c.on = l => d.report.kind = "none",
           c.at \in AtWork \ {"flying"} => Carries(c)
    PROVE  FlyingInv' /\ NotRedone /\ NewReports
<1>1. /\ disk' \in [Workers -> [Leases -> Slot]]
      /\ disk'[p][l] = d
      /\ \A q \in Workers, k \in Leases : q # p \/ k # l => disk'[q][k] = disk[q][k]
  BY DEF FlyingInv, DiskOK
<1>2. /\ pilot' = [q \in Workers |-> pilot'[q]] /\ pilot'[p] = c
      /\ \A q \in Workers : q # p => pilot'[q] = pilot[q]
  BY DEF FlyingInv, DiskOK
<1>3. DiskOK'
  <2>1. \A q \in Workers :
           /\ pilot'[q].at \in AtWork => pilot'[q].on \in Leases
           /\ pilot'[q].at \in AtWork \ {"flying"} => Carries(pilot'[q])
    BY <1>2 DEF FlyingInv, DiskOK
  <2> QED BY <1>1, <1>2, <2>1 DEF DiskOK, Carries, AtWork
<1>4. NoWorkOnSaved'
  <2> SUFFICES ASSUME NEW q \in Workers, pilot'[q].at \in AtWork
               PROVE  disk'[q][pilot'[q].on].report.kind = "none"
    BY DEF NoWorkOnSaved, AtWork
  <2>1. CASE q = p
    BY <1>1, <1>2, <2>1
  <2>2. CASE q # p
    BY <1>1, <1>2, <2>2 DEF FlyingInv, DiskOK, NoWorkOnSaved
  <2> QED BY <2>1, <2>2
<1>5. NotRedone
  <2> SUFFICES ASSUME NEW q \in Workers, NEW k \in Leases, disk[q][k].report.kind = "saved"
               PROVE  /\ disk'[q][k].report = disk[q][k].report
                      /\ pilot'[q].at \in {"flying", "ran"} => pilot'[q].on # k
    BY DEF NotRedone
  <2>1. disk'[q][k].report = disk[q][k].report
    BY <1>1
  <2>2. pilot'[q].at \in AtWork => disk'[q][pilot'[q].on].report.kind = "none"
    BY <1>4 DEF NoWorkOnSaved, AtWork
  <2> QED BY <2>1, <2>2 DEF AtWork
<1>6. NewReports
  BY <1>1, <1>2 DEF NewReports
<1> QED BY <1>3, <1>4, <1>5, <1>6 DEF FlyingInv

(* A step that leaves the disks alone.                                      *)
LEMMA PilotStep ==
    ASSUME FlyingInv, NEW p \in Workers, NEW l \in Leases, NEW c,
           pilot' = [pilot EXCEPT ![p] = c], UNCHANGED <<disk, runs>>,
           c.at \in AtWork => c.on = l /\ disk[p][l].report.kind = "none",
           c.at \in AtWork \ {"flying"} => Carries(c)
    PROVE  FlyingInv' /\ NotRedone /\ NewReports
<1>1. disk' = [disk EXCEPT ![p] = [disk[p] EXCEPT ![l] = disk[p][l]]]
  BY DEF FlyingInv, DiskOK
<1>2. disk[p][l] \in Slot /\ runs' \in Nat
  BY DEF FlyingInv, DiskOK
<1> QED BY <1>1, <1>2, SlotStep

(* What the parts of a slot are, and what remains when one is replaced.      *)
LEMMA SlotParts ==
    ASSUME NEW d \in Slot
    PROVE  /\ d.tree.head \subseteq Nat /\ d.tree.work \subseteq Nat
           /\ \A t \in Trees : /\ [d EXCEPT !.tree = t] \in Slot
                               /\ [d EXCEPT !.tree = t].report = d.report
           /\ \A S \in SUBSET Nat : /\ [d.tree EXCEPT !.work = S] \in Trees
                                    /\ [d.tree EXCEPT !.head = S] \in Trees
           /\ \A b \in BOOLEAN : /\ [d EXCEPT !.container = b] \in Slot
                                 /\ [d EXCEPT !.container = b].report = d.report
           /\ \A r \in Reports : /\ [d EXCEPT !.report = r] \in Slot
                                 /\ [d EXCEPT !.report = r].report = r
BY DEF Slot, Trees

(* Where the parts of a process's own slot are.                              *)
LEMMA OwnSlot ==
    ASSUME FlyingInv, NEW p \in Workers, NEW l \in Leases
    PROVE  /\ disk[p][l] \in Slot
           /\ NoTree \in Trees /\ Tree({}, {}) \in Trees /\ Torn \in Reports
           /\ pilot[p].at \in AtWork /\ pilot[p].on = l => disk[p][l].report.kind = "none"
           /\ pilot[p].at \in AtWork \ {"flying"} => Carries(pilot[p])
BY DEF FlyingInv, DiskOK, NoWorkOnSaved, NoTree, Tree, Torn, NoReport, Trees, Reports

(* Polling, boarding, sending a saved report: the disk is only read.         *)
LEMMA BoardingStep ==
    ASSUME FlyingInv, NEW p \in Workers, NEW l \in Leases,
           Select(p, l) \/ Board(p, l) \/ Resend(p, l) \/ File(p, l)
    PROVE  FlyingInv' /\ NotRedone /\ NewReports
<1>1. PICK c : pilot' = [pilot EXCEPT ![p] = c] /\ c.at \notin AtWork
  BY DEF Select, Board, Resend, File, Idle, AtWork
<1>2. UNCHANGED <<disk, runs>>
  BY DEF Select, Board, Resend, File
<1> QED BY <1>1, <1>2, PilotStep

(* The worktree is made or found, after the test for a saved report.         *)
LEMMA SetUpStep ==
    ASSUME FlyingInv, NEW p \in Workers, NEW l \in Leases, SetUp(p, l)
    PROVE  FlyingInv' /\ NotRedone /\ NewReports
<1>1. disk[p][l].report.kind = "none" /\ runs' = runs /\ runs \in Nat
  BY DEF SetUp, Saved, NoReport, FlyingInv, DiskOK
<1>2. CASE UNCHANGED disk
  <2>1. PICK c : c = Carrying("reporting", l, FALSE, {}, {})
    OBVIOUS
  <2>2. c.on = l /\ Carries(c)
    BY <2>1 DEF Carrying, Carries, AtWork
  <2>3. CASE pilot' = [pilot EXCEPT ![p] = c]
    BY <1>1, <1>2, <2>2, <2>3, PilotStep
  <2>4. CASE pilot' = [pilot EXCEPT ![p] = [at |-> "flying", on |-> l]]
    BY <1>1, <1>2, <2>4, PilotStep
  <2> QED BY <2>1, <2>3, <2>4 DEF SetUp
<1>3. CASE CreateWorktree(p, l) /\ pilot' = [pilot EXCEPT ![p] = [at |-> "flying", on |-> l]]
  <2>1. PICK d : d = [disk[p][l] EXCEPT !.tree = Tree({}, {})]
    OBVIOUS
  <2>2. d \in Slot /\ d.report = disk[p][l].report
    BY <2>1, SlotParts, OwnSlot
  <2>3. disk' = [disk EXCEPT ![p] = [disk[p] EXCEPT ![l] = d]]
    BY <1>3, <2>1 DEF CreateWorktree
  <2> QED BY <1>1, <1>3, <2>2, <2>3, SlotStep
<1> QED BY <1>2, <1>3 DEF SetUp, ResumeWorktree

(* The model runs, or meets the container of an earlier run.                 *)
LEMMA RunModelStep ==
    ASSUME FlyingInv, NEW p \in Workers, NEW l \in Leases, RunModel(p, l)
    PROVE  FlyingInv' /\ NotRedone /\ NewReports
<1>1. /\ disk[p][l].report.kind = "none" /\ runs \in Nat /\ disk[p][l] \in Slot
      /\ disk[p][l].tree.work \subseteq Nat
  BY OwnSlot, SlotParts DEF RunModel, FlyingInv, DiskOK, AtWork
<1>2. ASSUME NEW ok \in BOOLEAN, pilot' = [pilot EXCEPT ![p] = Carrying("ran", l, ok, {}, {})],
             runs' \in Nat, NEW d \in Slot, d.report = disk[p][l].report,
             disk' = [disk EXCEPT ![p] = [disk[p] EXCEPT ![l] = d]]
      PROVE  FlyingInv' /\ NotRedone /\ NewReports
  <2>1. PICK c : c = Carrying("ran", l, ok, {}, {})
    OBVIOUS
  <2>2. c.on = l /\ c.at = "ran" /\ Carries(c)
    BY <2>1, <1>2 DEF Carrying, Carries, AtWork
  <2> QED BY <1>1, <1>2, <2>1, <2>2, SlotStep
<1>3. CASE disk[p][l].container
  <2>1. PICK d : d = [disk[p][l] EXCEPT !.container = FALSE]
    OBVIOUS
  <2>2. d \in Slot /\ d.report = disk[p][l].report
    BY <1>1, <2>1, SlotParts
  <2>3. disk' = [disk EXCEPT ![p] = [disk[p] EXCEPT ![l] = d]]
    BY <1>3, <2>1 DEF RunModel
  <2>4. pilot' = [pilot EXCEPT ![p] = Carrying("ran", l, FALSE, {}, {})] /\ runs' = runs
    BY <1>3 DEF RunModel
  <2> QED BY <1>1, <1>2, <2>2, <2>3, <2>4
<1>4. CASE ~disk[p][l].container
  <2>1. PICK ok \in BOOLEAN, change \in {{}, {runs + 1}} :
           /\ disk' = [disk EXCEPT ![p][l].tree.work = @ \cup change]
           /\ pilot' = [pilot EXCEPT ![p] = Carrying("ran", l, ok, {}, {})]
    BY <1>4 DEF RunModel, MayAnswer
  <2>2. change \subseteq Nat /\ runs' \in Nat
    BY <1>1, <1>4 DEF RunModel
  <2>3. PICK S : S = disk[p][l].tree.work \cup change
    OBVIOUS
  <2>4. PICK t : t = [disk[p][l].tree EXCEPT !.work = S]
    OBVIOUS
  <2>5. PICK d : d = [disk[p][l] EXCEPT !.tree = t]
    OBVIOUS
  <2>6. t \in Trees
    BY <1>1, <2>2, <2>3, <2>4, SlotParts
  <2>7. d \in Slot /\ d.report = disk[p][l].report
    BY <1>1, <2>5, <2>6, SlotParts
  <2>8. disk' = [disk EXCEPT ![p] = [disk[p] EXCEPT ![l] = d]]
    BY <2>1, <2>3, <2>4, <2>5
  <2> QED BY <1>1, <1>2, <2>1, <2>2, <2>7, <2>8
<1> QED BY <1>3, <1>4

(* A container that outlived its process ends.                               *)
LEMMA OrphanStep ==
    ASSUME FlyingInv, NEW p \in Workers, NEW l \in Leases, OrphanEnds(p, l)
    PROVE  FlyingInv' /\ NotRedone /\ NewReports
<1>1. /\ runs \in Nat /\ disk[p][l] \in Slot /\ disk[p][l].tree.work \subseteq Nat
      /\ pilot = [q \in Workers |-> pilot[q]]
  BY OwnSlot, SlotParts DEF FlyingInv, DiskOK
<1>2. pilot' = [pilot EXCEPT ![p] = pilot[p]]
  BY <1>1 DEF OrphanEnds
<1>3. /\ pilot[p].at \in AtWork => pilot[p].on \in Leases
                                   /\ disk[p][pilot[p].on].report.kind = "none"
      /\ pilot[p].at \in AtWork \ {"flying"} => Carries(pilot[p])
  BY DEF FlyingInv, DiskOK, NoWorkOnSaved
<1>4. ASSUME runs' \in Nat, NEW d \in Slot, d.report = disk[p][l].report,
             disk' = [disk EXCEPT ![p] = [disk[p] EXCEPT ![l] = d]]
      PROVE  FlyingInv' /\ NotRedone /\ NewReports
  BY <1>2, <1>3, <1>4, SlotStep
<1>5. PICK d : d = [disk[p][l] EXCEPT !.container = FALSE]
  OBVIOUS
<1>6. d \in Slot /\ d.report = disk[p][l].report /\ d.tree = disk[p][l].tree
  BY <1>1, <1>5, SlotParts DEF Slot
<1>7. CASE disk' = [disk EXCEPT ![p][l].container = FALSE] /\ UNCHANGED runs
  <2>1. disk' = [disk EXCEPT ![p] = [disk[p] EXCEPT ![l] = d]]
    BY <1>5, <1>7
  <2> QED BY <1>1, <1>4, <1>6, <1>7, <2>1
<1>8. CASE /\ runs' = runs + 1
           /\ disk' = [disk EXCEPT ![p][l] = [disk[p][l] EXCEPT !.container = FALSE,
                                       !.tree.work = disk[p][l].tree.work \cup {runs + 1}]]
  <2>1. PICK t : t = [d.tree EXCEPT !.work = disk[p][l].tree.work \cup {runs + 1}]
    OBVIOUS
  <2>2. PICK e : e = [d EXCEPT !.tree = t]
    OBVIOUS
  <2>3. disk[p][l].tree.work \cup {runs + 1} \in SUBSET Nat
    BY <1>1
  <2>4. t \in Trees
    BY <1>6, <2>1, <2>3, SlotParts
  <2>5. e \in Slot /\ e.report = disk[p][l].report
    BY <1>6, <2>2, <2>4, SlotParts
  <2>6. e = [disk[p][l] EXCEPT !.container = FALSE,
                               !.tree.work = disk[p][l].tree.work \cup {runs + 1}]
    BY <1>1, <1>5, <1>6, <2>1, <2>2 DEF Slot
  <2>7. disk' = [disk EXCEPT ![p] = [disk[p] EXCEPT ![l] = e]]
    BY <1>8, <2>6
  <2>8. runs' \in Nat
    BY <1>1, <1>8
  <2> QED BY <1>4, <2>5, <2>7, <2>8
<1> QED BY <1>7, <1>8 DEF OrphanEnds

(* The work is collected, and pushed if it may be.                           *)
LEMMA CollectStep ==
    ASSUME FlyingInv, NEW p \in Workers, NEW l \in Leases, Collect(p, l)
    PROVE  FlyingInv' /\ NotRedone /\ NewReports
<1> DEFINE head == disk[p][l].tree.head
           work == disk[p][l].tree.work
<1>1. /\ disk[p][l].report.kind = "none" /\ runs \in Nat /\ disk[p][l] \in Slot
      /\ head \subseteq Nat /\ work \subseteq Nat /\ pilot[p].ok \in BOOLEAN
  BY OwnSlot, SlotParts DEF Collect, FlyingInv, DiskOK, AtWork, Carries
<1>2. PICK c : c = Carrying("collected", l, pilot[p].ok, head, work \ head)
  OBVIOUS
<1>3. c.on = l /\ Carries(c) /\ pilot' = [pilot EXCEPT ![p] = c] /\ runs' = runs
  BY <1>1, <1>2 DEF Collect, Carrying, Carries, AtWork
<1>4. CASE UNCHANGED disk
  BY <1>1, <1>3, <1>4, PilotStep
<1>5. CASE disk' = [disk EXCEPT ![p][l].tree.head = work]
  <2>1. PICK t : t = [disk[p][l].tree EXCEPT !.head = work]
    OBVIOUS
  <2>2. PICK d : d = [disk[p][l] EXCEPT !.tree = t]
    OBVIOUS
  <2>3. t \in Trees
    BY <1>1, <2>1, SlotParts
  <2>4. d \in Slot /\ d.report = disk[p][l].report
    BY <1>1, <2>2, <2>3, SlotParts
  <2>5. disk' = [disk EXCEPT ![p] = [disk[p] EXCEPT ![l] = d]]
    BY <1>5, <2>1, <2>2
  <2> QED BY <1>1, <1>3, <2>4, <2>5, SlotStep
<1> QED BY <1>4, <1>5 DEF Collect, Publish

(* The worktree is removed.                                                 *)
LEMMA CleanupStep ==
    ASSUME FlyingInv, NEW p \in Workers, NEW l \in Leases, Cleanup(p, l)
    PROVE  FlyingInv' /\ NotRedone /\ NewReports
<1>1. /\ disk[p][l].report.kind = "none" /\ runs \in Nat /\ disk[p][l] \in Slot
      /\ Carries(pilot[p]) /\ pilot[p].on = l /\ NoTree \in Trees /\ runs' = runs
  BY OwnSlot DEF Cleanup, FlyingInv, DiskOK, AtWork
<1>2. PICK at \in {"staging", "reporting"}, whole \in BOOLEAN :
         pilot' = [pilot EXCEPT ![p] =
            IF whole THEN [pilot[p] EXCEPT !.at = at]
                     ELSE Carrying("reporting", l, FALSE, {}, {})]
  BY DEF Cleanup
<1>3. PICK c : c = IF whole THEN [pilot[p] EXCEPT !.at = at]
                            ELSE Carrying("reporting", l, FALSE, {}, {})
  OBVIOUS
<1>4. c.on = l /\ Carries(c)
  <2>1. CASE whole
    BY <1>1, <1>3, <2>1 DEF Carries, AtWork
  <2>2. CASE ~whole
    BY <1>3, <2>2 DEF Carrying, Carries, AtWork
  <2> QED BY <2>1, <2>2
<1>5. CASE disk' = disk
  BY <1>1, <1>2, <1>3, <1>4, <1>5, PilotStep
<1>6. CASE disk' = [disk EXCEPT ![p][l].tree = NoTree]
  <2>1. PICK d : d = [disk[p][l] EXCEPT !.tree = NoTree]
    OBVIOUS
  <2>2. d \in Slot /\ d.report = disk[p][l].report
    BY <1>1, <2>1, SlotParts
  <2>3. disk' = [disk EXCEPT ![p] = [disk[p] EXCEPT ![l] = d]]
    BY <1>6, <2>1
  <2> QED BY <1>1, <1>2, <1>3, <1>4, <2>2, <2>3, SlotStep
<1> QED BY <1>5, <1>6 DEF Cleanup

(* Files are staged with the control plane.                                 *)
LEMMA StageStep ==
    ASSUME FlyingInv, NEW p \in Workers, NEW l \in Leases, Stage(p, l)
    PROVE  FlyingInv' /\ NotRedone /\ NewReports
<1>1. /\ disk[p][l].report.kind = "none" /\ Carries(pilot[p]) /\ pilot[p].on = l
  BY OwnSlot DEF Stage, AtWork
<1>2. PICK c \in {[pilot[p] EXCEPT !.at = "reporting"],
                  [pilot[p] EXCEPT !.at = "reporting", !.ok = FALSE]} :
         pilot' = [pilot EXCEPT ![p] = c]
  BY DEF Stage
<1>3. c.on = l /\ Carries(c)
  BY <1>1, <1>2 DEF Carries, AtWork
<1>4. UNCHANGED <<disk, runs>>
  BY DEF Stage
<1> QED BY <1>1, <1>2, <1>3, <1>4, PilotStep

(* The report is saved, where there was none.                               *)
LEMMA SaveStep ==
    ASSUME FlyingInv, NEW p \in Workers, NEW l \in Leases, SaveReport(p, l)
    PROVE  FlyingInv' /\ NotRedone /\ NewReports
<1>1. /\ disk[p][l].report.kind = "none" /\ runs \in Nat /\ disk[p][l] \in Slot
      /\ Carries(pilot[p]) /\ runs' = runs
  BY OwnSlot DEF SaveReport, FlyingInv, DiskOK, AtWork
<1>2. PICK r : r = Report(pilot[p].ok, pilot[p].base, pilot[p].patch)
  OBVIOUS
<1>3. r \in Reports
  BY <1>1, <1>2 DEF Report, Reports, Carries
<1>4. PICK d : d = [disk[p][l] EXCEPT !.report = r]
  OBVIOUS
<1>5. d \in Slot /\ d.report = r
  BY <1>1, <1>3, <1>4, SlotParts
<1>6. disk' = [disk EXCEPT ![p] = [disk[p] EXCEPT ![l] = d]]
  BY <1>2, <1>4 DEF SaveReport
<1>7. pilot' = [pilot EXCEPT ![p] = [at |-> "filing", on |-> l, report |-> r]]
  BY <1>2 DEF SaveReport
<1>8. "filing" \notin AtWork
  BY DEF AtWork
<1> QED BY <1>1, <1>5, <1>6, <1>7, <1>8, SlotStep

(* The process is killed: it may leave changed files, a container or a torn  *)
(* report, the last only while it has none.                                 *)
LEMMA KillStep ==
    ASSUME FlyingInv, NEW p \in Workers, Kill(p)
    PROVE  FlyingInv' /\ NotRedone /\ NewReports
<1>1. /\ pilot' = [pilot EXCEPT ![p] = Idle] /\ Idle.at \notin AtWork
      /\ runs \in Nat /\ disk \in [Workers -> [Leases -> Slot]]
  BY DEF Kill, FlyingInv, DiskOK, Idle, AtWork
<1>2. CASE UNCHANGED <<disk, runs>>
  <2>1. CASE Leases = {}
    BY <1>1, <1>2, <2>1 DEF FlyingInv, DiskOK, NoWorkOnSaved, NotRedone, NewReports, AtWork, Carries
  <2>2. CASE Leases # {}
    BY <1>1, <1>2, <2>2, PilotStep
  <2> QED BY <2>1, <2>2
<1>3. PICK l : l = pilot[p].on
  OBVIOUS
<1>4. ASSUME pilot[p].at \in AtWork, runs' \in Nat,
             NEW d \in Slot, d.report \in {disk[p][l].report, Torn},
             disk' = [disk EXCEPT ![p] = [disk[p] EXCEPT ![l] = d]]
      PROVE  FlyingInv' /\ NotRedone /\ NewReports
  <2>1. l \in Leases /\ disk[p][l].report.kind = "none"
    BY <1>3, <1>4 DEF FlyingInv, DiskOK, NoWorkOnSaved
  <2> QED BY <1>1, <1>4, <2>1, SlotStep
<1>5. pilot[p].at \in {"flying", "reporting"} =>
         l \in Leases /\ pilot[p].at \in AtWork /\ disk[p][l] \in Slot
  BY <1>1, <1>3 DEF FlyingInv, DiskOK, AtWork
<1>6. CASE /\ pilot[p].at = "flying" /\ runs' = runs + 1
           /\ disk' = [disk EXCEPT ![p][l].tree.work = @ \cup {runs + 1}]
  <2>1. disk[p][l] \in Slot /\ disk[p][l].tree.work \cup {runs + 1} \in SUBSET Nat
    BY <1>1, <1>5, <1>6, SlotParts
  <2>2. PICK t : t = [disk[p][l].tree EXCEPT !.work = disk[p][l].tree.work \cup {runs + 1}]
    OBVIOUS
  <2>3. PICK d : d = [disk[p][l] EXCEPT !.tree = t]
    OBVIOUS
  <2>4. t \in Trees
    BY <2>1, <2>2, SlotParts
  <2>5. d \in Slot /\ d.report \in {disk[p][l].report, Torn}
    BY <2>1, <2>3, <2>4, SlotParts
  <2>6. disk' = [disk EXCEPT ![p] = [disk[p] EXCEPT ![l] = d]]
    BY <1>6, <2>2, <2>3
  <2>7. runs' \in Nat /\ pilot[p].at \in AtWork
    BY <1>1, <1>5, <1>6
  <2> QED BY <1>4, <2>5, <2>6, <2>7
<1>7. CASE /\ pilot[p].at = "flying" /\ UNCHANGED runs
           /\ disk' = [disk EXCEPT ![p][l].container = TRUE]
  <2>1. PICK d : d = [disk[p][l] EXCEPT !.container = TRUE]
    OBVIOUS
  <2>2. d \in Slot /\ d.report \in {disk[p][l].report, Torn}
    BY <1>5, <1>7, <2>1, SlotParts
  <2>3. disk' = [disk EXCEPT ![p] = [disk[p] EXCEPT ![l] = d]]
    BY <1>7, <2>1
  <2>4. runs' \in Nat /\ pilot[p].at \in AtWork
    BY <1>1, <1>5, <1>7
  <2> QED BY <1>4, <2>2, <2>3, <2>4
<1>8. CASE /\ pilot[p].at = "reporting" /\ UNCHANGED runs
           /\ disk' = [disk EXCEPT ![p][l].report = Torn]
  <2>1. PICK d : d = [disk[p][l] EXCEPT !.report = Torn]
    OBVIOUS
  <2>2. d \in Slot /\ d.report \in {disk[p][l].report, Torn}
    BY <1>5, <1>8, <2>1, SlotParts, OwnSlot
  <2>3. disk' = [disk EXCEPT ![p] = [disk[p] EXCEPT ![l] = d]]
    BY <1>8, <2>1
  <2>4. runs' \in Nat /\ pilot[p].at \in AtWork
    BY <1>1, <1>5, <1>8
  <2> QED BY <1>4, <2>2, <2>3, <2>4
<1>9. \/ UNCHANGED <<disk, runs>>
      \/ /\ pilot[p].at = "flying" /\ runs' = runs + 1
         /\ disk' = [disk EXCEPT ![p][l].tree.work = @ \cup {runs + 1}]
      \/ /\ pilot[p].at = "flying" /\ UNCHANGED runs
         /\ disk' = [disk EXCEPT ![p][l].container = TRUE]
      \/ /\ pilot[p].at = "reporting" /\ UNCHANGED runs
         /\ disk' = [disk EXCEPT ![p][l].report = Torn]
  BY <1>3 DEF Kill
<1> QED BY <1>2, <1>6, <1>7, <1>8, <1>9, Zenon

(* Every step of workers and control plane.                                 *)
LEMMA FlyingStep ==
    ASSUME FlyingInv, [WorkerNext]_workerVars
    PROVE  FlyingInv' /\ NotRedone /\ NewReports
<1>1. CASE UNCHANGED <<disk, pilot, runs>>
  <2>1. FlyingInv'
    BY <1>1 DEF FlyingInv, DiskOK, NoWorkOnSaved, Carries
  <2>2. \A p \in Workers : pilot[p].at \in {"flying", "ran"} =>
                              disk[p][pilot[p].on].report.kind = "none"
    BY DEF FlyingInv, NoWorkOnSaved, AtWork
  <2>3. NotRedone
    BY <1>1, <2>2 DEF NotRedone
  <2>4. NewReports
    BY <1>1 DEF NewReports
  <2> QED BY <2>1, <2>3, <2>4
<1>2. CASE \E l \in Leases : Issue(l) \/ Withdraw(l)
  BY <1>1, <1>2 DEF Issue, Withdraw
<1>3. CASE \E t \in Tasks : CompleteElsewhere(t)
  BY <1>1, <1>3 DEF CompleteElsewhere
<1>4. ASSUME NEW p \in Workers, ExecuteStep(p)
      PROVE  FlyingInv' /\ NotRedone /\ NewReports
  BY <1>4, BoardingStep, SetUpStep, RunModelStep, CollectStep, CleanupStep, StageStep, SaveStep
     DEF ExecuteStep
<1>5. CASE UNCHANGED workerVars
  BY <1>1, <1>5 DEF workerVars
<1> QED BY <1>2, <1>3, <1>4, <1>5, KillStep, OrphanStep DEF WorkerNext

(* The worker's invariant: nobody works on a lease whose report is saved on  *)
(* the same host.                                                           *)
THEOREM WorkerInvariant == WorkerSpec => []FlyingInv
<1>1. WorkerInit => FlyingInv
  <2> SUFFICES ASSUME WorkerInit PROVE FlyingInv
    OBVIOUS
  <2>1. [tree |-> NoTree, report |-> NoReport, container |-> FALSE] \in Slot
    BY DEF NoTree, NoReport, Slot, Trees, Reports
  <2>2. \A p \in Workers : pilot[p].at \notin AtWork
    BY DEF WorkerInit, Idle, AtWork
  <2> QED BY <2>1, <2>2 DEF WorkerInit, FlyingInv, DiskOK, NoWorkOnSaved
<1> QED BY <1>1, FlyingStep, PTL DEF WorkerSpec

(* However often a worker is killed and started again, a report that it has  *)
(* saved is sent as it is: the model is not run for it a second time         *)
(* (run_execute_once, pending_path).                                         *)
THEOREM ReportsAreNotRedone == WorkerSpec => ReportIsNotRedone
<1>1. FlyingInv /\ [WorkerNext]_workerVars => [NotRedone]_workerVars
  BY FlyingStep
<1> QED BY <1>1, WorkerInvariant, PTL DEF WorkerSpec, ReportIsNotRedone, NotRedone

-----------------------------------------------------------------------------
(* Staged files.                                                            *)

(* The file that a report with this base and this patch describes is staged.  *)
Backs(content, base, patch) == patch # {} => content = base \cup patch

(* Who is about to save or to file the report of an Office flight that landed  *)
(* has staged its file.                                                     *)
CarriesFile(content, c) ==
    /\ c.at = "reporting" /\ c.ok /\ c.on \in Office => Backs(content[c.on], c.base, c.patch)
    /\ c.at = "filing" /\ c.report.landed /\ c.on \in Office =>
          Backs(content[c.on], c.report.base, c.report.patch)

SavedFile(content, l, report) ==
    report.landed /\ l \in Office => Backs(content[l], report.base, report.patch)

LandedFile(l) ==
    flight[l] = "Landed" => /\ filed[l].patch # {}
                            /\ staged[l] = filed[l].base \cup filed[l].patch

FileInv ==
    /\ staged = [l \in Leases |-> staged[l]]
    /\ flight = [l \in Leases |-> flight[l]]
    /\ filed = [l \in Leases |-> filed[l]]
    /\ \A p \in Workers : CarriesFile(staged, pilot[p])
    /\ \A p \in Workers, l \in Leases : SavedFile(staged, l, disk[p][l].report)
    /\ \A l \in Office : LandedFile(l)

(* What is staged stays.                                                    *)
StagedStays ==
    /\ staged' = [l \in Leases |-> staged'[l]]
    /\ \A l \in Leases : staged'[l] = staged[l] \/ staged[l] = {}

(* What is staged for a report is still staged for it after the step.         *)
LEMMA FileStays ==
    ASSUME StagedStays
    PROVE  /\ \A c : CarriesFile(staged, c) => CarriesFile(staged', c)
           /\ \A l, r : SavedFile(staged, l, r) => SavedFile(staged', l, r)
<1>1. \A l \in Office : \A b, d : Backs(staged[l], b, d) => Backs(staged'[l], b, d)
  BY WorkerAssumption DEF StagedStays, Backs
<1> QED BY <1>1 DEF CarriesFile, SavedFile

(* A step of a process that carries what it may.                             *)
LEMMA CarrierStep ==
    ASSUME FlyingInv, FileInv, NewReports, StagedStays, NEW p \in Workers, NEW c,
           pilot' = [pilot EXCEPT ![p] = c], CarriesFile(staged', c),
           flight' = [l \in Leases |-> flight'[l]], filed' = [l \in Leases |-> filed'[l]],
           \A l \in Office : LandedFile(l)'
    PROVE  FileInv'
<1>1. \A q \in Workers : CarriesFile(staged', pilot'[q])
  <2> SUFFICES ASSUME NEW q \in Workers PROVE CarriesFile(staged', pilot'[q])
    OBVIOUS
  <2>1. pilot'[q] = IF q = p THEN c ELSE pilot[q]
    BY DEF FlyingInv, DiskOK
  <2>2. CarriesFile(staged', pilot[q])
    BY FileStays DEF FileInv
  <2> QED BY <2>1, <2>2
<1>2. \A q \in Workers, l \in Leases : SavedFile(staged', l, disk'[q][l].report)
  <2> SUFFICES ASSUME NEW q \in Workers, NEW l \in Leases
               PROVE  SavedFile(staged', l, disk'[q][l].report)
    OBVIOUS
  <2>1. SavedFile(staged', l, disk[q][l].report)
    BY FileStays DEF FileInv
  <2>2. SavedFile(staged', l, Torn)
    BY DEF SavedFile, Torn, NoReport
  <2>3. CASE disk'[q][l].report \in {disk[q][l].report, Torn}
    BY <2>1, <2>2, <2>3
  <2>4. CASE /\ pilot'[q].at = "filing" /\ pilot'[q].on = l
             /\ disk'[q][l].report = pilot'[q].report
    BY <1>1, <2>4 DEF CarriesFile, SavedFile
  <2> QED BY <2>3, <2>4 DEF NewReports
<1> QED BY <1>1, <1>2 DEF FileInv, StagedStays

(* A step in which the control plane keeps what it has.                       *)
LEMMA CarrierOnly ==
    ASSUME FlyingInv, FileInv, NewReports, StagedStays, NEW p \in Workers, NEW c,
           pilot' = [pilot EXCEPT ![p] = c], CarriesFile(staged', c),
           filed' = filed, flight' = [l \in Leases |-> flight'[l]],
           \A l \in Leases : flight'[l] = "Landed" => flight[l] = "Landed"
    PROVE  FileInv'
<1>1. \A l \in Office : LandedFile(l)'
  BY WorkerAssumption DEF FileInv, LandedFile, StagedStays
<1> QED BY <1>1, CarrierStep DEF FileInv

(* Nothing is staged in the step.                                           *)
LEMMA NothingStaged ==
    ASSUME FileInv, staged' = staged
    PROVE  StagedStays
BY DEF FileInv, StagedStays

(* Up to the report.                                                        *)
LEMMA FlightFileStep ==
    ASSUME FlyingInv, FileInv, NewReports, NEW p \in Workers, NEW l \in Leases,
           Select(p, l) \/ Board(p, l) \/ Resend(p, l) \/ SetUp(p, l) \/ RunModel(p, l)
             \/ Collect(p, l) \/ Cleanup(p, l)
    PROVE  FileInv'
<1>1. /\ StagedStays /\ staged' = staged /\ filed' = filed
  BY NothingStaged DEF Select, Board, Resend, SetUp, RunModel, Collect, Publish, Cleanup
<1>2. /\ flight' = [k \in Leases |-> flight'[k]]
      /\ \A k \in Leases : flight'[k] = "Landed" => flight[k] = "Landed"
  <2>1. flight' = flight \/ flight' = [flight EXCEPT ![l] = "Active"]
    BY DEF Select, Board, Resend, SetUp, RunModel, Collect, Cleanup
  <2> QED BY <2>1 DEF FileInv
<1>3. \A c : c.at \notin {"reporting", "filing"} => CarriesFile(staged', c)
  BY DEF CarriesFile
<1>4. CASE Select(p, l) \/ Board(p, l) \/ RunModel(p, l) \/ Collect(p, l)
  <2>1. PICK c : pilot' = [pilot EXCEPT ![p] = c] /\ c.at \notin {"reporting", "filing"}
    <3>1. CASE Select(p, l)
      <4>1. PICK c : c = [at |-> "cleared", on |-> l, seen |-> flight[l]]
        OBVIOUS
      <4>2. pilot' = [pilot EXCEPT ![p] = c]
        BY <3>1, <4>1 DEF Select
      <4>3. c.at = "cleared"
        BY <4>1
      <4> QED BY <4>2, <4>3
    <3>2. CASE Board(p, l)
      <4>1. PICK c \in {[at |-> "aboard", on |-> l], Idle} : pilot' = [pilot EXCEPT ![p] = c]
        BY <3>2 DEF Board
      <4>2. c.at \notin {"reporting", "filing"}
        BY <4>1 DEF Idle
      <4> QED BY <4>1, <4>2
    <3>3. CASE RunModel(p, l)
      BY <3>3 DEF RunModel, Carrying
    <3>4. CASE Collect(p, l)
      <4> DEFINE head == disk[p][l].tree.head
                 work == disk[p][l].tree.work
                 collected == Carrying("collected", l, pilot[p].ok, head, work \ head)
      <4>1. pilot' = [pilot EXCEPT ![p] = collected]
        BY <3>4 DEF Collect
      <4>2. collected.at = "collected"
        BY DEF Carrying
      <4> HIDE DEF collected
      <4> QED BY <4>1, <4>2
    <3> QED BY <1>4, <3>1, <3>2, <3>3, <3>4
  <2> QED BY <1>1, <1>2, <1>3, <2>1, CarrierOnly
<1>5. CASE Resend(p, l)
  <2>1. PICK r : r = disk[p][l].report
    OBVIOUS
  <2>2. PICK c \in {Idle, [at |-> "filing", on |-> l, report |-> r]} :
           pilot' = [pilot EXCEPT ![p] = c]
    BY <1>5, <2>1 DEF Resend
  <2>3. SavedFile(staged, l, r)
    BY <2>1 DEF FileInv
  <2>4. CarriesFile(staged', c)
    BY <1>1, <1>3, <2>2, <2>3 DEF CarriesFile, SavedFile, Idle
  <2> QED BY <1>1, <1>2, <2>2, <2>4, CarrierOnly
<1>6. CASE SetUp(p, l)
  <2>1. PICK c \in {[at |-> "flying", on |-> l], Carrying("reporting", l, FALSE, {}, {})} :
           pilot' = [pilot EXCEPT ![p] = c]
    BY <1>6 DEF SetUp
  <2>2. CarriesFile(staged', c)
    BY <2>1 DEF CarriesFile, Carrying
  <2> QED BY <1>1, <1>2, <2>1, <2>2, CarrierOnly
<1>7. CASE Cleanup(p, l)
  <2>1. pilot[p].at = "collected" /\ pilot[p].on = l /\ Carries(pilot[p])
    BY <1>7, OwnSlot DEF Cleanup, AtWork
  <2>2. PICK c \in {[pilot[p] EXCEPT !.at = IF pilot[p].ok /\ l \in Office
                                            THEN "staging" ELSE "reporting"],
                    Carrying("reporting", l, FALSE, {}, {})} :
           pilot' = [pilot EXCEPT ![p] = c]
    BY <1>7 DEF Cleanup
  <2>3. CarriesFile(staged', c)
    <3>1. CASE c = Carrying("reporting", l, FALSE, {}, {})
      BY <3>1 DEF CarriesFile, Carrying
    <3>2. CASE c = [pilot[p] EXCEPT !.at = IF pilot[p].ok /\ l \in Office
                                           THEN "staging" ELSE "reporting"]
      <4>1. c.on = l /\ c.ok = pilot[p].ok
            /\ c.at = IF pilot[p].ok /\ l \in Office THEN "staging" ELSE "reporting"
        BY <2>1, <3>2 DEF Carries
      <4> QED BY <4>1 DEF CarriesFile
    <3> QED BY <2>2, <3>1, <3>2
  <2> QED BY <1>1, <1>2, <2>2, <2>3, CarrierOnly
<1> QED BY <1>4, <1>5, <1>6, <1>7

(* stage_flight_artifact: what is staged under a path is immutable.           *)
LEMMA StagedFileStep ==
    ASSUME FlyingInv, FileInv, NewReports, NEW p \in Workers, NEW l \in Leases, Stage(p, l)
    PROVE  FileInv'
<1> DEFINE content == StagedFile(pilot[p])
<1>1. pilot[p].on = l /\ Carries(pilot[p]) /\ filed' = filed /\ flight' = flight
  BY OwnSlot DEF Stage, AtWork
<1>2. staged' = staged \/ (staged[l] \in {{}, content} /\ staged' = [staged EXCEPT ![l] = content])
  BY DEF Stage, Stageable, FileInv
<1>3. StagedStays
  BY <1>2 DEF FileInv, StagedStays
<1>4. CASE /\ pilot[p].patch = {} \/ staged' = [staged EXCEPT ![l] = content]
           /\ pilot' = [pilot EXCEPT ![p].at = "reporting"]
  <2>1. PICK c : c = [pilot[p] EXCEPT !.at = "reporting"]
    OBVIOUS
  <2>2. c.at = "reporting" /\ c.on = l /\ c.base = pilot[p].base /\ c.patch = pilot[p].patch
    BY <1>1, <2>1 DEF Carries
  <2>3. c.patch # {} => staged'[l] = c.base \cup c.patch
    BY <1>4, <2>2 DEF FileInv, StagedFile
  <2>4. pilot' = [pilot EXCEPT ![p] = c]
    BY <1>4, <2>1
  <2>5. CarriesFile(staged', c)
    BY <2>2, <2>3 DEF CarriesFile, Backs
  <2> QED BY <1>1, <1>3, <2>4, <2>5, CarrierOnly DEF FileInv
<1>5. CASE pilot' = [pilot EXCEPT ![p].at = "reporting", ![p].ok = FALSE]
  <2>1. PICK c : c = [pilot[p] EXCEPT !.at = "reporting", !.ok = FALSE]
    OBVIOUS
  <2>2. c.at = "reporting" /\ c.ok = FALSE
    BY <1>1, <2>1 DEF Carries
  <2>3. pilot' = [pilot EXCEPT ![p] = c]
    BY <1>1, <1>5, <2>1 DEF FlyingInv, DiskOK
  <2>4. CarriesFile(staged', c)
    BY <2>2 DEF CarriesFile
  <2> QED BY <1>1, <1>3, <2>3, <2>4, CarrierOnly DEF FileInv
<1> QED BY <1>4, <1>5 DEF Stage

(* The report is saved, then filed.                                         *)
LEMMA SaveFileStep ==
    ASSUME FlyingInv, FileInv, NewReports, NEW p \in Workers, NEW l \in Leases, SaveReport(p, l)
    PROVE  FileInv'
<1>1. /\ pilot[p].at = "reporting" /\ pilot[p].on = l /\ StagedStays
      /\ staged' = staged /\ filed' = filed /\ flight' = flight
  BY NothingStaged DEF SaveReport
<1>2. PICK r : r = Report(pilot[p].ok, pilot[p].base, pilot[p].patch)
  OBVIOUS
<1>3. PICK c : c = [at |-> "filing", on |-> l, report |-> r]
  OBVIOUS
<1>4. pilot' = [pilot EXCEPT ![p] = c]
  BY <1>2, <1>3 DEF SaveReport
<1>5. /\ c.at = "filing" /\ c.on = l /\ c.report = r
      /\ r.landed = pilot[p].ok /\ r.base = pilot[p].base /\ r.patch = pilot[p].patch
  BY <1>2, <1>3 DEF Report
<1>6. CarriesFile(staged, pilot[p])
  BY DEF FileInv
<1>7. CarriesFile(staged', c)
  BY <1>1, <1>5, <1>6 DEF CarriesFile
<1> QED BY <1>1, <1>4, <1>7, CarrierOnly DEF FileInv

(* finish_remote_flight: an Office flight lands with a file only.             *)
LEMMA FileReportStep ==
    ASSUME FlyingInv, FileInv, NewReports, NEW p \in Workers, NEW l \in Leases, File(p, l)
    PROVE  FileInv'
<1>1. /\ pilot[p].at = "filing" /\ pilot[p].on = l /\ StagedStays /\ staged' = staged
      /\ pilot' = [pilot EXCEPT ![p] = Idle]
  BY NothingStaged DEF File
<1>2. CarriesFile(staged', Idle)
  BY DEF CarriesFile, Idle
<1>3. PICK r : r = pilot[p].report
  OBVIOUS
<1>4. CASE UNCHANGED <<flight, filed>>
  BY <1>1, <1>2, <1>4, CarrierOnly DEF FileInv
<1>5. CASE filed' = [filed EXCEPT ![l] = r] /\ flight' = [flight EXCEPT ![l] = "Crashed"]
  <2>1. \A k \in Office : LandedFile(k)'
    BY <1>1, <1>5, WorkerAssumption DEF FileInv, LandedFile
  <2> QED BY <1>1, <1>2, <1>5, <2>1, CarrierStep DEF FileInv
<1>6. CASE /\ filed' = [filed EXCEPT ![l] = r] /\ flight' = [flight EXCEPT ![l] = "Landed"]
           /\ r.landed /\ MeetsContract(l, r)
  <2>1. l \in Office => r.patch # {} /\ staged[l] = r.base \cup r.patch
    <3>1. l \in Office => Backs(staged[l], r.base, r.patch)
      BY <1>1, <1>3, <1>6 DEF FileInv, CarriesFile
    <3> QED BY <1>6, <3>1 DEF MeetsContract, Deliverables, Backs
  <2>2. \A k \in Office : LandedFile(k)'
    BY <1>1, <1>6, <2>1, WorkerAssumption DEF FileInv, LandedFile
  <2> QED BY <1>1, <1>2, <1>6, <2>2, CarrierStep DEF FileInv
<1> QED BY <1>3, <1>4, <1>5, <1>6 DEF File

(* Every step of workers and control plane keeps files with their reports.    *)
LEMMA FileStep ==
    ASSUME FlyingInv, FileInv, [WorkerNext]_workerVars
    PROVE  FileInv'
<1>1. NewReports
  BY FlyingStep
<1>2. CASE UNCHANGED <<staged, pilot, filed>> /\ flight' = [l \in Leases |-> flight'[l]]
           /\ \A l \in Leases : flight'[l] = "Landed" => flight[l] = "Landed"
  <2>1. \A p \in Workers, l \in Leases : SavedFile(staged', l, disk'[p][l].report)
    <3> SUFFICES ASSUME NEW p \in Workers, NEW l \in Leases
                 PROVE  SavedFile(staged', l, disk'[p][l].report)
      OBVIOUS
    <3>1. SavedFile(staged, l, disk[p][l].report) /\ CarriesFile(staged, pilot[p])
      BY DEF FileInv
    <3>2. SavedFile(staged, l, Torn)
      BY DEF SavedFile, Torn, NoReport
    <3>3. CASE disk'[p][l].report \in {disk[p][l].report, Torn}
      BY <1>2, <3>1, <3>2, <3>3
    <3>4. CASE /\ pilot'[p].at = "filing" /\ pilot'[p].on = l
               /\ disk'[p][l].report = pilot'[p].report
      BY <1>2, <3>1, <3>4 DEF CarriesFile, SavedFile
    <3> QED BY <1>1, <3>3, <3>4 DEF NewReports
  <2>2. \A l \in Office : LandedFile(l)'
    BY <1>2, WorkerAssumption DEF FileInv, LandedFile
  <2> QED BY <1>2, <2>1, <2>2 DEF FileInv
<1>3. CASE UNCHANGED <<staged, pilot, filed, flight>>
  BY <1>2, <1>3 DEF FileInv
<1>4. CASE \E l \in Leases : Issue(l) \/ Withdraw(l)
  BY <1>2, <1>4 DEF Issue, Withdraw, FileInv
<1>5. ASSUME NEW p \in Workers, ExecuteStep(p)
      PROVE  FileInv'
  BY <1>1, <1>5, FlightFileStep, StagedFileStep, SaveFileStep, FileReportStep DEF ExecuteStep
<1>6. ASSUME NEW p \in Workers, Kill(p)
      PROVE  FileInv'
  <2>1. /\ pilot' = [pilot EXCEPT ![p] = Idle] /\ CarriesFile(staged', Idle)
        /\ UNCHANGED <<staged, filed, flight>>
    BY <1>6 DEF Kill, CarriesFile, Idle
  <2> QED BY <1>1, <2>1, NothingStaged, CarrierOnly DEF FileInv
<1>7. CASE \E p \in Workers, l \in Leases : OrphanEnds(p, l)
  BY <1>3, <1>7 DEF OrphanEnds
<1>8. CASE \E t \in Tasks : CompleteElsewhere(t)
  BY <1>3, <1>8 DEF CompleteElsewhere
<1>9. CASE UNCHANGED workerVars
  BY <1>3, <1>9 DEF workerVars
<1> QED BY <1>4, <1>5, <1>6, <1>7, <1>8, <1>9 DEF WorkerNext

(* An Office flight that landed has the file of its own report staged,        *)
(* whoever died, ran again or flew beside it: stage_flight_artifact,          *)
(* run_execute_once and finish_remote_flight together.                       *)
THEOREM LandedFilesAreReported == WorkerSpec => []LandedFileIsTheReported
<1>1. WorkerInit => FileInv
  <2> SUFFICES ASSUME WorkerInit PROVE FileInv
    OBVIOUS
  <2>1. CarriesFile(staged, Idle) /\ \A l : SavedFile(staged, l, NoReport)
    BY DEF CarriesFile, SavedFile, Idle, NoReport
  <2>2. \A p \in Workers, l \in Leases : pilot[p] = Idle /\ disk[p][l].report = NoReport
    BY DEF WorkerInit
  <2>3. \A l \in Leases : flight[l] # "Landed"
    BY DEF WorkerInit
  <2>4. \A l \in Office : LandedFile(l)
    BY <2>3, WorkerAssumption DEF LandedFile
  <2>5. /\ staged = [l \in Leases |-> staged[l]]
        /\ flight = [l \in Leases |-> flight[l]]
        /\ filed = [l \in Leases |-> filed[l]]
    BY DEF WorkerInit
  <2>6. \A p \in Workers : CarriesFile(staged, pilot[p])
    <3> TAKE p \in Workers
    <3>1. pilot[p] = Idle
      BY DEF WorkerInit
    <3> QED BY <2>1, <3>1, Zenon
  <2>7. \A p \in Workers, l \in Leases : SavedFile(staged, l, disk[p][l].report)
    BY <2>1, <2>2, Zenon
  <2> QED BY <2>4, <2>5, <2>6, <2>7, Zenon DEF FileInv
<1>2. FileInv => LandedFileIsTheReported
  BY DEF FileInv, LandedFile, LandedFileIsTheReported
<1>3. FlyingInv /\ FileInv /\ [WorkerNext]_workerVars => FileInv'
  BY FileStep
<1> QED BY <1>1, <1>2, <1>3, WorkerInvariant, PTL DEF WorkerSpec

-----------------------------------------------------------------------------
(* Credentials.                                                             *)

Rows == [by : MasterKeys \cup {Unset}, credential : Credentials]

(* A row holds what its owner last asked for; a claim is for somebody.       *)
KeysInv ==
    /\ DOMAIN row = People /\ DOMAIN wish = People /\ name \in [People -> Names]
    /\ \A p, q \in People : name[p] = name[q] => p = q
    /\ master \in MasterKeys \cup {Unset, Malformed}
    /\ \A p \in People :
          \/ row[p] = Unset /\ wish[p] = Unset
          \/ row[p] \in Rows /\ row[p].credential = wish[p]
    /\ asked \subseteq [by : People, requester : Names]
    /\ errand.at = "claimed" => errand.for \in asked

(* Renaming, storing, deleting, restarting, claiming and running keep the      *)
(* invariant.                                                               *)
LEMMA KeysStep ==
    ASSUME KeysInv, [KeysNext]_keyVars
    PROVE  KeysInv'
<1>1. ASSUME NEW p \in People, NEW c \in Credentials, SetProvider(p, c)
      PROVE  KeysInv'
  <2>1. PICK r : r = Sealed(c)
    OBVIOUS
  <2>2. r \in Rows /\ r.credential = c
    BY <1>1, <2>1 DEF KeysInv, SetProvider, Sealed, Rows
  <2>3. row' = [row EXCEPT ![p] = r] /\ wish' = [wish EXCEPT ![p] = c]
        /\ UNCHANGED <<name, asked, master, errand>>
    BY <1>1, <2>1 DEF SetProvider, Upsert
  <2> QED BY <2>2, <2>3 DEF KeysInv
<1>2. ASSUME NEW p \in People, DeleteProvider(p)
      PROVE  KeysInv'
  BY <1>2 DEF KeysInv, DeleteProvider, DeleteRow
<1>3. ASSUME NEW p \in People, NEW n \in Names, Rename(p, n)
      PROVE  KeysInv'
  <2>1. /\ name' = [name EXCEPT ![p] = n] /\ \A q \in People : name[q] # n
        /\ asked' = asked \cup {[by |-> p, requester |-> n]}
        /\ UNCHANGED <<row, master, wish, errand>>
    BY <1>3 DEF Rename
  <2>2. name' \in [People -> Names] /\ \A q, r \in People : name'[q] = name'[r] => q = r
    BY <2>1 DEF KeysInv
  <2>3. asked' \subseteq [by : People, requester : Names] /\ asked \subseteq asked'
    BY <2>1 DEF KeysInv
  <2> QED BY <2>1, <2>2, <2>3 DEF KeysInv
<1>4. ASSUME NEW m \in MasterKeys \cup {Unset, Malformed}, RestartServer(m)
      PROVE  KeysInv'
  BY <1>4 DEF KeysInv, RestartServer
<1>5. ASSUME NEW request \in asked, ClaimFor(request)
      PROVE  KeysInv'
  BY <1>5 DEF KeysInv, ClaimFor
<1>6. ASSUME HandOut \/ RunPlan \/ Finish \/ RestartWorker
      PROVE  KeysInv'
  <2>1. UNCHANGED <<name, asked, row, master, wish>>
    BY <1>6 DEF HandOut, RunPlan, Finish, RestartWorker
  <2>2. errand'.at # "claimed"
    <3>1. CASE RunPlan
      <4>1. errand' = [errand EXCEPT !.at = "running"] /\ errand.at = "provided"
        BY <3>1 DEF RunPlan
      <4> QED BY <4>1
    <3> QED BY <1>6, <3>1 DEF HandOut, Finish, RestartWorker, AtRest
  <2> QED BY <2>1, <2>2 DEF KeysInv
<1>7. CASE UNCHANGED keyVars
  BY <1>7 DEF KeysInv, keyVars
<1> QED BY <1>1, <1>2, <1>3, <1>4, <1>5, <1>6, <1>7 DEF KeysNext

(* Reading a row gives what is stored in it, or fails.                       *)
LEMMA ReadingIsTrue ==
    ASSUME KeysInv, NEW p \in People
    PROVE  ProviderCredential(p) \subseteq {Unset, wish[p]}
<1>1. CASE row[p] = Unset
  BY <1>1 DEF ProviderCredential
<1>2. CASE row[p] # Unset
  <2>1. row[p] \in Rows /\ row[p].credential = wish[p] /\ wish[p] \in Credentials
    BY <1>2 DEF KeysInv, Rows
  <2>2. PICK c : c = wish[p]
    OBVIOUS
  <2>3. c = [provider |-> c.provider, key |-> c.key, base |-> c.base]
    BY <2>1, <2>2, KeysAssumption
  <2>4. [c EXCEPT !.key = c.key] = c
    BY <2>3
  <2>5. \A k \in Opened(master, row[p]) : k = c.key
    BY <2>1, <2>2 DEF Opened
  <2>6. {[row[p].credential EXCEPT !.key = k] : k \in Opened(master, row[p])} \subseteq {c}
    BY <2>1, <2>2, <2>4, <2>5
  <2> QED BY <1>2, <2>1, <2>2, <2>6 DEF ProviderCredential
<1> QED BY <1>1, <1>2

(* Whoever has the name of the request is the one that it means, if the name   *)
(* is nobody's id.                                                          *)
LEMMA OneBearer ==
    ASSUME KeysInv, NEW p \in People, name[p] \notin People
    PROVE  Bearers(name[p]) = {p}
BY DEF KeysInv, Bearers

(* The answer about a bearer, or none, and nothing else, is handed out.        *)
LEMMA HandedOut ==
    ASSUME HandOut
    PROVE  \/ errand'.provider = Unset
           \/ \E p \in Bearers(errand.for.requester) : errand'.provider \in ProviderCredential(p)
<1> DEFINE bearers == Bearers(errand.for.requester)
           found == IF bearers = {} THEN {{}} ELSE {ProviderCredential(p) : p \in bearers}
<1>1. PICK answers \in found : \E provider \in IF answers = {} THEN {Unset} ELSE answers :
         errand' = [at |-> "provided", for |-> errand.for, provider |-> provider]
  BY DEF HandOut
<1>2. PICK provider \in IF answers = {} THEN {Unset} ELSE answers :
         errand' = [at |-> "provided", for |-> errand.for, provider |-> provider]
  BY <1>1
<1>3. errand'.provider = provider
  BY <1>2
<1>4. CASE answers = {}
  BY <1>2, <1>3, <1>4
<1>5. CASE answers # {}
  <2>1. bearers # {} /\ \E p \in bearers : answers = ProviderCredential(p)
    BY <1>1, <1>5
  <2> QED BY <1>2, <1>3, <1>5, <2>1
<1> QED BY <1>4, <1>5

(* What a worker is handed is what the bearer of the request's name has stored *)
(* at that moment, or nothing, whatever master keys the server had and        *)
(* whoever was renamed in between; and that is the requester for as long as   *)
(* they keep a name that is nobody's id (provider_credential,                *)
(* SecretBox::open, claim_planning_request, update_directory_human).         *)
THEOREM HandedOutKeysAreWishes == KeysSpec => HandedOutIsTheWish
<1> DEFINE by == errand.for.by
           requester == errand.for.requester
           OfABearer == \/ errand'.provider = Unset
                        \/ \E p \in Bearers(requester) : errand'.provider = wish[p]
           OfTheRequester == name[by] = requester /\ requester \notin People =>
                                 errand'.provider \in {Unset, wish[by]}
           Given == errand.at = "claimed" /\ errand'.at = "provided" =>
                        OfABearer /\ OfTheRequester
<1>1. KeysInit => KeysInv
  BY KeysAssumption DEF KeysInit, KeysInv, AtRest, Request
<1>2. ASSUME KeysInv, KeysNext PROVE Given
  <2> SUFFICES ASSUME errand.at = "claimed", errand'.at = "provided"
               PROVE  OfABearer /\ OfTheRequester
    OBVIOUS
  <2>1. HandOut
    BY <1>2 DEF KeysNext, SetProvider, DeleteProvider, Rename, ClaimFor, RestartServer, RunPlan,
                Finish, RestartWorker, AtRest
  <2>2. by \in People
    BY <1>2 DEF KeysInv
  <2>3. \A p \in Bearers(requester) : p \in People
    BY DEF Bearers
  <2>4. OfABearer
    BY <1>2, <2>1, <2>3, HandedOut, ReadingIsTrue
  <2>5. OfTheRequester
    BY <1>2, <2>2, <2>4, OneBearer
  <2> QED BY <2>4, <2>5
<1>3. KeysInv /\ [KeysNext]_keyVars => KeysInv' /\ [Given]_keyVars
  BY <1>2, KeysStep
<1> QED BY <1>1, <1>3, PTL DEF KeysSpec, HandedOutIsTheWish

=============================================================================
