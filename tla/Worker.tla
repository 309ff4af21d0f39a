------------------------------- MODULE Worker -------------------------------
(***************************************************************************)
(* A remote worker process (interfaces/worker.rs, adapters/worktree.rs,    *)
(* adapters/executor.rs, adapters/sandbox.rs).  In decompose mode it is    *)
(* the worker of Planning.tla.  In execute mode it takes a flight lease,   *)
(* runs the model in a detached Git worktree, collects the patch, may push  *)
(* a branch, stages Office files, saves its report and files it.           *)
(*                                                                         *)
(* The process may be killed between any two steps.  What survives is its   *)
(* data directory (the worktree of each run, the saved report), the remote  *)
(* branch and the control plane.  Processes with one token are one agent,   *)
(* each with a data directory of its own.  An error in run_once ends the    *)
(* process (`relay worker run' returns it); its supervisor starts it again.  *)
(*                                                                         *)
(* Every run of the model leaves one change, named by the number of the    *)
(* run; a commit, a patch and a file are sets of changes.                   *)
(***************************************************************************)
EXTENDS Planning

CONSTANTS
    Leases,         \* flight leases of the agent: naturals, in the order of issued_at
    Tasks,          \* tasks in the agent's inbox
    TaskOf,         \* the task of each lease
    Office,         \* the leases of the Office capability pack
    Mapped,         \* the leases each worker has a local repository for
    Sandbox,        \* options.sandbox, "process" or "docker"
    PushConfigured, \* RELAY_GIT_PUSH_URL and RELAY_GIT_PUSH_TOKEN are set
    MaxRuns,        \* bound: runs of the model
    MaxKills        \* bound: processes killed

ASSUME WorkerAssumption ==
    /\ Leases \subseteq Nat
    /\ TaskOf \in [Leases -> Tasks]
    /\ Office \subseteq Leases
    /\ Mapped \in [Workers -> SUBSET Leases]
    /\ Sandbox \in {"process", "docker"}
    /\ PushConfigured \in BOOLEAN

VARIABLES
    flight,         \* FlightLease.status, "None" before it is issued
    filed,          \* FlightLease.report
    staged,         \* content staged for the lease; {} for none
    todo,           \* status of each task
    branch,         \* what the remote branch relay/<task> holds; {} for none
    disk,           \* host of each process: worktree, saved report, orphaned container
    pilot,          \* what each process is doing
    runs,           \* runs of the model so far
    kills

workerVars == <<flight, filed, staged, todo, branch, disk, pilot, runs, kills>>

Idle == [at |-> "idle"]

(* A worktree: what its HEAD holds and what its files hold.                   *)
NoTree == [there |-> FALSE, head |-> {}, work |-> {}]
Tree(head, work) == [there |-> TRUE, head |-> head, work |-> work]

(* PendingFlightResult, RemoteFlightReport: base_revision and patch.         *)
NoReport == [kind |-> "none", landed |-> FALSE, base |-> {}, patch |-> {}]
Torn == [NoReport EXCEPT !.kind = "torn"]
Report(ok, base, patch) ==
    [kind |-> "saved", landed |-> ok, base |-> base, patch |-> patch]

WorkerInit ==
    /\ flight = [l \in Leases |-> "None"]
    /\ filed = [l \in Leases |-> NoReport]
    /\ staged = [l \in Leases |-> {}]
    /\ todo = [t \in Tasks |-> "Accepted"]
    /\ branch = [t \in Tasks |-> {}]
    /\ disk = [p \in Workers |-> [l \in Leases |-> [tree |-> NoTree, report |-> NoReport,
                                               container |-> FALSE]]]
    /\ pilot = [p \in Workers |-> Idle]
    /\ runs = 0
    /\ kills = 0

-----------------------------------------------------------------------------
(* The control plane, in the detail the worker sees (see Flights.tla).       *)

(* inbox: the statuses in which a task is in the inbox of its agent.         *)
InInbox(t) == todo[t] \in {"Accepted", "InProgress", "Blocked"}

SameTask(l) == {k \in Leases : TaskOf[k] = TaskOf[l]}

(* authorize_remote_flight: one open lease per task and agent.               *)
MayAuthorize(l) ==
    /\ InInbox(TaskOf[l])
    /\ \A k \in SameTask(l) : flight[k] \notin {"Authorized", "Active"}

(* recover_remote_flight: for a flight that is over.  Neither another open     *)
(* lease nor the status of the task is looked at, only resource claims, which *)
(* may be shared or have run out.                                           *)
MayRecover(l) == \E parent \in SameTask(l) : flight[parent] \in {"Landed", "Crashed", "Ended"}

Issue(l) ==
    /\ flight[l] = "None"
    /\ \A k \in SameTask(l) : k < l => flight[k] # "None"
    /\ MayAuthorize(l) \/ MayRecover(l)
    /\ flight' = [flight EXCEPT ![l] = "Authorized"]
    /\ UNCHANGED <<filed, staged, todo, branch, disk, pilot, runs, kills>>

(* Revoked by a human or expired by the reaper, before takeoff.              *)
Withdraw(l) ==
    /\ flight[l] = "Authorized"
    /\ flight' = [flight EXCEPT ![l] = "Ended"]
    /\ UNCHANGED <<filed, staged, todo, branch, disk, pilot, runs, kills>>

(* The task is submitted and completed on the strength of other evidence.     *)
CompleteElsewhere(t) ==
    /\ todo[t] = "InProgress"
    /\ todo' = [todo EXCEPT ![t] = "Completed"]
    /\ UNCHANGED <<flight, filed, staged, branch, disk, pilot, runs, kills>>

-----------------------------------------------------------------------------
(* run_execute_once *)

(* Mutant of Candidates: a flight that an earlier process took is left alone.  *)
CandidatesOnTheGround(p) == {l \in Mapped[p] : flight[l] = "Authorized"}

(* workspace_for, select_lease: open leases this worker can run, the ones in   *)
(* the air first, then the earliest issued.                                 *)
Candidates(p) == {l \in Mapped[p] : flight[l] \in {"Authorized", "Active"}}

Selected(p, l) ==
    /\ l \in Candidates(p)
    /\ \A k \in Candidates(p) :
          \/ flight[l] = "Active" /\ flight[k] = "Authorized"
          \/ flight[l] = flight[k] /\ l <= k

(* run_execute_once up to the claim.  A leased task that is not in the inbox  *)
(* is an error: the process ends, and the next one finds the same.           *)
Select(p, l) ==
    /\ pilot[p] = Idle
    /\ Selected(p, l)
    /\ InInbox(TaskOf[l])
    /\ pilot' = [pilot EXCEPT ![p] = [at |-> "cleared", on |-> l, seen |-> flight[l]]]
    /\ UNCHANGED <<flight, filed, staged, todo, branch, disk, runs, kills>>

(* claim_flight for a lease that was Authorized when it was read (refused when *)
(* it is not any more); a lease that was Active is taken up again under its  *)
(* run_id, without a call.                                                  *)
Board(p, l) ==
    /\ pilot[p].at = "cleared" /\ pilot[p].on = l
    /\ IF pilot[p].seen = "Active"
       THEN /\ pilot' = [pilot EXCEPT ![p] = [at |-> "aboard", on |-> l]]
            /\ UNCHANGED <<flight, todo>>
       ELSE IF flight[l] = "Authorized" /\ InInbox(TaskOf[l])
       THEN /\ flight' = [flight EXCEPT ![l] = "Active"]
            /\ todo' = [todo EXCEPT ![TaskOf[l]] = "InProgress"]
            /\ pilot' = [pilot EXCEPT ![p] = [at |-> "aboard", on |-> l]]
       ELSE /\ pilot' = [pilot EXCEPT ![p] = Idle]
            /\ UNCHANGED <<flight, todo>>
    /\ UNCHANGED <<filed, staged, branch, disk, runs, kills>>

(* Mutant of Saved: a report that an earlier process left is not looked for. *)
SavedNowhere(p, l) == FALSE

(* pending_path.is_file() *)
Saved(p, l) == disk[p][l].report # NoReport

(* A saved report is filed without running the model; one that a crash tore    *)
(* does not parse, which is an error.                                       *)
Resend(p, l) ==
    /\ pilot[p].at = "aboard" /\ pilot[p].on = l
    /\ Saved(p, l)
    /\ pilot' = [pilot EXCEPT ![p] =
           IF disk[p][l].report = Torn THEN Idle
           ELSE [at |-> "filing", on |-> l, report |-> disk[p][l].report]]
    /\ UNCHANGED <<flight, filed, staged, todo, branch, disk, runs, kills>>

(* What is carried from the run of the model to the report.                  *)
Carrying(at, l, ok, base, patch) ==
    [at |-> at, on |-> l, ok |-> ok, base |-> base, patch |-> patch]

(* IsolatedWorktree::create *)
CreateWorktree(p, l) ==
    /\ ~ disk[p][l].tree.there
    /\ disk' = [disk EXCEPT ![p][l].tree = Tree({}, {})]

(* IsolatedWorktree::resume of the worktree that an earlier process left: its  *)
(* HEAD becomes the base revision.                                          *)
ResumeWorktree(p, l) ==
    /\ disk[p][l].tree.there
    /\ UNCHANGED disk

(* Setting up the worktree; a failure goes straight to a crash report.        *)
SetUp(p, l) ==
    /\ pilot[p].at = "aboard" /\ pilot[p].on = l
    /\ ~ Saved(p, l)
    /\ \/ /\ CreateWorktree(p, l) \/ ResumeWorktree(p, l)
          /\ pilot' = [pilot EXCEPT ![p] = [at |-> "flying", on |-> l]]
       \/ /\ pilot' = [pilot EXCEPT ![p] = Carrying("reporting", l, FALSE, {}, {})]
          /\ UNCHANGED disk
    /\ UNCHANGED <<flight, filed, staged, todo, branch, runs, kills>>

(* The access to the workspace that the command line of the model gives.      *)
CommandAccess(m) == IF m = "execute" THEN "write" ELSE "read"

(* The access that the mount of the workspace gives inside a container.       *)
ContainerAccess(m) == IF m = "execute" THEN "write" ELSE "read"

Writable(m) ==
    /\ CommandAccess(m) = "write"
    /\ Sandbox = "docker" => ContainerAccess(m) = "write"

(* What a run of the model comes to: it exits with 0 or not, or it does not    *)
(* start, or it is stopped at its timeout.                                  *)
ExecutorResults == {"exited", "failed", "unavailable", "timed out"}

(* parse_claude, parse_codex: only a run that exited with 0 has an answer.     *)
MayAnswer(result) == result = "exited"

(* TerminalExecutor::run_inner.  The answer of the model may be unreadable,    *)
(* and it has or has not changed the files.  A container of the same name     *)
(* that a killed process left behind makes the start fail; the guard of this  *)
(* run then removes it.                                                     *)
RunModel(p, l) ==
    /\ pilot[p].at = "flying" /\ pilot[p].on = l
    /\ IF disk[p][l].container
       THEN /\ disk' = [disk EXCEPT ![p][l].container = FALSE]
            /\ pilot' = [pilot EXCEPT ![p] = Carrying("ran", l, FALSE, {}, {})]
            /\ UNCHANGED runs
       ELSE /\ runs < MaxRuns
            /\ runs' = runs + 1
            /\ \E result \in ExecutorResults, readable \in BOOLEAN,
                  change \in {{}, {runs + 1}} :
                  /\ change # {} => Writable("execute")
                  /\ disk' = [disk EXCEPT ![p][l].tree.work = @ \cup change]
                  /\ pilot' = [pilot EXCEPT ![p] =
                         Carrying("ran", l, MayAnswer(result) /\ readable, {}, {})]
    /\ UNCHANGED <<flight, filed, staged, todo, branch, kills>>

(* The container of a killed process goes on, writes to the worktree if it is  *)
(* still there, and ends.                                                   *)
OrphanEnds(p, l) ==
    /\ disk[p][l].container
    /\ \/ disk' = [disk EXCEPT ![p][l].container = FALSE] /\ UNCHANGED runs
       \/ /\ disk[p][l].tree.there /\ runs < MaxRuns
          /\ runs' = runs + 1
          /\ disk' = [disk EXCEPT ![p][l] = [disk[p][l] EXCEPT !.container = FALSE,
                                     !.tree.work = disk[p][l].tree.work \cup {runs + 1}]]
    /\ UNCHANGED <<flight, filed, staged, todo, branch, pilot, kills>>

(* An ordinary push is accepted when it extends the branch.                   *)
MayPush(t, work) == branch[t] \subseteq work

(* publish_branch, IsolatedWorktree::publish, after a successful run only: a   *)
(* commit, then the push, which may fail; that is only logged.               *)
Publish(p, l, work) ==
    /\ disk' = [disk EXCEPT ![p][l].tree.head = work]
    /\ \/ /\ MayPush(TaskOf[l], work)
          /\ branch' = [branch EXCEPT ![TaskOf[l]] = work]
       \/ UNCHANGED branch

(* publish_branch *)
PublishBranch(ok, tree) == ok /\ PushConfigured /\ tree.work # tree.head

(* IsolatedWorktree::collect, then publish_branch, whether or not the          *)
(* collection succeeded.                                                    *)
Collect(p, l) ==
    /\ pilot[p].at = "ran" /\ pilot[p].on = l
    /\ LET head == disk[p][l].tree.head
           work == disk[p][l].tree.work
           ok == pilot[p].ok
       IN /\ pilot' = [pilot EXCEPT ![p] = Carrying("collected", l, ok, head, work \ head)]
          /\ IF PublishBranch(ok, disk[p][l].tree)
             THEN Publish(p, l, work)
             ELSE UNCHANGED <<disk, branch>>
    /\ UNCHANGED <<flight, filed, staged, todo, runs, kills>>

(* IsolatedWorktree::cleanup, then the verdict: a failed collection or cleanup  *)
(* makes it a crash with an empty artifact.                                 *)
Cleanup(p, l) ==
    /\ pilot[p].at = "collected" /\ pilot[p].on = l
    /\ \E collected, cleaned \in BOOLEAN :
          /\ disk' = IF cleaned THEN [disk EXCEPT ![p][l].tree = NoTree] ELSE disk
          /\ pilot' = [pilot EXCEPT ![p] =
                 IF collected /\ cleaned
                 THEN [@ EXCEPT !.at = IF pilot[p].ok /\ l \in Office THEN "staging" ELSE "reporting"]
                 ELSE Carrying("reporting", l, FALSE, {}, {})]
    /\ UNCHANGED <<flight, filed, staged, todo, branch, runs, kills>>

(* Mutant of Stageable: a path may be staged again with other content.        *)
StageableAgain(l, content) == flight[l] = "Active"

(* stage_flight_artifact: what is staged under a path is immutable.           *)
Stageable(l, content) == flight[l] = "Active" /\ staged[l] \in {{}, content}

(* collect_staged_files: the content of the changed file.                    *)
StagedFile(c) == c.base \cup c.patch

(* stage_artifact for the changed file, if there is one.  The call may be      *)
(* refused, or fail with or without its effect: the flight is then a crash.   *)
Stage(p, l) ==
    /\ pilot[p].at = "staging" /\ pilot[p].on = l
    /\ LET c == pilot[p]
           content == StagedFile(c)
       IN \/ /\ c.patch = {} \/ Stageable(l, content)
             /\ staged' = [staged EXCEPT ![l] = IF c.patch = {} THEN @ ELSE content]
             /\ pilot' = [pilot EXCEPT ![p].at = "reporting"]
          \/ /\ c.patch # {}
             /\ \/ UNCHANGED staged
                \/ /\ Stageable(l, content)
                   /\ staged' = [staged EXCEPT ![l] = content]
             /\ pilot' = [pilot EXCEPT ![p].at = "reporting", ![p].ok = FALSE]
    /\ UNCHANGED <<flight, filed, todo, branch, disk, runs, kills>>

(* fs::write of PendingFlightResult.                                        *)
SaveReport(p, l) ==
    /\ pilot[p].at = "reporting" /\ pilot[p].on = l
    /\ LET r == Report(pilot[p].ok, pilot[p].base, pilot[p].patch)
       IN /\ disk' = [disk EXCEPT ![p][l].report = r]
          /\ pilot' = [pilot EXCEPT ![p] = [at |-> "filing", on |-> l, report |-> r]]
    /\ UNCHANGED <<flight, filed, staged, todo, branch, runs, kills>>

(* derive_deliverables, contract_violations: one per changed file; an Office   *)
(* flight needs at least one.                                               *)
Deliverables(r) == IF r.patch = {} THEN {} ELSE {"file"}

(* output_contract_violations: each must have been staged (by its path).       *)
MeetsContract(l, r) == l \in Office => Deliverables(r) # {} /\ staged[l] # {}

(* finish_remote_flight: a lease that is not Active any more refuses, or has   *)
(* the same report already.  An answer that is lost ends run_once as well.   *)
File(p, l) ==
    /\ pilot[p].at = "filing" /\ pilot[p].on = l
    /\ LET r == pilot[p].report
           landedWell == r.landed /\ MeetsContract(l, r)
       IN IF flight[l] = "Active"
          THEN /\ flight' = [flight EXCEPT ![l] = IF landedWell THEN "Landed" ELSE "Crashed"]
               /\ filed' = [filed EXCEPT ![l] = r]
               /\ todo' = IF landedWell THEN todo ELSE [todo EXCEPT ![TaskOf[l]] = "Blocked"]
          ELSE UNCHANGED <<flight, filed, todo>>
    /\ pilot' = [pilot EXCEPT ![p] = Idle]
    /\ UNCHANGED <<staged, branch, disk, runs, kills>>

(* The process is killed, or a call to the control plane fails before or       *)
(* after its effect.  A kill in the middle of a run leaves what the model has  *)
(* written, and its container running; one in the middle of saving the report *)
(* may tear it.                                                             *)
Kill(p) ==
    /\ pilot[p] # Idle
    /\ kills < MaxKills
    /\ kills' = kills + 1
    /\ pilot' = [pilot EXCEPT ![p] = Idle]
    /\ \/ UNCHANGED <<disk, runs>>
       \/ /\ pilot[p].at = "flying" /\ runs < MaxRuns
          /\ runs' = runs + 1
          /\ disk' = [disk EXCEPT ![p][pilot[p].on].tree.work = @ \cup {runs + 1}]
       \/ /\ pilot[p].at = "flying" /\ Sandbox = "docker"
          /\ disk' = [disk EXCEPT ![p][pilot[p].on].container = TRUE]
          /\ UNCHANGED runs
       \/ /\ pilot[p].at = "reporting"
          /\ disk' = [disk EXCEPT ![p][pilot[p].on].report = Torn]
          /\ UNCHANGED runs
    /\ UNCHANGED <<flight, filed, staged, todo, branch>>

ExecuteStep(p) ==
    \E l \in Leases :
        \/ Select(p, l) \/ Board(p, l) \/ Resend(p, l) \/ SetUp(p, l) \/ RunModel(p, l)
        \/ Collect(p, l) \/ Cleanup(p, l) \/ Stage(p, l) \/ SaveReport(p, l) \/ File(p, l)

WorkerNext ==
    \/ \E l \in Leases : Issue(l) \/ Withdraw(l)
    \/ \E t \in Tasks : CompleteElsewhere(t)
    \/ \E p \in Workers : ExecuteStep(p) \/ Kill(p)
    \/ \E p \in Workers, l \in Leases : OrphanEnds(p, l)

WorkerSpec == WorkerInit /\ [][WorkerNext]_workerVars

-----------------------------------------------------------------------------
(* "If the report exists but has not reached the control plane, only the      *)
(* report is sent again; the model is not run a second time": a process that  *)
(* has saved the report of a run neither runs the model for it again nor      *)
(* replaces the report.                                                     *)
ReportIsNotRedone ==
    [][\A p \in Workers, l \in Leases :
          disk[p][l].report.kind = "saved" =>
              /\ disk'[p][l].report = disk[p][l].report
              /\ pilot'[p].at \in {"flying", "ran"} => pilot'[p].on # l]_workerVars

(* The file of an Office flight that landed, which a release uploads, is the    *)
(* one that its report describes, although the control plane compares their  *)
(* paths only: neither a process that died between staging and its report nor *)
(* a second one in the same flight leaves the file of another run under the  *)
(* report ("staged with immutable content", stage_flight_artifact).          *)
LandedFileIsTheReported ==
    \A l \in Office :
        flight[l] = "Landed" => staged[l] = filed[l].base \cup filed[l].patch

(* A flight in the air that no restart of its worker ever ends: its task has   *)
(* left the inbox, or each process that could fly it holds a torn report.     *)
Wedged(l) ==
    /\ flight[l] = "Active"
    /\ \/ ~ InInbox(TaskOf[l])
       \/ \A p \in Workers : l \in Mapped[p] => disk[p][l].report = Torn

(* A flight whose worker is killed is taken up again and its report filed:     *)
(* every flight in the air that somebody can run ends, unless it or another   *)
(* one is wedged, or the bound on runs is used up.                          *)
FlightsEnd ==
    \A l \in UNION {Mapped[p] : p \in Workers} :
        flight[l] = "Active" ~>
            \/ flight[l] # "Active"
            \/ \E k \in Leases : Wedged(k)
            \/ runs = MaxRuns /\ \E p \in Workers : pilot[p].at = "flying"
=============================================================================
