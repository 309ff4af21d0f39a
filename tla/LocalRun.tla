------------------------------ MODULE LocalRun ------------------------------
(***************************************************************************)
(* Direct execution of a task by a terminal of its own process: run_task   *)
(* (application/app/mod.rs) commits that the executor started, waits for   *)
(* the terminal without any lock, and commits the outcome on the state it   *)
(* had after the first commit.  Composed with the task lifecycle, whose     *)
(* operations other processes carry out meanwhile.                         *)
(*                                                                         *)
(* The result of the terminal is either a summary or an error; Decompose    *)
(* and Plan runs differ in the kind of evidence only: "Plan".              *)
(***************************************************************************)
EXTENDS Tasks

CONSTANTS
    Processes,      \* CLI and TUI processes that call run_task
    Executors,      \* principals with a terminal (Principal.executor)
    Execution       \* the source "a local run produced it"

ASSUME LocalRunAssumption ==
    /\ Executors \subseteq Principals
    /\ Execution \in Proofs

VARIABLE run        \* what each process waits for; current: nothing was
                    \* committed by others since its own first commit

runVars == <<taskVars, run>>

NoRun == [task |-> "none"]

Running(u) == run[u] # NoRun

RunInit == TaskInit /\ run = [u \in Processes |-> NoRun]

(* Somebody commits: the caches of all waiting processes are overtaken.      *)
Overtaken(u) == IF Running(u) THEN [run[u] EXCEPT !.current = FALSE] ELSE NoRun

(* resolve_executor *)
MayFly(x, assignment) ==
    \/ x = assignment.owner
    \/ x \in assignment.copilots
    \/ x \in Agents /\ OwnerOf[x] = assignment.owner

(* run_task up to its first commit: TaskStarted (execute mode) and           *)
(* ExecutorStarted.                                                         *)
StartRun(u, t, mode) ==
    /\ ~ Running(u)
    /\ status[t] \in {"Accepted", "InProgress", "Blocked"}
    /\ DependenciesComplete(t)
    /\ \E p \in Principals : /\ IsActor(p, assigned[t])
                             /\ mode = "Execute" => p \in Humans
    /\ \E x \in Executors : MayFly(x, assigned[t])
    /\ status' = IF mode = "Execute" THEN [status EXCEPT ![t] = "InProgress"]
                                     ELSE status
    /\ run' = [v \in Processes |-> IF v = u
                  THEN [task |-> t, mode |-> mode, current |-> TRUE]
                  ELSE Overtaken(v)]
    /\ UNCHANGED <<flow, assigned, evidence, p80, proposals>>

(* Mutant of StillCurrent: the second commit does not look at the head.      *)
CurrentOrNot(u) == Running(u)

(* The head check of the second commit.                                     *)
StillCurrent(u) == Running(u) /\ run[u].current

Ended(u) == [v \in Processes |-> IF v = u THEN NoRun ELSE Overtaken(v)]

(* The terminal succeeded: ExecutorFinished and EvidenceAdded.              *)
FinishRun(u) ==
    /\ StillCurrent(u)
    /\ evidence' = [evidence EXCEPT ![run[u].task] = @ \cup {Execution}]
    /\ run' = Ended(u)
    /\ UNCHANGED <<flow, status, assigned, p80, proposals>>

(* It failed: ExecutorFailed, and in execute mode TaskBlocked.              *)
CrashRun(u) ==
    /\ StillCurrent(u)
    /\ status' = IF run[u].mode = "Execute"
                 THEN [status EXCEPT ![run[u].task] = "Blocked"] ELSE status
    /\ run' = Ended(u)
    /\ UNCHANGED <<flow, assigned, evidence, p80, proposals>>

(* The second commit is refused (somebody committed meanwhile, if only to    *)
(* another flow), or the process dies: the outcome is in no log.            *)
LoseRun(u) ==
    /\ Running(u)
    /\ run' = [run EXCEPT ![u] = NoRun]
    /\ UNCHANGED taskVars

RunNext ==
    \/ TaskNext /\ run' = [u \in Processes |-> Overtaken(u)]
    \/ \E u \in Processes :
          \/ \E t \in TaskIds, mode \in {"Plan", "Execute"} : StartRun(u, t, mode)
          \/ FinishRun(u) \/ CrashRun(u) \/ LoseRun(u)

RunSpec == RunInit /\ [][RunNext]_runVars

-----------------------------------------------------------------------------
(* The type of every variable.                                              *)
RunTypeOK ==
    /\ TaskTypeOK
    /\ run \in [Processes -> {NoRun} \cup
           [task : TaskIds, mode : {"Plan", "Execute"}, current : BOOLEAN]]
=============================================================================
