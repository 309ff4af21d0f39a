------------------------------ MODULE Tracking ------------------------------
(***************************************************************************)
(* The tracker: what a scan of the tasks finds, the attentions it raises    *)
(* and resolves, and their escalation to the requester of the flow          *)
(* (application/tracker.rs, application/app/tracking.rs).  The tasks of one *)
(* flow move underneath; time counts in hours.                             *)
(*                                                                         *)
(* The flow keeps the name that its requester had when it was asked for.    *)
(* Whoever has that name is treated as the requester, and a person may be   *)
(* renamed (application/app/directory.rs).                                 *)
(***************************************************************************)
EXTENDS Naturals, Sequences, FiniteSets, SequencesExt, Directory

CONSTANTS
    Tasks,
    DependsOn,                     \* [Tasks -> SUBSET Tasks]
    Owner,                         \* whom the plan assigns the tasks to
    Due,                           \* [Tasks -> Nat]: estimate.p80_finish
    NoOne,
    Suspended,                     \* principals and teams that are not active
    StaleAfter, EscalateAfter,     \* the policy of the scan, in hours
    MaxTime, MaxMoves,             \* bounds: the clock, steps of the tasks,
    MaxRenamings                   \* renamings

ASSUME TrackingAssumption ==
    /\ IsFiniteSet(Tasks)
    /\ DependsOn \in [Tasks -> SUBSET Tasks]
    /\ Due \in [Tasks -> Nat]
    /\ StaleAfter \in Nat \ {0} /\ EscalateAfter \in Nat
    /\ {MaxTime, MaxMoves, MaxRenamings} \subseteq Nat

VARIABLES
    now, moves, renamings,
    bearer,        \* who has the name in Demand.requester, or NoOne
    flow,          \* [status, approved]
    task,          \* per task: [status, heartbeat, owner]
    attentions,    \* by number: [task, kind, severity, raised, active]
    escalations    \* by number: [attention, recipient, acknowledged, active]

naming == <<renamings, bearer>>
trackVars == <<now, moves, naming, flow, task, attentions, escalations>>

(* TaskStatus::is_terminal: the tracker says nothing of a rejected task.     *)
Terminal(t) == task[t].status \in {"completed", "rejected", "cancelled"}

-----------------------------------------------------------------------------
(* The flow and its tasks, as far as the tracker looks at them.             *)

ApproveFlow ==
    /\ bearer # NoOne
    /\ flow.status = "draft"
    /\ flow' = [status |-> "approved", approved |-> now]
    /\ task' = [t \in Tasks |-> [task[t] EXCEPT !.status = "assigned"]]
    /\ UNCHANGED <<now, moves, naming, attentions, escalations>>

(* A waypoint: the status and the heartbeat.                                *)
Waypoint(t, status) == task' = [task EXCEPT ![t].status = status, ![t].heartbeat = now]

AcceptTask(t) ==
    /\ task[t].status = "assigned"
    /\ Waypoint(t, "accepted")
    /\ flow' = [flow EXCEPT !.status = "active"]

RejectTask(t) ==
    /\ task[t].status = "assigned"
    /\ task' = [task EXCEPT ![t].status = "rejected"]
    /\ UNCHANGED flow

DependenciesComplete(t) == \A d \in DependsOn[t] : task[d].status = "completed"

StartTask(t) ==
    /\ task[t].status \in {"accepted", "blocked"}
    /\ DependenciesComplete(t)
    /\ Waypoint(t, "in_progress")
    /\ UNCHANGED flow

HeartbeatTask(t) ==
    /\ task[t].status \in {"in_progress", "blocked"}
    /\ task[t].heartbeat # now
    /\ Waypoint(t, task[t].status)
    /\ UNCHANGED flow

BlockTask(t) ==
    /\ task[t].status = "in_progress"
    /\ Waypoint(t, "blocked")
    /\ UNCHANGED flow

SubmitTask(t) ==
    /\ task[t].status = "in_progress"
    /\ Waypoint(t, "submitted")
    /\ UNCHANGED flow

CompleteTask(t) ==
    /\ bearer # NoOne
    /\ task[t].status = "submitted"
    /\ Waypoint(t, "completed")
    /\ flow' = [flow EXCEPT !.status =
                  IF \A u \in Tasks \ {t} : task[u].status = "completed" THEN "completed" ELSE @]

(* reassign_task: assigned again, without a heartbeat.                      *)
ReassignTask(t, owner) ==
    /\ bearer # NoOne
    /\ flow.status \in {"approved", "active"}
    /\ task[t].status \in {"assigned", "accepted", "in_progress", "blocked", "rejected"}
    /\ owner # task[t].owner /\ owner \notin Suspended
    /\ task' = [task EXCEPT ![t] = [status |-> "assigned", heartbeat |-> NoOne, owner |-> owner]]
    /\ UNCHANGED flow

Moves == moves < MaxMoves /\ moves' = moves + 1

TaskStep(t) ==
    /\ Moves
    /\ \/ StartTask(t) \/ HeartbeatTask(t) \/ BlockTask(t)
       \/ SubmitTask(t) \/ CompleteTask(t)
       \/ \E x \in Humans \cup Agents \cup Teams : ReassignTask(t, x)
    /\ UNCHANGED <<now, naming, attentions, escalations>>

Tick ==
    /\ now < MaxTime
    /\ now' = now + 1
    /\ UNCHANGED <<moves, naming, flow, task, attentions, escalations>>

(* update_directory_human: the one with the name of the requester gets another, *)
(* or, when nobody has it, one of the people gets it.                       *)
Rename(p) ==
    /\ renamings < MaxRenamings
    /\ renamings' = renamings + 1
    /\ \/ bearer = p /\ bearer' = NoOne
       \/ bearer = NoOne /\ bearer' = p
    /\ UNCHANGED <<now, moves, flow, task, attentions, escalations>>

-----------------------------------------------------------------------------
(* tracker::evaluate: what is wrong with a task now.                        *)

HeartbeatStale(t) == task[t].heartbeat # NoOne /\ now - task[t].heartbeat >= StaleAfter

Waiting(t) ==
    CASE task[t].status = "assigned" /\ now - flow.approved >= StaleAfter
             -> {"acceptance_waiting"}
      [] task[t].status = "accepted" /\ DependenciesComplete(t) /\ HeartbeatStale(t)
             -> {"stale_heartbeat"}
      [] task[t].status = "in_progress" /\ HeartbeatStale(t) -> {"stale_heartbeat"}
      [] task[t].status = "blocked" -> {"blocked"}
      [] task[t].status = "submitted" /\ HeartbeatStale(t) -> {"review_waiting"}
      [] OTHER -> {}

Severity(kind) == IF kind \in {"overdue", "blocked"} THEN "critical" ELSE "warning"

Findings ==
    IF flow.status \notin {"approved", "active"} THEN {}
    ELSE UNION {{[task |-> t, kind |-> k] :
                   k \in Waiting(t) \cup (IF now > Due[t] THEN {"overdue"} ELSE {})} :
                t \in {u \in Tasks : ~Terminal(u)}}

-----------------------------------------------------------------------------
(* scan_tracking_with_policy_at, one commit.                                *)

Active(s) == {i \in DOMAIN s : s[i].active}
Key(a) == [task |-> a.task, kind |-> a.kind]

(* The attentions after the scan: those no longer found are resolved, those *)
(* found for the first time are raised.                                    *)
AttentionsAfter ==
    LET found == {i \in Active(attentions) : Key(attentions[i]) \in Findings}
        raised == Findings \ {Key(attentions[i]) : i \in found}
    IN  [i \in DOMAIN attentions |-> [attentions[i] EXCEPT !.active = @ /\ i \in found]]
        \o SetToSeq({[task |-> f.task, kind |-> f.kind, severity |-> Severity(f.kind),
                      raised |-> now, active |-> TRUE] : f \in raised})

(* escalation_recipient: whoever has the name of the requester, if anybody.   *)
Recipient == bearer

ShouldEscalate(a) == a.severity = "critical" \/ now - a.raised >= EscalateAfter

(* Without a recipient an attention is passed over, until the next scan.      *)
Raise(due) ==
    IF Recipient = NoOne THEN <<>>
    ELSE SetToSeq({[attention |-> i, recipient |-> Recipient,
                    acknowledged |-> FALSE, active |-> TRUE] : i \in due})

(* The attentions to escalate: those that are due and have no escalation.     *)
ToEscalate(after) ==
    {i \in Active(after) :
        /\ ShouldEscalate(after[i])
        /\ \A e \in Active(escalations) : escalations[e].attention # i}

(* Mutant of EscalationsAfter: an escalation survives its attention.        *)
EscalationsOnlyRaised(after) == escalations \o Raise(ToEscalate(after))

(* Mutant of EscalationsAfter: only what the scan has raised is escalated.    *)
EscalationsOfTheRaised(after) ==
    [i \in DOMAIN escalations |->
        [escalations[i] EXCEPT !.active = @ /\ escalations[i].attention \in Active(after)]]
    \o Raise(ToEscalate(after) \ DOMAIN attentions)

(* The escalations after the scan: resolved with their attention; raised    *)
(* where they are missing, unless nobody has the name of the requester.     *)
EscalationsAfter(after) ==
    [i \in DOMAIN escalations |->
        [escalations[i] EXCEPT !.active = @ /\ escalations[i].attention \in Active(after)]]
    \o Raise(ToEscalate(after))

Scan ==
    /\ attentions' = AttentionsAfter
    /\ escalations' = EscalationsAfter(attentions')
    /\ UNCHANGED <<now, moves, naming, flow, task>>

(* prepare_escalation_ack                                                   *)
AckEscalation(p, e) ==
    /\ e \in DOMAIN escalations
    /\ p \in Humans /\ p = escalations[e].recipient
    /\ escalations[e].active /\ ~escalations[e].acknowledged
    /\ escalations' = [escalations EXCEPT ![e].acknowledged = TRUE]

TrackInit ==
    /\ now = 0 /\ moves = 0
    /\ renamings = 0 /\ bearer = Requester
    /\ flow = [status |-> "draft", approved |-> NoOne]
    /\ task = [t \in Tasks |-> [status |-> "proposed", heartbeat |-> NoOne, owner |-> Owner]]
    /\ attentions = <<>> /\ escalations = <<>>

-----------------------------------------------------------------------------
(* Whatever happens to the tasks between two scans, an escalation in the    *)
(* requester's inbox stands for an attention that is still open, an open    *)
(* attention is escalated at most once, and nothing is raised twice.        *)
EscalationsFollowAttentions ==
    /\ \A e \in Active(escalations) : escalations[e].attention \in Active(attentions)
    /\ \A e, f \in Active(escalations) :
          escalations[e].attention = escalations[f].attention => e = f
    /\ \A a, b \in Active(attentions) : Key(attentions[a]) = Key(attentions[b]) => a = b

EscalatedTo(p, t, kind) ==
    \E e \in Active(escalations) :
       /\ Key(attentions[escalations[e].attention]) = [task |-> t, kind |-> kind]
       /\ escalations[e].recipient = p

(* A task that stays blocked is escalated, at the latest when somebody has the *)
(* name of the requester for good, and stays so: the scans that found nobody  *)
(* to tell do not use it up.  It is told to whoever had the name when it was  *)
(* escalated, so to the requester unless another has ever taken the name.    *)
BlockedIsEscalated ==
    \A t \in Tasks :
        /\ <>[](task[t].status = "blocked" /\ bearer # NoOne) =>
               <>[](\E p \in Humans : EscalatedTo(p, t, "blocked"))
        /\ /\ <>[](task[t].status = "blocked" /\ bearer # NoOne)
           /\ [](bearer \in {Requester, NoOne})
           => <>[]EscalatedTo(Requester, t, "blocked")
=============================================================================
