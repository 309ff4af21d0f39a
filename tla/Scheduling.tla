----------------------------- MODULE Scheduling -----------------------------
(***************************************************************************)
(* The plan of a flow in time: a plan is landed on whoever the matcher     *)
(* chooses, approved, negotiated, reassigned and extended by change        *)
(* requests while its people change their work calendars and take time off *)
(* (application/app/calendars.rs, mod.rs, application/planner.rs).         *)
(*                                                                         *)
(* Each operation is one step, as in Tasks.tla, which has the statuses a   *)
(* task goes through; here acceptance, start, evidence, submission and     *)
(* completion are the one step FinishTask.  People act on their own        *)
(* calendars; the permission to change another's is Organization.tla's.    *)
(***************************************************************************)
EXTENDS Scheduler

CONSTANTS
    ModelPlans,     \* plans a model may return: sequences of [deps, effort, human, caps]
    Shapes,         \* calendars that may be configured, without their time off
    Spans,          \* [starts, ends] of time off that may be asked for
    Efforts,        \* efforts that may be negotiated
    Moments,        \* values of the clock
    MaxEdits,       \* bound on refusals, revisions and changes of calendars
    MaxTasks        \* bound on the tasks of the flow

ASSUME SchedulingAssumption ==
    /\ \A plan \in ModelPlans :
          /\ Len(plan) \in Nat /\ plan = [i \in 1 .. Len(plan) |-> plan[i]]
          /\ \A i \in 1 .. Len(plan) : plan[i].effort \in Nat
    /\ \A shape \in Shapes :
          /\ shape = [offset |-> shape.offset, days |-> shape.days, from |-> shape.from,
                      to |-> shape.to, off |-> {}]
          /\ shape.offset \in Int /\ shape.from \in Nat /\ shape.to \in Nat
    /\ \A span \in Spans : span.starts \in Nat /\ span.ends \in Nat
    /\ Efforts \subseteq Nat
    /\ Moments \subseteq Nat /\ Moments # {}
    /\ MaxEdits \in Nat /\ MaxTasks \in Nat

VARIABLES
    now,            \* Utc::now()
    calendars,      \* OrganizationState::calendars
    flow,           \* [status, tasks, p50, p80, path]
    change,         \* the FlowChangeRequest in status Proposed, if any
    edits           \* how many edits were made, for the bound

vars == <<now, calendars, flow, change, edits>>

NoFlow == [status |-> "None", tasks |-> <<>>, p50 |-> 0, p80 |-> 0, path |-> <<>>]

NoChange == [task |-> <<>>, statuses |-> <<>>, p80 |-> 0]

SchedulingInit ==
    /\ now = Min(Moments)
    /\ calendars = [p \in Principal |-> Always]
    /\ flow = NoFlow
    /\ change = NoChange
    /\ edits = 0

Tick == /\ \E m \in Moments : m > now /\ now' = m /\ \A o \in Moments : o <= now \/ m <= o
        /\ UNCHANGED <<calendars, flow, change, edits>>

-----------------------------------------------------------------------------
(* local_plan, for a demand it knows nothing special about. *)
LocalPlan ==
    <<[deps |-> {},  effort |-> 4,  human |-> TRUE,  caps |-> {"product"}],
      [deps |-> {1}, effort |-> 16, human |-> FALSE, caps |-> {}],
      [deps |-> {2}, effort |-> 3,  human |-> TRUE,  caps |-> {"product"}]>>

(* generate_plan: the local planner's plan, or one a model returns. *)
GeneratedPlans == {LocalPlan} \cup ModelPlans

(* validate_plan *)
ValidPlan(plan) == plan # <<>> /\ \A i \in 1 .. Len(plan) : plan[i].effort > 0

(* A draft with its assignment becomes a Task. *)
NewTask(draft, m) ==
    [deps |-> draft.deps, effort |-> draft.effort, human |-> draft.human,
     caps |-> draft.caps, owner |-> m.owner, copilots |-> m.copilots,
     status |-> "Proposed", heartbeat |-> NoHeartbeat,
     est |-> [start |-> now, p50 |-> now, p80 |-> now, how |-> "preview"]]

(* apply_schedule_revision, and the Flow that land_plan builds. *)
Scheduled(status, tasks, s) ==
    [status |-> status,
     tasks  |-> [i \in 1 .. Len(tasks) |-> [tasks[i] EXCEPT !.est = s.est[i]]],
     p50 |-> s.p50, p80 |-> s.p80, path |-> s.path]

(* land_plan, after generate_plan or the worker that planned. *)
LandPlan(plan) ==
    /\ flow.status = "None"
    /\ ValidPlan(plan)
    /\ \E chosen \in {MatchAll(plan, [p \in Principal |-> 0], calendars, now)} :
       \E tasks \in {[i \in 1 .. Len(plan) |-> NewTask(plan[i], chosen[i])]} :
          /\ \A i \in 1 .. Len(plan) : chosen[i].owner # Nobody
          /\ Schedulable(tasks)
          /\ \E s \in {Schedule(tasks, calendars, now)} :
                /\ Feasible(s.est)
                /\ flow' = Scheduled("Draft", tasks, s)
    /\ UNCHANGED <<now, calendars, change, edits>>

(* approve_flow: the schedule is the one of when the plan was made. *)
ApproveFlow ==
    /\ flow.status = "Draft"
    /\ flow' = [flow EXCEPT !.status = "Approved",
                            !.tasks = [i \in 1 .. Len(@) |-> [@[i] EXCEPT !.status = "Assigned"]]]
    /\ UNCHANGED <<now, calendars, change, edits>>

RejectTask(i) ==
    /\ flow.tasks[i].status = "Assigned"
    /\ edits < MaxEdits
    /\ flow' = [flow EXCEPT !.tasks[i].status = "Rejected"]
    /\ edits' = edits + 1
    /\ UNCHANGED <<now, calendars, change>>

(* accept_task, which makes the flow Active, ... complete_task: only once   *)
(* the dependencies are complete.                                          *)
FinishTask(i) ==
    /\ flow.tasks[i].status = "Assigned"
    /\ \A d \in flow.tasks[i].deps : flow.tasks[d].status = "Completed"
    /\ flow' = [flow EXCEPT
          !.tasks[i].status = "Completed", !.tasks[i].heartbeat = now,
          !.status = IF \A j \in 1 .. Len(flow.tasks) : j # i => flow.tasks[j].status = "Completed"
                     THEN "Completed" ELSE "Active"]
    /\ UNCHANGED <<now, calendars, change, edits>>

-----------------------------------------------------------------------------
UnderWay == flow.status \in {"Approved", "Active"}

(* Mutant of RescheduledFor: flows keep the plan they have.                  *)
RescheduledForNobody(p, cs) == flow

(* reschedule_for_principal: the flows under way with an unfinished task   *)
(* owned by p, on the calendars as they will be.                           *)
RescheduledFor(p, cs) ==
    IF UnderWay /\ \E i \in 1 .. Len(flow.tasks) :
                       ~ Terminal(flow.tasks[i]) /\ flow.tasks[i].owner = p
    THEN Scheduled(flow.status, flow.tasks, Reschedule(flow.tasks, cs, now))
    ELSE flow

(* The calendar event and the FlowRescheduled events are one commit; if    *)
(* some flow cannot be scheduled any more, nothing is committed.           *)
CommitCalendar(p, calendar) ==
    /\ edits < MaxEdits
    /\ calendars' = [calendars EXCEPT ![p] = calendar]
    /\ flow' = RescheduledFor(p, calendars')
    /\ Feasible([i \in 1 .. Len(flow'.tasks) |-> flow'.tasks[i].est])
    /\ edits' = edits + 1
    /\ UNCHANGED <<now, change>>

(* configure_work_calendar: the time off is kept. *)
ConfigureWorkCalendar(p, shape) ==
    LET calendar == [shape EXCEPT !.off = calendars[p].off]
    IN  /\ Valid(calendar)
        /\ calendar # calendars[p]
        /\ CommitCalendar(p, calendar)

AddTimeOff(p, span) ==
    LET block == [starts |-> span.starts, ends |-> span.ends, cancelled |-> FALSE]
    IN  /\ span.starts < span.ends
        /\ block \notin calendars[p].off
        /\ CommitCalendar(p, [calendars[p] EXCEPT !.off = @ \cup {block}])

CancelTimeOff(p, block) ==
    /\ IsActive(block)
    /\ CommitCalendar(p, [calendars[p] EXCEPT
            !.off = (@ \ {block}) \cup {[block EXCEPT !.cancelled = TRUE]}])

-----------------------------------------------------------------------------
(* The end of negotiate_task and reassign_task: the task as changed, the   *)
(* whole flow rescheduled, one commit.                                     *)
Revise(i, task) ==
    LET tasks == [flow.tasks EXCEPT ![i] = task]
    IN  /\ edits < MaxEdits
        /\ \E s \in {Reschedule(tasks, calendars, now)} :
              /\ Feasible(s.est)
              /\ flow' = Scheduled(flow.status, tasks, s)
        /\ edits' = edits + 1
        /\ UNCHANGED <<now, calendars, change>>

NegotiateTask(i, effort) ==
    /\ flow.tasks[i].status = "Assigned"
    /\ effort > 0
    /\ effort # flow.tasks[i].effort
    /\ Revise(i, [flow.tasks[i] EXCEPT !.effort = effort])

(* reassignment_candidates: unlike the matcher's, their capacity may be 0. *)
ReassignmentCandidates(task) ==
    {p \in Principal : /\ People[p].active
                       /\ task.human => People[p].human
                       /\ Covers(People[p].caps, task)} \cup CandidateTeams(task)

(* default_copilots_for: an owner's agents, whatever they are good at. *)
DefaultCopilots(owner) ==
    IF IsTeam(owner) THEN {} ELSE Copilots(owner, [caps |-> {}])

ReassignTask(i, owner) ==
    /\ UnderWay
    /\ flow.tasks[i].status \in {"Assigned", "Rejected"}
    /\ owner \in ReassignmentCandidates(flow.tasks[i])
    /\ owner # flow.tasks[i].owner
    /\ Revise(i, [flow.tasks[i] EXCEPT !.owner = owner,
                                       !.copilots = DefaultCopilots(owner),
                                       !.status = "Assigned",
                                       !.heartbeat = NoHeartbeat])

-----------------------------------------------------------------------------
Statuses == [i \in 1 .. Len(flow.tasks) |-> flow.tasks[i].status]

(* flow_to_plan *)
FlowToPlan ==
    [i \in 1 .. Len(flow.tasks) |->
        [deps |-> flow.tasks[i].deps, effort |-> flow.tasks[i].effort,
         human |-> flow.tasks[i].human, caps |-> flow.tasks[i].caps]]

(* local_revision: one task more, after all that nothing depends on. *)
LocalRevision ==
    LET leaves == {i \in 1 .. Len(flow.tasks) :
                      \A j \in 1 .. Len(flow.tasks) : i \notin flow.tasks[j].deps}
    IN  Append(FlowToPlan,
               [deps |-> leaves, effort |-> 8, human |-> FALSE, caps |-> {"security"}])

(* generate_revision_plan: a model is asked to append only, and may return *)
(* a plan with an old task changed, or with new ones that wait for         *)
(* themselves.                                                             *)
RevisionPlans ==
    LET new == Len(flow.tasks) + 1
    IN  {LocalRevision,
         [LocalRevision EXCEPT ![1].effort = @ + 1],
         [LocalRevision EXCEPT ![new].deps = {new}],
         [LocalRevision EXCEPT ![new].caps = {"code"}]}

(* validate_append_only_revision *)
AppendOnly(plan) ==
    /\ Len(plan) >= Len(flow.tasks)
    /\ SubSeq(plan, 1, Len(flow.tasks)) = FlowToPlan
    /\ \A i \in Len(flow.tasks) + 1 .. Len(plan) : plan[i].deps \subseteq 1 .. Len(plan)

(* Matcher::new: the unfinished tasks each principal owns. *)
ActiveLoad ==
    [p \in Principal |->
        Cardinality({i \in 1 .. Len(flow.tasks) :
            ~ Terminal(flow.tasks[i]) /\ flow.tasks[i].owner = p})]

(* propose_flow_change: the new task is matched and scheduled for a preview *)
(* and kept with the statuses and the finish date it was computed from.    *)
ProposeFlowChange(plan) ==
    /\ UnderWay
    /\ change = NoChange
    /\ Len(plan) <= MaxTasks
    /\ ValidPlan(plan)
    /\ AppendOnly(plan)
    /\ \E task \in {NewTask(Last(plan), Match(Last(plan), ActiveLoad, calendars, now))} :
       \E tasks \in {Append(flow.tasks, task)} :
          /\ task.owner # Nobody
          /\ Schedulable(tasks)
          /\ \E s \in {Reschedule(tasks, calendars, now)} :
                /\ Feasible(s.est)
                /\ change' = [task     |-> <<[task EXCEPT !.est = s.est[Len(tasks)]]>>,
                              statuses |-> Statuses, p80 |-> flow.p80]
    /\ edits < MaxEdits
    /\ edits' = edits + 1
    /\ UNCHANGED <<now, calendars, flow>>

(* approve_flow_change: refused if a status or the finish date has changed; *)
(* scheduled anew on the calendars and the clock of now.                   *)
ApproveFlowChange ==
    LET tasks == Append(flow.tasks, [change.task[1] EXCEPT !.status = "Assigned"])
    IN  /\ change # NoChange
        /\ Statuses = change.statuses
        /\ flow.p80 = change.p80
        /\ \E s \in {Reschedule(tasks, calendars, now)} :
              /\ Feasible(s.est)
              /\ flow' = Scheduled(flow.status, tasks, s)
        /\ change' = NoChange
        /\ UNCHANGED <<now, calendars, edits>>

RejectFlowChange ==
    /\ change # NoChange
    /\ change' = NoChange
    /\ UNCHANGED <<now, calendars, flow, edits>>

SchedulingNext ==
    \/ Tick
    \/ \E plan \in GeneratedPlans : LandPlan(plan)
    \/ ApproveFlow
    \/ \E i \in 1 .. Len(flow.tasks) :
          \/ RejectTask(i)
          \/ FinishTask(i)
          \/ \E effort \in Efforts : NegotiateTask(i, effort)
          \/ \E owner \in Principal \cup DOMAIN Teams : ReassignTask(i, owner)
    \/ \E p \in Principal :
          \/ \E shape \in Shapes : ConfigureWorkCalendar(p, shape)
          \/ \E span \in Spans : AddTimeOff(p, span)
          \/ \E block \in calendars[p].off : CancelTimeOff(p, block)
    \/ UnderWay /\ \E plan \in RevisionPlans : ProposeFlowChange(plan)
    \/ ApproveFlowChange
    \/ RejectFlowChange

SchedulingSpec == SchedulingInit /\ [][SchedulingNext]_vars

-----------------------------------------------------------------------------
(* next_available and add_working_hours are exact on every calendar that can *)
(* be configured and every time off taken and cancelled on it, from every    *)
(* instant of a week on.  (They do not depend on flows: those are left out.) *)
WorkingTimeIsExact ==
    flow = NoFlow /\ now = Min(Moments) =>
        \A p \in Principal, i \in 0 .. WeekLength * DayLength :
            /\ EarliestFrom(calendars[p], i)
            /\ \A units \in {1, 3, 7} : Worked(calendars[p], i, units)

Planned(i) == flow.tasks[i].est

(* The plan of a flow can be carried out: through every negotiation,         *)
(* reassignment, change request and calendar change, an unfinished task      *)
(* starts only when everything it depends on has reached its P80; and once   *)
(* the flow under way has been rescheduled, at an instant at which its owner *)
(* works by the calendar of today, not in a night or a holiday.             *)
ScheduleIsFeasible ==
    \A i \in 1 .. Len(flow.tasks) :
        LET t == flow.tasks[i]
        IN  /\ t.est.how # "actual" =>
                   \A d \in t.deps : t.est.start >= Planned(d).p80
            /\ /\ UnderWay /\ t.est.how = "rescheduled"
               /\ ~ Terminal(t) /\ ~ IsTeam(t.owner)
               => Available(calendars[t.owner], t.est.start)

(* The critical path is a chain of dependencies that ends in the task the    *)
(* P80 date of the flow is taken from, and each task on it is preceded by    *)
(* the dependency that holds it up most.                                    *)
CriticalPathExplainsFinish ==
    flow.path # <<>> =>
        LET path == flow.path
        IN  /\ Planned(Last(path)).p80 = flow.p80
            /\ flow.tasks[Head(path)].deps = {}
            /\ \A k \in 2 .. Len(path) :
                  /\ path[k - 1] \in flow.tasks[path[k]].deps
                  /\ \A d \in flow.tasks[path[k]].deps : Planned(path[k - 1]).p80 >= Planned(d).p80

(* Two people with the same profile and calendar get equally many tasks of a *)
(* plan that both could do alone, give or take one: as long as the other has *)
(* fewer than four.  From there on a task more costs nothing in the score,   *)
(* and every tie goes to the first of them.                                 *)
EqualsShareThePlan ==
    flow = NoFlow => \A plan \in GeneratedPlans, p, q \in Principal :
        LET chosen  == MatchAll(plan, [r \in Principal |-> 0], calendars, now)
            Owns(r) == Cardinality({i \in 1 .. Len(plan) : chosen[i].owner = r})
        IN  /\ People[p] = People[q] /\ calendars[p] = calendars[q]
            /\ Owns(q) < 4
            => Owns(p) <= Owns(q) + 1
=============================================================================
