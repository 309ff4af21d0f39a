------------------------------ MODULE Scheduler -----------------------------
(***************************************************************************)
(* When the tasks of a flow start and finish (application/scheduler.rs):   *)
(* a topological order, and for each task in that order the first instant  *)
(* its owner is available once every dependency has reached its P80        *)
(* finish, and the instants its P50 and P80 hours of the owner's working   *)
(* time have passed.                                                       *)
(*                                                                         *)
(* A task is [deps, effort, human, caps, owner, copilots, status,          *)
(* heartbeat, est]; its key is its place in the flow.  Efforts and hours   *)
(* are counted in the units of Calendar.tla, and round_hours rounds to one *)
(* unit (in the code, a hundredth of an hour).                             *)
(***************************************************************************)
EXTENDS Matcher

NoHeartbeat == -1       \* Task.last_heartbeat = None

Terminal(task) == task.status \in {"Completed", "Rejected"}

(* round_hours, of a fraction. *)
Rounded(n, d) == (2 * n + d) \div (2 * d)

(* assignment_capacity(..).max(0.1), in percent. *)
Capacity(owner) ==
    IF IsTeam(owner) THEN 100 ELSE Max({People[owner].capacity, 10})

(* coordination_factor, in percent *)
Coordination(task) ==
    100 + (IF Cardinality(task.deps) > 1 THEN 10 ELSE 0)
        + (IF task.human THEN 8 ELSE 0)

P50Hours(task) == Rounded(task.effort * Coordination(task), Capacity(task.owner))

P80Hours(task) == Rounded(P50Hours(task) * 14, 10)

(* assignment_start and assignment_finish: a team is always available. *)
StartFor(owner, calendars, instant) ==
    IF IsTeam(owner) THEN instant ELSE NextAvailable(calendars[owner], instant)

FinishFor(owner, calendars, start, units) ==
    IF IsTeam(owner) THEN start + units
    ELSE AddWorkingHours(calendars[owner], start, units)

-----------------------------------------------------------------------------
(* The members of a finite set of numbers, smallest first. *)
Ascending(S) ==
    CHOOSE s \in [1 .. Cardinality(S) -> S] :
        \A i, j \in 1 .. Cardinality(S) : i < j => s[i] < s[j]

DepsOf(tasks) == [i \in 1 .. Len(tasks) |-> tasks[i].deps]

(* The keys in the order of Kahn's algorithm; shorter than the flow if the *)
(* dependencies have a cycle.                                              *)
Order(deps) ==
    LET keys == 1 .. Len(deps)
        turn[n \in 0 .. Len(deps)] ==
            IF n = 0
            THEN [left  |-> [i \in keys |-> Cardinality(deps[i])],
                  queue |-> Ascending({i \in keys : deps[i] = {}}),
                  order |-> <<>>]
            ELSE LET last == turn[n - 1]
                     key  == Head(last.queue)
                     left == [i \in keys |->
                                 last.left[i] - (IF key \in deps[i] THEN 1 ELSE 0)]
                 IN  IF last.queue = <<>> THEN last
                     ELSE [left  |-> left,
                           queue |-> Tail(last.queue) \o
                                     Ascending({i \in keys : key \in deps[i] /\ left[i] = 0}),
                           order |-> Append(last.order, key)]
    IN  turn[Len(deps)].order

(* The tests before scheduling: some task, dependencies that exist and are *)
(* not the task itself, no cycle.                                          *)
Schedulable(tasks) ==
    /\ tasks # <<>>
    /\ \A i \in 1 .. Len(tasks) : tasks[i].deps \subseteq (1 .. Len(tasks)) \ {i}
    /\ Len(Order(DepsOf(tasks))) = Len(tasks)

(* The dependency that finishes last, the one listed last among equals. *)
LastOf(deps, est) ==
    CHOOSE d \in deps : \A o \in deps :
        est[d].p80 > est[o].p80 \/ (est[d].p80 = est[o].p80 /\ d >= o)

(* dependency_start *)
ReadyAt(task, est, now) ==
    IF task.deps = {} THEN now
    ELSE Max({now, est[LastOf(task.deps, est)].p80})

(* The estimate of one task, from those of its dependencies.  A terminal   *)
(* task is where it was last heard of (reschedule only).                   *)
EstimateOf(task, est, calendars, now, how) ==
    LET From(start) ==
            [start |-> start,
             p50   |-> FinishFor(task.owner, calendars, start, P50Hours(task)),
             p80   |-> FinishFor(task.owner, calendars, start, P80Hours(task)),
             how   |-> how]
    IN  IF Terminal(task)
        THEN LET at == IF task.heartbeat = NoHeartbeat THEN now
                       ELSE Min({now, task.heartbeat})
             IN  [start |-> at, p50 |-> at, p80 |-> at, how |-> "actual"]
        ELSE From(StartFor(task.owner, calendars, ReadyAt(task, est, now)))

(* f with one more entry. *)
AddEntry(f, key, value) == [k \in DOMAIN f \cup {key} |-> IF k = key THEN value ELSE f[k]]

(* Estimates and critical paths, in the order given. *)
Estimates(tasks, calendars, now, how) ==
    LET order == Order(DepsOf(tasks))
        upTo[n \in 0 .. Len(order)] ==
            IF n = 0 THEN [est |-> <<>>, path |-> <<>>]
            ELSE LET last == upTo[n - 1]
                     key  == order[n]
                     task == tasks[key]
                     from == IF task.deps = {} THEN <<>>
                             ELSE last.path[LastOf(task.deps, last.est)]
                 IN  [est  |-> AddEntry(last.est, key, EstimateOf(task, last.est, calendars, now, how)),
                      path |-> AddEntry(last.path, key, Append(from, key))]
    IN  upTo[Len(order)]

(* Mutant of Summary: the critical path is that of the task listed last.     *)
SummaryOfLast(e, open, now) ==
    [est  |-> e.est,
     p50  |-> IF open = {} THEN now ELSE Max({e.est[i].p50 : i \in open}),
     p80  |-> IF open = {} THEN now ELSE Max({e.est[i].p80 : i \in open}),
     path |-> IF open = {} THEN <<>> ELSE e.path[Max(open)]]

(* The plan's finish dates and critical path: those of the tasks of `open`. *)
Summary(e, open, now) ==
    [est  |-> e.est,
     p50  |-> IF open = {} THEN now ELSE Max({e.est[i].p50 : i \in open}),
     p80  |-> IF open = {} THEN now ELSE Max({e.est[i].p80 : i \in open}),
     path |-> IF open = {} THEN <<>> ELSE e.path[LastOf(open, e.est)]]

(* schedule: every task of a new plan, and none of them has begun. *)
Schedule(tasks, calendars, now) ==
    Summary(Estimates(tasks, calendars, now, "medium"), 1 .. Len(tasks), now)

(* reschedule: finished tasks stay where they are, and do not count. *)
Reschedule(tasks, calendars, now) ==
    Summary(Estimates(tasks, calendars, now, "rescheduled"),
            {i \in 1 .. Len(tasks) : ~ Terminal(tasks[i])}, now)

(* "calendar has no availability", "exceeds the search limit": the whole   *)
(* operation fails.                                                        *)
Feasible(est) ==
    \A i \in DOMAIN est : Never \notin {est[i].start, est[i].p50, est[i].p80}
=============================================================================
