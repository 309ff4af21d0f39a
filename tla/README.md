# A verification project for relay (manbaflow)

Relay is a control plane for work that people and coding agents do together. A
demand is decomposed into a flow of tasks, tasks are assigned to people, people
clear their agents to fly on tasks, and effects outside the system (GitLab,
mail, calendars, files) pass a human gate. Everything that happens is an event
in an append-only log, and every process works on a projection of that log.

This directory models that system in TLA+, model-checks it with TLC and proves
every safety property that the runs check with TLAPS. `PROJECT.json` maps every definition to the lines it
translates. Paths below are relative to the repository.

## 1. Inventory

### Components that are modelled

**Event ledger** (`src/application/app/commit.rs`, `src/adapters/store.rs`,
`src/adapters/postgres_store.rs`, `src/core/state.rs`)
* State: the `events` table (SQLite) or `relay_events` (PostgreSQL), and in each
  process the cached `OrganizationState` with its `last_sequence`.
* Operations: open and replay, migrate legacy authority while opening, refresh,
  decide an operation on the cache, append with a test of the head, reload after a
  conflict.
* Interaction: every other component changes state through `commit` only. Server
  processes, CLI and TUI share one log.
* Hard: two processes decide on the same state; COMMIT breaks after the data was
  stored; a process dies anywhere; two processes migrate at once.
* Correct when: the log always replays, a stored batch was decided on exactly what
  it extends, caches are projections of prefixes, answers are true.

**Flow and task lifecycle** (`app/mod.rs`, `app/actions.rs`, `app/policy.rs`)
* State: flow status, task status, assignment, evidence, change requests.
* Operations: approve, accept, reject, start, block, add evidence, submit, complete,
  negotiate, reassign, propose/approve/reject a change.
* Local execution (`run_task`): a process commits that a terminal started, waits for
  it, and commits the outcome.
* Hard: long sequences of legal calls by several people; a change preview that is
  stale when it is approved; an outcome recorded on a state read minutes before.
* Correct when: a completed flow has nothing left to do, no work runs ahead of its
  dependencies, nothing completed is taken back or gets further evidence.

**Remote flights** (`app/mod.rs`, `app/flights.rs`)
* State: flight leases, resource leases, recovery decisions, the clock.
* Operations: authorise with a manifest, claim, report landed or crashed, revoke,
  expire, recover (retry, fork) or ground.
* Interaction: claiming starts the task, a crash blocks it, reassignment looks at
  open flights; the server's background loop expires clearances.
* Hard: claim against revoke, expiry and reassignment; takeoff in the last second;
  reports that arrive late; repeated recovery.
* Correct when: no conflicting claims, landed work had its resources to itself, only
  actors fly, recovery stays within the manifest, clearances end.

**Write gates** (`app/gitlab_writes.rs`, `app/office.rs`, `adapters/gitlab_write.rs`,
`adapters/office.rs`, the dispatcher loops of `interfaces/server.rs`)
* State: item status, dispatch id and its start time; what each dispatcher is doing;
  what the provider received and executed.
* Operations: request, approve, reject, retry, claim with stale recovery, send,
  classify the answer, record the outcome.
* Hard: a call slower than the stale limit, two replicas, a crash before or after the
  call, an answer that is lost.
* Correct when: the provider acts at most once per human decision, the record agrees
  with what the provider did, dispatches do not stay open.

**Planning queue** (`app/mod.rs`, `interfaces/worker.rs`)
* State: request status, attempt, lease; the landed flow.
* Operations: request, claim, submit (two commits), fail, abandon.
* Hard: a lost worker, a late submission under an expired lease, a stop between the
  two commits.
* Correct when: an accepted plan stays, requests are served in spite of lost workers.

**Notifications** (`app/notifications.rs`, `adapters/notification.rs`, the loops of
`interfaces/server.rs` and `interfaces/tui.rs`)
* State: endpoints, the outbox of deliveries; what each sender is about to send.
* Operations: register, disable, queue with the commit of the event, take a batch of
  due deliveries, call, record; test and dispatch by hand.
* Hard: the batch is a snapshot of a cached state and its calls take long; an answer
  may be lost, a record may meet a newer log or a disabled endpoint; dead endpoints
  compete with live ones for places in the batch.
* Correct when: what is shown as delivered was received, and every delivery is
  attempted in the end.

**GitLab sync** (`adapters/gitlab.rs`, `sync_external_artifacts` and
`sync_bound_external_artifact` in `app/mod.rs`, `core/state.rs`)
* State: what GitLab has, the webhooks on their way, the artifacts of each task, the
  deliveries processed, a clock per binding.
* Operations: GitLab changes; a synchronisation by hand reads it in two requests and
  commits; a webhook is delivered; a merge request is written through the gate.
* Hard: webhooks come late, twice and out of order, with times in whole seconds,
  between snapshots that have times of their own.
* Correct when: the record of an item never goes back, and a new failure stays visible.

**Remote worker** (`interfaces/worker.rs`, `adapters/worktree.rs`, `adapters/sandbox.rs`,
`adapters/executor.rs`, `adapters/capability.rs`)
* State: on its host the worktrees, saved reports and containers; the remote branch;
  what the control plane knows of the lease; what each process is doing.
* Operations: poll, take up or claim a lease, prepare the worktree, run the model,
  stage files, publish the branch, save the report, send it, clean up; be killed.
* Hard: the process dies between any two of these and starts again.
* Correct when: a saved report is sent and not redone, the staged file of an Office flight
  that landed is the one its report describes, flights end.

**Model credentials** (`app/mod.rs`, `adapters/secretbox.rs`, `interfaces/server.rs`,
`interfaces/worker.rs`)
* State: a row per person, sealed or plain; the names of people, and the name each planning
  request was made under; the server's master key; the environment of the worker process.
* Operations: set, delete, rename a person, restart with another master key, claim, read, run.
* Hard: claim and reading are under two locks; the requester is looked up by name or id when
  the key is read; the master key changes between sealing and reading; the environment
  outlives the request.
* Correct when: a worker gets what whoever answers to the requester's name has stored now, or
  nothing, and a run uses the account of its requester.

**Organisation, roles, SCIM, setup** (`app/authority.rs`, `app/directory.rs`,
`app/setup.rs`, `interfaces/scim.rs`, `app/mod.rs`)
* State: teams, principals, role bindings, external identities; the commits that the
  running request has still to make.
* Operations: register, update, suspend and reorganise by hand; grant and revoke; bind and
  unbind identities; SCIM users and groups; first login through Feishu; setup; migration
  of authority on opening.
* Hard: a SCIM request and setup are series of commits that stop anywhere and are
  repeated.
* Correct when: names stay unambiguous, who was deleted stays out, there is one bootstrap
  token, an administrator remains.

**Tokens and sessions** (`app/credentials.rs`, `adapters/identity.rs`,
`adapters/feishu_auth.rs`, handlers of `interfaces/server.rs`)
* State: rows with token hashes, credential events, the cache of each replica, requests
  between middleware and handler, logins under way.
* Operations: issue, rotate, revoke, expire, suspend, authenticate, begin and complete a
  login, log out, refresh.
* Hard: rows and events are written apart; caches are old; a crash comes in between.
* Correct when: a token that authenticates was good since the request arrived, and
  sessions go to active humans.

**Tenants and migration** (`adapters/tenant.rs`, `adapters/migration.rs`,
`adapters/postgres_store.rs`, tenant commands of `bin/relay/main.rs`)
* State: per back end the catalog and each tenant's ledger, token and artifacts; the
  migration process.
* Operations: create a tenant, serve, commit, route a token, migrate tenant by tenant.
* Hard: the migration is killed at any point, SQLite is used again, it is run again.
* Correct when: after the cutover nothing of any tenant is missing and requests are
  answered by the same tenant as before.

**Tracking, messages and chat** (`app/tracking.rs`, `application/tracker.rs`,
`app/messages.rs`, `app/interactions.rs`, `adapters/interaction.rs`)
* State: attentions and escalations; messages and acknowledgements; bindings of chat
  users; clicks sent and processed; who has the name of the flow's requester.
* Operations: scan, move tasks, rename people, post, acknowledge, bind, unbind, click, deliver.
* Hard: tasks change between scans; nobody may have the requester's name when a scan
  escalates; a click comes again after the task has changed hands.
* Correct when: escalations follow attentions, what stays blocked is escalated once somebody
  has the requester's name, a click acts once.

**Matcher, calendars, scheduler, plan validation** (`application/matcher.rs`,
`core/calendar.rs`, `application/scheduler.rs`, `app/calendars.rs`,
`application/planner.rs`)
* State: calendars with time off, the flow with its assignments, dates and critical path,
  an open change request.
* Operations: land a plan, approve, negotiate, reassign, propose and approve a change,
  finish tasks, configure a calendar, add and cancel time off.
* Hard: boundaries of shifts, zones and days; schedules that are older than the calendar.
* Correct when: working time is exact, schedules are feasible, the critical path explains
  the date, equals share the work.

### Components that are not modelled

See section 7. `PROJECT.json` lists every component with what is left out of it.

## 2. Modules

| Module | Models | Uses |
| --- | --- | --- |
| `Projection` | `apply`, `replay`, `prepare_batch`; a recursive and a closed form | |
| `EventStream` | every log that may be read, with numbers right, repeated or skipped | `Projection` |
| `AtomicLedger` | abstract: one log, whole batches, true answers | `Projection` |
| `Ledger` | instances, caches, optimistic concurrency, failures | `Projection`, `AtomicLedger` |
| `LedgerProofs` | theorems about `Ledger` | `Ledger` |
| `Directory` | principals, agents and their owners, who may act on a task | |
| `Tasks` | flow and task lifecycle | `Directory` |
| `LocalRun` | `run_task`, composed with the tasks | `Tasks` |
| `Flights` | remote flights, composed with the tasks | `Tasks` |
| `WriteGates` | both gates, dispatchers and the provider | |
| `Planning` | the planning queue and its workers | |
| `Worker` | worker processes: decompose mode is `Planning`, execute mode is here | `Planning` |
| `ModelKeys` | provider credentials, master key, worker environment | |
| `Notifications` | the outbox, its senders and the endpoints | |
| `Sync` | GitLab, its webhooks and snapshots, the artifacts of tasks | |
| `Organization` | teams, principals, roles, identities and their permissions | |
| `Scim` | SCIM requests, logins and setup as series of commits | `Organization` |
| `Sessions` | tokens and browser sessions over replicas | |
| `Fleet` | tenants and their migration to PostgreSQL | |
| `Tracking` | scans, attentions, escalations | `Directory` |
| `Conversation` | messages and chat clicks, composed with the tracker | `Tracking` |
| `Calendar`, `Matcher`, `Scheduler` | the algorithms, as operators | each other |
| `Scheduling` | the machine that feeds them: plans, revisions, calendars | `Scheduler` |
| `MC*` | instances for TLC | |
| `WorkerProofs`, `ScimProofs`, `ConversationProofs` | theorems about the module of that name, and about the ones it extends | |
| `TasksProofs` | theorems about tasks with local runs, and with flights | `LocalRun`, `Flights` |
| `IntegrationsProofs` | theorems about the gates, the outbox and GitLab's items | `WriteGates`, `Notifications`, `Sync` |
| `SessionsProofs` | theorems about sessions and about the migration | `Sessions`, `Fleet` |
| `AlgorithmsProofs` | theorems about replay, calendars, matcher and scheduler, and about planning in time | `EventStream`, `Scheduling` |

**One step per operation.** `Ledger` keeps every step of a commit apart: deciding,
the store's transaction, its answer. It implements `AtomicLedger`
(`INSTANCE AtomicLedger WITH`, checked by TLC and proved), in which an operation is one
append decided on the log it extends. The other modules therefore model an operation of
`RelayApp` as one step, and split an operation exactly where the code commits more than
once or waits outside the lock: `submit_planning_result` (`Land`, `Settle`), `run_task`
(`StartRun`, `FinishRun`), a dispatch (`Claim`, `Send`, `Answer...`, `Finish`), a
notification (`Scan`, `Call...`, `Record`), a snapshot of GitLab, the series of SCIM and
setup (`job`), the handlers of `Sessions` (`op`), the transactions of the migration. Where
such an operation goes on with the state it had before its wait, the model keeps whether
that state is still the log's (`run[u].current`, `fresh`), which is what the head check of
`append_prepared` tests. A commit that loses against another leaves no trace in the log,
so it is a step only where the code does something about it.

**Several questions in one run.** `MCWorker`, `MCIntegrations`, `MCSessions` and
`MCAlgorithms` hold machines that do not share state. The initial state chooses one of
them (`mode`, `subject`) and the others do not move. `MCConversation` chooses in the same way
whether cards are clicked and messages posted, or people are renamed; a click never asks what anybody
is called.

**State and code.** Variables carry the names of the fields they stand for, with the
field in the comment of the declaration. History variables are marked `history`:
`acked`, `refused` (what callers were told), `approvals`, `issued` (what humans
and dispatchers did), `told` (which worker was answered Ok), `served`, `effects`, `wish`.
Envelopes also carry two history fields, `op` and `basis`: which call stored them and on how
long a log it was decided.

**Data abstraction.**
* An event in the ledger is the key it is about. `apply` rejects some events on some
  states; that is a set `Unique` of keys a state accepts once.
* A task has no text. In `Tasks` the flow keeps its P80 date, because approving a change
  compares it; `Scheduling` has the estimates and computes the dates.
* Evidence is the set of its sources: a person, a local run, or a flight.
* A flight's fuel is its duration, measured as the code does, in whole seconds rounded down
  (`Measured`; a second has `Second` ticks). The other budgets and the output contract together
  decide whether a report counts as landed, so both outcomes are possible. Retry,
  SwitchExecutor and ReduceScope differ in data only, as do Ground and HumanHandoff.
* A plan in `Planning` is the attempt that made it. A run of the model in `Worker` leaves one
  change, named by the number of the run; commits, patches and files are sets of changes.
* The requester of a flow is a name, looked up at each use. `Tracking`, `Conversation` (`bearer`)
  and `ModelKeys` (`Bearers`) model people who are renamed; in `Tasks`, `LocalRun` and `Flights` the
  requester keeps the name. Names are compared as whole values.
* An item of the gates is its provider, action and payload. A run holds items of one gate,
  since each gate has dispatchers of its own. The guards of a request on the task's status and
  on the staged artifact, and the check of the reviewer, are left out: more requests than in
  the code.
* A notification is its place in the queue. A scan by a loop whose cache is old may
  find any delivery due, which covers every old state it may hold.
* Calendars count in units with short days and weeks; scores are integers with the code's
  order; a name is a tuple of parts, so that a derived name is another name.
* Providers, GitLab, the identity provider, Git, docker and the cipher are external: they
  are modelled from how the adapters use them. A provider may execute a request at any time
  after it was sent, or never, and its answer may be lost.
* Time is a clock or an age in ticks. `Flights` assumes that the clocks of server and worker
  agree and that work starts before the clearance ends.

## 3. Runs

All bounds are CONSTANTS whose declaration says `bound`.

| Run | Instance | Shows |
| --- | --- | --- |
| `ledger` | 2 instances, 3 keys, 3 operations, log of 3, shared store | the log replays, caches are prefixes, answers are true, the refinement, live instances catch up |
| `tasks` | 2 dependent tasks and a third to be added, 2 people, 2 dates, one CLI process that runs tasks locally | the lifecycle properties, also across a local run |
| `flights` | 2 people with an agent each, 1 task that is Alice's at first, 1 workspace, 2 leases of 1 second, seconds of 2 ticks, clock to 6 from the first clearance to the end of all flights | resource claims, exclusive work to within a second, pilots, recovery tree, end of clearances |
| `write_gates` | 2 dispatchers; 2 items of one gate, or one item requested twice, over every provider and action; 2 approvals and 2 dispatches each | effects within approvals, record against provider, dispatches settle |
| `workers` | decompose: 2 requests, 2 workers, 2 attempts; execute: 3 leases on a task, one of them an Office flight and one on a machine without the repository, 2 processes, 2 runs of the model, 1 kill; credentials: 2 people, 3 names of which one is the other's id, 2 keys, 2 master keys, 3 changes | an accepted plan stays, requests are served, reports are not redone, the file of a landed flight is the reported one, flights end, keys handed out are current |
| `integrations` | outbox: 2 endpoints, 2 deliveries, a loop with batches of 1, one dispatch by hand of up to 2, back-off of 1 and 2 scans; gitlab: 1 merge request with 2 pipelines, 3 webhooks, 1 snapshot, 1 write, seconds of 2 ticks | delivered was received, nothing starves, records do not go back |
| `authority` | 2 people, an agent, 2 teams, 5 requests of any kind | unambiguous names, deleted stays out, one bootstrap token, an administrator remains |
| `sessions` | sessions: 2 replicas, 2 tokens, 3 commits, 1 request and 1 login under way; fleet: 3 tenants of which two want one slug, ledgers of 3 | tokens served were live, sessions go to active humans, the cutover keeps the fleet |
| `conversation` | 1 task, 2 people, a chat user, 3 moves of the task; a click and a message, or 2 renamings | escalations follow attentions, clicks act once, what stays blocked is escalated |
| `algorithms` | every stream of up to 4 envelopes over 2 keys; a plan of 3 tasks and a cyclic one, 2 equal agents, 2 calendars, 2 times off, 2 edits | replay against its closed form; exact working time, feasible schedules, critical path, shared work |
| `masked_failure`, `borrowed_account` | as `integrations` and `workers` | a statement of the repository that the code does not keep (section 6) |

**Why the bounds are enough for the cases of interest.** Conflicts, lost outcomes and
double migration need two instances and two operations; a third lets one instance
act on a cache that two commits of the other have overtaken. Two tasks with a
dependency and one added late give every order of completion and approval. Two
leases allow every pair of clearances on one workspace, and a parent with its child;
the manifest with one attempt forbids the recovery that the one with two allows. Three
seconds of two ticks cover a clearance, a takeoff at its last tick, the fuel, and the rest of
the second in which a report still counts as within it; a second of one tick would hide that
rest. Evidence by hand is left to `tasks`. Two dispatches of one item are what a late answer needs to meet the next
dispatch, and two dispatchers what a slow one needs to be overtaken. Two attempts at
a request let an expired claimant meet its successor. A kill and two runs are enough for
every crash point between two visits to one lease, and for two contents of one staged file. The
third lease is what a recovery needs to be open beside another of its task, and may be the first, which
nobody takes up. One renaming leaves nobody with the requester's name, the second gives it to
another or back. Two deliveries and a batch of one let an older failing delivery stand
before a newer one, and the back-off of two scans is the first that lets the newer one pass.
Two statuses of a merge request and of a pipeline are the fewest that can go back; three
webhooks let the middle one arrive last. Five requests are a deletion, its repetition, a
change by hand, setup and its rotation. Three commits revoke, rotate and suspend. Two tenants
that want one slug are the default tenant of SQLite and one that was made on PostgreSQL.
Two equal agents and a plan with two tasks for them show the load at work; two times off
overlap; one shift ends at midnight, and one calendar has its working day shifted by its zone.

Deadlock is checked in `ledger`. In the other runs the system may stop: at the bounds,
or because every flow, item or request is finished.

**Fairness.** It is assumed only of what the program's own loops and timeouts
guarantee, never of people, providers or workers that are lost.
* `Ledger`: store calls return, a stopped process is restarted, and a server
  refreshes the shared log (`refresh_shared_state` before API requests and in the
  dispatcher loops, `docs/DEPLOYMENT.md`).
* `Flights`: time passes and the expiry loop of `spawn_tracker` keeps running.
* `WriteGates`: time passes, the dispatcher loops run on their interval timer, and
  an HTTP call returns or times out. Execution by the provider is not fair.
* `Planning`: time passes, workers poll, and a model run ends because the executor
  has a timeout. It may end in `GiveUp`, so a worker may be lost on every attempt.
* `Worker` in execute mode: a supervisor starts the process again, calls and the model end
  within their timeouts. Kills are bounded (`MaxKills`).
* `Notifications`: time passes, loops scan on their timer, a call returns or times out
  (10 s), caches are refreshed, and a delivery that is tried again and again is not
  stopped by a crash or a newer log every time (strong fairness of `Record`). People
  dispatch by hand only so often (`MaxByHand`).
* `Conversation`: the tracker's loop scans.

Each property of a passing run has a mutant, an operator defined just before the
definition it replaces: what a plausible bug in that code would be. TLC finds the
property violated under it. `TypeOK` definitions are kept in the modules for the proofs
and for readers; the runs spend their properties on behaviour.

## 4. Proofs

Every theorem holds for any sets of instances, tasks, people, workers, items, tokens and so
on, and for every value of the bounds: the bounds are only guards here. Each specification that is proved about has
one inductive invariant (`Inv`, or a name with the component in it), the lemma that every step keeps it (one step per action), and the
properties as consequences. An action property follows from `Inv` and the step.

| Module | Theorem | States |
| --- | --- | --- |
| `LedgerProofs` | `LedgerType`, `LedgerInvariant` | `TypeOK`; the inductive invariant |
| | `LedgerReplays` | `ReplayNeverFails` |
| | `LedgerCaches` | `CacheIsReplayOfPrefix` |
| | `LedgerSerialisable` | `DecidedOnWhatItExtends` |
| | `LedgerAnswers` | `AnswersAreTrue` |
| | `LedgerImplementsAtomic` | `ImplementsAtomicLedger`, the refinement |
| `WorkerProofs` | `PlanningInvariant`, `AcceptedPlansStay` | `AcceptedPlanStays` |
| | `WorkerInvariant`, `ReportsAreNotRedone` | `ReportIsNotRedone`, an action property |
| | `LandedFilesAreReported` | `LandedFileIsTheReported` |
| | `HandedOutKeysAreWishes` | `HandedOutIsTheWish`, an action property |
| `TasksProofs` | `RunInvariant`, `CompletedFlowsAreDone` | `CompletedFlowIsDone` |
| | `DependenciesComeFirst` | `DependenciesDoneBeforeWork` |
| | `TerminalTasksGetNoEvidence` | `TerminalTaskGetsNoEvidence`, an action property |
| | `FlightInvariant`, `ClaimsDoNotConflict` | `NoConflictingClaims` |
| | `LandedWorkIsExclusive` | `LandedWorkWasExclusive` |
| | `PilotsAreActors` | `PilotIsActor` |
| | `RecoveryKeepsTree` | `RecoveryTree` |
| `IntegrationsProofs` | `GateInvariant`, `EffectsAreApproved` | `EffectsWithinApprovals` |
| | `RecordsMatchTheProvider` | `RecordMatchesProvider` |
| | `OutboxInvariant`, `DeliveredWereReceived` | `DeliveredWasReceived` |
| | `SyncInvariant`, `RecordsNeverGoBack` | `RecordNeverGoesBack`, an action property |
| `SessionsProofs` | `SessionsInvariant`, `ServedTokensWereLive` | `ServedWasLive` |
| | `SessionsAreForActiveHumans` | `SessionsGoToActiveHumans`, an action property |
| | `FleetInvariant`, `CutoversKeepTheFleet` | `CutoverKeepsTheFleet` |
| `ScimProofs` | `DirectoryInvariant`, `NamesStayUnambiguous` | `NamesAreUnambiguous` |
| | `DeletedUsersStayOut` | `DeletedStaysOut` |
| | `AtMostOneBootstrapToken` | `OneBootstrapToken` |
| | `AnAdministratorRemains` | `AdministratorRemains`, an action property |
| `ConversationProofs` | `ConversationInvariant`, `ClicksActOnce` | `EachClickActsOnce` |
| | `EscalationsMatchAttentions` | `EscalationsFollowAttentions` |
| `AlgorithmsProofs` | `ReplayIsExact` | `BatchProjectsLikeReplay` |
| | `CyclesAreFound` | `Order` is topological, and complete exactly when no tasks wait for one another |
| | `TimeInvariant`, `FeasibleSchedules` | `ScheduleIsFeasible` |
| | `PathsExplainFinish` | `CriticalPathExplainsFinish` |
| | `EqualsShare` | `EqualsShareThePlan` |
| | `ExactWorkingTime` | `ExactOrRefused`: working time is exact from every instant, for any number of hours, or refused |
| | `WorkingTime` | `WorkingTimeIsExact`, where no search gives up |

**Assumptions**: the named ASSUME of each module, which TLC evaluates in the run of the
component. Most give the constants their types. The others:
* `LedgerAssumption`: `Org` and `Tenant` are different keys that are accepted once, a batch
  may have at least one event;
* finite sets where something is counted or put in an order: the items of a gate, the
  principals of an organisation, the tasks of a flow, the notification endpoints;
* `FlightsAssumption`: a second has at least one tick; a manifest is a map of resources to
  exclusive or shared, a duration and a number of attempts; claim proofs are named by leases at least;
* `KeysAssumption`: no two people have one name at first, which registration sees to;
* `OrganizationAssumption`: what is granted are roles of the code;
* `SyncAssumption`: a second has at least one tick, and no status of GitLab means absent;
* `PeopleAssumption`: principals and teams are different numbers (the order of their names), the
  principals finitely many, and the word for nobody is none of them;
* `SchedulingAssumption`: plans are sequences of tasks with natural efforts, calendars that may
  be configured have no time off of their own, instants and efforts are natural numbers;
* `FleetAssumption`: the listing of the catalog is a sequence of tenants, and no tenant has the
  name of a refusal.

### The inductive invariants

**Ledger.** A log that replays stays so only if what is about to be stored fits it. `Inv` adds
* `CacheSound`: a live cache knows exactly the keys of the log up to its
  `last_sequence`;
* `PendingSound`: an operation between its decision and its transaction is non-empty,
  acceptable to the cache it was decided on, and has a name that is neither in the log
  nor refused;
* `PendingDistinct`, `OpsNamed`: names of operations are not reused.

With the head check, `last_sequence = Len(log)` at the moment of storing; so the cache
knows exactly the keys of the whole log (`CacheSound`), and the batch that was acceptable
to the cache is acceptable to the log (`PendingSound`). `StepOf(r)` says what a step of
instance `r` may do as far as the invariant is concerned, `EveryStepIsAStepOf` shows it
action by action, and `StepPreservesInv` works from `StepOf` alone. The refinement maps
the log and the answers to themselves: a step that stores is one `AAppend`
(`StoreIsAppend`), any other refuses an operation or is invisible (`OtherStepRefuses`).

**Planning.** A worker between `Land` and `Settle` has its plan in the flow unless another
worker landed after it, and then the head check stops its settlement; a request that is settled is
claimed by nobody.

**Worker.** `FlyingInv`: a process between taking a lease up and saving its report has no
saved report for it on its disk. A killed process is idle when it starts again and meets the
saved report first, so that it sends what is there. `FileInv` follows the content of a
run's file: whatever process is on its way to a report of a successful run, and whatever report
is on a disk, has as base and patch what was staged for the lease (`CarriesFile`). What
is staged is never replaced (`StagedStays`), so a second process in the same flight, or one that
started again, either stages the same or reports a crash; and a report that lands is one of those. In
`ModelKeys` a row holds what its owner last asked for, sealed or plain, and the box opens it under
the same key only; no two people have one name (`KeysInv`). A request is therefore answered with what one
who answers to its requester wished (`HandedOut`), and only the requester does while they
have the name and nobody has it for an id (`OneBearer`).

**Tasks and local runs.** `CompletedFlowIsDone` needs that a flow under way has work left
(`OpenFlowHasWork`) and that a stored change adds tasks whose dependencies are there
(`ProposalsSound`, `DependenciesPresent`), since its approval meets a later state. A run may record
its outcome only while its state is the log's, and then it finds its task as it left it
(`CurrentRunFindsItsTask`): that is what keeps evidence from terminal tasks.

**Flights.** `OpenFlightsHold`: a lease that is not over has its claims in the table, until
after the last moment at which it may land (expiry plus fuel). With
`NoConflictingClaims` any two leases with conflicting claims are then apart in time
(`KeptApart`), which `LandedWorkWasExclusive` needs of leases that are long over. A report
counts as in time when the flight took its fuel in whole seconds rounded down, so less than a
second more (`WholeSeconds`); two landed flights with conflicting claims overlapped for less than that.
`IssuedInOrder` gives the recovery tree its order. That the pilot is an actor holds because
reassignment refuses a task with an open flight.

**Write gates.** Effects are counted along a chain: effects are sent requests
(`SentOnce`), a request is sent by the loop that holds the dispatch (`OneLoopPerDispatch`),
dispatches are issued within approvals (`IssuedWithinApprovals`), and ids are not used twice
(`IdsAreIssued`). The record agrees with the provider because what a loop has learnt is
true of its dispatch for ever (`AnswersAreTrue`) and a record is accepted only for the
dispatch that is open.

**Notifications.** A sender has an answer only for the first delivery of its batch, and a success
only for one that the endpoint has received (`SuccessWasReceived`); batches are only replaced when
there is no answer. What other senders do to the outbox meanwhile does not matter.

**GitLab sync.** What is compared are stamps, what must not go back are changes. A stamp is not
older than the second of the change it stands for (`ArtifactsOK`, `HooksOK`), so an artifact that is
replaced because of its stamp tells of no later second. A snapshot has the time of its second
request, later than what it read; there the head check helps: as long as nobody has committed,
the snapshot knows each item at least as well as the task (`SyncsOK`). That a task has one
artifact of an item (`OneEach`) is part of it.

**Sessions.** `CachesBehind`: a cache is at most as new as the log, and the same when its number
is. A commit therefore decides on the log itself (`IssueGoesToActive`), while a request is
judged on an older state: `RequestsSaw` says that a token that the cache holds for live was live when the
request came, or was issued since.

**Migration.** Until the cutover PostgreSQL holds of each tenant a state that SQLite had
before (`TargetBehind`). The import compares counts only; for an earlier state of the same stream
equal counts mean the present one, so a tenant that is done is copied (`Copied`) as long as nobody
writes to SQLite. That nobody does while the migration runs, and that SQLite is not served after
the cutover, is the operator's part (`docs/DEPLOYMENT.md` 148, `ServingOK`); the code does not
enforce it, and the theorem is about operators who follow it. After the cutover PostgreSQL goes
on from where SQLite stopped (`Kept`).

**SCIM.** A series of commits is a list of changes decided at its start. `JobFacts` says that
each is still harmless when its turn comes (`Prepared`), whatever of the series was made:
none makes a deleted human active, and an unbinding is the last. That an
administrator remains needs that agents hold no human roles (`AgentsAreAgents`). The
attempt to prove `NamesAreUnambiguous` as it stood before failed for a good reason: see the
open id in section 6. The property now excepts such names.

**Conversation.** A scan rewrites both lists at once. What it keeps active is a part of what
was, what it adds is new, and the order in which it adds (`SetToSeq`) repeats nothing
(`AnyOrder`). A delivery has acted exactly when its receipt is stored (`ClicksOK`).

**Planning in time.** `TimeInv` says that from the draft on the flow is a schedulable plan
(`FlowOk`): no task waits for itself or in a circle, each open task starts when its dependencies
have reached their P80, and the critical path is traced from the task that ends last. Under way,
each rescheduled task starts when its owner works by the calendar of now (`Attends`). The
second is not kept by a change of calendar alone: it is because
`reschedule_for_principal` is part of the same commit and refuses a calendar on which the flow
cannot be scheduled. `ChangeOk` says that the change on offer was computed from statuses of which
one was not completed. A flow that was completed since has other statuses, so the approval
refuses it; without that a completed flow could be extended.

**Loops.** Replay, the search of a calendar, the hours worked off, the matching of a plan, the
order of tasks and the estimates along it are loops, modelled as recursive functions. The proofs of
`AlgorithmsProofs` take each in three steps. The function exists (`SearchLoopExists`, `KahnLoopExists` and so on), so that it
satisfies its own definition. Its values satisfy an invariant of the loop: the turns that do
are a set of numbers with the first and every next one (`SetInduction`, from the least
member that well-foundedness gives, `Least`). And the invariant of the last turn is the result. The invariants:
* replay: after `n` envelopes the state is the projection of the first `n`, or the error;
* `next_available`: no instant between the start and the cursor is a working one;
* `add_working_hours`: the working units between start and cursor and those left
  add up to those asked for;
* the order of Kahn: a key is in the queue or the order exactly when all it depends on is in
  the order, and what is left of a key are its dependencies outside the order. When the
  queue is empty the keys outside the order wait for one another, which is
  the second half of `CyclesAreFound`;
* the matching: loads are what was chosen so far. Whoever is chosen has no more load than
  somebody alike whose load still counts (`LighterIsChosen`); the last task that either gets
  then bounds the difference.

### Only model-checked

* Liveness under fairness, which is out of the prover's reach: `EveryInstanceCatchesUp`,
  `ClearanceEnds`, `DispatchesSettle`, `RequestsAreServed`, `FlightsEnd`,
  `EveryDeliveryIsAttempted`, `BlockedIsEscalated`.
* That no search of a calendar gives up on the calendars of the run: `WorkingTimeIsExact`
  includes it, and for other calendars it depends on `MAX_SEARCH_DAYS`. With a limit too small
  for the time off taken, the code answers an error; `WorkingTime` has that as a condition
  (`SearchesSucceed`), and `ExactWorkingTime` says that the error is the only other answer.

## 5. Hazards

`PROJECT.json` lists what is hard to test in this code, at the line where it bites, with
the properties that would catch it. Without a property: the outcome of a local run that
meets a newer log (it is not recorded and not tried again), a flight report for a completed
task (section 6) and a saved report that the control plane refuses for ever. A push to a branch that
another flight of the task has moved on is refused by Git and only logged (`interfaces/worker.rs`
204), so that work is in the evidence alone; no property is about it, since nothing of this code could
break what Git guarantees.

Limits of the liveness properties:
* `EveryDeliveryIsAttempted`: the longest back-off is 3840 s and a batch of 50 calls that
  time out takes 500 s, so some 380 deliveries to dead endpoints fill every batch. And with
  two senders on one PostgreSQL log the fairness assumed is not a matter of course: the second
  sender's record fails whenever anybody else commits during its call, the batch ends there,
  and the delivery is sent again later.
* `FlightsEnd` excepts wedged flights: one whose task was completed by somebody else (the
  worker refuses it on every poll, before it looks at other leases), and one whose saved report
  was cut off by a kill (`fs::write`, never parsed again).
* `BlockedIsEscalated` is of one scanner with one policy. Two with different policies
  resolve and raise each other's attentions. It promises an escalation to whoever has the name of the
  requester, and to the requester only when nobody else ever takes that name.

## 6. Where the code and its own statements differ

Shown by a run:
* **An old success masks a new failure** (`masked_failure`). README.md 1125–1126 says it
  cannot. The clock of a webhook is that of the merge request, and a pipeline's event
  replaces whatever pipeline of it the task shows. A pipeline that was started earlier and ends
  later takes the place of the newer one that failed.
* **A borrowed account** (`borrowed_account`). The worker puts the requester's key into its
  own process environment and nothing removes it. The next request of somebody without
  credentials runs, and is billed, on it; a key without a base URL runs against the
  address that the previous requester left.

Seen while modelling, without a run:
* `add_evidence` refuses a terminal task; `finish_remote_flight` does not look at the task. If
  the requester completes it while a flight is in the air, the report adds evidence to the
  completed task, and a crash report sets it to blocked in a completed flow.
* The fuel of a flight is compared in whole seconds (`num_seconds`, `app/flights.rs` 279–284), its
  resource lease ends exactly after expiry plus fuel. A flight that took off at the end of
  its clearance may therefore land up to just under a second after its resources were free, and
  another may have them by then. `LandedWorkWasExclusive` allows that second and no more.
* The requester of a request or a flow is kept by name, and `update_directory_human` (by hand or
  through SCIM) renames people without a look at it. Afterwards
  - the claim of a planning request is answered with the key of whoever took the name, or has
    it for an id, or with none (`interfaces/server.rs` 2171–2176);
  - escalations are passed over in silence while nobody has the name (`app/tracking.rs` 177–179),
    and go to whoever has it then;
  - the renamed requester can no longer approve the flow, complete or reassign its tasks, and
    messages about it are refused while nobody has the name (`app/messages.rs` 61);
  - a human who authorised a flight and has another name by then is refused its recovery, unless
    they are the requester (`app/flights.rs` 425–428).
* Authorising a flight refuses a second open lease of the worker on the task; recovering one
  does not. `recovery_options` recommends a retry also when the attempts are used up.
* `docs/OFFICE.md` says that `failed` means there was certainly no side effect. A retry-safe
  release with a lost answer is recorded as failed although the provider may have
  executed it. It also asks for a new release after an indeterminate one was checked by hand,
  but `request_office_release` returns the indeterminate one for the same content.
* If `submit_planning_result` stops between its commits, the request stays claimed, its lease
  expires, and the next submission replaces the flow, which may have been approved.
* The header of `secretbox.rs` says that without a master key the feature is closed rather than
  degraded to plain text; `app/mod.rs` stores plain text then. A malformed master key makes
  plain rows unreadable too, and the claim handler treats that as "no credentials".
* `docs/IDENTITY.md` has logout end the session; it revokes what the replica's cache knows, so
  a session that another replica issued since may live on until it expires.
* README.md says a claimed lease cannot be consumed by a second process; a second process of
  the same agent takes up an active one. It says that a worker does not push; `publish_branch`
  does. After a kill between the commit of publishing and the report, the resumed worktree's
  base is that commit, so the report's patch lacks the changes of the first run.
* A calendar change while a flow is a draft does not reschedule it, so approval commits dates of
  an older calendar; the members of an owning team are not rescheduled.
* The penalty for load ends at the fourth task (`Score`: 750 each, at most 3000). From there on
  people of one profile and calendar have equal scores however many tasks more one of them
  gets, and every tie goes to the first by name. Found by the proof of `EqualsShareThePlan`, which
  speaks of loads below that.
* `available_principal_name` falls back to the open id of a Feishu user and does not look whether
  somebody has that name: the comment says the open id is unique in the tenant
  (`app/directory.rs` 291). The identity may be unbound, and the next login of the same person opens
  another account; from the third on they share the open id as their name, so that an actor or a
  member of that name is ambiguous. It takes an agent that has the person's name, and two
  unbindings; found by the proof of `NamesAreUnambiguous`, which excepts those names.
* SCIM: creating a user with `active: false` always fails; a deleted user's `userName` stays
  taken; a team with an agent cannot be deleted; the test for the last administrator counts
  role bindings, also of suspended people.
* Migration: provider credentials are not copied. A re-run compares counts and not contents, so
  after a rollback it reports a tenant as replayed though the streams differ. A source that
  moved after a partial import makes it refuse for ever. A crash between registration and
  import leaves an empty stream in the catalog, with which the PostgreSQL server does not
  start until the migration is run again. `tenant create` killed between its two steps blocks
  the slug.
* A write gate's record of an outcome is refused when the error text is empty or longer than
  2000 characters; the dispatch then stays open until the stale recovery.
* A webhook that arrives before the binding is lost; legacy-token webhooks carry the time of
  their arrival; the gate's artifact id (by path) differs from the sync's (by number).

## 7. Not modelled

* The TUI, console, dashboard, showcase, CLI parsing and web frontend: presentation over the same
  operations, except for the loops and commands that drive a component. They are a fifth of
  the lines.
* Prompts, reading of model output, rendering and signing of messages, JSON, HTTP routing,
  OIDC and webhook signatures, SCIM filters: formats and cryptography without state.
* The worker's plan mode and sandbox policies; operating-system processes beyond "runs, ends,
  survives the worker".
* SQLite's schema steps, backup, health checks; a rollback from PostgreSQL to SQLite.
* Several scanners with different tracking policies; repository registration (one validated
  append).

## 8. Plan

Done: all modules of section 2, the refinement, and the proofs of section 4. Every safety
property of the passing runs, invariant or action property, is the subject of a theorem.

Next:
1. A finer abstract specification of the write gates, and the proof that they implement it.
2. A bound on time off from which it follows that no search of a calendar gives up.
