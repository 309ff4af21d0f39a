-------------------------------- MODULE Sync --------------------------------
(***************************************************************************)
(* Merge requests and pipelines of GitLab in the tasks of a flow            *)
(* (adapters/gitlab.rs, sync_external_artifacts and                         *)
(* sync_bound_external_artifact of application/app/mod.rs).  A task is      *)
(* bound by a synchronisation by hand, which reads GitLab in two requests   *)
(* and commits on the head it opened; from then on GitLab's webhooks keep   *)
(* it current.  They arrive late, twice, out of order or never.             *)
(* Time counts in ticks, and a second has Second of them: a snapshot is     *)
(* stamped in ticks, a webhook in whole seconds.                            *)
(***************************************************************************)
EXTENDS Naturals, FiniteSets

CONSTANTS
    Tasks, MRs, Pipelines,     \* MRs and Pipelines are GitLab's numbers
    MRStatus,                  \* of "opened", "draft", "merged", "closed"
    PipelineStatus,            \* of "running", "failed", "success", ...
    ParentOf,                  \* the merge request each pipeline runs for
    NoOne,
    Second, Tolerance,         \* WEBHOOK_TOLERANCE_SECONDS, in ticks
    MaxTime, MaxHooks, MaxSyncs, MaxWrites   \* bounds

ASSUME SyncAssumption ==
    /\ MRs \cup Pipelines \subseteq Nat
    /\ ParentOf \in [Pipelines -> MRs]
    /\ "opened" \in MRStatus /\ "absent" \notin MRStatus \cup PipelineStatus
    /\ {Second, Tolerance, MaxTime, MaxHooks, MaxSyncs, MaxWrites} \subseteq Nat /\ Second > 0

VARIABLES
    now,
    gitlab,       \* [kind, number] -> [status, changed], what GitLab has
    hooks,        \* the webhooks GitLab has sent
    artifacts,    \* per task: external_artifacts
    processed,    \* external_deliveries: the webhooks processed
    clock,        \* external_binding_clocks, per merge request
    sync,         \* per task: the synchronisation under way
    syncs, writes \* synchronisations begun, merge requests written

syncVars == <<now, gitlab, hooks, artifacts, processed, clock, sync, syncs, writes>>

MergeRequest(m) == <<"merge_request", m>>
Pipeline(p) == <<"pipeline", p>>
GitLabItems == {MergeRequest(m) : m \in MRs} \cup {Pipeline(p) : p \in Pipelines}
Absent == [status |-> "absent", changed |-> 0]

(* The moment in whole seconds, as webhook-timestamp gives it.              *)
Seconds(t) == (t \div Second) * Second

(* artifact_id: the identity is the kind, the project's number and the      *)
(* item's; an artifact the write gate recorded has another (by the path).   *)
Written(m) == <<"written", m>>

(* The ExternalArtifact of a merge request, of a pipeline.  `changed` is    *)
(* when GitLab changed the item, which the artifact does not say.           *)
MRArtifact(m, state, at) ==
    [id |-> MergeRequest(m), kind |-> "merge_request", mr |-> m, parent |-> NoOne,
     status |-> state.status, verified |-> state.status = "merged",
     synced |-> at, changed |-> state.changed]
PipelineArtifact(p, state, at) ==
    [id |-> Pipeline(p), kind |-> "pipeline", mr |-> ParentOf[p], parent |-> ParentOf[p],
     status |-> state.status, verified |-> state.status = "success",
     synced |-> at, changed |-> state.changed]

SameSnapshot(a, b) == a.id = b.id /\ a.status = b.status /\ a.verified = b.verified

-----------------------------------------------------------------------------
(* ExternalArtifactSynced: a pipeline takes the place of the others of its  *)
(* merge request.                                                          *)
Replaces(a, x) ==
    \/ x.id = a.id
    \/ /\ a.parent # NoOne /\ x.kind = a.kind
       /\ x.parent \in {NoOne, a.parent}

(* A merge request and its pipeline, which come together, replace neither   *)
(* each other nor anything in an order that matters.                        *)
ExternalArtifactsSynced(recorded, new) ==
    {x \in recorded : \A a \in new : ~Replaces(a, x)} \cup new

(* ExternalDeliveryProcessed                                                *)
DeliveryProcessed(h) ==
    /\ processed' = processed \cup {h}
    /\ clock' = [clock EXCEPT ![h.artifact.mr] = IF @ > h.at THEN @ ELSE h.at]

(* A commit of another process: the synchronisations by hand are overtaken. *)
Overtaken == [t \in Tasks |-> IF sync[t] = NoOne THEN NoOne
                              ELSE [sync[t] EXCEPT !.current = FALSE]]

-----------------------------------------------------------------------------
(* GitLab: an item appears or changes, and a webhook is sent for it.        *)
Changed(item, state) ==
    gitlab' = [gitlab EXCEPT ![item] = state]

Hook(item, state) ==
    IF item[1] = "merge_request" THEN MRArtifact(item[2], state, Seconds(now))
                                 ELSE PipelineArtifact(item[2], state, Seconds(now))

GitLabChanges(item, status) ==
    LET state == [status |-> status, changed |-> now]
    IN  /\ Cardinality(hooks) < MaxHooks
        /\ gitlab[item].status # status
        /\ gitlab[item].status # "merged"
        /\ item[1] = "pipeline" => gitlab[MergeRequest(ParentOf[item[2]])] # Absent
        /\ Changed(item, state)
        /\ hooks' = hooks \cup {[artifact |-> Hook(item, state), at |-> Seconds(now)]}
        /\ UNCHANGED <<now, artifacts, processed, clock, sync, syncs, writes>>

(* The write gate creates a merge request for a task (finish_gitlab_write): *)
(* the artifact it records is committed together with the result.           *)
WriteMergeRequest(t, m) ==
    LET state == [status |-> "opened", changed |-> now]
    IN  /\ writes < MaxWrites
        /\ Cardinality(hooks) < MaxHooks
        /\ gitlab[MergeRequest(m)] = Absent
        /\ Changed(MergeRequest(m), state)
        /\ hooks' = hooks \cup {[artifact |-> Hook(MergeRequest(m), state), at |-> Seconds(now)]}
        /\ artifacts' = [artifacts EXCEPT ![t] = ExternalArtifactsSynced(@,
                            {[MRArtifact(m, state, now) EXCEPT !.id = Written(m)]})]
        /\ sync' = Overtaken
        /\ writes' = writes + 1
        /\ UNCHANGED <<now, processed, clock, syncs>>

-----------------------------------------------------------------------------
(* GitLabWebhookAuth::verify: signed, and no older than the tolerance.      *)
Verified(h) == now - h.at <= Tolerance

(* gitlab_webhook: an unverified request and an event of another kind go no *)
(* further.                                                                *)
Accepted(h) == h \in hooks /\ Verified(h)

(* The first artifact of a task that stands for the merge request: in the   *)
(* order they were recorded, the one of the write gate before the others.   *)
Binding(t, m) ==
    LET bound == {a \in artifacts[t] : a.kind = "merge_request" /\ a.mr = m}
        written == {a \in bound : a.id = Written(m)}
    IN  IF written # {} THEN written ELSE bound

(* Neither the binding nor what is recorded under the same identity is newer. *)
Fresh(t, h) ==
    /\ \A b \in Binding(t, h.artifact.mr) : b.synced <= h.at
    /\ \A x \in artifacts[t] : x.id = h.artifact.id =>
          ~SameSnapshot(x, h.artifact) /\ x.synced <= h.artifact.synced

(* sync_bound_external_artifact                                             *)
Deliver(h) ==
    /\ Accepted(h)
    /\ h \notin processed
    /\ artifacts' = [t \in Tasks |->
          IF clock[h.artifact.mr] <= h.at /\ Binding(t, h.artifact.mr) # {} /\ Fresh(t, h)
          THEN ExternalArtifactsSynced(artifacts[t], {h.artifact})
          ELSE artifacts[t]]
    /\ DeliveryProcessed(h)
    /\ sync' = Overtaken
    /\ UNCHANGED <<now, gitlab, hooks, syncs, writes>>

-----------------------------------------------------------------------------
(* relay gitlab sync: authorize_task_actor, merge_request_snapshot and      *)
(* sync_external_artifacts, on the state the command opened.                *)

SyncStart(t, m) ==
    /\ syncs < MaxSyncs
    /\ sync[t] = NoOne
    /\ sync' = [sync EXCEPT ![t] = [step |-> "merge_request", mr |-> m, current |-> TRUE,
                                    found |-> {}]]
    /\ syncs' = syncs + 1
    /\ UNCHANGED <<now, gitlab, hooks, artifacts, processed, clock, writes>>

ReadMergeRequest(t) ==
    /\ sync[t] # NoOne
    /\ sync[t].step = "merge_request"
    /\ gitlab[MergeRequest(sync[t].mr)] # Absent
    /\ sync' = [sync EXCEPT ![t] = [sync[t] EXCEPT !.step = "pipelines",
           !.found = {MRArtifact(sync[t].mr, gitlab[MergeRequest(sync[t].mr)], 0)}]]
    /\ UNCHANGED <<now, gitlab, hooks, artifacts, processed, clock, syncs, writes>>

(* The newest pipeline by its number; everything found is stamped now.      *)
ReadPipelines(t) ==
    LET ran == {p \in Pipelines : ParentOf[p] = sync[t].mr /\ gitlab[Pipeline(p)] # Absent}
        newest == {p \in ran : \A q \in ran : q <= p}
    IN  /\ sync[t] # NoOne
        /\ sync[t].step = "pipelines"
        /\ sync' = [sync EXCEPT ![t] = [sync[t] EXCEPT !.step = "commit",
               !.found = {[a EXCEPT !.synced = now] : a \in sync[t].found}
                        \cup {PipelineArtifact(p, gitlab[Pipeline(p)], now) : p \in newest}]]
        /\ UNCHANGED <<now, gitlab, hooks, artifacts, processed, clock, syncs, writes>>

(* What is new to the task among the artifacts found.                       *)
News(t) == {a \in sync[t].found :
              ~\E x \in artifacts[t] : x.id = a.id /\ (SameSnapshot(x, a) \/ x.synced > a.synced)}

(* Mutant of Unmoved: the commit goes through on a head that has moved.     *)
UnmovedOrNot(t) == TRUE

(* The conditional append of the ledger.                                    *)
Unmoved(t) == sync[t].current

CommitSync(t) ==
    /\ sync[t] # NoOne
    /\ sync[t].step = "commit"
    /\ Unmoved(t)
    /\ artifacts' = [artifacts EXCEPT ![t] = ExternalArtifactsSynced(@, News(t))]
    /\ sync' = [(IF News(t) = {} THEN sync ELSE Overtaken) EXCEPT ![t] = NoOne]
    /\ UNCHANGED <<now, gitlab, hooks, processed, clock, syncs, writes>>

(* GitLab does not answer, or the commit finds another head.                *)
SyncFails(t) ==
    /\ sync[t] # NoOne
    /\ sync' = [sync EXCEPT ![t] = NoOne]
    /\ UNCHANGED <<now, gitlab, hooks, artifacts, processed, clock, syncs, writes>>

SyncTick ==
    /\ now < MaxTime
    /\ now' = now + 1
    /\ UNCHANGED <<gitlab, hooks, artifacts, processed, clock, sync, syncs, writes>>

-----------------------------------------------------------------------------
SyncInit ==
    /\ now = 0
    /\ gitlab = [i \in GitLabItems |-> Absent]
    /\ hooks = {} /\ processed = {}
    /\ artifacts = [t \in Tasks |-> {}]
    /\ clock = [m \in MRs |-> 0]
    /\ sync = [t \in Tasks |-> NoOne]
    /\ syncs = 0 /\ writes = 0

SyncNext ==
    \/ \E m \in MRs, s \in MRStatus : GitLabChanges(MergeRequest(m), s)
    \/ \E p \in Pipelines, s \in PipelineStatus : GitLabChanges(Pipeline(p), s)
    \/ \E t \in Tasks, m \in MRs : WriteMergeRequest(t, m) \/ SyncStart(t, m)
    \/ \E h \in hooks : Deliver(h)
    \/ \E t \in Tasks : ReadMergeRequest(t) \/ ReadPipelines(t) \/ CommitSync(t) \/ SyncFails(t)
    \/ SyncTick

-----------------------------------------------------------------------------
SyncSpec == SyncInit /\ [][SyncNext]_syncVars

(* What a task records of an item never goes back to what GitLab had left  *)
(* before, whatever the webhooks' order and the synchronisations between:   *)
(* only two changes within one second may be told in the wrong order.       *)
RecordNeverGoesBack ==
    [][\A t \in Tasks : \A a \in artifacts[t], b \in artifacts'[t] :
          a.id = b.id => Seconds(b.changed) >= Seconds(a.changed)]_syncVars

(* README.md: the task keeps only the newest pipeline of the merge request, *)
(* "so a new failure cannot be masked by an old success" (not counting what *)
(* happens within one second).                                             *)
NewFailureNotMasked ==
    [][\A t \in Tasks : \A a \in artifacts[t], b \in artifacts'[t] :
          (a.kind = "pipeline" /\ b.kind = "pipeline" /\ a.mr = b.mr
             /\ a.status = "failed" /\ b.status = "success"
             /\ Seconds(a.changed) # Seconds(b.changed)) => b.id[2] >= a.id[2]]_syncVars
=============================================================================
