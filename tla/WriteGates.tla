----------------------------- MODULE WriteGates -----------------------------
(***************************************************************************)
(* External side effects behind a human gate: GitLab writes and Office     *)
(* releases.  A task actor requests an item, the demand requester approves *)
(* or rejects it, a background dispatcher of some Tower replica claims it  *)
(* under a fresh dispatch_id, calls the provider without holding the app   *)
(* lock and records the outcome.  Dispatches that stay open for too long   *)
(* are recovered.  (application/app/gitlab_writes.rs and office.rs,        *)
(* core/state.rs, interfaces/server.rs, adapters/gitlab_write.rs and       *)
(* office.rs.)                                                             *)
(*                                                                         *)
(* The Office gate tries again by itself what is retry_safe; whether that  *)
(* is right depends on what each provider does with a repeated request,    *)
(* which is why the calls of the adapters are modelled one by one.  Each   *)
(* gate has dispatchers of its own, so a behaviour is about one gate.      *)
(*                                                                         *)
(* Steps that go through the ledger are atomic (see Ledger.tla); the call  *)
(* of the provider is not, and a dispatcher may be slower than any timeout. *)
(***************************************************************************)
EXTENDS Naturals, FiniteSets

CONSTANTS
    Items,          \* requests that may be made
    Orders,         \* what the items may ask for; payload stands for
                    \* payload_sha256 with the task and the requester
    Dispatchers,    \* the dispatcher loops of the Tower replicas
    StaleAfter,     \* five minutes, in ticks
    MaxApprovals,   \* bound: approvals and retries per item
    MaxDispatches   \* bound: dispatches per item

Payloads == {"A", "B"}

\* GitLabWritePayload.
GitLabOrders ==
    [provider : {"gitlab"},
     action   : {"create_issue", "comment_issue",
                 "create_merge_request", "comment_merge_request"},
     payload  : Payloads]

\* OfficeProvider and OfficeReleasePayload; only Google takes a file_id.
OfficeOrders ==
    [provider : {"microsoft", "google"}, action : {"send_email", "create_calendar_event"},
     payload  : Payloads]
      \cup [provider : {"microsoft"}, action : {"drive_upload"},
            fileId   : {FALSE}, payload : Payloads]
      \cup [provider : {"google"}, action : {"drive_upload"},
            fileId   : BOOLEAN, payload : Payloads]

ASSUME WriteGatesAssumption ==
    /\ IsFiniteSet(Items)
    /\ Orders \subseteq [Items -> GitLabOrders] \cup [Items -> OfficeOrders]
    /\ StaleAfter \in Nat \ {0}
    /\ MaxApprovals \in Nat /\ MaxDispatches \in Nat

VARIABLES
    order,          \* what each item asks for
    status,         \* GitLabWriteStatus / OfficeReleaseStatus
    dispatchId,     \* dispatch_id; 0 for None
    age,            \* ticks since dispatch_started_at, up to StaleAfter
    reviewed,       \* reviewed_at, as the rank of the last approval; 0 for None
    approvals,      \* history: human decisions to let the item through
    issued,         \* history: dispatch ids issued for the item
    artifact,       \* ExternalArtifactSynced recorded for the item
    loop,           \* what each dispatcher is doing
    inflight,       \* requests sent, with neither effect nor rejection yet
    applied         \* requests that took effect at the provider

vars == <<order, status, dispatchId, age, reviewed, approvals, issued, artifact,
          loop, inflight, applied>>
gate == <<status, dispatchId, age, reviewed, approvals, issued, artifact>>

Idle == [at |-> "idle"]
Outcome == {"ok", "failed", "indeterminate"}
Status == {"None", "Requested", "Approved", "Rejected",
           "Dispatching", "Done", "Failed", "Indeterminate"}

Init ==
    /\ order \in Orders
    /\ status = [i \in Items |-> "None"]
    /\ dispatchId = [i \in Items |-> 0]
    /\ age = [i \in Items |-> 0]
    /\ reviewed = [i \in Items |-> 0]
    /\ approvals = [i \in Items |-> 0]
    /\ issued = [i \in Items |-> 0]
    /\ artifact = [i \in Items |-> FALSE]
    /\ loop = [d \in Dispatchers |-> Idle]
    /\ inflight = {}
    /\ applied = {}

-----------------------------------------------------------------------------
(* Mutant of RetrySafe: an upload to a drive always is.                      *)
RetrySafeUploads(i) == order[i].action \in {"drive_upload", "create_calendar_event"}

(* OfficeReleasePayload::retry_safe; nothing of GitLab is.                   *)
RetrySafe(i) ==
    \/ order[i].action = "create_calendar_event"
    \/ /\ order[i].action = "drive_upload"
       /\ order[i].provider = "microsoft" \/ order[i].fileId

(* What the events of a GitLab write do to its status: from where, to where.   *)
(* An event that finds another status makes its commit fail.                *)
GitLabWriteEvents ==
    [Approved        |-> [from |-> {"Requested"}, to |-> "Approved"],
     Rejected        |-> [from |-> {"Requested"}, to |-> "Rejected"],
     DispatchClaimed |-> [from |-> {"Approved"}, to |-> "Dispatching"],
     Succeeded       |-> [from |-> {"Dispatching"}, to |-> "Done"],
     Failed          |-> [from |-> {"Dispatching"}, to |-> "Failed"],
     Indeterminate   |-> [from |-> {"Dispatching"}, to |-> "Indeterminate"],
     RetryApproved   |-> [from |-> {"Failed", "Indeterminate"}, to |-> "Approved"],
     DispatchExpired |-> [from |-> {"Dispatching"}, to |-> "Indeterminate"]]

(* An Office release is not tried again after an unknown outcome, and waits    *)
(* for another dispatch when a retry_safe one expires.                      *)
OfficeReleaseEvents(i) ==
    [GitLabWriteEvents EXCEPT
        !.RetryApproved.from = {"Failed"},
        !.DispatchExpired.to = IF RetrySafe(i) THEN "Approved" ELSE "Indeterminate"]

EventOf(i, name) ==
    IF order[i].provider = "gitlab" THEN GitLabWriteEvents[name]
                                    ELSE OfficeReleaseEvents(i)[name]

(* request_gitlab_write, request_office_release: an identical request that   *)
(* was not rejected is returned instead of a new one.                       *)
MayRequest(i) ==
    /\ status[i] = "None"
    /\ ~ \E j \in Items : /\ order[j].payload = order[i].payload
                          /\ status[j] \notin {"None", "Rejected"}

Request(i) ==
    /\ MayRequest(i)
    /\ status' = [status EXCEPT ![i] = "Requested"]
    /\ UNCHANGED <<dispatchId, age, reviewed, approvals, issued, artifact,
                   loop, inflight, applied>>

NextRank == 1 + Cardinality({p \in Items \X (1 .. MaxApprovals) : p[2] <= approvals[p[1]]})

(* A human lets the item through: approve or retry.                         *)
LetThrough(i, name) ==
    /\ approvals[i] < MaxApprovals
    /\ status[i] \in EventOf(i, name).from
    /\ status' = [status EXCEPT ![i] = EventOf(i, name).to]
    /\ reviewed' = [reviewed EXCEPT ![i] = NextRank]
    /\ approvals' = [approvals EXCEPT ![i] = @ + 1]
    /\ dispatchId' = [dispatchId EXCEPT ![i] = 0]
    /\ UNCHANGED <<age, issued, artifact, loop, inflight, applied>>

Approve(i) == LetThrough(i, "Approved")

Retry(i) == LetThrough(i, "RetryApproved")

Reject(i) ==
    /\ status[i] \in EventOf(i, "Rejected").from
    /\ status' = [status EXCEPT ![i] = EventOf(i, "Rejected").to]
    /\ UNCHANGED <<dispatchId, age, reviewed, approvals, issued, artifact,
                   loop, inflight, applied>>

-----------------------------------------------------------------------------
(* The calls of the adapters.  A request q is an item and a dispatch id; its  *)
(* effect is that very request when the provider cannot know a repetition,    *)
(* and the item when it can.                                                *)
Anew(q) == q
OncePerItem(q) == <<q[1], 0>>

(* PUT of the content at the approved parent and file name.                  *)
MicrosoftDrive(q) == OncePerItem(q)

MicrosoftMail(q) == Anew(q)

(* The release id is the transactionId of the event.                         *)
MicrosoftCalendar(q) == OncePerItem(q)

(* PATCH of a file that is given, else POST of a new one.                    *)
GoogleDrive(q) == IF order[q[1]].fileId THEN OncePerItem(q) ELSE Anew(q)

GoogleMail(q) == Anew(q)

(* The event id is made from the release id.                                 *)
GoogleCalendar(q) == OncePerItem(q)

(* Each of the four GitLab writes is a POST without an idempotency key.       *)
GitLabWrite(q) == Anew(q)

(* OfficeBridge::dispatch                                                    *)
Effect(q) ==
    LET o == order[q[1]] IN
    CASE o.provider = "gitlab" -> GitLabWrite(q)
      [] o.provider = "microsoft" /\ o.action = "drive_upload" -> MicrosoftDrive(q)
      [] o.provider = "microsoft" /\ o.action = "send_email" -> MicrosoftMail(q)
      [] o.provider = "microsoft" /\ o.action = "create_calendar_event" -> MicrosoftCalendar(q)
      [] o.provider = "google" /\ o.action = "drive_upload" -> GoogleDrive(q)
      [] o.provider = "google" /\ o.action = "send_email" -> GoogleMail(q)
      [] o.provider = "google" /\ o.action = "create_calendar_event" -> GoogleCalendar(q)

-----------------------------------------------------------------------------
(* Mutant of Stale: older than the limit, which the age never is.            *)
StaleBeyond(i) == status[i] = "Dispatching" /\ age[i] > StaleAfter

(* recover_stale_gitlab_writes, recover_stale_office_dispatches              *)
Stale(i) == status[i] = "Dispatching" /\ age[i] = StaleAfter

RecoveredStatus ==
    [i \in Items |-> IF Stale(i) THEN EventOf(i, "DispatchExpired").to ELSE status[i]]

RecoveredDispatchId ==
    [i \in Items |-> IF Stale(i) /\ RetrySafe(i) THEN 0 ELSE dispatchId[i]]

(* claim_gitlab_write, claim_office_release: recovery first, then the item    *)
(* approved longest ago.                                                    *)
Waiting == {i \in Items : RecoveredStatus[i] = "Approved" /\ issued[i] < MaxDispatches}

Claim(d, i) ==
    /\ loop[d] = Idle
    /\ i \in Waiting
    /\ \A j \in Waiting : reviewed[i] <= reviewed[j]
    /\ status' = [RecoveredStatus EXCEPT ![i] = EventOf(i, "DispatchClaimed").to]
    /\ dispatchId' = [RecoveredDispatchId EXCEPT ![i] = issued[i] + 1]
    /\ issued' = [issued EXCEPT ![i] = @ + 1]
    /\ age' = [age EXCEPT ![i] = 0]
    /\ loop' = [loop EXCEPT ![d] = [at |-> "claimed", item |-> i, id |-> issued[i] + 1]]
    /\ UNCHANGED <<reviewed, approvals, artifact, inflight, applied>>

(* The same call when nothing is approved, or when its second commit loses.  *)
Recover(d) ==
    /\ loop[d] = Idle
    /\ \E i \in Items : Stale(i)
    /\ status' = RecoveredStatus
    /\ dispatchId' = RecoveredDispatchId
    /\ UNCHANGED <<age, reviewed, approvals, issued, artifact, loop, inflight, applied>>

Call(d) == <<loop[d].item, loop[d].id>>

Learn(d, outcome) ==
    loop' = [loop EXCEPT ![d] = [at |-> "answered", item |-> loop[d].item,
                                 id |-> loop[d].id, outcome |-> outcome]]

(* The bridge is not configured, or the artifact cannot be read.            *)
NotSent(d) ==
    /\ loop[d].at = "claimed"
    /\ Learn(d, "failed")
    /\ UNCHANGED <<gate, inflight, applied>>

Send(d) ==
    /\ loop[d].at = "claimed"
    /\ loop' = [loop EXCEPT ![d].at = "sent"]
    /\ inflight' = inflight \cup {Call(d)}
    /\ UNCHANGED <<gate, applied>>

(* The provider executes a request, possibly long after the caller gave up.  *)
Execute(q) ==
    /\ q \in inflight
    /\ inflight' = inflight \ {q}
    /\ applied' = applied \cup {q}
    /\ UNCHANGED <<gate, loop>>

(* A success response that can be read.                                     *)
AnswerOk(d) ==
    /\ loop[d].at = "sent"
    /\ Call(d) \in applied
    /\ Learn(d, "ok")
    /\ UNCHANGED <<gate, inflight, applied>>

(* Google Calendar answers 409 to an event id it already has: also a success.  *)
AnswerConflict(d) ==
    /\ loop[d].at = "sent"
    /\ order[loop[d].item].provider = "google"
    /\ order[loop[d].item].action = "create_calendar_event"
    /\ Call(d) \in inflight
    /\ \E q \in applied : Effect(q) = Effect(Call(d))
    /\ inflight' = inflight \ {Call(d)}
    /\ Learn(d, "ok")
    /\ UNCHANGED <<gate, applied>>

(* A 4xx response other than a timeout: the request was refused.            *)
AnswerRefused(d) ==
    /\ loop[d].at = "sent"
    /\ Call(d) \in inflight
    /\ inflight' = inflight \ {Call(d)}
    /\ Learn(d, "failed")
    /\ UNCHANGED <<gate, applied>>

(* Mutant of Unclear: no answer counts as a failure.                         *)
UnclearAsFailed(i) == "failed"

(* No response, a 5xx, 408, 425 or 429, for GitLab also a redirection or an   *)
(* unreadable success: classified by whether the item is retry_safe.        *)
Unclear(i) == IF RetrySafe(i) THEN "failed" ELSE "indeterminate"

AnswerUnclear(d) ==
    /\ loop[d].at = "sent"
    /\ Learn(d, Unclear(loop[d].item))
    /\ UNCHANGED <<gate, inflight, applied>>

(* ensure_gitlab_dispatch, ensure_office_dispatch                            *)
OwnsDispatch(d) ==
    /\ status[loop[d].item] = "Dispatching"
    /\ dispatchId[loop[d].item] = loop[d].id

FinishedBy(outcome) ==
    CASE outcome = "ok" -> "Succeeded"
      [] outcome = "failed" -> "Failed"
      [] outcome = "indeterminate" -> "Indeterminate"

(* finish_gitlab_write, finish_office_release                                *)
Finish(d) ==
    /\ loop[d].at = "answered"
    /\ OwnsDispatch(d)
    /\ status' = [status EXCEPT ![loop[d].item] = EventOf(loop[d].item, FinishedBy(loop[d].outcome)).to]
    /\ artifact' = [artifact EXCEPT ![loop[d].item] =
                       @ \/ (order[loop[d].item].provider = "gitlab" /\ loop[d].outcome = "ok")]
    /\ loop' = [loop EXCEPT ![d] = Idle]
    /\ UNCHANGED <<dispatchId, age, reviewed, approvals, issued, inflight, applied>>

(* The outcome is not recorded: the dispatch is no longer owned, the commit  *)
(* conflicted twice, the result was invalid, or the replica restarted.      *)
Forget(d) ==
    /\ loop[d] # Idle
    /\ loop' = [loop EXCEPT ![d] = Idle]
    /\ UNCHANGED <<gate, inflight, applied>>

Tick ==
    /\ \E i \in Items : status[i] = "Dispatching" /\ age[i] < StaleAfter
    /\ age' = [i \in Items |-> IF status[i] = "Dispatching" /\ age[i] < StaleAfter
                               THEN age[i] + 1 ELSE age[i]]
    /\ UNCHANGED <<status, dispatchId, reviewed, approvals, issued, artifact,
                   loop, inflight, applied>>

DispatchStep(d) ==
    \/ NotSent(d) \/ Send(d) \/ Finish(d)
    \/ AnswerOk(d) \/ AnswerConflict(d) \/ AnswerRefused(d) \/ AnswerUnclear(d)
    \/ loop[d].at = "answered" /\ Forget(d)

Step ==
    \/ \E i \in Items : Request(i) \/ Approve(i) \/ Reject(i) \/ Retry(i)
    \/ \E d \in Dispatchers :
          \/ \E i \in Items : Claim(d, i)
          \/ Recover(d) \/ DispatchStep(d) \/ Forget(d)
    \/ \E q \in inflight : Execute(q)
    \/ Tick

Next == Step /\ UNCHANGED order

Spec == Init /\ [][Next]_vars

(* The dispatcher loops run on an interval timer, their HTTP client has a     *)
(* timeout, and time passes.  Humans and providers owe nothing.             *)
FairSpec ==
    /\ Spec
    /\ WF_vars(Tick /\ UNCHANGED order)
    /\ \A d \in Dispatchers :
          /\ WF_vars(DispatchStep(d) /\ UNCHANGED order)
          /\ WF_vars(Recover(d) /\ UNCHANGED order)
          /\ \A i \in Items : WF_vars(Claim(d, i) /\ UNCHANGED order)

-----------------------------------------------------------------------------
Applied(i) == {q \in applied : q[1] = i}

(* The type of every variable.                                              *)
TypeOK ==
    /\ order \in Orders
    /\ status \in [Items -> Status]
    /\ dispatchId \in [Items -> 0 .. MaxDispatches]
    /\ age \in [Items -> 0 .. StaleAfter]
    /\ reviewed \in [Items -> Nat]
    /\ approvals \in [Items -> 0 .. MaxApprovals]
    /\ issued \in [Items -> 0 .. MaxDispatches]
    /\ artifact \in [Items -> BOOLEAN]
    /\ loop \in [Dispatchers -> {Idle}
           \cup [at : {"claimed", "sent"}, item : Items, id : 1 .. MaxDispatches]
           \cup [at : {"answered"}, item : Items, id : 1 .. MaxDispatches,
                 outcome : Outcome]]
    /\ inflight \subseteq Items \X (1 .. MaxDispatches)
    /\ applied \subseteq Items \X (1 .. MaxDispatches)

(* Nothing happens twice that was approved once: the provider shows at most   *)
(* one effect of an item per human decision, whatever crashes, slow           *)
(* dispatchers and automatic recoveries there are.  For what retry_safe names *)
(* this rests on the provider knowing a repeated request (docs/OFFICE.md,     *)
(* docs/GITLAB_WRITES.md "no automatic retry").                             *)
EffectsWithinApprovals ==
    \A i \in Items : Cardinality({Effect(q) : q \in Applied(i)}) <= approvals[i]

(* What is recorded as done was done, and if it cannot be repeated then by    *)
(* the very dispatch it is recorded under; a GitLab write is recorded together *)
(* with its artifact; what is recorded as failed without being retry_safe was  *)
(* not done by that dispatch and never will be.                             *)
RecordMatchesProvider ==
    \A i \in Items :
        /\ status[i] = "Done" =>
               \E q \in Applied(i) : Effect(q) = Effect(<<i, dispatchId[i]>>)
        /\ (status[i] = "Done" /\ order[i].provider = "gitlab") <=> artifact[i]
        /\ (status[i] = "Failed" /\ ~ RetrySafe(i)) =>
               <<i, dispatchId[i]>> \notin inflight \cup applied

(* A dispatch does not stay open for ever, and no approved item waits for     *)
(* ever behind others.                                                      *)
DispatchesSettle ==
    \A i \in Items :
        /\ status[i] = "Dispatching" ~> status[i] # "Dispatching"
        /\ (status[i] = "Approved" /\ issued[i] < MaxDispatches) ~> status[i] # "Approved"
=============================================================================
