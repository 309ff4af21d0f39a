------------------------------- MODULE Ledger -------------------------------
(***************************************************************************)
(* The Flow Ledger: an append-only event log in SQLite or PostgreSQL and   *)
(* the RelayApp instances over it, each caching the projection of the part *)
(* of the log it has read.  An instance decides every operation on its     *)
(* cache and appends the resulting events under optimistic concurrency     *)
(* control (application/app/commit.rs, adapters/store.rs,                  *)
(* adapters/postgres_store.rs, core/state.rs).                             *)
(*                                                                         *)
(* An instance is a server process, a CLI or TUI process, or the private   *)
(* instance the server opens for a planning call.  `&mut self' serialises  *)
(* the operations of one instance; the operations of two instances         *)
(* interleave between the decision and the store transaction.              *)
(***************************************************************************)
EXTENDS Projection

CONSTANTS
    Replicas,       \* RelayApp instances
    Keys,           \* what events are about
    Org, Tenant,    \* OrganizationInitialized and TenantInitialized
    Shared,         \* TRUE for PostgreSQL (FlowStore::is_shared)
    MaxBatch,       \* bound: events per operation
    MaxLog,         \* bound: no operation starts when the log is this long
    MaxOps          \* bound: operations started

ASSUME LedgerAssumption ==
    /\ Unique \subseteq Keys
    /\ Org \in Unique /\ Tenant \in Unique /\ Org # Tenant
    /\ Shared \in BOOLEAN
    /\ MaxBatch \in Nat \ {0} /\ MaxLog \in Nat /\ MaxOps \in Nat

VARIABLES
    log,        \* events / relay_events, in sequence order
    pc,         \* what each instance is doing
    view,       \* RelayApp.state: the cached projection
    pending,    \* the operation between its decision and its transaction
    nextOp,     \* names the next operation
    acked,      \* history: operations answered Ok
    refused     \* history: operations answered with a conflict or invalid

vars == <<log, pc, view, pending, nextOp, acked, refused>>

Ops == 0 .. MaxOps
Batches == UNION {[1 .. n -> Keys] : n \in 1 .. MaxBatch}
NoOp == [op |-> 0, keys |-> <<>>]

(* The ledger seen from its callers: the stored log and the answers given.    *)
Atomic == INSTANCE AtomicLedger WITH
              Unique <- Unique, Batches <- Batches, Ops <- Ops,
              log <- log, acked <- acked, refused <- refused

-----------------------------------------------------------------------------
(* migrate_legacy_authority has something to commit.                        *)
NeedsMigration(v) == Org \in v.known /\ Tenant \notin v.known

LegacyLog == Envelopes(0, <<Org>>, 0)

Init ==
    /\ log \in {<<>>, LegacyLog}
    /\ pc = [r \in Replicas |-> "down"]
    /\ view = [r \in Replicas |-> DefaultState]
    /\ pending = [r \in Replicas |-> NoOp]
    /\ nextOp = 1
    /\ acked = {}
    /\ refused = {}

CanStartOp == nextOp <= MaxOps /\ Len(log) < MaxLog

-----------------------------------------------------------------------------
(* open_with_store, up to the migration's append: replay everything, then   *)
(* decide whether the legacy authority needs migrating.  At the bounds the  *)
(* migration's append fails: ignored the first time, fatal the second.      *)
StartMigration(r, v, stage) ==
    IF NeedsMigration(v) /\ CanStartOp
    THEN /\ pc' = [pc EXCEPT ![r] = stage]
         /\ pending' = [pending EXCEPT ![r] = [op |-> nextOp, keys |-> <<Tenant>>]]
         /\ nextOp' = nextOp + 1
    ELSE /\ pc' = [pc EXCEPT ![r] = IF NeedsMigration(v) /\ stage = "migrateAgain"
                                   THEN "down" ELSE "ready"]
         /\ pending' = [pending EXCEPT ![r] = NoOp]
         /\ UNCHANGED nextOp

Open(r) ==
    /\ pc[r] = "down"
    /\ Replayable(log)
    /\ view' = [view EXCEPT ![r] = Projection(log)]
    /\ StartMigration(r, Projection(log), "migrate")
    /\ UNCHANGED <<log, acked, refused>>

(* Mutant of Refresh: one event behind counts as current.                    *)
RefreshWhenFarBehind(r) ==
    /\ Shared
    /\ pc[r] = "ready"
    /\ view[r].lastSequence + 1 < Len(log)
    /\ Replayable(log)
    /\ view' = [view EXCEPT ![r] = Projection(log)]
    /\ UNCHANGED <<log, pc, pending, nextOp, acked, refused>>

(* refresh_shared_state: apply what the shared log has beyond the cache.    *)
Refresh(r) ==
    /\ Shared
    /\ pc[r] = "ready"
    /\ view[r].lastSequence < Len(log)
    /\ Replayable(log)
    /\ view' = [view EXCEPT ![r] = Projection(log)]
    /\ UNCHANGED <<log, pc, pending, nextOp, acked, refused>>

(* commit_as, first half: number the batch from the cached last_sequence    *)
(* and project it on a clone of the cache.                                  *)
Decide(r, keys) ==
    /\ pc[r] = "ready"
    /\ CanStartOp
    /\ Acceptable(view[r].known, keys)
    /\ pc' = [pc EXCEPT ![r] = "commit"]
    /\ pending' = [pending EXCEPT ![r] = [op |-> nextOp, keys |-> keys]]
    /\ nextOp' = nextOp + 1
    /\ UNCHANGED <<log, view, acked, refused>>

(* commit_as: the projection fails, the error is returned before the store  *)
(* is touched.                                                              *)
Invalid(r, keys) ==
    /\ pc[r] = "ready"
    /\ CanStartOp
    /\ ~ Acceptable(view[r].known, keys)
    /\ refused' = refused \cup {nextOp}
    /\ nextOp' = nextOp + 1
    /\ UNCHANGED <<log, pc, view, pending, acked>>

Committing(r) == pc[r] \in {"commit", "migrate", "migrateAgain"}

(* Mutant of HeadUnmoved: no optimistic concurrency control.                 *)
HeadNotChecked(r) == TRUE

(* append_prepared's test inside the store transaction.                     *)
HeadUnmoved(r) == Len(log) = view[r].lastSequence

(* append_prepared: insert the prepared envelopes and commit.               *)
Store(r) == log' = log \o Envelopes(pending[r].op, pending[r].keys,
                                          view[r].lastSequence)

AppendOk(r) ==
    /\ Committing(r)
    /\ HeadUnmoved(r)
    /\ Store(r)
    /\ view' = [view EXCEPT ![r] = Projected(view[r], pending[r].keys)]
    /\ pc' = [pc EXCEPT ![r] = "ready"]
    /\ acked' = acked \cup {pending[r].op}
    /\ pending' = [pending EXCEPT ![r] = NoOp]
    /\ UNCHANGED <<nextOp, refused>>

(* append_prepared returns ConcurrentModification; commit_as reloads.  For   *)
(* the migration, open_with_store tries once more and then gives up.        *)
AppendConflict(r) ==
    /\ Committing(r)
    /\ ~ HeadUnmoved(r)
    /\ Replayable(log)
    /\ refused' = refused \cup {pending[r].op}
    /\ view' = [view EXCEPT ![r] = Projection(log)]
    /\ IF pc[r] = "migrate"
       THEN StartMigration(r, Projection(log), "migrateAgain")
       ELSE /\ pc' = [pc EXCEPT ![r] = IF pc[r] = "commit" THEN "ready" ELSE "down"]
            /\ pending' = [pending EXCEPT ![r] = NoOp]
            /\ UNCHANGED nextOp
    /\ UNCHANGED <<log, acked>>

(* Mutant of AfterStoreError: the projected clone becomes the cache before    *)
(* the store has answered.                                                  *)
AfterStoreErrorCacheAdvanced(r) ==
    /\ pc' = [pc EXCEPT ![r] = IF pc[r] = "migrateAgain" THEN "down" ELSE "ready"]
    /\ view' = [view EXCEPT ![r] = Projected(view[r], pending[r].keys)]
    /\ pending' = [pending EXCEPT ![r] = NoOp]
    /\ UNCHANGED <<nextOp, acked, refused>>

(* The error path that is not a conflict.  An ordinary operation reports it; *)
(* open_with_store ignores it on the first migration and fails on the second. *)
AfterStoreError(r) ==
    /\ pc' = [pc EXCEPT ![r] = IF pc[r] = "migrateAgain" THEN "down" ELSE "ready"]
    /\ pending' = [pending EXCEPT ![r] = NoOp]
    /\ UNCHANGED <<view, nextOp, acked, refused>>

(* The store fails before its transaction commits.                          *)
StoreFails(r) ==
    /\ Committing(r)
    /\ AfterStoreError(r)
    /\ UNCHANGED log

(* Mutant of OutcomeLost: a broken COMMIT is reported as a conflict.         *)
OutcomeLostAsConflict(r) ==
    /\ Committing(r)
    /\ HeadUnmoved(r)
    /\ Store(r)
    /\ pc' = [pc EXCEPT ![r] = IF pc[r] = "migrateAgain" THEN "down" ELSE "ready"]
    /\ pending' = [pending EXCEPT ![r] = NoOp]
    /\ refused' = refused \cup {pending[r].op}
    /\ UNCHANGED <<view, nextOp, acked>>

(* The transaction commits but its outcome is lost: PostgreSQL's connection *)
(* breaks on COMMIT.  The instance keeps its old cache.                     *)
OutcomeLost(r) ==
    /\ Committing(r)
    /\ HeadUnmoved(r)
    /\ Store(r)
    /\ AfterStoreError(r)

Crash(r) ==
    /\ pc[r] # "down"
    /\ pc' = [pc EXCEPT ![r] = "down"]
    /\ view' = [view EXCEPT ![r] = DefaultState]
    /\ pending' = [pending EXCEPT ![r] = NoOp]
    /\ UNCHANGED <<log, nextOp, acked, refused>>

Next == \E r \in Replicas :
            \/ Open(r) \/ Refresh(r) \/ Crash(r)
            \/ \E keys \in Batches : Decide(r, keys) \/ Invalid(r, keys)
            \/ AppendOk(r) \/ AppendConflict(r) \/ StoreFails(r) \/ OutcomeLost(r)

Spec == Init /\ [][Next]_vars

(* Store calls return, a process is restarted, and the server refreshes the *)
(* shared ledger before every API request and whenever one of its dispatcher *)
(* loops looks for work.                                                    *)
Fairness == \A r \in Replicas :
                /\ WF_vars(Open(r))
                /\ WF_vars(Refresh(r))
                /\ WF_vars(AppendOk(r) \/ AppendConflict(r) \/ StoreFails(r))

FairSpec == Spec /\ Fairness

-----------------------------------------------------------------------------
Envelope == [sequence : Nat, key : Keys, op : Ops, basis : Nat]

(* The type of every variable.                                              *)
TypeOK ==
    /\ log \in Seq(Envelope)
    /\ pc \in [Replicas -> {"down", "ready", "commit", "migrate", "migrateAgain"}]
    /\ view \in [Replicas -> [known : SUBSET Keys, lastSequence : Nat]]
    /\ pending \in [Replicas -> [op : Ops, keys : Seq(Keys)]]
    /\ nextOp \in 1 .. MaxOps + 1
    /\ acked \in SUBSET Ops
    /\ refused \in SUBSET Ops

(* No interleaving of instances, conflicts, lost outcomes and crashes ever  *)
(* leaves a log that OrganizationState::replay rejects: every instance can   *)
(* always be opened again (commit.rs, "invalid_projection_never_reaches_    *)
(* the_event_store").                                                       *)
ReplayNeverFails == Replayable(log)

(* The cache of a live instance is exactly the replay of a prefix of the     *)
(* stored log, whatever errors its commits met.                             *)
CacheIsReplayOfPrefix ==
    \A r \in Replicas :
        pc[r] # "down" =>
            /\ view[r].lastSequence <= Len(log)
            /\ view[r] = Projection(SubSeq(log, 1, view[r].lastSequence))

(* Serialisability: the events of an operation are stored contiguously and   *)
(* directly after the very log prefix the operation was decided on (commit.rs, *)
(* "stale_application_instance_cannot_skip_concurrent_events").             *)
DecidedOnWhatItExtends ==
    \A i \in 1 .. Len(log) :
        LET b == log[i].basis
        IN  /\ b < i
            /\ \A j \in b + 1 .. i : log[j].op = log[i].op /\ log[j].basis = b
            /\ \A j \in 1 .. b : log[j].op # log[i].op

(* Answers tell the truth for ever: Ok means stored, a conflict or validation *)
(* error means not stored, so the caller may safely decide again.           *)
AnswersAreTrue ==
    /\ acked \subseteq OpsIn(log)
    /\ refused \cap OpsIn(log) = {}

(* Every step is a step of the atomic ledger or invisible to it.            *)
ImplementsAtomicLedger == Atomic!ASpec

(* In a shared deployment an instance that stays up learns of every stored   *)
(* event.                                                                   *)
EveryInstanceCatchesUp ==
    \A r \in Replicas : \A n \in 1 .. MaxLog :
        (pc[r] # "down" /\ Len(log) >= n)
            ~> (pc[r] = "down" \/ view[r].lastSequence >= n)
=============================================================================
