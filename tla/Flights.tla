------------------------------ MODULE Flights -------------------------------
(***************************************************************************)
(* Remote flights: a human clears one of their agents to work on a task    *)
(* (a flight lease, with exclusive or shared resource leases), the agent   *)
(* claims the lease, flies, and reports that it landed or crashed; unused  *)
(* clearances are revoked or expire; a crashed flight may be recovered by  *)
(* a child flight.  Composed with the task lifecycle of Tasks.tla.         *)
(* (application/app/mod.rs, application/app/flights.rs, core/state.rs.)    *)
(*                                                                         *)
(* Each operation is one step (see Ledger.tla).  Requests that are refused, *)
(* and a repeated identical report, change nothing and are not steps.      *)
(* Retry, SwitchExecutor and ReduceScope differ in data only: "Retry".     *)
(* Ground and HumanHandoff only record a decision: "Ground".               *)
(***************************************************************************)
EXTENDS Tasks, Integers

CONSTANTS
    Resources,      \* kind and key of a resource claim; a task stands for
                    \* the workspace of that name
    Drafts,         \* FlightManifestDraft: claims, perhaps none, duration in
                    \* seconds, 0 for none, and maxAttempts
    Second,         \* ticks of the clock in a second
    TTLs,           \* ttl_seconds a clearance may be given
    AllowedActions, \* RecoveryPolicy.allowed_actions
    MaxLeases,      \* bound: flight leases ever issued
    MaxClock        \* bound: the clock stops here

LeaseIds == 1 .. MaxLeases

\* Resource claims by resource: TRUE for exclusive.
Claims == UNION {[S -> BOOLEAN] : S \in SUBSET Resources}

ASSUME FlightsAssumption ==
    /\ MaxLeases \in Nat /\ MaxClock \in Nat
    /\ Second \in Nat \ {0} /\ TTLs \subseteq Nat \ {0}
    /\ AllowedActions \subseteq {"Retry", "Fork", "Ground"}
    /\ TaskIds \subseteq Resources
    /\ Drafts \subseteq [claims : Claims, duration : Nat, maxAttempts : Nat]
    /\ LeaseIds \subseteq Proofs       \* the report of a flight is evidence

VARIABLES
    now,            \* Utc::now() of the tower
    leases,         \* flight_leases, by number in order of issue
    held,           \* resource_leases in status Active
    decisions       \* flight_recoveries: parent and child, 0 for no child

flightVars == <<now, leases, held, decisions>>
vars == <<taskVars, flightVars>>

Issued(l) == leases[l].status # "None"
Terminal == {"Landed", "Crashed", "Revoked", "Expired"}

NoLease == [status |-> "None"]

(* Duration::seconds *)
Ticks(seconds) == seconds * Second

(* Mutant of Open: forgets the flights that were claimed.                    *)
OpenUnclaimed(l) == leases[l].status = "Authorized" /\ leases[l].expires > now

(* FlightLease::is_claimable_at, and "open" as authorize_remote_flight and   *)
(* reassign_task mean it.                                                   *)
Claimable(l) == leases[l].status = "Authorized" /\ leases[l].expires > now

Open(l) == leases[l].status = "Active" \/ Claimable(l)

(* Mutant of Due: expires the claimed flights instead of the unclaimed.      *)
DueInTheAir(l) == leases[l].status = "Active" /\ leases[l].expires <= now

(* expire_remote_flights_at *)
Due(l) == leases[l].status = "Authorized" /\ leases[l].expires <= now

Reaped == [l \in LeaseIds |-> IF Due(l) THEN [leases[l] EXCEPT !.status = "Expired"]
                                       ELSE leases[l]]

HeldAfterReaping == {h \in held : ~ Due(h.flight)}

(* Mutant of Available: an exclusive claim fits beside shared ones.          *)
AvailableUnlessHeldExclusively(claims) ==
    \A r \in DOMAIN claims, h \in HeldAfterReaping :
        ~ (h.expires > now /\ h.resource = r /\ h.exclusive)

(* ensure_resource_claims_available over ResourceLease::conflicts_with       *)
Available(claims) ==
    \A r \in DOMAIN claims, h \in HeldAfterReaping :
        ~ (h.expires > now /\ h.resource = r /\ (h.exclusive \/ claims[r]))

(* resource_acquisition_events: valid until the latest takeoff plus fuel.    *)
Acquired(l, lease) ==
    {[flight |-> l, resource |-> r, exclusive |-> lease.claims[r],
      expires |-> lease.expires + Ticks(lease.duration)] : r \in DOMAIN lease.claims}

(* resource_release_events *)
HeldWithout(l) == {h \in held : h.flight # l}

NextLease(l) == ~ Issued(l) /\ \A k \in 1 .. l - 1 : Issued(k)

Until(ttl) == now + Ticks(ttl)

WithinClock(ttl) == Until(ttl) <= MaxClock   \* bound

Init ==
    /\ TaskInit
    /\ now = 0
    /\ leases = [l \in LeaseIds |-> NoLease]
    /\ held = {}
    /\ decisions = {}

-----------------------------------------------------------------------------
Airworthy(t) == status[t] \in {"Accepted", "InProgress", "Blocked"}

(* RemoteFlightAuthorized and the ResourceLeaseAcquired of its manifest, after *)
(* expire_remote_flights, which every issuing handler calls first.          *)
Issue(l, lease) ==
    /\ NextLease(l)
    /\ Available(lease.claims)
    /\ leases' = [Reaped EXCEPT ![l] = lease]
    /\ held' = HeldAfterReaping \cup Acquired(l, lease)

(* build_flight_manifest: without claims of its own a flight claims the       *)
(* workspace of its task, without a budget it may fly for its whole ttl.    *)
Manifest(t, ttl, d) ==
    [d EXCEPT !.claims = IF DOMAIN @ = {} THEN [r \in {t} |-> TRUE] ELSE @,
              !.duration = IF @ = 0 THEN ttl ELSE @]

(* validate_fuel, validate_resources and the range of the recovery policy    *)
ValidManifest(m, ttl) == m.duration \in 1 .. ttl /\ m.maxAttempts \in 1 .. 10

(* authorize_remote_flight_with_manifest *)
Authorize(l, t, human, worker, ttl, d) ==
  LET m == Manifest(t, ttl, d) IN
    /\ Airworthy(t)
    /\ DependenciesComplete(t)
    /\ IsActor(human, assigned[t])
    /\ OwnerOf[worker] = human
    /\ IsActor(worker, assigned[t])
    /\ ~ \E k \in LeaseIds : Issued(k) /\ leases[k].task = t
                                /\ leases[k].worker = worker /\ Open(k)
    /\ ValidManifest(m, ttl)
    /\ WithinClock(ttl)
    /\ Issue(l, [status |-> "Authorized", task |-> t, worker |-> worker,
                 by |-> human, expires |-> Until(ttl), claimed |-> 0,
                 claims |-> m.claims, duration |-> m.duration,
                 maxAttempts |-> m.maxAttempts, flown |-> <<>>,
                 parent |-> 0, root |-> l, attempt |-> 1])
    /\ UNCHANGED <<taskVars, now, decisions>>

(* claim_remote_flight: TaskStarted unless in progress, RemoteFlightClaimed. *)
Claim(l) ==
    /\ Issued(l)
    /\ Claimable(l)
    /\ LET t == leases[l].task
       IN  /\ Airworthy(t)
           /\ DependenciesComplete(t)
           /\ IsActor(leases[l].worker, assigned[t])
           /\ status' = [status EXCEPT ![t] = "InProgress"]
    /\ leases' = [leases EXCEPT ![l].status = "Active", ![l].claimed = now]
    /\ UNCHANGED <<flow, assigned, evidence, p80, proposals, now, held, decisions>>

(* RemoteFlightReport: the result, when the work began and ended, the seconds  *)
(* declared for it, and whether the output keeps to its contract.  The work was done     *)
(* after the claim and before the report, on clocks that agree.             *)
Reports(l) ==
    {[landed |-> ok, from |-> p[1], to |-> p[2], declared |-> n, output |-> o] :
        ok \in BOOLEAN, p \in {w \in (leases[l].claimed .. now) \X (0 .. now) : w[1] <= w[2]},
        n \in {0, 1}, o \in {"kept", "broken"}}

(* Mutant of FuelExhausted: what the worker declares is believed.             *)
FuelExhaustedAsDeclared(l, r) == r.declared > leases[l].duration

(* num_seconds: whole seconds, what is left over is dropped.                 *)
Measured(r) == (r.to - r.from) \div Second

(* fuel_exhaustions *)
FuelExhausted(l, r) ==
    r.declared > leases[l].duration \/ Measured(r) > leases[l].duration

(* output_contract_violations *)
ContractViolated(r) == r.output = "broken"

EffectiveLanded(l, r) == r.landed /\ ~ FuelExhausted(l, r) /\ ~ ContractViolated(r)

(* finish_remote_flight; nothing tells the times of a crashed flight apart.   *)
Finish(l, r) ==
    /\ leases[l].status = "Active"
    /\ held' = HeldWithout(l)
    /\ LET t == leases[l].task
       IN  /\ evidence' = [evidence EXCEPT ![t] = @ \cup {l}]
           /\ IF EffectiveLanded(l, r)
              THEN /\ leases' = [leases EXCEPT ![l].status = "Landed",
                                               ![l].flown = <<r.from, r.to>>]
                   /\ UNCHANGED status
              ELSE /\ leases' = [leases EXCEPT ![l].status = "Crashed"]
                   /\ status' = [status EXCEPT ![t] = "Blocked"]
    /\ UNCHANGED <<flow, assigned, p80, proposals, now, decisions>>

(* revoke_remote_flight *)
Revoke(l) ==
    /\ leases[l].status = "Authorized"
    /\ leases' = [leases EXCEPT ![l].status = "Revoked"]
    /\ held' = HeldWithout(l)
    /\ UNCHANGED <<taskVars, now, decisions>>

(* expire_remote_flights, run by the background reaper and by handlers whose *)
(* own operation is then refused.                                           *)
Reap ==
    /\ \E l \in LeaseIds : Due(l)
    /\ leases' = Reaped
    /\ held' = HeldAfterReaping
    /\ UNCHANGED <<taskVars, now, decisions>>

(* Mutant of Attempts: nobody counts.                                        *)
AttemptsUnlimited(p) == TRUE

Attempts(p) == p.attempt < p.maxAttempts

(* recover_remote_flight, the actions that create a child flight.           *)
Recover(l, parent, action, human, ttl) ==
    LET p == Reaped[parent]
    IN  /\ action \in AllowedActions \cap {"Retry", "Fork"}
        /\ Issued(parent)
        /\ human \in {p.by, Requester}
        /\ IF action = "Fork" THEN p.status \in Terminal ELSE p.status = "Crashed"
        /\ Attempts(p)
        /\ p.duration <= ttl
        /\ WithinClock(ttl)
        /\ Issue(l, [p EXCEPT !.status = "Authorized", !.by = human,
                              !.expires = Until(ttl), !.claimed = 0,
                              !.flown = <<>>, !.parent = parent, !.attempt = @ + 1])
        /\ decisions' = decisions \cup {[parent |-> parent, child |-> l]}
        /\ UNCHANGED <<taskVars, now>>

(* recover_remote_flight with Ground or HumanHandoff.                       *)
Ground(parent) ==
    /\ "Ground" \in AllowedActions
    /\ leases[parent].status = "Crashed"
    /\ decisions' = decisions \cup {[parent |-> parent, child |-> 0]}
    /\ leases' = Reaped
    /\ held' = HeldAfterReaping
    /\ UNCHANGED <<taskVars, now>>

Tick == /\ now < MaxClock
        /\ now' = now + 1
        /\ UNCHANGED <<taskVars, leases, held, decisions>>

(* reassign_task with its test for open flights.                            *)
Reassign(t, a) ==
    /\ ~ \E l \in LeaseIds : Issued(l) /\ leases[l].task = t /\ Open(l)
    /\ ReassignTask(t, a)
    /\ UNCHANGED flightVars

Next ==
    \/ FlowStep /\ UNCHANGED flightVars
    \/ \E t \in TaskIds, a \in Assignments : Reassign(t, a)
    \/ \E l \in LeaseIds :
          \/ \E t \in TaskIds, human \in Humans, worker \in Agents,
                ttl \in TTLs, d \in Drafts : Authorize(l, t, human, worker, ttl, d)
          \/ Claim(l) \/ Revoke(l) \/ Ground(l)
          \/ leases[l].status = "Active" /\ \E r \in Reports(l) : Finish(l, r)
          \/ \E parent \in LeaseIds, action \in AllowedActions, human \in Humans,
                ttl \in TTLs : Recover(l, parent, action, human, ttl)
    \/ Reap
    \/ Tick

Spec == Init /\ [][Next]_vars

-----------------------------------------------------------------------------
LeaseRecord ==
    [status : {"Authorized", "Active"} \cup Terminal,
     task : TaskIds, worker : Agents, by : Humans,
     expires : Nat, claimed : Nat,
     claims : Claims, duration : Nat \ {0},
     maxAttempts : 1 .. 10, flown : {<<>>} \cup (Nat \X Nat),
     parent : LeaseIds \cup {0}, root : LeaseIds, attempt : Nat \ {0}]

(* The type of every variable.                                              *)
TypeOK ==
    /\ TaskTypeOK
    /\ now \in Nat
    /\ leases \in [LeaseIds -> LeaseRecord \cup {NoLease}]
    /\ held \subseteq [flight : LeaseIds, resource : Resources,
                       exclusive : BOOLEAN, expires : Nat]
    /\ decisions \subseteq [parent : LeaseIds, child : LeaseIds \cup {0}]

(* Two different flights never hold conflicting claims on a resource at the  *)
(* same time, however clearances, expiries, reports and recoveries are       *)
(* interleaved (README "conflicting exclusive leases are not cleared at the   *)
(* same time").                                                             *)
NoConflictingClaims ==
    \A g, h \in held :
        (g.flight # h.flight /\ g.resource = h.resource
            /\ g.expires > now /\ h.expires > now)
        => ~ (g.exclusive \/ h.exclusive)

(* Two flights that landed did not work on the same thing at the same time    *)
(* for a second or more, if one of them claimed it exclusively and both       *)
(* started work before their clearance ended: the claims last as long as the *)
(* fuel, even after a takeoff at the last moment, and who flew longer did not *)
(* land (docs/DEPLOYMENT.md "resource leases cover latest takeoff plus       *)
(* fuel").  Less than a second is possible: the claims end to the tick, the  *)
(* fuel is measured in whole seconds.                                       *)
LandedWorkWasExclusive ==
    \A k, l \in LeaseIds :
        (/\ k # l /\ leases[k].status = "Landed" /\ leases[l].status = "Landed"
         /\ leases[k].flown[1] <= leases[k].expires
         /\ leases[l].flown[1] <= leases[l].expires)
        => \A r \in DOMAIN leases[k].claims \cap DOMAIN leases[l].claims :
              \/ ~ leases[k].claims[r] /\ ~ leases[l].claims[r]
              \/ leases[k].flown[2] < leases[l].flown[1] + Second
              \/ leases[l].flown[2] < leases[k].flown[1] + Second

(* Whoever is in the air works for the people the task is assigned to: no    *)
(* reassignment, expiry or recovery leaves a foreign agent flying.          *)
PilotIsActor ==
    \A l \in LeaseIds :
        leases[l].status = "Active" =>
            /\ IsActor(leases[l].worker, assigned[leases[l].task])
            /\ status[leases[l].task] \in {"InProgress", "Blocked", "Submitted", "Completed"}

(* The recovery tree is intact: a child flight has one recorded decision, the *)
(* task, worker and claims of its parent, the next attempt number and the    *)
(* same root, within the attempts the manifest allows.                      *)
RecoveryTree ==
    \A l \in LeaseIds :
        Issued(l) =>
            IF leases[l].parent = 0
            THEN leases[l].root = l /\ leases[l].attempt = 1
            ELSE LET p == leases[leases[l].parent]
                 IN  /\ leases[l].parent < l
                     /\ p.status \in Terminal
                     /\ leases[l].attempt = p.attempt + 1
                     /\ leases[l].attempt <= leases[l].maxAttempts
                     /\ leases[l].root = p.root
                     /\ leases[l].task = p.task /\ leases[l].worker = p.worker
                     /\ {e \in decisions : e.child = l}
                            = {[parent |-> leases[l].parent, child |-> l]}

(* An unclaimed clearance does not stay open, nor its resources locked, for   *)
(* ever.                                                                    *)
ClearanceEnds ==
    \A l \in LeaseIds :
        leases[l].status = "Authorized" ~> leases[l].status # "Authorized"
=============================================================================
