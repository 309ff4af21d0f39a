------------------------------- MODULE Fleet -------------------------------
(***************************************************************************)
(* The tenants of one control plane (tenant.rs, the tenant commands of     *)
(* bin/relay/main.rs, run_fleet and fleet_dispatch of server.rs) and the   *)
(* migration of all their ledgers from SQLite to PostgreSQL                *)
(* (migration.rs, import_sqlite_snapshot of postgres_store.rs).            *)
(*                                                                         *)
(* Each back end keeps a catalog of tenants and, for each tenant, a        *)
(* ledger, one API token (the row of the credential table; the ledger has  *)
(* its events) and the blobs of its artifacts.  The migration is a         *)
(* separate process that may be killed after each of its transactions and  *)
(* started again.  The operator follows docs/DEPLOYMENT.md section 5:      *)
(* nobody writes to SQLite while the migration runs, PostgreSQL is served  *)
(* after a migration that reported success and with no later write to      *)
(* SQLite, and SQLite is not served again after that.                      *)
(***************************************************************************)
EXTENDS Naturals, Sequences, SequencesExt

CONSTANTS
    Listing,     \* the tenants that may come to exist, in the order of list()
    SlugOf,      \* [Range(Listing) -> slugs]; two tenants may want one slug
    Root,        \* the tenant of the ledger in the root of the data directory
    DefaultSlug, \* the slug that adopt_default gives
    Blob,        \* an artifact
    NoTenant,
    MaxEvents    \* bound on the length of a ledger

Tenants == Range(Listing)

ASSUME FleetAssumption ==
    /\ Listing \in Seq(Tenants)
    /\ SlugOf \in [Tenants -> {SlugOf[t] : t \in Tenants}]
    /\ Root \in Tenants /\ SlugOf[Root] = DefaultSlug
    /\ NoTenant \notin Tenants
    /\ {"bad_request", "unauthorized"} \cap Tenants = {}
    /\ MaxEvents \in Nat \ {0, 1}

Backends == {"sqlite", "postgres"}
Kinds == {"init", "setup", "issue", "revoke", "file"}

VARIABLES
    at,       \* [Backends -> Store]
    serving,  \* the back end that `relay serve` runs on, "none" between runs
    cutover,  \* PostgreSQL has been served
    migration \* the migration process

fleetVars == <<at, serving, cutover, migration>>

Store ==
    [catalog : SUBSET Tenants,
     ledger  : [Tenants -> BoundedSeq(Kinds, MaxEvents)],
     token   : [Tenants -> {"none", "live", "revoked"}],
     blobs   : [Tenants -> SUBSET {Blob}]]

Migration ==
    [pc : {"idle", "catalog", "import", "done", "refused"}, todo : SUBSET Tenants]

IsDefault(t) == SlugOf[t] = DefaultSlug

DefaultTenant(b) ==
    LET defaults == {t \in at[b].catalog : IsDefault(t)} IN
    IF defaults = {} THEN NoTenant ELSE CHOOSE t \in defaults : TRUE

\* find(slug) and the UNIQUE columns of the catalog.
SlugTaken(b, t) == \E u \in at[b].catalog : SlugOf[u] = SlugOf[t]

\* The catalog row of adopt_default or register; it is not written twice.
Registered(store, t) == [store EXCEPT !.catalog = @ \cup {t}]

Appended(store, t, kind) == [store EXCEPT !.ledger[t] = Append(@, kind)]

\* OrganizationState::tenant(): the ledger belongs to somebody.
Initialized(b, t) == at[b].ledger[t] # <<>>

Has(b, t, kind) == Contains(at[b].ledger[t], kind)

---------------------------------------------------------------------------
(***************************************************************************)
(* Requests.                                                               *)
(***************************************************************************)
\* What of a request selects a tenant: the owner of its token and whether
\* the token names it, the x-relay-tenant header, and the tenant that a sign
\* in asks for (/auth/*/login) or brings back in a cookie (/auth/*/callback).
Requests ==
    [token : Tenants \cup {NoTenant}, hint : BOOLEAN,
     header : Tenants \cup {NoTenant}, login : Tenants \cup {NoTenant}]

\* fleet_dispatch: the tenant whose router gets the request.
FleetDispatch(b, r) ==
    LET named == IF r.hint THEN r.token ELSE NoTenant
        wanted == IF named # NoTenant THEN named
                  ELSE IF r.header # NoTenant THEN r.header
                  ELSE IF r.login # NoTenant THEN r.login
                  ELSE DefaultTenant(b) IN
    IF named # NoTenant /\ r.header # NoTenant /\ named # r.header
        THEN "bad_request"
    ELSE IF wanted \notin at[b].catalog
        THEN "unauthorized"
    ELSE wanted

\* authenticate_api_token, in the ledger of tenant t: the row of this tenant
\* is live and so is the credential of the projected state.
LetsIn(b, t, r) ==
    /\ r.token = t
    /\ at[b].token[t] = "live"
    /\ Has(b, t, "issue") /\ ~Has(b, t, "revoke")

\* The answer of the fleet: a refusal, or the tenant that serves the request.
Answer(b, r) ==
    LET t == FleetDispatch(b, r) IN
    IF t \notin Tenants THEN t
    ELSE IF r.token # NoTenant /\ ~LetsIn(b, t, r) THEN "unauthorized"
    ELSE t

---------------------------------------------------------------------------
(***************************************************************************)
(* The fleet at work.                                                      *)
(***************************************************************************)
\* `relay setup` initialised the root ledger; its catalog row may be missing
\* (the process stopped before adopt_default).
FleetInit ==
    /\ \E catalog \in {{}, {Root}} :
         at = [b \in Backends |->
                 [catalog |-> IF b = "sqlite" THEN catalog ELSE {},
                  ledger  |-> [t \in Tenants |->
                                 IF b = "sqlite" /\ t = Root
                                     THEN <<"init", "setup">> ELSE <<>>],
                  token   |-> [t \in Tenants |-> "none"],
                  blobs   |-> [t \in Tenants |-> {}]]]
    /\ serving = "none"
    /\ cutover = FALSE
    /\ migration = [pc |-> "idle", todo |-> {}]

\* The back end that operators and the server use.
CurrentBackend == IF cutover THEN "postgres" ELSE "sqlite"

Migrating == migration.pc \in {"catalog", "import"}

\* After a write to SQLite an earlier report of the migration is worthless.
Outdated(b) ==
    IF b = "sqlite" THEN [pc |-> "idle", todo |-> {}] ELSE migration

\* run_fleet on SQLite: the root ledger is adopted, then every tenant of the
\* catalog is opened; one that cannot be opened stops the server.
ServeSqlite ==
    /\ serving = "none" /\ ~cutover /\ ~Migrating
    /\ \A t \in at["sqlite"].catalog : Initialized("sqlite", t)
    /\ at' = [at EXCEPT !["sqlite"] = Registered(@, Root)]
    /\ serving' = "sqlite"
    /\ UNCHANGED <<cutover, migration>>

\* run_fleet on PostgreSQL: there must be a default tenant, and every stream
\* of the catalog must belong to its tenant.
ServePostgres ==
    /\ serving = "none"
    /\ cutover \/ migration.pc = "done"
    /\ DefaultTenant("postgres") # NoTenant
    /\ \A t \in at["postgres"].catalog : Initialized("postgres", t)
    /\ serving' = "postgres" /\ cutover' = TRUE
    /\ UNCHANGED <<at, migration>>

Stop ==
    /\ serving # "none"
    /\ serving' = "none"
    /\ UNCHANGED <<at, cutover, migration>>

\* A write by the server: the given change of the store, completed or cut
\* short after its first transaction by the end of the process.
Writes(b, first, whole) ==
    /\ \/ at' = [at EXCEPT ![b] = whole] /\ UNCHANGED serving
       \/ at' = [at EXCEPT ![b] = first] /\ serving' = "none"
    /\ migration' = Outdated(b)
    /\ UNCHANGED cutover

Room(b, t) ==
    /\ serving = b /\ t \in at[b].catalog
    /\ Len(at[b].ledger[t]) < MaxEvents

\* issue_api_credential: the row, then the event.
IssueToken(b, t) ==
    LET row == [at[b] EXCEPT !.token[t] = "live"] IN
    /\ Room(b, t)
    /\ at[b].token[t] = "none"
    /\ Writes(b, row, Appended(row, t, "issue"))

\* revoke_api_credential: the event, then the row.
RevokeToken(b, t) ==
    LET event == Appended(at[b], t, "revoke") IN
    /\ Room(b, t)
    /\ Has(b, t, "issue") /\ ~Has(b, t, "revoke")
    /\ Writes(b, event, [event EXCEPT !.token[t] = "revoked"])

\* A report with an artifact: the content, then the event that names it.
FileArtifact(b, t) ==
    LET content == [at[b] EXCEPT !.blobs[t] = {Blob}] IN
    /\ Room(b, t)
    /\ ~Has(b, t, "file")
    /\ Writes(b, content, Appended(content, t, "file"))

\* `relay tenant create`: a free slug, and no ledger in the directory of that
\* slug, also on PostgreSQL; the ledger is initialised, then registered.
CreateTenant(b, t) ==
    LET adopted == IF b = "sqlite" THEN Registered(at[b], Root) ELSE at[b]
        opened  == Appended(adopted, t, "init") IN
    /\ b = CurrentBackend /\ ~Migrating
    /\ b = "postgres" => DefaultTenant(b) # NoTenant
    /\ ~IsDefault(t) /\ ~SlugTaken(b, t)
    /\ \A c \in Backends : ~Initialized(c, t)
    /\ \A u \in Tenants : SlugOf[u] = SlugOf[t] => ~Initialized("sqlite", u)
    /\ \E store \in {opened, Registered(opened, t)} : at' = [at EXCEPT ![b] = store]
    /\ migration' = Outdated(b)
    /\ UNCHANGED <<serving, cutover>>

\* `relay org init` on PostgreSQL before the migration: a default tenant in
\* the catalog is opened, and initialised when its stream is empty; without
\* one a new tenant is.  Its row follows in adopt_default.
InitOrganization(t) ==
    LET default == DefaultTenant("postgres")
        opened  == Appended(at["postgres"], t, "init") IN
    /\ ~cutover
    /\ IF default # NoTenant THEN t = default
       ELSE IsDefault(t) /\ t # Root
    /\ ~Initialized("postgres", t)
    /\ \E store \in {opened, Registered(opened, t)} :
         at' = [at EXCEPT !["postgres"] = store]
    /\ UNCHANGED <<serving, cutover, migration>>

---------------------------------------------------------------------------
(***************************************************************************)
(* sqlite_fleet_to_postgres.                                               *)
(***************************************************************************)
\* The default tenant is adopted and the tenants are listed.
MigrateStart ==
    LET adopted == Registered(at["sqlite"], Root) IN
    /\ serving # "sqlite" /\ ~Migrating
    /\ at' = [at EXCEPT !["sqlite"] = adopted]
    /\ migration' = [pc |-> "catalog", todo |-> adopted.catalog]
    /\ UNCHANGED <<serving, cutover>>

\* The order of the listing, and the tenant whose turn it is.
Earlier(t, u) == \E i, j \in DOMAIN Listing : i < j /\ Listing[i] = t /\ Listing[j] = u

\* Tenants are migrated one by one in the order of list().
Turn(t) == t \in migration.todo /\ \A u \in migration.todo : ~Earlier(u, t)

Refuse == migration' = [migration EXCEPT !.pc = "refused"] /\ UNCHANGED at

\* adopt_default refuses a second default tenant and the UNIQUE columns a
\* second tenant with the slug.
AdmitsToPostgres(t) == ~SlugTaken("postgres", t)

\* The catalog row of the next tenant: it is there, or it can be inserted, or
\* another tenant is the default or has the slug.
MigrateCatalog(t) ==
    /\ migration.pc = "catalog" /\ Turn(t)
    /\ IF t \in at["postgres"].catalog
           THEN migration' = [migration EXCEPT !.pc = "import"] /\ UNCHANGED at
       ELSE IF ~AdmitsToPostgres(t) THEN Refuse
       ELSE /\ at' = [at EXCEPT !["postgres"] = Registered(@, t)]
            /\ migration' = [migration EXCEPT !.pc = "import"]
    /\ UNCHANGED <<serving, cutover>>

EmptyTarget(t) ==
    LET target == at["postgres"] IN
    target.ledger[t] = <<>> /\ target.token[t] = "none" /\ target.blobs[t] = {}

\* A mutant of SameCounts: whatever the target holds is taken for the import.
AnyTarget(t) == TRUE

\* A target that is not empty is accepted when its last sequence, its number
\* of events and of credentials and its artifacts are those of the source.
SameCounts(t) ==
    LET source == at["sqlite"]  target == at["postgres"] IN
    /\ Len(target.ledger[t]) = Len(source.ledger[t])
    /\ (target.token[t] = "none") <=> (source.token[t] = "none")
    /\ target.blobs[t] = source.blobs[t]

\* One transaction copies the events, the credential rows and the artifacts.
Imported(target, source, t) ==
    [target EXCEPT !.ledger[t] = source.ledger[t],
                   !.token[t]  = source.token[t],
                   !.blobs[t]  = source.blobs[t]]

MigrateImport(t) ==
    LET next == [pc |-> "catalog", todo |-> migration.todo \ {t}] IN
    /\ migration.pc = "import" /\ Turn(t)
    /\ \/ /\ EmptyTarget(t)
          /\ at' = [at EXCEPT !["postgres"] = Imported(@, at["sqlite"], t)]
          /\ migration' = next
       \/ /\ ~EmptyTarget(t) /\ SameCounts(t)
          /\ migration' = next /\ UNCHANGED at
       \/ /\ ~EmptyTarget(t) /\ ~SameCounts(t)
          /\ Refuse
    /\ UNCHANGED <<serving, cutover>>

\* The report is printed.
MigrateDone ==
    /\ migration.pc = "catalog" /\ migration.todo = {}
    /\ migration' = [migration EXCEPT !.pc = "done"]
    /\ UNCHANGED <<at, serving, cutover>>

MigrateCrash ==
    /\ Migrating
    /\ migration' = [pc |-> "idle", todo |-> {}]
    /\ UNCHANGED <<at, serving, cutover>>

---------------------------------------------------------------------------
FleetNext ==
    \/ ServeSqlite \/ ServePostgres \/ Stop
    \/ \E b \in Backends, t \in Tenants :
         \/ IssueToken(b, t) \/ RevokeToken(b, t) \/ FileArtifact(b, t)
         \/ CreateTenant(b, t)
    \/ \E t \in Tenants : InitOrganization(t) \/ MigrateCatalog(t) \/ MigrateImport(t)
    \/ MigrateStart \/ MigrateDone \/ MigrateCrash

FleetSpec == FleetInit /\ [][FleetNext]_fleetVars

FleetTypeOK ==
    /\ at \in [Backends -> Store]
    /\ serving \in Backends \cup {"none"}
    /\ cutover \in BOOLEAN
    /\ migration \in Migration

(***************************************************************************)
(* The switch to PostgreSQL loses nothing, however often the migration was *)
(* killed, abandoned in favour of SQLite and started again: the history of *)
(* every tenant goes on where SQLite stopped, its artifacts are there, and *)
(* a request is answered as SQLite would have answered it, by the same     *)
(* tenant, unless PostgreSQL has since issued or revoked its token.        *)
(***************************************************************************)
CutoverKeepsTheFleet ==
    cutover =>
      /\ \A t \in at["sqlite"].catalog :
           /\ t \in at["postgres"].catalog
           /\ IsPrefix(at["sqlite"].ledger[t], at["postgres"].ledger[t])
           /\ at["sqlite"].blobs[t] \subseteq at["postgres"].blobs[t]
      /\ \A r \in Requests :
           \/ Answer("postgres", r) = Answer("sqlite", r)
           \/ Answer("postgres", r) \in at["postgres"].catalog \ at["sqlite"].catalog
           \/ /\ r.token \in at["postgres"].catalog
              /\ at["postgres"].ledger[r.token] # at["sqlite"].ledger[r.token]
=============================================================================
