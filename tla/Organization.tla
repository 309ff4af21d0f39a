---------------------------- MODULE Organization ----------------------------
(***************************************************************************)
(* Who belongs to the organisation and what they may do: teams, principals,*)
(* role bindings and external identities (application/app/{mod,authority,   *)
(* directory,interactions}.rs), each operation with the checks it makes    *)
(* itself and the ones the projection makes when the batch is applied      *)
(* (core/state.rs).  A process commits on the state it has read or not at  *)
(* all (module Ledger), so an operation is one step on one state.          *)
(* Principals are numbers: their order is the order of the BTreeMap keys,  *)
(* agents ("AGT-...") before humans ("HUM-...").                           *)
(***************************************************************************)
EXTENDS Naturals, FiniteSets

CONSTANTS
    Humans, Agents, Teams,  \* the ids new_id may return
    Names, TeamNames,       \* what callers pass as a name
    Subjects,               \* external user ids of the identity providers
    Grants,                 \* the roles callers try to grant
    NoOne                   \* no name, no team, no external id

(* A name is a tuple of its parts, so that a derived one is another name.   *)
Admin == <<"admin">>        \* the default actor of the CLI
Tower == <<"tower">>        \* the server's own actors, "tower://..."
Principals == Humans \cup Agents
Providers == {"oidc", "feishu"}
Role == {"tenant_admin", "organization_admin", "manager", "auditor", "member", "agent"}

ASSUME OrganizationAssumption ==
    /\ Humans \cup Agents \subseteq Nat
    /\ \A a \in Agents, h \in Humans : a < h
    /\ NoOne \notin Teams \cup Names \cup TeamNames \cup Subjects
    /\ Grants \subseteq Role
    /\ IsFiniteSet(Humans \cup Agents)

VARIABLES
    organization,   \* is the organisation initialised?
    teams,          \* by id: [name, external, active]
    principals,     \* by id: [name, user, team, active]
    roles,          \* active role bindings <<principal, role>>
    identities      \* active bindings [provider, subject, principal]

orgVars == <<organization, teams, principals, roles, identities>>

Permission == {"OrganizationRead", "OrganizationManage", "PrincipalManage",
               "AuthorityRead", "AuthorityManage", "CredentialManage",
               "DemandCreate", "DashboardRead", "NotificationManage", "AuditRead"}

(* role_allows                                                              *)
Allowed ==
    [role \in Role |->
        CASE role \in {"tenant_admin", "organization_admin"} -> Permission
          [] role = "manager" -> {"OrganizationRead", "DemandCreate", "DashboardRead",
                                  "AuditRead", "AuthorityRead"}
          [] role = "auditor" -> {"OrganizationRead", "DashboardRead",
                                  "AuditRead", "AuthorityRead"}
          [] OTHER -> {"OrganizationRead"}]

(* validate_role_kind                                                       *)
RoleFits(p, role) == (p \in Agents) <=> (role = "agent")

Registered == DOMAIN principals
HumansIn == Registered \cap Humans
Named(name) == {p \in Registered : principals[p].name = name}
TeamsNamed(name) == {t \in DOMAIN teams : teams[t].name = name}
Bound(provider, subject) == {b \in identities : b.provider = provider /\ b.subject = subject}
HasRole(p, role) == <<p, role>> \in roles

(* ensure_permission: an actor is a name; one that no principal bears      *)
(* passes if it is a system actor, and only then.                          *)
SystemActor(actor) == actor \in {Admin, Tower}
Permitted(actor, permission) ==
    IF Named(actor) = {} THEN SystemActor(actor)
    ELSE \E p \in Named(actor) : \E role \in Role :
            HasRole(p, role) /\ permission \in Allowed[role]

-----------------------------------------------------------------------------
(* The events, as the projection applies them: guard and effect.           *)

AddedTeam(t, name) ==
    [u \in DOMAIN teams \cup {t} |->
        IF u = t THEN [name |-> name, external |-> NoOne, active |-> TRUE] ELSE teams[u]]

TeamDirectoryUpdated(t, name, external, active) ==
    /\ \A u \in DOMAIN teams \ {t} :
          /\ teams[u].name # name
          /\ external # NoOne => teams[u].external # external
    /\ teams' = [teams EXCEPT ![t] = [name |-> name, external |-> external, active |-> active]]
    /\ UNCHANGED <<organization, principals, roles, identities>>

(* Mutant of PrincipalDirectoryUpdated: only the userName is compared, as    *)
(* update_directory_human does.                                             *)
PrincipalUpdatedUnderAnyName(p, name, user, team, active) ==
    /\ team # NoOne => team \in DOMAIN teams
    /\ \A q \in Registered \ {p} : principals[q].user # user
    /\ principals' = [principals EXCEPT ![p] =
                        [name |-> name, user |-> user, team |-> team, active |-> active]]
    /\ UNCHANGED <<organization, teams, roles, identities>>

PrincipalDirectoryUpdated(p, name, user, team, active) ==
    /\ team # NoOne => team \in DOMAIN teams
    /\ \A q \in Registered \ {p} : principals[q].name # name /\ principals[q].user # user
    /\ principals' = [principals EXCEPT ![p] =
                        [name |-> name, user |-> user, team |-> team, active |-> active]]
    /\ UNCHANGED <<organization, teams, roles, identities>>

PrincipalRegistered(p, name, user, team, active) ==
    principals' = [q \in Registered \cup {p} |->
                      IF q = p THEN [name |-> name, user |-> user, team |-> team, active |-> active]
                      ELSE principals[q]]

RoleGranted(p, role) ==
    /\ organization
    /\ ~HasRole(p, role)
    /\ roles' = roles \cup {<<p, role>>}

RoleRevoked(p, role) ==
    /\ HasRole(p, role)
    /\ roles' = roles \ {<<p, role>>}

ExternalIdentityBound(provider, subject, p, active) ==
    /\ p \in Humans /\ active
    /\ \A b \in identities :
          b.provider = provider => b.subject # subject /\ b.principal # p
    /\ identities' = identities \cup
                        {[provider |-> provider, subject |-> subject, principal |-> p]}

ExternalIdentityUnbound(b) ==
    /\ b \in identities
    /\ identities' = identities \ {b}

-----------------------------------------------------------------------------
OrgInit ==
    /\ organization = FALSE
    /\ teams = [t \in {} |-> NoOne]
    /\ principals = [p \in {} |-> NoOne]
    /\ roles = {}
    /\ identities = {}

InitOrganization ==
    /\ ~organization
    /\ organization' = TRUE
    /\ UNCHANGED <<teams, principals, roles, identities>>

CreateTeam(t, name, actor) ==
    /\ organization
    /\ Permitted(actor, "OrganizationManage")
    /\ t \notin DOMAIN teams
    /\ TeamsNamed(name) = {}
    /\ teams' = AddedTeam(t, name)
    /\ UNCHANGED <<organization, principals, roles, identities>>

(* register_principal: the first human of the organisation administers it. *)
DefaultRole(p) ==
    CASE p \in Agents -> "agent"
      [] p \in Humans /\ HumansIn = {} -> "tenant_admin"
      [] OTHER -> "member"

RegisterPrincipal(p, name, team, actor) ==
    /\ organization
    /\ Permitted(actor, "PrincipalManage")
    /\ p \notin Registered
    /\ Named(name) = {}
    /\ team # NoOne => team \in DOMAIN teams
    /\ PrincipalRegistered(p, name, NoOne, team, TRUE)
    /\ RoleGranted(p, DefaultRole(p))
    /\ UNCHANGED <<organization, teams, identities>>

(* provision_directory_human                                                *)
ProvisionDirectoryHuman(p, name, user, subject, active, actor) ==
    /\ organization
    /\ Permitted(actor, "PrincipalManage")
    /\ p \in Humans \ Registered
    /\ Named(name) = {}
    /\ \A q \in Registered : principals[q].user # user
    /\ Bound("oidc", subject) = {}
    /\ PrincipalRegistered(p, name, user, NoOne, active)
    /\ RoleGranted(p, "member")
    /\ ExternalIdentityBound("oidc", subject, p, active)
    /\ UNCHANGED <<organization, teams>>

UpdateDirectoryHuman(p, name, user, team, active, actor) ==
    /\ Permitted(actor, "PrincipalManage")
    /\ p \in HumansIn
    /\ \A q \in Registered \ {p} : principals[q].user # user
    /\ PrincipalDirectoryUpdated(p, name, user, team, active)

UpdateDirectoryTeam(t, name, external, active, actor) ==
    /\ Permitted(actor, "PrincipalManage")
    /\ t \in DOMAIN teams
    /\ TeamDirectoryUpdated(t, name, external, active)

GrantRole(p, role, actor) ==
    /\ Permitted(actor, "AuthorityManage")
    /\ p \in Registered
    /\ RoleFits(p, role)
    /\ role = "tenant_admin" => \A q \in Named(actor) : HasRole(q, "tenant_admin")
    /\ RoleGranted(p, role)
    /\ UNCHANGED <<organization, teams, principals, identities>>

(* Mutant of RevokeRole: the last administrator may go.                      *)
RevokeAnyRole(p, role, actor) ==
    /\ Permitted(actor, "AuthorityManage")
    /\ RoleRevoked(p, role)
    /\ UNCHANGED <<organization, teams, principals, identities>>

(* revoke_role: the last tenant admin binding stays.                        *)
RevokeRole(p, role, actor) ==
    /\ Permitted(actor, "AuthorityManage")
    /\ role = "tenant_admin" =>
          Cardinality({q \in Registered : HasRole(q, "tenant_admin")}) # 1
    /\ RoleRevoked(p, role)
    /\ UNCHANGED <<organization, teams, principals, identities>>

BindExternalIdentity(provider, subject, p, actor) ==
    /\ p \in Registered
    /\ Named(actor) # {p} => Permitted(actor, "PrincipalManage")
    /\ ExternalIdentityBound(provider, subject, p, principals[p].active)
    /\ UNCHANGED <<organization, teams, principals, roles>>

UnbindExternalIdentity(b, actor) ==
    /\ Named(actor) # {b.principal} => Permitted(actor, "PrincipalManage")
    /\ ExternalIdentityUnbound(b)
    /\ UNCHANGED <<organization, teams, principals, roles>>

(* migrate_legacy_authority: on every open, a principal without a role      *)
(* gets one; the earliest human only when nobody administers the tenant.   *)
MigrateLegacyAuthority ==
    LET bare == {p \in Registered : \A role \in Role : ~HasRole(p, role)}
        adminless == \A p \in Registered : ~HasRole(p, "tenant_admin")
    IN /\ organization
       /\ bare # {}
       /\ \E earliest \in IF bare \cap Humans # {} THEN bare \cap Humans ELSE bare :
            roles' = roles \cup
               {<<p, CASE p \in Agents -> "agent"
                       [] p \in Humans /\ p = earliest /\ adminless -> "tenant_admin"
                       [] OTHER -> "member">> : p \in bare}
       /\ UNCHANGED <<organization, teams, principals, identities>>

-----------------------------------------------------------------------------
OrgTypeOK ==
    /\ organization \in BOOLEAN
    /\ DOMAIN teams \subseteq Teams
    /\ Registered \subseteq Principals
    /\ roles \subseteq Registered \X Role
    /\ \A b \in identities : b.provider \in Providers /\ b.principal \in HumansIn

(* The open_id as a name, the last resort of available_principal_name, which *)
(* nothing compares with the names there are.                              *)
OpenIdNames == {<<s>> : s \in Subjects}

(* A name, a userName, an external identity or a group's external id leads *)
(* to one principal or one team: actors and members are resolved by them,  *)
(* and no sequence of registrations, directory updates, logins and         *)
(* reorganisations makes two share one, but for that last resort.           *)
NamesAreUnambiguous ==
    /\ \A p, q \in Registered : p # q /\ principals[p].name = principals[q].name =>
          principals[p].name \in OpenIdNames
    /\ \A p, q \in Registered : p # q /\ principals[p].user # NoOne =>
          principals[p].user # principals[q].user
    /\ \A t, u \in DOMAIN teams : t # u =>
          /\ teams[t].name # teams[u].name
          /\ teams[t].external # NoOne => teams[t].external # teams[u].external
    /\ \A b, c \in identities : b # c /\ b.provider = c.provider =>
          b.subject # c.subject /\ b.principal # c.principal

(* An organisation that has an administrator keeps one, and no agent is    *)
(* ever given a human's role: whatever is revoked, migrated or provisioned.*)
AdministratorRemains ==
    [][(\E p \in Registered : HasRole(p, "tenant_admin")) =>
          /\ (\E p \in Registered : HasRole(p, "tenant_admin"))'
          /\ \A p \in Agents, role \in Role \ {"agent"} : ~HasRole(p, role)']_orgVars
=============================================================================
