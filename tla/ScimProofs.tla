----------------------------- MODULE ScimProofs -----------------------------
(***************************************************************************)
(* Proofs about Organization and Scim, for any people, agents, teams, names *)
(* and external users, any number of requests, and series of commits that   *)
(* stop anywhere.                                                          *)
(*                                                                         *)
(* The operations of Organization are treated first, each as one step on    *)
(* the directory (OrgInv, KeepsAdmin, KeepsOut).  The requests of Scim then  *)
(* only add what their remaining commits may do (JobFacts): a commit that   *)
(* moves a deleted human was prepared with the account suspended, and an    *)
(* unbinding stands alone, after the suspension.                            *)
(***************************************************************************)
EXTENDS Scim, FiniteSetTheorems, TLAPS

(* Agents and humans have different ids.                                    *)
LEMMA KindsDiffer == Humans \cap Agents = {}
<1> SUFFICES ASSUME NEW p \in Humans, p \in Agents PROVE FALSE
  OBVIOUS
<1>1. p \in Nat /\ p < p
  BY OrganizationAssumption
<1> QED BY <1>1

AgentsAreAgents == \A p \in Agents, role \in Role : HasRole(p, role) => role = "agent"

OrgInv ==
    /\ OrgTypeOK
    /\ NamesAreUnambiguous
    /\ AgentsAreAgents

(* Somebody administers the tenant.                                         *)
Administered == \E p \in Registered : HasRole(p, "tenant_admin")
KeepsAdmin == Administered => Administered'

(* A human with a suspended account to which no login leads; a step of the  *)
(* directory keeps everybody out whom it does not concern.                  *)
Outside(p) ==
    /\ p \in HumansIn
    /\ ~principals[p].active
    /\ \A b \in identities : b.principal = p => b.provider # "oidc"
KeepsOut == \A p : Outside(p) => Outside(p)'

-----------------------------------------------------------------------------
(* The operations of Organization.                                          *)

(* The invariant and the promises read nothing but the directory.           *)
LEMMA OrgUnchanged ==
    ASSUME OrgInv, UNCHANGED orgVars
    PROVE  OrgInv' /\ KeepsAdmin /\ KeepsOut
BY DEF OrgInv, orgVars, OrgTypeOK, NamesAreUnambiguous, AgentsAreAgents, KeepsAdmin, KeepsOut,
       Administered, Outside, Registered, HumansIn, HasRole

(* init_organization                                                        *)
LEMMA InitOrganizationKeeps ==
    ASSUME OrgInv, InitOrganization
    PROVE  OrgInv' /\ KeepsAdmin /\ KeepsOut
BY DEF InitOrganization, OrgInv, OrgTypeOK, NamesAreUnambiguous, AgentsAreAgents, KeepsAdmin,
       KeepsOut, Administered, Outside, Registered, HumansIn, HasRole

(* A step on teams alone.                                                   *)
LEMMA TeamStep ==
    ASSUME OrgInv, UNCHANGED <<organization, principals, roles, identities>>,
           DOMAIN teams' \subseteq Teams,
           \A t, u \in DOMAIN teams' : t # u =>
              /\ teams'[t].name # teams'[u].name
              /\ teams'[t].external # NoOne => teams'[t].external # teams'[u].external
    PROVE  OrgInv' /\ KeepsAdmin /\ KeepsOut
BY DEF OrgInv, OrgTypeOK, NamesAreUnambiguous, AgentsAreAgents, KeepsAdmin,
       KeepsOut, Administered, Outside, Registered, HumansIn, HasRole

(* create_team                                                              *)
LEMMA CreateTeamKeeps ==
    ASSUME OrgInv, NEW t \in Teams, NEW name, NEW actor, CreateTeam(t, name, actor)
    PROVE  OrgInv' /\ KeepsAdmin /\ KeepsOut
<1> DEFINE new == [name |-> name, external |-> NoOne, active |-> TRUE]
<1>1. /\ DOMAIN teams' = DOMAIN teams \cup {t}
      /\ teams'[t] = new
      /\ \A u \in DOMAIN teams \ {t} : teams'[u] = teams[u]
  BY DEF CreateTeam, AddedTeam
<1>2. /\ t \notin DOMAIN teams
      /\ \A u \in DOMAIN teams : teams[u].name # name
      /\ UNCHANGED <<organization, principals, roles, identities>>
  BY DEF CreateTeam, TeamsNamed
<1>3. new.name = name /\ new.external = NoOne
  OBVIOUS
<1> HIDE DEF new
<1>4. DOMAIN teams' \subseteq Teams
  BY <1>1 DEF OrgInv, OrgTypeOK
<1>5. \A u, v \in DOMAIN teams' : u # v =>
          /\ teams'[u].name # teams'[v].name
          /\ teams'[u].external # NoOne => teams'[u].external # teams'[v].external
  BY <1>1, <1>2, <1>3 DEF OrgInv, NamesAreUnambiguous
<1> QED BY <1>2, <1>4, <1>5, TeamStep

(* update_directory_team, with the comparison of the projection             *)
LEMMA UpdateTeamKeeps ==
    ASSUME OrgInv, NEW t, NEW name, NEW external, NEW active, NEW actor,
           UpdateDirectoryTeam(t, name, external, active, actor)
    PROVE  OrgInv' /\ KeepsAdmin /\ KeepsOut
<1> DEFINE new == [name |-> name, external |-> external, active |-> active]
<1>1. /\ DOMAIN teams' = DOMAIN teams
      /\ teams'[t] = new
      /\ \A u \in DOMAIN teams \ {t} : teams'[u] = teams[u]
  BY DEF UpdateDirectoryTeam, TeamDirectoryUpdated
<1>2. /\ \A u \in DOMAIN teams \ {t} :
            /\ teams[u].name # name
            /\ external # NoOne => teams[u].external # external
      /\ UNCHANGED <<organization, principals, roles, identities>>
  BY DEF UpdateDirectoryTeam, TeamDirectoryUpdated
<1>3. new.name = name /\ new.external = external
  OBVIOUS
<1> HIDE DEF new
<1>4. DOMAIN teams' \subseteq Teams
  BY <1>1 DEF OrgInv, OrgTypeOK
<1>5. \A u, v \in DOMAIN teams' : u # v =>
          /\ teams'[u].name # teams'[v].name
          /\ teams'[u].external # NoOne => teams'[u].external # teams'[v].external
  BY <1>1, <1>2, <1>3 DEF OrgInv, NamesAreUnambiguous
<1> QED BY <1>2, <1>4, <1>5, TeamStep

(* update_directory_human: the account of one human changes; the others stay *)
(* out, and so does that one when it is left suspended.                     *)
LEMMA UpdateHumanKeeps ==
    ASSUME OrgInv, NEW p, NEW name, NEW user, NEW team, NEW active, NEW actor,
           UpdateDirectoryHuman(p, name, user, team, active, actor)
    PROVE  /\ OrgInv' /\ KeepsAdmin
           /\ p \in HumansIn /\ principals'[p].active = active
           /\ \A q : Outside(q) /\ (q = p => ~active) => Outside(q)'
           /\ \A q \in Registered \ {p} : principals'[q] = principals[q]
           /\ UNCHANGED <<roles, identities>> /\ DOMAIN principals' = DOMAIN principals
<1> DEFINE new == [name |-> name, user |-> user, team |-> team, active |-> active]
<1>1. /\ DOMAIN principals' = DOMAIN principals
      /\ principals'[p] = new
      /\ \A q \in Registered \ {p} : principals'[q] = principals[q]
      /\ p \in HumansIn
  BY DEF UpdateDirectoryHuman, PrincipalDirectoryUpdated, HumansIn, Registered
<1>2. /\ \A q \in Registered \ {p} : principals[q].name # name /\ principals[q].user # user
      /\ UNCHANGED <<organization, teams, roles, identities>>
  BY DEF UpdateDirectoryHuman, PrincipalDirectoryUpdated
<1>3. new.name = name /\ new.user = user /\ new.active = active
  OBVIOUS
<1> HIDE DEF new
<1>4. OrgTypeOK'
  BY <1>1, <1>2 DEF OrgInv, OrgTypeOK, Registered, HumansIn
<1>5. \A q, r \in DOMAIN principals' : q # r /\ principals'[q].name = principals'[r].name =>
         principals'[q].name \in OpenIdNames
  BY <1>1, <1>2, <1>3 DEF OrgInv, NamesAreUnambiguous, Registered
<1>6. \A q, r \in DOMAIN principals' : q # r /\ principals'[q].user # NoOne =>
         principals'[q].user # principals'[r].user
  BY <1>1, <1>2, <1>3 DEF OrgInv, NamesAreUnambiguous, Registered
<1>7. NamesAreUnambiguous'
  BY <1>2, <1>5, <1>6 DEF OrgInv, NamesAreUnambiguous, Registered, OpenIdNames
<1>8. AgentsAreAgents' /\ KeepsAdmin
  BY <1>1, <1>2 DEF OrgInv, AgentsAreAgents, KeepsAdmin, Administered, HasRole, Registered
<1>9. \A q : Outside(q) /\ (q = p => ~active) => Outside(q)'
  BY <1>1, <1>2, <1>3 DEF Outside, HumansIn, Registered
<1> QED BY <1>1, <1>2, <1>3, <1>4, <1>7, <1>8, <1>9 DEF OrgInv

(* A step on roles alone: everybody who is bound keeps a fitting role.       *)
LEMMA RoleStep ==
    ASSUME OrgInv, UNCHANGED <<organization, teams, principals, identities>>,
           roles' \subseteq Registered \X Role,
           \A p \in Agents, role \in Role : <<p, role>> \in roles' => role = "agent"
    PROVE  OrgInv' /\ KeepsOut
BY DEF OrgInv, OrgTypeOK, NamesAreUnambiguous, AgentsAreAgents,
       KeepsOut, Outside, Registered, HumansIn, HasRole

(* A principal is registered with a role that fits and a name that is free,  *)
(* or that is an open_id.                                                  *)
LEMMA RegisteredKeeps ==
    ASSUME OrgInv, NEW p \in Principals, p \notin Registered,
           NEW name, NEW user, NEW team, NEW active, NEW role \in Role,
           PrincipalRegistered(p, name, user, team, active), RoleGranted(p, role),
           p \in Agents => role = "agent",
           Named(name) = {} \/ name \in OpenIdNames,
           user = NoOne \/ \A q \in Registered : principals[q].user # user,
           UNCHANGED <<organization, teams>>,
           \A b \in identities' : b.provider \in Providers /\ b.principal \in HumansIn',
           \A b \in identities' \ identities : b.principal = p,
           \A b, c \in identities' : b # c /\ b.provider = c.provider =>
              b.subject # c.subject /\ b.principal # c.principal
    PROVE  OrgInv' /\ KeepsAdmin /\ KeepsOut
<1> DEFINE new == [name |-> name, user |-> user, team |-> team, active |-> active]
<1>1. /\ DOMAIN principals' = Registered \cup {p}
      /\ principals'[p] = new
      /\ \A q \in Registered : principals'[q] = principals[q]
  BY DEF PrincipalRegistered
<1>2. roles' = roles \cup {<<p, role>>}
  BY DEF RoleGranted
<1>3. new.name = name /\ new.user = user /\ new.active = active
  OBVIOUS
<1> HIDE DEF new
<1>4. OrgTypeOK'
  BY <1>1, <1>2 DEF OrgInv, OrgTypeOK, Registered, HumansIn
<1>5. \A q, r \in DOMAIN principals' : q # r /\ principals'[q].name = principals'[r].name =>
         principals'[q].name \in OpenIdNames
  BY <1>1, <1>3 DEF OrgInv, NamesAreUnambiguous, Named, Registered
<1>6. \A q, r \in DOMAIN principals' : q # r /\ principals'[q].user # NoOne =>
         principals'[q].user # principals'[r].user
  BY <1>1, <1>3 DEF OrgInv, NamesAreUnambiguous, Registered
<1>7. NamesAreUnambiguous'
  BY <1>5, <1>6 DEF OrgInv, NamesAreUnambiguous, Registered, OpenIdNames
<1>8. AgentsAreAgents'
  BY <1>2 DEF OrgInv, AgentsAreAgents, HasRole
<1>9. KeepsAdmin
  BY <1>1, <1>2 DEF KeepsAdmin, Administered, HasRole, Registered
<1>10. KeepsOut
  BY <1>1, <1>3 DEF KeepsOut, Outside, HumansIn, Registered
<1> QED BY <1>4, <1>7, <1>8, <1>9, <1>10 DEF OrgInv

(* register_principal                                                       *)
LEMMA RegisterPrincipalKeeps ==
    ASSUME OrgInv, NEW p \in Principals, NEW name, NEW team, NEW actor,
           RegisterPrincipal(p, name, team, actor)
    PROVE  OrgInv' /\ KeepsAdmin /\ KeepsOut
<1>1. /\ p \notin Registered /\ Named(name) = {}
      /\ PrincipalRegistered(p, name, NoOne, team, TRUE)
      /\ RoleGranted(p, DefaultRole(p))
      /\ UNCHANGED <<organization, teams, identities>>
  BY DEF RegisterPrincipal
<1>2. DefaultRole(p) \in Role /\ (p \in Agents => DefaultRole(p) = "agent")
  BY KindsDiffer DEF DefaultRole, Role
<1>3. Registered \subseteq Registered'
  BY <1>1 DEF PrincipalRegistered, Registered
<1>4. \A b \in identities' : b.provider \in Providers /\ b.principal \in HumansIn'
  BY <1>1, <1>3 DEF OrgInv, OrgTypeOK, HumansIn
<1>5. \A b, c \in identities' : b # c /\ b.provider = c.provider =>
         b.subject # c.subject /\ b.principal # c.principal
  BY <1>1 DEF OrgInv, NamesAreUnambiguous
<1>6. identities' \ identities = {}
  BY <1>1
<1> QED BY <1>1, <1>2, <1>4, <1>5, <1>6, RegisteredKeeps

(* What a new binding leaves of the identities.                             *)
LEMMA BoundIdentities ==
    ASSUME OrgInv, NEW provider, NEW subject, NEW p, NEW active,
           ExternalIdentityBound(provider, subject, p, active)
    PROVE  /\ p \in Humans /\ active
           /\ \A b \in identities' \ identities : b.principal = p /\ b.provider = provider
           /\ \A b \in identities : b \in identities'
           /\ \A b, c \in identities' : b # c /\ b.provider = c.provider =>
                 b.subject # c.subject /\ b.principal # c.principal
<1> DEFINE new == [provider |-> provider, subject |-> subject, principal |-> p]
<1>1. /\ identities' = identities \cup {new} /\ p \in Humans /\ active
      /\ \A b \in identities : b.provider = provider => b.subject # subject /\ b.principal # p
  BY DEF ExternalIdentityBound
<1>2. new.provider = provider /\ new.subject = subject /\ new.principal = p
  OBVIOUS
<1> HIDE DEF new
<1> QED BY <1>1, <1>2 DEF OrgInv, NamesAreUnambiguous

(* A human is registered as a member, bound to an external user: SCIM's      *)
(* provision_directory_human and feishu_principal.                          *)
LEMMA OpenedAccount ==
    ASSUME OrgInv, NEW p \in Humans \ Registered, NEW name, NEW user, NEW active,
           NEW provider \in Providers, NEW subject,
           PrincipalRegistered(p, name, user, NoOne, active), RoleGranted(p, "member"),
           ExternalIdentityBound(provider, subject, p, active),
           Named(name) = {} \/ name \in OpenIdNames,
           user = NoOne \/ \A q \in Registered : principals[q].user # user,
           UNCHANGED <<organization, teams>>
    PROVE  OrgInv' /\ KeepsAdmin /\ KeepsOut
<1>1. Registered' = Registered \cup {p}
  BY DEF PrincipalRegistered, Registered
<1>2. /\ \A b \in identities' \ identities : b.principal = p /\ b.provider = provider
      /\ \A b, c \in identities' : b # c /\ b.provider = c.provider =>
            b.subject # c.subject /\ b.principal # c.principal
  BY BoundIdentities
<1>3. \A b \in identities' : b.provider \in Providers /\ b.principal \in HumansIn'
  BY <1>1, <1>2 DEF OrgInv, OrgTypeOK, HumansIn
<1>4. p \in Principals /\ p \notin Agents /\ "member" \in Role
  BY KindsDiffer DEF Principals, Role
<1> QED BY <1>2, <1>3, <1>4, RegisteredKeeps

(* grant_role                                                               *)
LEMMA GrantRoleKeeps ==
    ASSUME OrgInv, NEW p, NEW role \in Role, NEW actor, GrantRole(p, role, actor)
    PROVE  OrgInv' /\ KeepsAdmin /\ KeepsOut
<1>1. /\ p \in Registered /\ RoleFits(p, role) /\ roles' = roles \cup {<<p, role>>}
      /\ UNCHANGED <<organization, teams, principals, identities>>
  BY DEF GrantRole, RoleGranted
<1>2. roles' \subseteq Registered \X Role
  BY <1>1 DEF OrgInv, OrgTypeOK
<1>3. \A q \in Agents, x \in Role : <<q, x>> \in roles' => x = "agent"
  BY <1>1 DEF OrgInv, AgentsAreAgents, HasRole, RoleFits
<1>4. KeepsAdmin
  BY <1>1 DEF KeepsAdmin, Administered, HasRole, Registered
<1> QED BY <1>1, <1>2, <1>3, <1>4, RoleStep

(* revoke_role: one of several administrators may go.                       *)
LEMMA RevokeRoleKeeps ==
    ASSUME OrgInv, NEW p, NEW role, NEW actor, RevokeRole(p, role, actor)
    PROVE  OrgInv' /\ KeepsAdmin /\ KeepsOut
<1> DEFINE admins == {q \in Registered : HasRole(q, "tenant_admin")}
<1>1. /\ <<p, role>> \in roles /\ roles' = roles \ {<<p, role>>}
      /\ UNCHANGED <<organization, teams, principals, identities>>
      /\ role = "tenant_admin" => Cardinality(admins) # 1
  BY DEF RevokeRole, RoleRevoked, HasRole
<1>2. roles' \subseteq Registered \X Role
  BY <1>1 DEF OrgInv, OrgTypeOK
<1>3. \A q \in Agents, x \in Role : <<q, x>> \in roles' => x = "agent"
  BY <1>1 DEF OrgInv, AgentsAreAgents, HasRole
<1>4. KeepsAdmin
  <2>1. CASE role # "tenant_admin"
    BY <1>1, <2>1 DEF KeepsAdmin, Administered, HasRole, Registered
  <2>2. CASE role = "tenant_admin"
    <3>1. p \in admins
      BY <1>1, <2>2 DEF OrgInv, OrgTypeOK, HasRole
    <3>2. admins # {p}
      <4> HIDE DEF admins
      <4>1. Cardinality({p}) = 1
        BY FS_Singleton, Zenon
      <4> QED BY <1>1, <2>2, <4>1
    <3>3. PICK q \in admins : q # p
      BY <3>1, <3>2
    <3>4. q \in Registered' /\ <<q, "tenant_admin">> \in roles'
      BY <1>1, <3>3 DEF HasRole, Registered
    <3> QED BY <3>4 DEF KeepsAdmin, Administered, HasRole
  <2> QED BY <2>1, <2>2
<1> QED BY <1>1, <1>2, <1>3, <1>4, RoleStep

(* migrate_legacy_authority                                                 *)
LEMMA MigrateKeeps ==
    ASSUME OrgInv, MigrateLegacyAuthority
    PROVE  OrgInv' /\ KeepsAdmin /\ KeepsOut
<1> DEFINE bare == {p \in Registered : \A role \in Role : ~HasRole(p, role)}
           adminless == \A p \in Registered : ~HasRole(p, "tenant_admin")
           given(p, e) == CASE p \in Agents -> "agent"
                            [] p \in Humans /\ p = e /\ adminless -> "tenant_admin"
                            [] OTHER -> "member"
<1>1. PICK e : roles' = roles \cup {<<p, given(p, e)>> : p \in bare}
  BY DEF MigrateLegacyAuthority
<1>2. UNCHANGED <<organization, teams, principals, identities>>
  BY DEF MigrateLegacyAuthority
<1>3. bare \subseteq Registered
  OBVIOUS
<1> HIDE DEF bare, adminless
<1>4. ASSUME NEW p \in bare
      PROVE  given(p, e) \in Role /\ (p \in Agents => given(p, e) = "agent")
  BY KindsDiffer DEF Role
<1> HIDE DEF given
<1>5. roles' \subseteq Registered \X Role
  BY <1>1, <1>3, <1>4 DEF OrgInv, OrgTypeOK
<1>6. \A q \in Agents, x \in Role : <<q, x>> \in roles' => x = "agent"
  BY <1>1, <1>4 DEF OrgInv, AgentsAreAgents, HasRole
<1>7. KeepsAdmin
  BY <1>1, <1>2 DEF KeepsAdmin, Administered, HasRole, Registered
<1> QED BY <1>2, <1>5, <1>6, <1>7, RoleStep

(* bind_external_identity: only an active account is bound.                 *)
LEMMA BindKeeps ==
    ASSUME OrgInv, NEW provider \in Providers, NEW subject, NEW p, NEW actor,
           BindExternalIdentity(provider, subject, p, actor)
    PROVE  OrgInv' /\ KeepsAdmin /\ KeepsOut
<1>1. /\ p \in Registered /\ principals[p].active /\ p \in Humans
      /\ UNCHANGED <<organization, teams, principals, roles>>
      /\ \A b \in identities' \ identities : b.principal = p /\ b.provider = provider
      /\ \A b, c \in identities' : b # c /\ b.provider = c.provider =>
            b.subject # c.subject /\ b.principal # c.principal
  BY BoundIdentities DEF BindExternalIdentity
<1>2. OrgTypeOK'
  BY <1>1 DEF OrgInv, OrgTypeOK, HumansIn, Registered
<1>3. NamesAreUnambiguous'
  BY <1>1 DEF OrgInv, NamesAreUnambiguous, Registered, OpenIdNames
<1>4. AgentsAreAgents' /\ KeepsAdmin
  BY <1>1 DEF OrgInv, AgentsAreAgents, KeepsAdmin, Administered, HasRole, Registered
<1>5. KeepsOut
  BY <1>1 DEF KeepsOut, Outside, HumansIn, Registered
<1> QED BY <1>2, <1>3, <1>4, <1>5 DEF OrgInv

(* unbind_external_identity                                                 *)
LEMMA UnbindKeeps ==
    ASSUME OrgInv, NEW b, NEW actor, UnbindExternalIdentity(b, actor)
    PROVE  /\ OrgInv' /\ KeepsAdmin /\ KeepsOut
           /\ b \in identities /\ identities' = identities \ {b} /\ UNCHANGED principals
<1>1. /\ b \in identities /\ identities' = identities \ {b}
      /\ UNCHANGED <<organization, teams, principals, roles>>
  BY DEF UnbindExternalIdentity, ExternalIdentityUnbound
<1> QED BY <1>1 DEF OrgInv, OrgTypeOK, NamesAreUnambiguous, AgentsAreAgents, KeepsAdmin,
       KeepsOut, Administered, Outside, Registered, HumansIn, HasRole, OpenIdNames

-----------------------------------------------------------------------------
(* The requests of Scim.                                                    *)

(* A commit still to be made: a deleted human stays suspended, and whoever   *)
(* is to be unbound is suspended already and the last of the series.        *)
Prepared(c) ==
    /\ c.do = "human" /\ c.p \in deleted => ~c.active
    /\ c.do = "unbind" => Len(job) = 1 /\ ~principals[c.p].active

JobFacts ==
    /\ job \in Seq({job[i] : i \in DOMAIN job})
    /\ \A i \in DOMAIN job : Prepared(job[i])

Inv ==
    /\ OrgInv
    /\ \A p \in deleted : Outside(p)
    /\ JobFacts
    /\ bootstrap \in [Humans -> 0 .. 1]
    /\ accounts \in [Subjects -> 0 .. MaxAccounts]

(* A sequence is one over its own elements.                                  *)
LEMMA SeqOfItsElements ==
    ASSUME NEW X, NEW s \in Seq(X)
    PROVE  s \in Seq({s[i] : i \in DOMAIN s})
<1>1. Len(s) \in Nat /\ DOMAIN s = 1 .. Len(s) /\ s \in [1 .. Len(s) -> X]
  OBVIOUS
<1>2. s \in [1 .. Len(s) -> {s[i] : i \in DOMAIN s}]
  BY <1>1
<1> QED BY <1>1, <1>2, SMTT(30)

(* No commit is left.                                                       *)
LEMMA NoJob ==
    ASSUME job = <<>>
    PROVE  JobFacts
BY DEF JobFacts

(* The commits a request leaves for later: moves that keep everybody's       *)
(* `active`, updates of teams, or setup.                                    *)
Harmless(c) ==
    \/ c.do = "human" /\ c.active = principals[c.p].active
    \/ c.do \in {"team", "setup"}

(* A job of commits that bind and unbind nobody respects who was deleted.   *)
LEMMA HarmlessJob ==
    ASSUME NEW A, job' \in Seq(A), \A c \in A : Harmless(c), deleted' = deleted,
           \A p \in deleted : Outside(p)
    PROVE  JobFacts'
<1>1. job' \in Seq({job'[i] : i \in DOMAIN job'})
  BY SeqOfItsElements
<1>2. \A i \in DOMAIN job' : job'[i] \in A
  OBVIOUS
<1>3. \A i \in DOMAIN job' : Prepared(job[i])'
  BY <1>2 DEF Prepared, Harmless, Outside
<1> QED BY <1>1, <1>3 DEF JobFacts

(* move_members and its kin, for finitely many people.                      *)
Moves(S, t) == {MoveAll(S, t)[i] : i \in 1 .. Cardinality(S)}

(* A change of membership moves principals between teams, one commit each.  *)
LEMMA MoveAllIsHarmless ==
    ASSUME OrgInv, NEW S, S \subseteq Registered, NEW t
    PROVE  MoveAll(S, t) \in Seq(Moves(S, t)) /\ \A c \in Moves(S, t) : Harmless(c)
<1>1. Cardinality(S) \in Nat
  <2>1. S \subseteq Principals
    BY DEF OrgInv, OrgTypeOK
  <2>2. IsFiniteSet(Principals)
    BY OrganizationAssumption DEF Principals
  <2>3. IsFiniteSet(S)
    BY <2>1, <2>2, FS_Subset, Zenon
  <2> QED BY <2>3, FS_CardinalityType, Zenon
<1> DEFINE n == Cardinality(S)
           x(i) == InOrder(S)[i]
<1>2. MoveAll(S, t) = [i \in 1 .. n |-> Move(x(i), t)]
  BY DEF MoveAll
<1>3. \A q : Move(q, t).do = "human" /\ Move(q, t).p = q /\ Move(q, t).active = principals[q].active
  BY DEF Move
<1> HIDE DEF n, x
<1>4. MoveAll(S, t) \in [1 .. n -> Moves(S, t)]
  BY <1>2 DEF Moves, n
<1>5. MoveAll(S, t) \in Seq(Moves(S, t))
  BY <1>1, <1>4 DEF n
<1>6. \A c \in Moves(S, t) : \E q : c = Move(q, t)
  BY <1>2 DEF Moves, n
<1> QED BY <1>3, <1>5, <1>6 DEF Harmless

(* A change of a team is one commit, of the team.                           *)
LEMMA SetTeamIsHarmless ==
    ASSUME NEW t, NEW name, NEW external, NEW active
    PROVE  \E A : SetTeam(t, name, external, active) \in Seq(A) /\ \A c \in A : Harmless(c)
<1> DEFINE e == [do |-> "team", t |-> t, name |-> name, external |-> external, active |-> active]
<1>1. SetTeam(t, name, external, active) = <<e>>
  BY DEF SetTeam
<1>2. e.do = "team"
  OBVIOUS
<1> HIDE DEF e
<1>3. SetTeam(t, name, external, active) \in Seq({e})
  BY <1>1
<1> QED BY <1>2, <1>3 DEF Harmless

(* Two such series, one after the other.                                    *)
LEMMA JoinedIsHarmless ==
    ASSUME NEW s, NEW u,
           \E A : s \in Seq(A) /\ \A c \in A : Harmless(c),
           \E A : u \in Seq(A) /\ \A c \in A : Harmless(c)
    PROVE  \E A : s \o u \in Seq(A) /\ \A c \in A : Harmless(c)
<1>1. PICK A : s \in Seq(A) /\ \A c \in A : Harmless(c)
  OBVIOUS
<1>2. PICK B : u \in Seq(B) /\ \A c \in B : Harmless(c)
  OBVIOUS
<1>3. s \in Seq(A \cup B) /\ u \in Seq(A \cup B)
  <2>1. Len(s) \in Nat /\ s \in [1 .. Len(s) -> A \cup B]
    BY <1>1
  <2>2. Len(u) \in Nat /\ u \in [1 .. Len(u) -> A \cup B]
    BY <1>2
  <2> QED BY <2>1, <2>2
<1>4. s \o u \in Seq(A \cup B)
  BY <1>3
<1> QED BY <1>1, <1>2, <1>4

-----------------------------------------------------------------------------
(* A request that changes the directory in one commit or not at all, or      *)
(* whose first commit is made: the rest is harmless.                        *)
LEMMA RequestInv ==
    ASSUME Inv, OrgInv', KeepsOut, UNCHANGED <<deleted, bootstrap, accounts>>,
           \/ job' = <<>>
           \/ \E A : job' \in Seq(A) /\ \A c \in A : Harmless(c)
    PROVE  Inv'
<1>1. \A p \in deleted' : Outside(p)'
  BY DEF Inv, KeepsOut
<1>2. JobFacts'
  <2>1. CASE job' = <<>>
    BY <2>1 DEF JobFacts
  <2>2. CASE \E A : job' \in Seq(A) /\ \A c \in A : Harmless(c)
    BY <2>2, HarmlessJob DEF Inv
  <2> QED BY <2>1, <2>2
<1> QED BY <1>1, <1>2 DEF Inv

(* SCIM users are registered humans.                                        *)
LEMMA ScimUsersRegistered ==
    ASSUME OrgInv
    PROVE  ScimUsers \subseteq HumansIn /\ ScimUsers \subseteq Registered
BY DEF ScimUsers, OrgInv, OrgTypeOK, HumansIn

(* SCIM creates a user: the name was free in both senses.                   *)
LEMMA CreateUserInv ==
    ASSUME Inv, NEW p, NEW name \in Names, NEW subject, NEW active,
           CreateUser(p, name, subject, active)
    PROVE  Inv' /\ KeepsAdmin
<1>1. /\ p \in Humans \ Registered /\ Named(name) = {}
      /\ \A q \in Registered : principals[q].user # name
      /\ PrincipalRegistered(p, name, name, NoOne, active) /\ RoleGranted(p, "member")
      /\ ExternalIdentityBound("oidc", subject, p, active)
      /\ UNCHANGED <<organization, teams>>
  BY DEF CreateUser, ProvisionDirectoryHuman
<1>2. OrgInv' /\ KeepsAdmin /\ KeepsOut
  BY <1>1, OpenedAccount DEF Providers, Inv
<1>3. job' = <<>> /\ UNCHANGED <<deleted, bootstrap, accounts>>
  BY DEF CreateUser, Alone, Idle
<1> QED BY <1>2, <1>3, RequestInv

(* replace_user, patch_user: of a user whom the directory still has.        *)
LEMMA UpdateUserInv ==
    ASSUME Inv, NEW p, NEW name, NEW user, NEW active, UpdateUser(p, name, user, active)
    PROVE  Inv' /\ KeepsAdmin
<1>1. /\ job' = <<>> /\ UNCHANGED <<deleted, bootstrap, accounts>> /\ p \in ScimUsers
      /\ UpdateDirectoryHuman(p, name, user, principals[p].team, active, Tower)
  BY DEF UpdateUser, Alone, Idle
<1>2. /\ OrgInv' /\ KeepsAdmin
      /\ \A q : Outside(q) /\ (q = p => ~active) => Outside(q)'
  BY <1>1, UpdateHumanKeeps DEF Inv
<1>3. ~Outside(p)
  BY <1>1 DEF ScimUsers, Outside
<1>4. KeepsOut
  BY <1>2, <1>3 DEF KeepsOut
<1> QED BY <1>1, <1>2, <1>4, RequestInv

(* The first login through Feishu takes a free name, or the open id.        *)
LEMMA FeishuLoginInv ==
    ASSUME Inv, NEW p, NEW subject \in Subjects, NEW name, FeishuLogin(p, subject, name)
    PROVE  Inv' /\ KeepsAdmin
<1> DEFINE free == AvailableName(name, subject)
<1>1. Named(free) = {} \/ free \in OpenIdNames
  BY DEF AvailableName, OpenIdNames
<1>2. /\ p \in Humans \ Registered
      /\ PrincipalRegistered(p, free, NoOne, NoOne, TRUE) /\ RoleGranted(p, "member")
      /\ ExternalIdentityBound("feishu", subject, p, TRUE)
      /\ UNCHANGED <<organization, teams, job, deleted, bootstrap>> /\ job = <<>>
      /\ accounts' = [accounts EXCEPT ![subject] = @ + 1] /\ accounts[subject] < MaxAccounts
  BY DEF FeishuLogin, Idle
<1> HIDE DEF free
<1>3. OrgInv' /\ KeepsAdmin /\ KeepsOut
  BY <1>1, <1>2, OpenedAccount DEF Providers, Inv
<1>4. accounts' \in [Subjects -> 0 .. MaxAccounts]
  BY <1>2, ScimAssumption DEF Inv
<1>5. \A q \in deleted' : Outside(q)'
  BY <1>2, <1>3 DEF Inv, KeepsOut
<1>6. JobFacts'
  BY <1>2 DEF JobFacts
<1> QED BY <1>2, <1>3, <1>4, <1>5, <1>6 DEF Inv

(* delete_user: suspended now, unbound in the commit that is left.          *)
LEMMA DeleteUserInv ==
    ASSUME Inv, NEW p, DeleteUser(p)
    PROVE  Inv' /\ KeepsAdmin
<1> DEFINE c == [do |-> "unbind", p |-> p]
<1>1. /\ UpdateDirectoryHuman(p, principals[p].name, Username(p), principals[p].team, FALSE, Tower)
      /\ job' = <<c>> /\ UNCHANGED <<deleted, bootstrap, accounts>>
  BY DEF DeleteUser, Run, rest
<1>2. /\ OrgInv' /\ KeepsAdmin /\ KeepsOut /\ ~principals'[p].active
  BY <1>1, UpdateHumanKeeps DEF Inv, KeepsOut
<1>3. c.do = "unbind" /\ c.p = p
  OBVIOUS
<1> HIDE DEF c
<1>4. \A q \in deleted' : Outside(q)'
  BY <1>1, <1>2 DEF Inv, KeepsOut
<1>5. JobFacts'
  <2>1. job' \in Seq({c}) /\ Len(job') = 1 /\ DOMAIN job' = {1} /\ job'[1] = c
    BY <1>1
  <2>2. job' \in Seq({job'[i] : i \in DOMAIN job'})
    BY <2>1, SeqOfItsElements
  <2> QED BY <1>2, <1>3, <2>1, <2>2 DEF JobFacts, Prepared
<1> QED BY <1>1, <1>2, <1>4, <1>5 DEF Inv

(* The SCIM requests about groups.                                          *)
LEMMA GroupsInv ==
    ASSUME Inv, NEW t \in Teams, NEW name, NEW external, NEW members,
           \/ CreateGroup(t, name, external, members) \/ ReplaceGroup(t, name, members)
           \/ AddMembers(t, members) \/ RemoveMembers(t, members) \/ DeleteGroup(t)
    PROVE  Inv' /\ KeepsAdmin
<1>1. \A S : S \subseteq Registered => \A u :
         \E A : MoveAll(S, u) \in Seq(A) /\ \A c \in A : Harmless(c)
  BY MoveAllIsHarmless DEF Inv
<1>2. ScimUsers \subseteq Registered /\ Members(t) \subseteq Registered
  BY ScimUsersRegistered DEF Inv, Members
<1>3. CASE CreateGroup(t, name, external, members)
  <2>1. /\ CreateTeam(t, name, Tower) /\ members \subseteq ScimUsers
        /\ job' = SetTeam(t, name, external, TRUE) \o MoveAll(members, t)
        /\ UNCHANGED <<deleted, bootstrap, accounts>>
    BY <1>3 DEF CreateGroup, Run, rest
  <2>2. OrgInv' /\ KeepsAdmin /\ KeepsOut
    BY <2>1, CreateTeamKeeps DEF Inv
  <2>3. \E A : job' \in Seq(A) /\ \A c \in A : Harmless(c)
    BY <1>1, <1>2, <2>1, SetTeamIsHarmless, JoinedIsHarmless
  <2> QED BY <2>1, <2>2, <2>3, RequestInv
<1>4. CASE ReplaceGroup(t, name, members)
  <2> DEFINE gone == (Members(t) \cap ScimUsers) \ members
  <2>1. /\ UpdateDirectoryTeam(t, name, teams[t].external, TRUE, Tower)
        /\ members \subseteq ScimUsers
        /\ job' = MoveAll(gone, NoOne) \o MoveAll(members, t)
        /\ UNCHANGED <<deleted, bootstrap, accounts>>
    BY <1>4 DEF ReplaceGroup, Run, rest
  <2>2. OrgInv' /\ KeepsAdmin /\ KeepsOut
    BY <2>1, UpdateTeamKeeps DEF Inv
  <2>3. gone \subseteq Registered /\ members \subseteq Registered
    BY <1>2, <2>1
  <2> HIDE DEF gone
  <2>4. \E A : job' \in Seq(A) /\ \A c \in A : Harmless(c)
    BY <1>1, <2>1, <2>3, JoinedIsHarmless
  <2> QED BY <2>1, <2>2, <2>4, RequestInv
<1>5. CASE AddMembers(t, members) \/ RemoveMembers(t, members)
  <2>1. /\ UNCHANGED orgVars /\ UNCHANGED <<deleted, bootstrap, accounts>>
        /\ members \subseteq ScimUsers
        /\ job' = MoveAll(members, t) \/ job' = MoveAll(members \cap Members(t), NoOne)
    BY <1>5 DEF AddMembers, RemoveMembers, Run, rest
  <2>2. OrgInv' /\ KeepsAdmin /\ KeepsOut
    BY <2>1, OrgUnchanged DEF Inv
  <2>3. members \subseteq Registered /\ members \cap Members(t) \subseteq Registered
    BY <1>2, <2>1
  <2>4. \E A : job' \in Seq(A) /\ \A c \in A : Harmless(c)
    BY <1>1, <2>1, <2>3
  <2> QED BY <2>1, <2>2, <2>4, RequestInv
<1>6. CASE DeleteGroup(t)
  <2>1. /\ UNCHANGED orgVars /\ UNCHANGED <<deleted, bootstrap, accounts>>
        /\ job' = MoveAll(Members(t), NoOne) \o SetTeam(t, teams[t].name, NoOne, FALSE)
    BY <1>6 DEF DeleteGroup, Run, rest
  <2>2. OrgInv' /\ KeepsAdmin /\ KeepsOut
    BY <2>1, OrgUnchanged DEF Inv
  <2>3. \E A : job' \in Seq(A) /\ \A c \in A : Harmless(c)
    BY <1>1, <1>2, <2>1, SetTeamIsHarmless, JoinedIsHarmless
  <2> QED BY <2>1, <2>2, <2>3, RequestInv
<1> QED BY <1>3, <1>4, <1>5, <1>6

(* Setup starts with the organisation as it is.                             *)
LEMMA StartSetupInv ==
    ASSUME Inv, NEW rotate, StartSetup(rotate)
    PROVE  Inv' /\ KeepsAdmin
<1> DEFINE c == [do |-> "setup", rotate |-> rotate]
<1>1. job' = <<c>> /\ UNCHANGED orgVars /\ UNCHANGED <<deleted, bootstrap, accounts>>
  BY DEF StartSetup, Run, rest
<1>2. c.do = "setup"
  OBVIOUS
<1> HIDE DEF c
<1>3. \E A : job' \in Seq(A) /\ \A x \in A : Harmless(x)
  <2>1. job' \in Seq({c}) /\ \A x \in {c} : Harmless(x)
    BY <1>1, <1>2 DEF Harmless
  <2> QED BY <2>1
<1>4. OrgInv' /\ KeepsAdmin /\ KeepsOut
  BY <1>1, OrgUnchanged DEF Inv
<1> QED BY <1>1, <1>3, <1>4, RequestInv

(* setup_installation: what it finds missing it creates.                    *)
LEMMA SetupCommitKeeps ==
    ASSUME OrgInv, SetupCommit
    PROVE  OrgInv' /\ KeepsAdmin /\ KeepsOut
<1>1. ASSUME NEW t \in Teams, CreateTeam(t, AdminTeam, Admin)
      PROVE  OrgInv' /\ KeepsAdmin /\ KeepsOut
  BY <1>1, CreateTeamKeeps
<1>2. ASSUME NEW p \in Humans, RegisterPrincipal(p, Admin, SetupTeam, Admin)
      PROVE  OrgInv' /\ KeepsAdmin /\ KeepsOut
  BY <1>2, RegisterPrincipalKeeps DEF Principals
<1>3. ASSUME NEW p, GrantRole(p, "tenant_admin", Admin)
      PROVE  OrgInv' /\ KeepsAdmin /\ KeepsOut
  BY <1>3, GrantRoleKeeps DEF Role
<1> QED BY <1>1, <1>2, <1>3, InitOrganizationKeeps DEF SetupCommit

(* The bootstrap token: revoked before it is issued anew.                   *)
LEMMA SetupTokenKeeps ==
    ASSUME Inv, NEW rotate, SetupToken(rotate)
    PROVE  bootstrap' \in [Humans -> 0 .. 1] /\ job' \in {job, <<>>}
<1>1. PICK p \in Registered :
       /\ SetupReady(p)
       /\ \/ /\ rotate /\ bootstrap[p] > 0
             /\ bootstrap' = [bootstrap EXCEPT ![p] = @ - 1]
             /\ job' = job
          \/ /\ bootstrap[p] = 0
             /\ bootstrap' = [bootstrap EXCEPT ![p] = @ + 1]
             /\ job' = <<>>
          \/ /\ ~rotate /\ bootstrap[p] > 0
             /\ UNCHANGED bootstrap
             /\ job' = <<>>
  BY DEF SetupToken
<1>2. p \in Humans
  BY <1>1 DEF SetupReady
<1> QED BY <1>1, <1>2 DEF Inv

(* The commits left after the first of them.                                *)
LEMMA TailOfJob ==
    ASSUME JobFacts, job # <<>>
    PROVE  /\ Head(job) = job[1] /\ 1 \in DOMAIN job
           /\ Tail(job) \in Seq({Tail(job)[i] : i \in DOMAIN Tail(job)})
           /\ \A i \in DOMAIN Tail(job) : i + 1 \in DOMAIN job /\ Tail(job)[i] = job[i + 1]
           /\ Len(job) = 1 => Tail(job) = <<>>
           /\ Len(job) \in Nat /\ DOMAIN job = 1 .. Len(job)
<1> DEFINE X == {job[i] : i \in DOMAIN job}
<1>1. job \in Seq(X)
  BY DEF JobFacts
<1> HIDE DEF X
<1>2. Tail(job) \in Seq(X)
  BY <1>1
<1>3. Tail(job) \in Seq({Tail(job)[i] : i \in DOMAIN Tail(job)})
  BY <1>2, SeqOfItsElements
<1>4. /\ Len(job) \in Nat /\ DOMAIN job = 1 .. Len(job) /\ Len(job) > 0
      /\ Len(Tail(job)) = Len(job) - 1
      /\ DOMAIN Tail(job) = 1 .. Len(job) - 1
      /\ \A i \in 1 .. Len(job) - 1 : Tail(job)[i] = job[i + 1]
  BY <1>1, <1>2
<1>5. Len(job) = 1 => Tail(job) = <<>>
  BY <1>2, <1>4
<1>6. Head(job) = job[1]
  BY <1>1
<1> QED BY <1>3, <1>4, <1>5, <1>6, SMTT(30)

(* What is left of a job after its first commit is prepared as well.        *)
LEMMA RestOfJob ==
    ASSUME JobFacts, job # <<>>, job' = Tail(job), deleted' = deleted
    PROVE  JobFacts'
<1>1. \A i \in DOMAIN job' : i + 1 \in DOMAIN job /\ job'[i] = job[i + 1]
  BY TailOfJob
<1>2. \A i \in DOMAIN job' : job'[i].do # "unbind"
  <2> SUFFICES ASSUME NEW i \in DOMAIN job', job'[i].do = "unbind" PROVE FALSE
    OBVIOUS
  <2>1. job[i + 1].do = "unbind" /\ i + 1 \in DOMAIN job
    BY <1>1
  <2>2. Len(job) = 1
    BY <2>1 DEF JobFacts, Prepared
  <2>3. job' = <<>>
    BY <2>2, TailOfJob
  <2> QED BY <2>3
<1>3. \A i \in DOMAIN job' : (job'[i].do = "human" /\ job'[i].p \in deleted') => ~job'[i].active
  BY <1>1 DEF JobFacts, Prepared
<1>4. job' \in Seq({job'[i] : i \in DOMAIN job'})
  BY TailOfJob
<1> QED BY <1>2, <1>3, <1>4 DEF JobFacts, Prepared

(* The next commit of the request under way, whichever it is.               *)
LEMMA NextCommitInv ==
    ASSUME Inv, NextCommit
    PROVE  Inv' /\ KeepsAdmin
<1> DEFINE c == Head(job)
<1>0. job # <<>> /\ JobFacts
  BY DEF NextCommit, Idle, Inv
<1>1. c = job[1] /\ Prepared(c)
  BY <1>0, TailOfJob DEF JobFacts
<1>2. CASE Commit(c) /\ job' = Tail(job) /\ UNCHANGED <<bootstrap, accounts>>
  <2>1. CASE /\ c.do = "human" /\ UNCHANGED deleted
             /\ UpdateDirectoryHuman(c.p, c.name, c.user, c.team, c.active, Tower)
    <3>1. /\ OrgInv' /\ KeepsAdmin
          /\ \A q : Outside(q) /\ (q = c.p => ~c.active) => Outside(q)'
      BY <2>1, UpdateHumanKeeps DEF Inv
    <3>2. \A q \in deleted' : Outside(q)'
      BY <1>1, <2>1, <3>1 DEF Inv, Prepared
    <3>3. JobFacts'
      BY <1>0, <1>2, <2>1, RestOfJob
    <3> QED BY <1>2, <3>1, <3>2, <3>3 DEF Inv
  <2>2. CASE /\ c.do = "team" /\ UNCHANGED deleted
             /\ UpdateDirectoryTeam(c.t, c.name, c.external, c.active, Tower)
    <3>1. OrgInv' /\ KeepsAdmin /\ KeepsOut
      BY <2>2, UpdateTeamKeeps DEF Inv
    <3>2. \A q \in deleted' : Outside(q)'
      BY <2>2, <3>1 DEF Inv, KeepsOut
    <3>3. JobFacts'
      BY <1>0, <1>2, <2>2, RestOfJob
    <3> QED BY <1>2, <3>1, <3>2, <3>3 DEF Inv
  <2>3. CASE /\ c.do = "unbind" /\ deleted' = deleted \cup {c.p}
             /\ \E b \in identities : b.provider = "oidc" /\ b.principal = c.p
                                       /\ UnbindExternalIdentity(b, Tower)
    <3>1. PICK b \in identities : b.provider = "oidc" /\ b.principal = c.p
                                    /\ UnbindExternalIdentity(b, Tower)
      BY <2>3
    <3>2. /\ OrgInv' /\ KeepsAdmin /\ KeepsOut
          /\ identities' = identities \ {b} /\ UNCHANGED principals
      BY <3>1, UnbindKeeps DEF Inv
    <3>3. PICK p : p = c.p
      OBVIOUS
    <3>4. p \in HumansIn /\ ~principals[p].active /\ Len(job) = 1
      BY <1>1, <2>3, <3>1, <3>3 DEF Inv, OrgInv, OrgTypeOK, Prepared
    <3>5. \A d \in identities' : d.principal = p => d.provider # "oidc"
      BY <3>1, <3>2, <3>3 DEF Inv, OrgInv, NamesAreUnambiguous
    <3>6. \A q \in deleted' : Outside(q)'
      <4>1. Outside(p)'
        BY <3>2, <3>4, <3>5 DEF Outside, HumansIn, Registered
      <4>2. deleted' = deleted \cup {p}
        BY <2>3, <3>3
      <4> HIDE DEF c
      <4> QED BY <3>2, <4>1, <4>2 DEF Inv, KeepsOut
    <3>7. JobFacts'
      BY <1>0, <1>2, <3>4, TailOfJob DEF JobFacts
    <3> QED BY <1>2, <3>2, <3>6, <3>7 DEF Inv
  <2> QED BY <1>2, <2>1, <2>2, <2>3 DEF Commit
<1>3. CASE c.do = "setup" /\ SetupCommit /\ UNCHANGED <<job, deleted, bootstrap, accounts>>
  <2>1. OrgInv' /\ KeepsAdmin /\ KeepsOut
    BY <1>3, SetupCommitKeeps DEF Inv
  <2>2. \A q \in deleted' : Outside(q)'
    BY <1>3, <2>1 DEF Inv, KeepsOut
  <2>3. \A i \in DOMAIN job : job[i].do # "unbind"
    BY <1>0, <1>1, <1>3, TailOfJob, SMTT(30) DEF JobFacts, Prepared
  <2>4. JobFacts'
    BY <1>3, <2>3 DEF Inv, JobFacts, Prepared
  <2> QED BY <1>3, <2>1, <2>2, <2>4 DEF Inv
<1>4. CASE /\ c.do = "setup" /\ SetupToken(c.rotate)
           /\ UNCHANGED <<organization, teams, principals, roles, identities, deleted, accounts>>
  <2>1. OrgInv' /\ KeepsAdmin /\ KeepsOut
    BY <1>4, OrgUnchanged DEF Inv, orgVars
  <2>2. \A q \in deleted' : Outside(q)'
    BY <1>4, <2>1 DEF Inv, KeepsOut
  <2>3. bootstrap' \in [Humans -> 0 .. 1] /\ job' \in {job, <<>>}
    BY <1>4, SetupTokenKeeps
  <2>4. JobFacts'
    <3>1. CASE job' = job
      BY <1>4, <3>1 DEF Inv, JobFacts, Prepared
    <3>2. CASE job' = <<>>
      BY <3>2 DEF JobFacts
    <3> QED BY <2>3, <3>1, <3>2
  <2> QED BY <1>4, <2>1, <2>2, <2>3, <2>4 DEF Inv
<1> QED BY <1>2, <1>3, <1>4 DEF NextCommit

(* A request stops between two commits.                                     *)
LEMMA AbandonInv ==
    ASSUME Inv, Abandon
    PROVE  Inv' /\ KeepsAdmin
<1>1. UNCHANGED orgVars /\ job' = <<>> /\ UNCHANGED <<deleted, bootstrap, accounts>>
  BY DEF Abandon, orgVars
<1> QED BY <1>1, OrgUnchanged, RequestInv DEF Inv

(* Every request about the directory and every commit of one.               *)
LEMMA DirectoryInv ==
    ASSUME Inv, DirectoryNext
    PROVE  Inv' /\ KeepsAdmin
<1>1. ASSUME NEW p \in Humans, NEW n \in Names, NEW s \in Subjects, NEW a \in BOOLEAN,
             CreateUser(p, n, s, a)
      PROVE  Inv' /\ KeepsAdmin
  BY <1>1, CreateUserInv
<1>2. ASSUME NEW p \in Humans, NEW n \in Names, NEW u \in Names, NEW a \in BOOLEAN,
             UpdateUser(p, n, u, a)
      PROVE  Inv' /\ KeepsAdmin
  BY <1>2, UpdateUserInv
<1>3. ASSUME NEW p \in Humans, DeleteUser(p) PROVE Inv' /\ KeepsAdmin
  BY <1>3, DeleteUserInv
<1>4. ASSUME NEW t \in Teams, NEW n \in TeamNames, NEW a \in BOOLEAN, PatchGroup(t, n, a)
      PROVE  Inv' /\ KeepsAdmin
  <2>1. /\ UpdateDirectoryTeam(t, n, teams[t].external, a, Tower)
        /\ job' = <<>> /\ UNCHANGED <<deleted, bootstrap, accounts>>
    BY <1>4 DEF PatchGroup, Alone, Idle
  <2> QED BY <2>1, UpdateTeamKeeps, RequestInv DEF Inv
<1>5. ASSUME NEW t \in Teams, NEW n, NEW x, NEW m,
             \/ CreateGroup(t, n, x, m) \/ ReplaceGroup(t, n, m)
             \/ AddMembers(t, m) \/ RemoveMembers(t, m) \/ DeleteGroup(t)
      PROVE  Inv' /\ KeepsAdmin
  BY <1>5, GroupsInv
<1>6. ASSUME NEW p \in Humans, NEW s \in Subjects, NEW n \in Names, FeishuLogin(p, s, n)
      PROVE  Inv' /\ KeepsAdmin
  BY <1>6, FeishuLoginInv
<1>7. ASSUME NEW rotate \in BOOLEAN, StartSetup(rotate) PROVE Inv' /\ KeepsAdmin
  BY <1>7, StartSetupInv
<1> QED BY <1>1, <1>2, <1>3, <1>4, <1>5, <1>6, <1>7, NextCommitInv, AbandonInv DEF DirectoryNext

(* Roles, people and teams changed by hand, and the migration of            *)
(* authority.                                                               *)
LEMMA AuthorityInv ==
    ASSUME Inv, AuthorityNext
    PROVE  Inv' /\ KeepsAdmin
<1>1. job' = <<>> /\ UNCHANGED <<deleted, bootstrap, accounts>>
  BY DEF AuthorityNext, Alone, Idle
<1>2. OrgInv
  BY DEF Inv
<1>3. CASE InitOrganization \/ MigrateLegacyAuthority
  BY <1>1, <1>2, <1>3, InitOrganizationKeeps, MigrateKeeps, RequestInv
<1>4. ASSUME NEW actor, NEW t \in Teams, NEW n, CreateTeam(t, n, actor) PROVE Inv' /\ KeepsAdmin
  BY <1>1, <1>2, <1>4, CreateTeamKeeps, RequestInv
<1>5. ASSUME NEW actor, NEW p \in Principals, NEW n, NEW t, RegisterPrincipal(p, n, t, actor)
      PROVE  Inv' /\ KeepsAdmin
  BY <1>1, <1>2, <1>5, RegisterPrincipalKeeps, RequestInv
<1>6. ASSUME NEW actor, NEW p, NEW r \in Grants, GrantRole(p, r, actor) PROVE Inv' /\ KeepsAdmin
  <2>1. r \in Role
    BY OrganizationAssumption
  <2> QED BY <1>1, <1>2, <1>6, <2>1, GrantRoleKeeps, RequestInv
<1>7. ASSUME NEW actor, NEW b \in roles, RevokeRole(b[1], b[2], actor) PROVE Inv' /\ KeepsAdmin
  BY <1>1, <1>2, <1>7, RevokeRoleKeeps, RequestInv
<1>8. ASSUME NEW actor, NEW v \in Providers, NEW s, NEW p, BindExternalIdentity(v, s, p, actor)
      PROVE  Inv' /\ KeepsAdmin
  BY <1>1, <1>2, <1>8, BindKeeps, RequestInv
<1>9. ASSUME NEW actor, NEW b, UnbindExternalIdentity(b, actor) PROVE Inv' /\ KeepsAdmin
  BY <1>1, <1>2, <1>9, UnbindKeeps, RequestInv
<1> QED BY <1>3, <1>4, <1>5, <1>6, <1>7, <1>8, <1>9 DEF AuthorityNext

-----------------------------------------------------------------------------
(* The organisation before setup.                                           *)
LEMMA InitInv ==
    ASSUME Init
    PROVE  Inv
<1>1. OrgInv
  BY DEF Init, OrgInit, OrgInv, OrgTypeOK, NamesAreUnambiguous, AgentsAreAgents, Registered,
         HumansIn, HasRole
<1>2. JobFacts
  BY NoJob DEF Init
<1> QED BY <1>1, <1>2, ScimAssumption DEF Init, Inv

(* Every step keeps the invariant and leaves an administrator.              *)
LEMMA StepInv ==
    ASSUME Inv, [Next]_vars
    PROVE  Inv' /\ KeepsAdmin
<1>1. CASE Next
  BY <1>1, DirectoryInv, AuthorityInv DEF Next
<1>2. CASE UNCHANGED vars
  <2>1. UNCHANGED orgVars /\ UNCHANGED <<job, deleted, bootstrap, accounts>>
    BY <1>2 DEF vars, orgVars
  <2>2. OrgInv' /\ KeepsAdmin /\ KeepsOut
    BY <2>1, OrgUnchanged DEF Inv
  <2>3. JobFacts'
    BY <1>2 DEF vars, Inv, JobFacts, Prepared
  <2> QED BY <2>1, <2>2, <2>3 DEF Inv, KeepsOut
<1> QED BY <1>1, <1>2

(* The inductive invariant holds in every reachable state.                  *)
THEOREM DirectoryInvariant == Spec => []Inv
BY InitInv, StepInv, PTL DEF Spec

(* A name, a userName, a group's id or a login leads to one principal or     *)
(* team, whatever registrations, renamings, logins and reorganisations came  *)
(* before, but for accounts that fell back to their open_id:                *)
(* PrincipalDirectoryUpdated, TeamDirectoryUpdated, ExternalIdentityBound.  *)
THEOREM NamesStayUnambiguous == Spec => []NamesAreUnambiguous
<1>1. Inv => NamesAreUnambiguous
  BY DEF Inv, OrgInv
<1> QED BY <1>1, DirectoryInvariant, PTL

(* Whoever was deleted through SCIM stays suspended and without a login,     *)
(* whatever request, retry or half-made series of commits follows:          *)
(* delete_user, move_members, update_directory_human.                       *)
THEOREM DeletedUsersStayOut == Spec => []DeletedStaysOut
<1>1. Inv => DeletedStaysOut
  BY DEF Inv, DeletedStaysOut, Outside
<1> QED BY <1>1, DirectoryInvariant, PTL

(* However often setup is run, rotated and killed, nobody has two bootstrap  *)
(* tokens: setup_installation.                                             *)
THEOREM AtMostOneBootstrapToken == Spec => []OneBootstrapToken
<1>1. Inv => OneBootstrapToken
  BY DEF Inv, OneBootstrapToken
<1> QED BY <1>1, DirectoryInvariant, PTL

(* A tenant that has an administrator keeps one, and agents hold no role of  *)
(* a human: revoke_role, grant_role, migrate_legacy_authority.              *)
THEOREM AnAdministratorRemains == Spec => AdministratorRemains
<1>1. Inv /\ [Next]_vars =>
        [(\E p \in Registered : HasRole(p, "tenant_admin")) =>
            /\ (\E p \in Registered : HasRole(p, "tenant_admin"))'
            /\ \A p \in Agents, role \in Role \ {"agent"} : ~HasRole(p, role)']_orgVars
  <2> SUFFICES ASSUME Inv, [Next]_vars
               PROVE  (\E p \in Registered : HasRole(p, "tenant_admin")) =>
                        /\ (\E p \in Registered : HasRole(p, "tenant_admin"))'
                        /\ \A p \in Agents, role \in Role \ {"agent"} : ~HasRole(p, role)'
    OBVIOUS
  <2>1. Inv' /\ KeepsAdmin
    BY StepInv
  <2> QED BY <2>1 DEF KeepsAdmin, Administered, Inv, OrgInv, AgentsAreAgents
<1> QED BY <1>1, DirectoryInvariant, PTL DEF Spec, AdministratorRemains

=============================================================================
