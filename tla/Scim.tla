-------------------------------- MODULE Scim --------------------------------
(***************************************************************************)
(* The directory and the logins on top of module Organization: SCIM users  *)
(* and groups (interfaces/scim.rs), the accounts a Feishu login opens      *)
(* (application/app/directory.rs) and `relay setup`                        *)
(* (application/app/setup.rs).                                             *)
(*                                                                         *)
(* Several of these requests are a series of commits with no transaction    *)
(* around it.  The commits still to make are `job`: the process may die or  *)
(* lose a commit to another process between any two of them, and then the  *)
(* rest is never made (Abandon); while the series runs nobody else commits, *)
(* for that would be the lost race.                                        *)
(***************************************************************************)
EXTENDS Organization, SequencesExt

CONSTANTS
    AdminTeam,      \* the team name given to setup
    MaxAccounts     \* bound: accounts one Feishu identity opens

ASSUME ScimAssumption == AdminTeam \in TeamNames /\ MaxAccounts \in Nat

VARIABLES
    job,            \* the commits the running request still has to make
    deleted,        \* humans whose SCIM DELETE was answered 204
    bootstrap,      \* active "bootstrap-admin" credentials of a human
    accounts        \* accounts opened so far for a Feishu identity

vars == <<organization, teams, principals, roles, identities,
          job, deleted, bootstrap, accounts>>
rest == <<deleted, bootstrap, accounts>>

Idle == job = <<>>

(* A SCIM user is a principal with an active oidc binding: user_binding.    *)
ScimUsers == {b.principal : b \in {c \in identities : c.provider = "oidc"}}
Username(p) == IF principals[p].user = NoOne THEN principals[p].name ELSE principals[p].user
Members(t) == {p \in Registered : principals[p].team = t}
InOrder(S) == SetToSortSeq(S, <)

(* Mutant of Move: a change of team makes the account active.                *)
MoveActivated(p, t) == [do |-> "human", p |-> p, name |-> principals[p].name,
                        user |-> Username(p), team |-> t, active |-> TRUE]

(* update_directory_human, update_directory_team and                       *)
(* unbind_external_identity as commits still to be made by "tower://scim"  *)
Move(p, t) == [do |-> "human", p |-> p, name |-> principals[p].name,
               user |-> Username(p), team |-> t, active |-> principals[p].active]

MoveAll(S, t) == [i \in 1..Cardinality(S) |-> Move(InOrder(S)[i], t)]
SetTeam(t, name, external, active) ==
    <<[do |-> "team", t |-> t, name |-> name, external |-> external, active |-> active]>>

Run(commits) == job' = commits /\ UNCHANGED rest
Alone == Idle /\ UNCHANGED <<job, deleted, bootstrap, accounts>>

-----------------------------------------------------------------------------
(* Operations of one commit.                                                *)

CreateUser(p, name, subject, active) ==
    /\ Alone
    /\ ProvisionDirectoryHuman(p, name, name, subject, active, Tower)

(* replace_user and patch_user: any of name, userName and active.           *)
UpdateUser(p, name, user, active) ==
    /\ Alone
    /\ p \in ScimUsers
    /\ UpdateDirectoryHuman(p, name, user, principals[p].team, active, Tower)

(* patch_group, replace displayName / active                                *)
PatchGroup(t, name, active) ==
    /\ Alone
    /\ t \in DOMAIN teams
    /\ UpdateDirectoryTeam(t, name, teams[t].external, active, Tower)

(* feishu_principal: an unknown open_id opens an account under a free name. *)
AvailableName(name, subject) ==
    LET taken(n) == Named(n) # {}
    IN IF ~taken(name) THEN name
       ELSE IF ~taken(name \o <<subject>>) THEN name \o <<subject>>
       ELSE <<subject>>

FeishuLogin(p, subject, name) ==
    /\ Idle
    /\ organization
    /\ Bound("feishu", subject) = {}
    /\ accounts[subject] < MaxAccounts
    /\ p \in Humans \ Registered
    /\ PrincipalRegistered(p, AvailableName(name, subject), NoOne, NoOne, TRUE)
    /\ RoleGranted(p, "member")
    /\ ExternalIdentityBound("feishu", subject, p, TRUE)
    /\ accounts' = [accounts EXCEPT ![subject] = @ + 1]
    /\ UNCHANGED <<organization, teams, job, deleted, bootstrap>>

-----------------------------------------------------------------------------
(* Operations of several commits: the first is made, the others wait.       *)

(* delete_user: suspend, then unbind.                                       *)
DeleteUser(p) ==
    /\ Idle
    /\ p \in ScimUsers
    /\ UpdateDirectoryHuman(p, principals[p].name, Username(p), principals[p].team, FALSE, Tower)
    /\ Run(<<[do |-> "unbind", p |-> p]>>)

(* create_group: create the team, give it its external id, assign members.  *)
CreateGroup(t, name, external, members) ==
    /\ Idle
    /\ members \subseteq ScimUsers
    /\ \A u \in DOMAIN teams : external # NoOne => teams[u].external # external
    /\ CreateTeam(t, name, Tower)
    /\ Run(SetTeam(t, name, external, TRUE) \o MoveAll(members, t))

(* replace_group: rename and reactivate, then remove, then assign.          *)
ReplaceGroup(t, name, members) ==
    /\ Idle
    /\ members \subseteq ScimUsers
    /\ t \in DOMAIN teams
    /\ UpdateDirectoryTeam(t, name, teams[t].external, TRUE, Tower)
    /\ Run(MoveAll((Members(t) \cap ScimUsers) \ members, NoOne) \o MoveAll(members, t))

(* patch_group, add / remove members                                        *)
AddMembers(t, members) ==
    /\ Idle
    /\ t \in DOMAIN teams
    /\ members \subseteq ScimUsers
    /\ UNCHANGED orgVars
    /\ Run(MoveAll(members, t))

RemoveMembers(t, members) ==
    /\ Idle
    /\ t \in DOMAIN teams
    /\ members \subseteq ScimUsers
    /\ UNCHANGED orgVars
    /\ Run(MoveAll(members \cap Members(t), NoOne))

(* delete_group: everybody leaves, then the team is closed.                 *)
DeleteGroup(t) ==
    /\ Idle
    /\ t \in DOMAIN teams
    /\ UNCHANGED orgVars
    /\ Run(MoveAll(Members(t), NoOne) \o SetTeam(t, teams[t].name, NoOne, FALSE))

-----------------------------------------------------------------------------
(* setup_installation: each step finds what is there or creates it, all as *)
(* "admin"; a token is issued if there is none, or in place of the old one. *)

SetupTeam == CHOOSE t \in TeamsNamed(AdminTeam) : TRUE
SetupReady(p) == p \in Named(Admin)
                 /\ p \in Humans /\ principals[p].active
                 /\ TeamsNamed(AdminTeam) # {}
                 /\ teams[SetupTeam].active
                 /\ principals[p].team = SetupTeam
                 /\ HasRole(p, "tenant_admin")

StartSetup(rotate) ==
    /\ Idle
    /\ UNCHANGED orgVars
    /\ Run(<<[do |-> "setup", rotate |-> rotate]>>)

SetupCommit ==
    \/ InitOrganization
    \/ organization /\ \E t \in Teams : CreateTeam(t, AdminTeam, Admin)
    \/ /\ TeamsNamed(AdminTeam) # {} /\ teams[SetupTeam].active
       /\ \E p \in Humans : RegisterPrincipal(p, Admin, SetupTeam, Admin)
    \/ /\ TeamsNamed(AdminTeam) # {} /\ teams[SetupTeam].active
       /\ \E p \in Named(Admin) \cap Humans :
             /\ principals[p].active
             /\ principals[p].team = SetupTeam
             /\ GrantRole(p, "tenant_admin", Admin)

(* Mutant of SetupToken: rotation issues before it revokes.                  *)
SetupTokenFirst(rotate) ==
    \E p \in Registered :
       /\ SetupReady(p)
       /\ bootstrap' = [bootstrap EXCEPT ![p] = IF rotate THEN @ + 1 ELSE @]
       /\ job' = <<>>

SetupToken(rotate) ==
    \E p \in Registered :
       /\ SetupReady(p)
       /\ \/ /\ rotate /\ bootstrap[p] > 0
             /\ bootstrap' = [bootstrap EXCEPT ![p] = @ - 1]
             /\ job' = job
          \/ /\ bootstrap[p] = 0
             /\ bootstrap' = [bootstrap EXCEPT ![p] = @ + 1]
             /\ job' = <<>>
          \/ /\ ~rotate /\ bootstrap[p] > 0
             /\ UNCHANGED bootstrap
             /\ job' = <<>>

-----------------------------------------------------------------------------
(* The next commit of the running request, or its failure.                  *)

Commit(c) ==
    \/ c.do = "human" /\ UpdateDirectoryHuman(c.p, c.name, c.user, c.team, c.active, Tower)
                      /\ UNCHANGED deleted
    \/ c.do = "team" /\ UpdateDirectoryTeam(c.t, c.name, c.external, c.active, Tower)
                     /\ UNCHANGED deleted
    \/ c.do = "unbind" /\ \E b \in identities :
                             b.provider = "oidc" /\ b.principal = c.p
                             /\ UnbindExternalIdentity(b, Tower)
                       /\ deleted' = deleted \cup {c.p}

NextCommit ==
    /\ ~Idle
    /\ \/ /\ Commit(Head(job))
          /\ job' = Tail(job)
          /\ UNCHANGED <<bootstrap, accounts>>
       \/ /\ Head(job).do = "setup"
          /\ SetupCommit
          /\ UNCHANGED <<job, deleted, bootstrap, accounts>>
       \/ /\ Head(job).do = "setup"
          /\ SetupToken(Head(job).rotate)
          /\ UNCHANGED <<organization, teams, principals, roles, identities, deleted, accounts>>

(* A crash, a commit lost to another process, or a step that is refused.    *)
Abandon ==
    /\ ~Idle
    /\ job' = <<>>
    /\ UNCHANGED <<organization, teams, principals, roles, identities,
                   deleted, bootstrap, accounts>>

-----------------------------------------------------------------------------
Init ==
    /\ OrgInit
    /\ job = <<>>
    /\ deleted = {}
    /\ bootstrap = [p \in Humans |-> 0]
    /\ accounts = [s \in Subjects |-> 0]

Actors == Names \cup {Admin}
GroupMembers == SUBSET (Humans \cap ScimUsers)

DirectoryNext ==
    \/ \E p \in Humans, n \in Names, s \in Subjects, a \in BOOLEAN : CreateUser(p, n, s, a)
    \/ \E p \in Humans, n, u \in Names, a \in BOOLEAN : UpdateUser(p, n, u, a)
    \/ \E p \in Humans : DeleteUser(p)
    \/ \E t \in Teams, n \in TeamNames, a \in BOOLEAN : PatchGroup(t, n, a)
    \/ \E t \in Teams, n \in TeamNames, x \in Subjects \cup {NoOne}, m \in GroupMembers :
          CreateGroup(t, n, x, m)
    \/ \E t \in Teams, n \in TeamNames, m \in GroupMembers : ReplaceGroup(t, n, m)
    \/ \E t \in Teams, m \in GroupMembers : AddMembers(t, m) \/ RemoveMembers(t, m)
    \/ \E t \in Teams : DeleteGroup(t)
    \/ \E p \in Humans, s \in Subjects, n \in Names : FeishuLogin(p, s, n)
    \/ \E rotate \in BOOLEAN : StartSetup(rotate)
    \/ NextCommit
    \/ Abandon

AuthorityNext ==
    \/ Alone /\ InitOrganization
    \/ Alone /\ MigrateLegacyAuthority
    \/ \E actor \in Actors :
         \/ \E t \in Teams, n \in TeamNames : Alone /\ CreateTeam(t, n, actor)
         \/ \E p \in Principals, n \in Names, t \in Teams \cup {NoOne} :
               Alone /\ RegisterPrincipal(p, n, t, actor)
         \/ \E p \in Principals, r \in Grants : Alone /\ GrantRole(p, r, actor)
         \/ \E b \in roles : Alone /\ RevokeRole(b[1], b[2], actor)
         \/ \E v \in Providers, s \in Subjects, p \in Humans :
               Alone /\ BindExternalIdentity(v, s, p, actor)
         \/ \E b \in identities : Alone /\ UnbindExternalIdentity(b, actor)

Next == DirectoryNext \/ AuthorityNext

Spec == Init /\ [][Next]_vars

-----------------------------------------------------------------------------
TypeOK ==
    /\ OrgTypeOK
    /\ deleted \subseteq HumansIn
    /\ bootstrap \in [Humans -> Nat]
    /\ accounts \in [Subjects -> 0..MaxAccounts]

(* A user the directory has deleted never acts again: whatever request,    *)
(* retry or half-made series of commits follows, the account stays         *)
(* suspended and no identity leads to it.                                  *)
DeletedStaysOut ==
    \A p \in deleted :
       /\ ~principals[p].active
       /\ \A b \in identities : b.principal = p => b.provider # "oidc"

(* Setup may be run again after any crash: it leaves the administrator one *)
(* bootstrap token, never two, whether it found the old one, replaced it   *)
(* or died between revoking and issuing.                                   *)
OneBootstrapToken == \A p \in Humans : bootstrap[p] <= 1
=============================================================================
