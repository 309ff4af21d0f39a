------------------------------ MODULE Sessions ------------------------------
(***************************************************************************)
(* Tokens and browser sessions over the replicas of the control plane       *)
(* (application/app/credentials.rs, adapters/{identity,feishu_auth}.rs, the *)
(* handlers of interfaces/server.rs).  A credential lives in two places     *)
(* that no transaction joins: a row with the token's hash in the store, and *)
(* events in the ledger, of which every replica has its own projection.     *)
(* A replica's handlers hold its application lock; the other replicas, and  *)
(* the store, move between any two store calls of one handler.             *)
(***************************************************************************)
EXTENDS Naturals, FiniteSets

CONSTANTS
    Replicas, Users, Tokens, Slots,  \* Slots: requests under way
    Employees,                       \* users of the allowed Feishu enterprises
    NoOne,
    MaxCommits,                      \* bound: commits to the ledger
    MaxLogins                        \* bound: logins the browser begins

Providers == {"oidc", "feishu"}
Labels == {"session", "api"}

ASSUME SessionsAssumption == MaxCommits \in Nat /\ MaxLogins \in Nat /\ Employees \subseteq Users

VARIABLES
    ledger,     \* the committed state: [seq, users, creds]
    cache,      \* per replica: the projection it works on
    rows,       \* the store's table: token -> none, valid, revoked
    expired,    \* tokens past their expires_at
    op,         \* per replica: the handler inside the lock
    request,    \* per slot: the request between middleware and handler
    served,     \* the tokens that authenticated, and whether they had been good
                \* at any moment since the request's middleware ran
    pending,    \* per provider: the browser's state cookie
    loggedOut   \* tokens whose logout was answered 204

vars == <<ledger, cache, rows, expired, op, request, served, pending, loggedOut>>

NoCred == [status |-> "none", user |-> NoOne, label |-> "none"]
UserStatus == {"absent", "active", "suspended"}

(* ApiCredential::is_active and the principal's `active`, in some state.    *)
Live(state, c) ==
    /\ state.creds[c].status = "live"
    /\ c \notin expired
    /\ state.users[state.creds[c].user] = "active"

(* authenticate_credential: the row, by the hash of the token.              *)
RowValid(c) == rows[c] = "valid" /\ c \notin expired

(* Mutant of Authenticates: the row alone decides.                          *)
AuthenticatesByRow(r, c) == RowValid(c)

(* authenticate_api_token                                                   *)
Authenticates(r, c) == RowValid(c) /\ Live(cache[r], c)

Free(r) == op[r].step = "idle"
Idle == [step |-> "idle"]
Enter(r, o) == op' = [op EXCEPT ![r] = o]

-----------------------------------------------------------------------------
(* commit on a replica: on the head it knows, or a conflict and a reload.   *)
Current(r) == cache[r].seq = ledger.seq

(* What the requests under way may have seen of the ledger.                 *)
Observe == request' = [s \in Slots |->
    IF request[s] = NoOne THEN NoOne
    ELSE [request[s] EXCEPT !.live = @ \/ Live(ledger', request[s].token)]]

Commit(r, state) ==
    /\ Current(r)
    /\ ledger.seq < MaxCommits
    /\ ledger' = [state EXCEPT !.seq = @ + 1]
    /\ cache' = [cache EXCEPT ![r] = ledger']
    /\ Observe

Conflict(r) ==
    /\ ~Current(r)
    /\ cache' = [cache EXCEPT ![r] = ledger]
    /\ UNCHANGED <<ledger, request>>

(* refresh_shared_state, with the PostgreSQL store                          *)
Refresh(r) == cache' = [cache EXCEPT ![r] = ledger]

-----------------------------------------------------------------------------
(* A request to /api: refresh_shared_ledger takes the lock and releases it; *)
(* the handler takes it again and authenticates (mutate, authenticate).     *)

Arrive(s, r, c) ==
    /\ request[s] = NoOne
    /\ Free(r)
    /\ Refresh(r)
    /\ request' = [request EXCEPT ![s] = [at |-> r, token |-> c, live |-> Live(ledger, c)]]
    /\ UNCHANGED <<ledger, rows, expired, op, served, pending, loggedOut>>

Handle(s) ==
    /\ request[s] # NoOne
    /\ Free(request[s].at)
    /\ served' = IF Authenticates(request[s].at, request[s].token)
                 THEN served \cup {[token |-> request[s].token, live |-> request[s].live]}
                 ELSE served
    /\ request' = [request EXCEPT ![s] = NoOne]
    /\ UNCHANGED <<ledger, cache, rows, expired, op, pending, loggedOut>>

(* The SCIM requests: provision, suspend and reactivate a human.            *)
SetUser(r, u, status) ==
    /\ Free(r) /\ Current(r)
    /\ ledger.users[u] # status /\ status # "absent"
    /\ Commit(r, [ledger EXCEPT !.users[u] = status])
    /\ UNCHANGED <<rows, expired, op, served, pending, loggedOut>>

-----------------------------------------------------------------------------
(* Signing in.  The login handler stores the signed state in the browser's *)
(* cookie, one per provider; the state is good for ten minutes.            *)
Begin(provider) ==
    /\ pending[provider].state < MaxLogins
    /\ pending' = [pending EXCEPT ![provider] = [state |-> @.state + 1, open |-> TRUE]]
    /\ UNCHANGED <<ledger, cache, rows, expired, op, request, served, loggedOut>>

OidcLogin == Begin("oidc")
FeishuLogin == Begin("feishu")

LoginExpires(provider) ==
    /\ pending[provider].open
    /\ pending' = [pending EXCEPT ![provider].open = FALSE]
    /\ UNCHANGED <<ledger, cache, rows, expired, op, request, served, loggedOut>>

(* decode_state and the comparison that follows it, in each provider        *)
OidcStateAccepted(state) == pending["oidc"].open /\ pending["oidc"].state = state
FeishuStateAccepted(state) == pending["feishu"].open /\ pending["feishu"].state = state

(* complete_login of Feishu: exchange_code and fetch_user_info name the     *)
(* user, who must belong to an allowed enterprise.                         *)
FeishuIdentity(state, u) == FeishuStateAccepted(state) /\ u \in Employees

(* oidc_principal: bound, human and active in the replica's cache, which   *)
(* the middleware does not refresh for /auth.                              *)
KnownActive(r, u) == cache[r].users[u] = "active"

OidcCallback(r, u, state) ==
    /\ Free(r)
    /\ OidcStateAccepted(state)
    /\ KnownActive(r, u)
    /\ Enter(r, [step |-> "insert", user |-> u, label |-> "session", token |-> NoOne])
    /\ pending' = [pending EXCEPT !["oidc"].open = FALSE]
    /\ UNCHANGED <<ledger, cache, rows, expired, request, served, loggedOut>>

(* feishu_principal: an unknown identity is registered first.               *)
FeishuCallback(r, u, state) ==
    /\ Free(r)
    /\ FeishuIdentity(state, u)
    /\ \/ /\ KnownActive(r, u)
          /\ Enter(r, [step |-> "insert", user |-> u, label |-> "session", token |-> NoOne])
          /\ UNCHANGED <<ledger, cache, request>>
       \/ /\ cache[r].users[u] = "absent"
          /\ Commit(r, [ledger EXCEPT !.users[u] = "active"])
          /\ Enter(r, [step |-> "insert", user |-> u, label |-> "session", token |-> NoOne])
       \/ /\ cache[r].users[u] = "absent"
          /\ Conflict(r)
          /\ UNCHANGED op
    /\ pending' = [pending EXCEPT !["feishu"].open = FALSE]
    /\ UNCHANGED <<rows, expired, served, loggedOut>>

-----------------------------------------------------------------------------
(* issue_credential_until: the row first, then the event.                   *)

(* issue_principal_credential: an API token, for a suspended human as well. *)
StartIssue(r, u) ==
    /\ Free(r)
    /\ cache[r].users[u] # "absent"
    /\ Enter(r, [step |-> "insert", user |-> u, label |-> "api", token |-> NoOne])
    /\ UNCHANGED <<ledger, cache, rows, expired, request, served, pending, loggedOut>>

InsertRow(r) ==
    /\ op[r].step = "insert"
    /\ \E c \in Tokens :
          /\ rows[c] = "none" /\ ledger.creds[c] = NoCred
          /\ \A q \in Replicas : op[q].step = "issue" => op[q].token # c
          /\ rows' = [rows EXCEPT ![c] = "valid"]
          /\ Enter(r, [op[r] EXCEPT !.step = "issue", !.token = c])
    /\ UNCHANGED <<ledger, cache, expired, request, served, pending, loggedOut>>

(* ApiCredentialIssued and ApiCredentialRevoked                             *)
Issued(state, c, o) ==
    [state EXCEPT !.creds[c] = [status |-> "live", user |-> o.user, label |-> o.label]]
Revoked(state, c) == [state EXCEPT !.creds[c].status = "revoked"]

(* Mutant of IssueCommit: does not look at the head.                        *)
IssueCommitBlind(r) ==
    /\ op[r].step = "issue"
    /\ ledger.seq < MaxCommits
    /\ ledger' = [Issued(ledger, op[r].token, op[r]) EXCEPT !.seq = @ + 1]
    /\ cache' = [cache EXCEPT ![r] = ledger']
    /\ Observe
    /\ Enter(r, Idle)
    /\ UNCHANGED <<rows, expired, served, pending, loggedOut>>

IssueCommit(r) ==
    /\ op[r].step = "issue"
    /\ Commit(r, Issued(ledger, op[r].token, op[r]))
    /\ Enter(r, Idle)
    /\ UNCHANGED <<rows, expired, served, pending, loggedOut>>

(* The commit is refused: the row is deleted, or the deletion fails too.    *)
IssueRefused(r) ==
    /\ op[r].step = "issue"
    /\ Conflict(r)
    /\ rows' \in {rows, [rows EXCEPT ![op[r].token] = "none"]}
    /\ Enter(r, Idle)
    /\ UNCHANGED <<expired, served, pending, loggedOut>>

-----------------------------------------------------------------------------
(* Revocation: the event first, then the row.                               *)

(* revoke_api_credential                                                    *)
RevokeCredential(r, c) ==
    /\ Free(r)
    /\ cache[r].creds[c].status = "live" /\ c \notin expired
    /\ \/ /\ Commit(r, Revoked(ledger, c))
          /\ Enter(r, [step |-> "revoke", token |-> c, answer |-> FALSE])
       \/ /\ Conflict(r)
          /\ UNCHANGED op
    /\ UNCHANGED <<rows, expired, served, pending, loggedOut>>

(* revoke_oidc_session, behind POST /auth/logout: without a valid row, or   *)
(* with a credential this replica has not heard of, it answers 204 at once. *)
Logout(r, c) ==
    /\ Free(r)
    /\ \/ /\ ~RowValid(c) \/ cache[r].creds[c] = NoCred
          /\ loggedOut' = loggedOut \cup {c}
          /\ UNCHANGED <<ledger, cache, op, request>>
       \/ /\ RowValid(c)
          /\ cache[r].creds[c].label = "session"
          /\ \/ /\ Commit(r, Revoked(ledger, c))
                /\ Enter(r, [step |-> "revoke", token |-> c, answer |-> TRUE])
             \/ /\ Conflict(r)
                /\ UNCHANGED op
          /\ UNCHANGED loggedOut
    /\ UNCHANGED <<rows, expired, served, pending>>

(* revoke_credential of the store; a row that is revoked already is an error.*)
RevokeRow(r) ==
    /\ op[r].step = "revoke"
    /\ rows' = [rows EXCEPT ![op[r].token] = IF @ = "valid" THEN "revoked" ELSE @]
    /\ loggedOut' = IF op[r].answer /\ rows[op[r].token] = "valid"
                    THEN loggedOut \cup {op[r].token} ELSE loggedOut
    /\ Enter(r, Idle)
    /\ UNCHANGED <<ledger, cache, expired, request, served, pending>>

Expire(c) ==
    /\ c \notin expired
    /\ rows[c] # "none"
    /\ expired' = expired \cup {c}
    /\ UNCHANGED <<ledger, cache, rows, op, request, served, pending, loggedOut>>

(* A replica dies inside a handler and opens again from the ledger.         *)
Crash(r) ==
    /\ ~Free(r)
    /\ Enter(r, Idle)
    /\ Refresh(r)
    /\ request' = [s \in Slots |->
                     IF request[s] # NoOne /\ request[s].at = r THEN NoOne ELSE request[s]]
    /\ UNCHANGED <<ledger, rows, expired, served, pending, loggedOut>>

-----------------------------------------------------------------------------
Empty == [seq |-> 0, users |-> [u \in Users |-> "absent"], creds |-> [c \in Tokens |-> NoCred]]

Init ==
    /\ ledger = Empty
    /\ cache = [r \in Replicas |-> Empty]
    /\ rows = [c \in Tokens |-> "none"]
    /\ expired = {}
    /\ op = [r \in Replicas |-> Idle]
    /\ request = [s \in Slots |-> NoOne]
    /\ served = {}
    /\ pending = [p \in Providers |-> [state |-> 0, open |-> FALSE]]
    /\ loggedOut = {}

SignIn ==
    \/ OidcLogin \/ FeishuLogin \/ \E p \in Providers : LoginExpires(p)
    \/ \E r \in Replicas, u \in Users, n \in 1..MaxLogins :
          OidcCallback(r, u, n) \/ FeishuCallback(r, u, n)

Next ==
    \/ \E s \in Slots, r \in Replicas, c \in Tokens : Arrive(s, r, c)
    \/ \E s \in Slots : Handle(s)
    \/ \E r \in Replicas, u \in Users, x \in UserStatus : SetUser(r, u, x)
    \/ SignIn
    \/ \E r \in Replicas, u \in Users : StartIssue(r, u)
    \/ \E r \in Replicas : InsertRow(r) \/ IssueCommit(r) \/ IssueRefused(r)
    \/ \E r \in Replicas, c \in Tokens : RevokeCredential(r, c) \/ Logout(r, c)
    \/ \E r \in Replicas : RevokeRow(r) \/ Crash(r)
    \/ \E c \in Tokens : Expire(c)

Spec == Init /\ [][Next]_vars

-----------------------------------------------------------------------------
State == [seq : 0..MaxCommits, users : [Users -> UserStatus],
          creds : [Tokens -> {NoCred} \cup [status : {"live", "revoked"}, user : Users,
                                            label : Labels]]]

TypeOK ==
    /\ ledger \in State
    /\ cache \in [Replicas -> State]
    /\ rows \in [Tokens -> {"none", "valid", "revoked"}]
    /\ expired \subseteq Tokens /\ loggedOut \subseteq Tokens

(* A token that authenticates was good when the request arrived, or became *)
(* so since: issued by a committed event, not revoked, not expired, its     *)
(* holder not suspended (docs/IDENTITY.md: sessions end at the next request).*)
(* Neither a row whose event was never committed nor one left valid by a    *)
(* crash in the middle of a revocation lets anybody in.                    *)
ServedWasLive == \A x \in served : x.live

(* A browser session is only ever given to a human who is active in the    *)
(* ledger at that moment, although the replica that gives it looked the     *)
(* human up in a cache that nobody refreshed.                              *)
SessionsGoToActiveHumans ==
    [][\A c \in Tokens :
          (ledger.creds[c] = NoCred /\ ledger'.creds[c].label = "session")
             => ledger'.users[ledger'.creds[c].user] = "active"]_vars

(* docs/IDENTITY.md: "POST /auth/logout revokes the session on the server,  *)
(* and does not only delete the browser's cookie".                         *)
LogoutEndsTheSession ==
    \A c \in loggedOut : ledger.creds[c].label = "session" => ~(RowValid(c) /\ Live(ledger, c))
=============================================================================
