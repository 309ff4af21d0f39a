--------------------------- MODULE SessionsProofs ---------------------------
(***************************************************************************)
(* Proofs about Sessions and Fleet, for any number of replicas, users,     *)
(* tokens, requests and tenants and for every bound.                       *)
(*                                                                         *)
(* Two arguments carry the results.  A request that waits has seen          *)
(* everything its handler may rely on: whatever the ledger or the cache of  *)
(* its replica calls live was live at some moment since the middleware ran  *)
(* (RequestsSaw).  And a cache whose sequence number is the ledger's is the *)
(* ledger (CachesBehind), so the head check of a commit vouches for the     *)
(* lookup that was made on the cache (SessionsForActive).                   *)
(*                                                                         *)
(* For the fleet: until the cutover PostgreSQL holds, of each tenant that   *)
(* SQLite may have, an earlier state (TargetBehind), so that a copy whose   *)
(* counts agree is the present state.                                      *)
(***************************************************************************)
EXTENDS Sessions, Fleet, TLAPS

(* A request between its middleware and its handler.                        *)
Waiting == [at : Replicas, token : Tokens, live : BOOLEAN]

RequestsSaw ==
    \A s \in Slots : request[s] # NoOne =>
        /\ request[s] \in Waiting
        /\ Live(ledger, request[s].token) => request[s].live
        /\ Live(cache[request[s].at], request[s].token) => request[s].live

(* What the handler inside a replica's lock holds.                          *)
Holding(r) ==
    /\ op[r].step \in {"idle", "insert", "issue", "revoke"}
    /\ op[r].step \in {"insert", "issue"} =>
          op[r] \in [step : {"insert", "issue"}, user : Users, label : Labels,
                     token : Tokens \cup {NoOne}]
    /\ op[r].step = "issue" => op[r].token \in Tokens
    /\ op[r].step = "revoke" => op[r] \in [step : {"revoke"}, token : Tokens, answer : BOOLEAN]

Types ==
    /\ TypeOK
    /\ request \in [Slots -> {NoOne} \cup Waiting]
    /\ DOMAIN op = Replicas
    /\ \A r \in Replicas : Holding(r)

Behind(r) == cache[r].seq <= ledger.seq /\ (cache[r].seq = ledger.seq => cache[r] = ledger)

CachesBehind == \A r \in Replicas : Behind(r)

(* A session on its way goes to a human whom the replica's cache, which     *)
(* nobody touches under the handler, still shows as active.                 *)
ForActive(r) ==
    (op[r].step \in {"insert", "issue"} /\ op[r].label = "session")
        => cache[r].users[op[r].user] = "active"

SessionsForActive == \A r \in Replicas : ForActive(r)

Inv ==
    /\ Types
    /\ CachesBehind
    /\ RequestsSaw
    /\ SessionsForActive
    /\ ServedWasLive

-----------------------------------------------------------------------------
(* What a commit that finds its head does to the state of all replicas.     *)
LEMMA CommitKeeps ==
    ASSUME Types, CachesBehind, RequestsSaw, expired' = expired,
           NEW r \in Replicas, NEW state \in State, state.seq = ledger.seq, Commit(r, state)
    PROVE  /\ ledger' \in State
           /\ cache' \in [Replicas -> State]
           /\ cache' = [cache EXCEPT ![r] = ledger']
           /\ cache'[r] = ledger'
           /\ \A q \in Replicas \ {r} : cache'[q] = cache[q]
           /\ request' \in [Slots -> {NoOne} \cup Waiting]
           /\ CachesBehind'
           /\ RequestsSaw'
<1> USE DEF Types, TypeOK
<1>1. ledger' = [state EXCEPT !.seq = @ + 1]  /\  ledger.seq < MaxCommits
  BY DEF Commit
<1>2. /\ ledger' \in State
      /\ ledger'.seq = ledger.seq + 1
  <2>1. state.seq + 1 \in 0 .. MaxCommits
    BY <1>1, SessionsAssumption DEF State
  <2> QED BY <1>1, <2>1 DEF State
<1>3. cache' = [cache EXCEPT ![r] = ledger']
  BY DEF Commit
<1>4. /\ cache' \in [Replicas -> State]
      /\ cache'[r] = ledger'
      /\ \A q \in Replicas \ {r} : cache'[q] = cache[q]
  BY <1>2, <1>3
<1>5. request' = [s \in Slots |->
          IF request[s] = NoOne THEN NoOne
          ELSE [request[s] EXCEPT !.live = @ \/ Live(ledger', request[s].token)]]
  BY DEF Commit, Observe
<1>6. \A s \in Slots : request[s] # NoOne =>
          /\ request'[s] \in Waiting
          /\ request'[s].at = request[s].at
          /\ request'[s].token = request[s].token
          /\ request'[s].live = (request[s].live \/ Live(ledger', request[s].token))
  <2> SUFFICES ASSUME NEW s \in Slots, request[s] # NoOne
               PROVE  /\ request'[s] \in Waiting
                      /\ request'[s].at = request[s].at
                      /\ request'[s].token = request[s].token
                      /\ request'[s].live = (request[s].live \/ Live(ledger', request[s].token))
    OBVIOUS
  <2> DEFINE b == Live(ledger', request[s].token)
  <2>1. b \in BOOLEAN
    BY DEF Live
  <2>2. request'[s] = [request[s] EXCEPT !.live = @ \/ b]
    BY <1>5
  <2>3. request[s] \in Waiting
    BY DEF RequestsSaw
  <2> HIDE DEF b
  <2>4. (request[s].live \/ b) \in BOOLEAN
    BY <2>1, <2>3 DEF Waiting
  <2>5. /\ request'[s] \in Waiting
        /\ request'[s].at = request[s].at
        /\ request'[s].token = request[s].token
        /\ request'[s].live = (request[s].live \/ b)
    BY <2>2, <2>3, <2>4 DEF Waiting
  <2> QED BY <2>5 DEF b
<1>7. request' \in [Slots -> {NoOne} \cup Waiting]
  BY <1>5, <1>6
<1>8. CachesBehind'
  <2> SUFFICES ASSUME NEW q \in Replicas PROVE Behind(q)'
    BY DEF CachesBehind
  <2>1. cache[q].seq \in Nat /\ ledger.seq \in Nat /\ cache[q].seq <= ledger.seq
    BY SessionsAssumption DEF State, CachesBehind, Behind
  <2> QED BY <1>2, <1>4, <2>1 DEF Behind
<1>9. RequestsSaw'
  <2> SUFFICES ASSUME NEW s \in Slots, request'[s] # NoOne
               PROVE  /\ request'[s] \in Waiting
                      /\ Live(ledger, request[s].token)' => request'[s].live
                      /\ Live(cache[request[s].at], request[s].token)' => request'[s].live
    BY DEF RequestsSaw
  <2>1. request[s] # NoOne
    BY <1>5
  <2>2. Live(ledger, request[s].token)' <=> Live(ledger', request[s].token)
    BY <1>6, <2>1 DEF Live
  <2>3. Live(ledger, request[s].token)' => request'[s].live
    BY <1>6, <2>1, <2>2
  <2>4. CASE request[s].at = r
    BY <1>4, <1>6, <2>1, <2>3, <2>4 DEF Live
  <2>5. CASE request[s].at # r
    <3>1. cache'[request'[s].at] = cache[request[s].at]
      BY <1>4, <1>6, <2>1, <2>5 DEF Waiting
    <3>2. Live(cache[request[s].at], request[s].token)' => Live(cache[request[s].at], request[s].token)
      BY <3>1, <1>6, <2>1 DEF Live
    <3> QED BY <1>6, <2>1, <2>3, <3>2 DEF RequestsSaw
  <2> QED BY <1>6, <2>1, <2>3, <2>4, <2>5
<1> QED BY <1>2, <1>3, <1>4, <1>7, <1>8, <1>9

(* A replica that loads the ledger anew, after a conflict, a refresh or a   *)
(* restart, with the requests as they were.                                *)
LEMMA ReloadKeeps ==
    ASSUME Types, CachesBehind, NEW r \in Replicas, cache' = [cache EXCEPT ![r] = ledger],
           ledger' = ledger
    PROVE  /\ ledger' \in State
           /\ cache' \in [Replicas -> State]
           /\ cache'[r] = ledger
           /\ \A q \in Replicas \ {r} : cache'[q] = cache[q]
           /\ CachesBehind'
BY SessionsAssumption DEF Types, TypeOK, State, CachesBehind, Behind

(* A reload brings a cache closer to the log; what requests saw stays       *)
(* true.                                                                    *)
LEMMA ReloadSaw ==
    ASSUME Types, RequestsSaw, NEW r \in Replicas, cache' = [cache EXCEPT ![r] = ledger],
           ledger' = ledger, request' = request, expired' = expired
    PROVE  RequestsSaw'
<1> SUFFICES ASSUME NEW s \in Slots, request[s] # NoOne
             PROVE  /\ request[s] \in Waiting
                    /\ Live(ledger, request[s].token) => request[s].live
                    /\ Live(cache'[request[s].at], request[s].token) => request[s].live
  BY DEF RequestsSaw, Live
<1>1. request[s] \in Waiting /\ request[s].at \in Replicas
  BY DEF RequestsSaw, Waiting
<1>2. cache'[request[s].at] \in {ledger, cache[request[s].at]}
  BY <1>1 DEF Types, TypeOK
<1> QED BY <1>1, <1>2 DEF RequestsSaw

(* Nothing that the requests look at changes, or tokens expire.             *)
LEMMA QuietSaw ==
    ASSUME RequestsSaw, ledger' = ledger, cache' = cache, request' = request,
           expired \subseteq expired'
    PROVE  RequestsSaw'
BY DEF RequestsSaw, Live

(* A handler takes the lock or moves on: the others keep theirs.            *)
LEMMA EnterKeeps ==
    ASSUME Types, NEW r \in Replicas, NEW o, Enter(r, o)
    PROVE  /\ DOMAIN op' = Replicas
           /\ op'[r] = o
           /\ \A q \in Replicas \ {r} : op'[q] = op[q]
           /\ \A q \in Replicas \ {r} : Holding(q)'
BY DEF Types, Enter, Holding

(* The handlers of a replica that rest on unchanged caches stay right.      *)
LEMMA OthersForActive ==
    ASSUME SessionsForActive, NEW r \in Replicas, NEW q \in Replicas \ {r},
           op'[q] = op[q], cache'[q] = cache[q]
    PROVE  ForActive(q)'
BY DEF SessionsForActive, ForActive

(* What an update of the ledger's fields leaves.                            *)
LEMMA StateUpdates ==
    ASSUME NEW state \in State
    PROVE  /\ state.seq \in 0 .. MaxCommits
           /\ \A u \in Users, x \in UserStatus :
                 LET t == [state EXCEPT !.users[u] = x]
                 IN  /\ t \in State /\ t.seq = state.seq /\ t.creds = state.creds
                     /\ t.users[u] = x
           /\ \A c \in Tokens : \A o :
                 (o.user \in Users /\ o.label \in Labels) =>
                     /\ Issued(state, c, o) \in State
                     /\ Issued(state, c, o).seq = state.seq
                     /\ Issued(state, c, o).users = state.users
                     /\ Issued(state, c, o).creds[c].user = o.user
                     /\ Issued(state, c, o).creds[c].label = o.label
                     /\ \A d \in Tokens \ {c} : Issued(state, c, o).creds[d] = state.creds[d]
           /\ \A c \in Tokens : state.creds[c] # NoCred =>
                     /\ Revoked(state, c) \in State
                     /\ Revoked(state, c).seq = state.seq
                     /\ Revoked(state, c).users = state.users
                     /\ \A d \in Tokens : Revoked(state, c).creds[d].label = state.creds[d].label
<1>1. state.seq \in 0 .. MaxCommits
  BY DEF State
<1>2. ASSUME NEW u \in Users, NEW x \in UserStatus
      PROVE  LET t == [state EXCEPT !.users[u] = x]
             IN  /\ t \in State /\ t.seq = state.seq /\ t.creds = state.creds
                 /\ t.users[u] = x
  BY DEF State
<1>3. ASSUME NEW c \in Tokens, NEW o, o.user \in Users, o.label \in Labels
      PROVE  /\ Issued(state, c, o) \in State
             /\ Issued(state, c, o).seq = state.seq
             /\ Issued(state, c, o).users = state.users
             /\ Issued(state, c, o).creds[c].user = o.user
             /\ Issued(state, c, o).creds[c].label = o.label
             /\ \A d \in Tokens \ {c} : Issued(state, c, o).creds[d] = state.creds[d]
  <2> DEFINE n == [status |-> "live", user |-> o.user, label |-> o.label]
  <2>1. n \in [status : {"live", "revoked"}, user : Users, label : Labels]
    BY <1>3
  <2>2. n.user = o.user /\ n.label = o.label
    OBVIOUS
  <2>3. Issued(state, c, o) = [state EXCEPT !.creds[c] = n]
    BY DEF Issued
  <2> HIDE DEF n
  <2> QED BY <2>1, <2>2, <2>3 DEF State
<1>4. ASSUME NEW c \in Tokens, state.creds[c] # NoCred
      PROVE  /\ Revoked(state, c) \in State
             /\ Revoked(state, c).seq = state.seq
             /\ Revoked(state, c).users = state.users
             /\ \A d \in Tokens : Revoked(state, c).creds[d].label = state.creds[d].label
  <2> DEFINE n == [state.creds[c] EXCEPT !.status = "revoked"]
  <2>1. state.creds[c] \in [status : {"live", "revoked"}, user : Users, label : Labels]
    BY <1>4 DEF State
  <2>2. n \in [status : {"live", "revoked"}, user : Users, label : Labels]
        /\ n.label = state.creds[c].label
    BY <2>1
  <2>3. Revoked(state, c) = [state EXCEPT !.creds[c] = n]
    BY DEF Revoked
  <2> HIDE DEF n
  <2> QED BY <2>2, <2>3 DEF State
<1> QED BY <1>1, <1>2, <1>3, <1>4

(* In a state, a credential with a status or a label is one.                *)
LEMMA Credentials ==
    ASSUME NEW state \in State, NEW c \in Tokens
    PROVE  /\ state.creds[c].status = "live" => state.creds[c] # NoCred
           /\ state.creds[c].label = "session" => state.creds[c] # NoCred
BY DEF NoCred

-----------------------------------------------------------------------------
(* Nothing moves but what the invariant does not read, or tokens expire.     *)
LEMMA QuietInv ==
    ASSUME Inv, ledger' = ledger, cache' = cache, request' = request, op' = op, served' = served,
           expired \subseteq expired', expired' \subseteq Tokens,
           rows' \in [Tokens -> {"none", "valid", "revoked"}], loggedOut' \subseteq Tokens
    PROVE  Inv'
<1>1. Types' /\ CachesBehind' /\ SessionsForActive' /\ ServedWasLive'
  BY DEF Inv, Types, TypeOK, Holding, CachesBehind, Behind, SessionsForActive, ForActive,
         ServedWasLive
<1>2. RequestsSaw'
  BY QuietSaw DEF Inv
<1> QED BY <1>1, <1>2 DEF Inv

(* A step of one replica, from what it does to the caches, the requests and *)
(* the handler of that replica.                                            *)
LEMMA ReplicaStep ==
    ASSUME Inv, NEW r \in Replicas,
           ledger' \in State, cache' \in [Replicas -> State],
           request' \in [Slots -> {NoOne} \cup Waiting],
           CachesBehind', RequestsSaw',
           \A q \in Replicas \ {r} : cache'[q] = cache[q],
           DOMAIN op' = Replicas,
           \A q \in Replicas \ {r} : op'[q] = op[q],
           Holding(r)', ForActive(r)',
           rows' \in [Tokens -> {"none", "valid", "revoked"}],
           expired' = expired, loggedOut' \subseteq Tokens,
           served' = served
    PROVE  Inv'
<1>1. \A q \in Replicas : Holding(q)'
  BY DEF Inv, Types, Holding
<1>2. SessionsForActive'
  BY OthersForActive DEF Inv, SessionsForActive
<1>3. ServedWasLive'
  BY DEF Inv, ServedWasLive
<1> QED BY <1>1, <1>2, <1>3 DEF Inv, Types, TypeOK

(* A request passes the middleware.                                         *)
LEMMA ArriveInv ==
    ASSUME Inv, NEW s \in Slots, NEW r \in Replicas, NEW c \in Tokens, Arrive(s, r, c)
    PROVE  Inv'
<1> DEFINE q == [at |-> r, token |-> c, live |-> Live(ledger, c)]
<1>1. /\ cache' = [cache EXCEPT ![r] = ledger] /\ request' = [request EXCEPT ![s] = q]
      /\ UNCHANGED <<ledger, rows, expired, op, served, loggedOut>>
  BY DEF Arrive, Refresh
<1>2. q \in Waiting
  BY DEF Waiting, Live
<1>3. /\ ledger' \in State /\ cache' \in [Replicas -> State]
      /\ cache'[r] = ledger
      /\ \A p \in Replicas \ {r} : cache'[p] = cache[p]
      /\ CachesBehind'
  BY <1>1, ReloadKeeps DEF Inv
<1>4. request' \in [Slots -> {NoOne} \cup Waiting]
  BY <1>1, <1>2 DEF Inv, Types
<1>5. RequestsSaw'
  <2> SUFFICES ASSUME NEW t \in Slots, request'[t] # NoOne
               PROVE  /\ request'[t] \in Waiting
                      /\ Live(ledger, request[t].token)' => request'[t].live
                      /\ Live(cache[request[t].at], request[t].token)' => request'[t].live
    BY DEF RequestsSaw
  <2>1. CASE t = s
    <3>1. request'[t] = q
      BY <1>1, <2>1 DEF Inv, Types
    <3>2. request'[t].token = c /\ request'[t].at = r /\ request'[t].live = Live(ledger, c)
      BY <3>1
    <3> HIDE DEF q
    <3> QED BY <1>1, <1>2, <1>3, <3>1, <3>2 DEF Live
  <2>2. CASE t # s
    <3>1. request'[t] = request[t]
      BY <1>1, <2>2 DEF Inv, Types
    <3>2. request[t] \in Waiting /\ request[t].at \in Replicas
      BY <3>1 DEF Inv, RequestsSaw, Waiting
    <3>3. cache'[request[t].at] \in {ledger, cache[request[t].at]}
      BY <1>3, <3>2
    <3>4. /\ Live(ledger, request[t].token) => request[t].live
          /\ Live(cache[request[t].at], request[t].token) => request[t].live
      BY <3>1 DEF Inv, RequestsSaw
    <3> HIDE DEF q
    <3>5. Live(ledger, request[t].token)' => request'[t].live
      BY <1>1, <3>1, <3>4 DEF Live
    <3>6. Live(cache[request[t].at], request[t].token)' => request'[t].live
      <4>1. expired' = expired
        BY <1>1
      <4>2. Live(cache[request[t].at], request[t].token)'
               <=> Live(cache'[request[t].at], request[t].token)
        BY <3>1, <4>1 DEF Live
      <4> QED BY <3>1, <3>3, <3>4, <4>2
    <3> QED BY <3>1, <3>2, <3>5, <3>6
  <2> QED BY <2>1, <2>2
<1>6. Free(r) /\ op' = op
  BY <1>1 DEF Arrive
<1>7. Holding(r)' /\ ForActive(r)'
  BY <1>6 DEF Inv, Types, Holding, ForActive, Free
<1> HIDE DEF q
<1> QED BY <1>1, <1>3, <1>4, <1>5, <1>7, ReplicaStep DEF Inv, Types, TypeOK

(* The handler authenticates and serves.                                    *)
LEMMA HandleInv ==
    ASSUME Inv, NEW s \in Slots, Handle(s)
    PROVE  Inv'
<1>1. /\ request' = [request EXCEPT ![s] = NoOne] /\ request[s] # NoOne
      /\ UNCHANGED <<ledger, cache, rows, expired, op, loggedOut>>
  BY DEF Handle
<1>2. Types' /\ CachesBehind' /\ SessionsForActive'
  BY <1>1 DEF Inv, Types, TypeOK, Holding, CachesBehind, Behind, SessionsForActive, ForActive
<1>3. RequestsSaw'
  BY <1>1 DEF Inv, Types, RequestsSaw, Live
<1>4. ServedWasLive'
  <2>1. Authenticates(request[s].at, request[s].token) => request[s].live
    BY <1>1 DEF Inv, RequestsSaw, Authenticates
  <2> QED BY <2>1 DEF Handle, Inv, ServedWasLive
<1> QED BY <1>2, <1>3, <1>4 DEF Inv

(* A commit of a replica whose handler then holds o, or keeps what it held. *)
LEMMA CommitInv ==
    ASSUME Inv, NEW r \in Replicas, NEW state \in State, state.seq = ledger.seq,
           Commit(r, state), expired' = expired, served' = served, loggedOut' = loggedOut,
           rows' = rows, DOMAIN op' = Replicas,
           \A q \in Replicas \ {r} : op'[q] = op[q],
           Holding(r)', ForActive(r)'
    PROVE  Inv'
BY CommitKeeps, ReplicaStep DEF Inv, Types, TypeOK

(* A replica reads the log, after a conflict or on its own.                 *)
LEMMA ReloadInv ==
    ASSUME Inv, NEW r \in Replicas, cache' = [cache EXCEPT ![r] = ledger],
           UNCHANGED <<ledger, request, expired, served, loggedOut>>,
           rows' \in [Tokens -> {"none", "valid", "revoked"}],
           DOMAIN op' = Replicas, \A q \in Replicas \ {r} : op'[q] = op[q],
           op'[r].step = "idle"
    PROVE  Inv'
<1>1. Holding(r)' /\ ForActive(r)'
  BY DEF Holding, ForActive
<1> QED BY <1>1, ReloadKeeps, ReloadSaw, ReplicaStep DEF Inv, Types, TypeOK

(* A handler moves on and leaves ledger, caches and requests alone.         *)
LEMMA HandlerInv ==
    ASSUME Inv, NEW r \in Replicas, NEW o, Enter(r, o),
           UNCHANGED <<ledger, cache, request, expired, served>>,
           rows' \in [Tokens -> {"none", "valid", "revoked"}], loggedOut' \subseteq Tokens,
           Holding(r)', ForActive(r)'
    PROVE  Inv'
<1>1. CachesBehind' /\ RequestsSaw'
  BY QuietSaw DEF Inv, CachesBehind, Behind
<1>2. DOMAIN op' = Replicas /\ \A q \in Replicas \ {r} : op'[q] = op[q]
  BY EnterKeeps DEF Inv
<1> QED BY <1>1, <1>2, ReplicaStep DEF Inv, Types, TypeOK

-----------------------------------------------------------------------------
(* The actions of people, browsers and the store.                           *)

(* An administrator suspends or reinstates a human.                         *)
LEMMA SetUserInv ==
    ASSUME Inv, NEW r \in Replicas, NEW u \in Users, NEW x \in UserStatus, SetUser(r, u, x)
    PROVE  Inv'
<1> DEFINE state == [ledger EXCEPT !.users[u] = x]
<1>1. ledger \in State
  BY DEF Inv, Types, TypeOK
<1>2. state \in State /\ state.seq = ledger.seq
  BY <1>1, StateUpdates
<1>3. /\ Commit(r, state) /\ Free(r)
      /\ UNCHANGED <<rows, expired, op, served, loggedOut>>
  BY DEF SetUser
<1> HIDE DEF state
<1>4. Holding(r)' /\ ForActive(r)'
  BY <1>3 DEF Free, Holding, ForActive
<1> QED BY <1>2, <1>3, <1>4, CommitInv DEF Inv, Types

(* A session for somebody active in the replica's cache is on its way.       *)
LEMMA InsertNext ==
    ASSUME Types, NEW r \in Replicas, NEW u \in Users, NEW l \in Labels,
           Enter(r, [step |-> "insert", user |-> u, label |-> l, token |-> NoOne]),
           l = "session" => cache'[r].users[u] = "active"
    PROVE  Holding(r)' /\ ForActive(r)'
<1>1. op'[r] = [step |-> "insert", user |-> u, label |-> l, token |-> NoOne]
  BY EnterKeeps
<1> QED BY <1>1 DEF Holding, ForActive

(* The callback of the identity provider looks at the human and begins to   *)
(* issue.                                                                   *)
LEMMA OidcInv ==
    ASSUME Inv, NEW r \in Replicas, NEW u \in Users, NEW n, OidcCallback(r, u, n)
    PROVE  Inv'
<1>1. /\ Enter(r, [step |-> "insert", user |-> u, label |-> "session", token |-> NoOne])
      /\ KnownActive(r, u)
      /\ UNCHANGED <<ledger, cache, rows, expired, request, served, loggedOut>>
  BY DEF OidcCallback
<1>2. Holding(r)' /\ ForActive(r)'
  BY <1>1, InsertNext DEF Labels, KnownActive, Inv
<1> QED BY <1>1, <1>2, HandlerInv DEF Inv, Types, TypeOK

(* The callback of Feishu, which may reinstate the human.                   *)
LEMMA FeishuInv ==
    ASSUME Inv, NEW r \in Replicas, NEW u \in Users, NEW n, FeishuCallback(r, u, n)
    PROVE  Inv'
<1> DEFINE o == [step |-> "insert", user |-> u, label |-> "session", token |-> NoOne]
           state == [ledger EXCEPT !.users[u] = "active"]
<1>1. UNCHANGED <<rows, expired, served, loggedOut>> /\ Free(r)
  BY DEF FeishuCallback
<1>2. CASE KnownActive(r, u) /\ Enter(r, o) /\ UNCHANGED <<ledger, cache, request>>
  <2>1. Holding(r)' /\ ForActive(r)'
    BY <1>2, InsertNext DEF Labels, KnownActive, Inv
  <2> QED BY <1>1, <1>2, <2>1, HandlerInv DEF Inv, Types, TypeOK
<1>3. CASE Commit(r, state) /\ Enter(r, o)
  <2>1. state \in State /\ state.seq = ledger.seq /\ state.users[u] = "active"
    <3>1. ledger \in State /\ "active" \in UserStatus
      BY DEF Inv, Types, TypeOK, UserStatus
    <3> QED BY <3>1, StateUpdates
  <2>2. cache'[r] = [state EXCEPT !.seq = @ + 1]
    BY <1>3 DEF Commit, Inv, Types, TypeOK
  <2>3. cache'[r].users = state.users
    BY <2>1, <2>2 DEF State
  <2>4. Holding(r)' /\ ForActive(r)'
    BY <1>3, <2>1, <2>3, InsertNext DEF Labels, Inv
  <2>5. DOMAIN op' = Replicas /\ \A q \in Replicas \ {r} : op'[q] = op[q]
    BY <1>3, EnterKeeps DEF Inv
  <2> HIDE DEF state, o
  <2> QED BY <1>1, <1>3, <2>1, <2>4, <2>5, CommitInv
<1>4. CASE Conflict(r) /\ UNCHANGED op
  BY <1>1, <1>4, ReloadInv DEF Conflict, Free, Inv, Types, TypeOK
<1> QED BY <1>2, <1>3, <1>4 DEF FeishuCallback

(* A token is asked for by hand.                                            *)
LEMMA StartIssueInv ==
    ASSUME Inv, NEW r \in Replicas, NEW u \in Users, StartIssue(r, u)
    PROVE  Inv'
<1>1. /\ Enter(r, [step |-> "insert", user |-> u, label |-> "api", token |-> NoOne])
      /\ UNCHANGED <<ledger, cache, rows, expired, request, served, loggedOut>>
  BY DEF StartIssue
<1>2. Holding(r)' /\ ForActive(r)'
  BY <1>1, InsertNext DEF Labels, Inv
<1> QED BY <1>1, <1>2, HandlerInv DEF Inv, Types, TypeOK

(* The row of a token is stored, before its event.                          *)
LEMMA InsertRowInv ==
    ASSUME Inv, NEW r \in Replicas, InsertRow(r)
    PROVE  Inv'
<1>1. PICK c \in Tokens :
          /\ rows' = [rows EXCEPT ![c] = "valid"]
          /\ Enter(r, [op[r] EXCEPT !.step = "issue", !.token = c])
  BY DEF InsertRow
<1> DEFINE o == [op[r] EXCEPT !.step = "issue", !.token = c]
<1>2. op[r].step = "insert" /\ UNCHANGED <<ledger, cache, expired, request, served, loggedOut>>
  BY DEF InsertRow
<1>3. op[r] \in [step : {"insert", "issue"}, user : Users, label : Labels,
                token : Tokens \cup {NoOne}]
  BY <1>2 DEF Inv, Types, Holding
<1>4. /\ o \in [step : {"insert", "issue"}, user : Users, label : Labels,
                token : Tokens \cup {NoOne}]
      /\ o.step = "issue" /\ o.token = c /\ o.user = op[r].user /\ o.label = op[r].label
  BY <1>3
<1>5. op'[r] = o
  BY <1>1, EnterKeeps DEF Inv
<1> HIDE DEF o
<1>6. Holding(r)'
  BY <1>4, <1>5 DEF Holding
<1>7. ForActive(r)'
  BY <1>2, <1>4, <1>5 DEF Inv, SessionsForActive, ForActive
<1>8. rows' \in [Tokens -> {"none", "valid", "revoked"}]
  BY <1>1 DEF Inv, Types, TypeOK
<1> QED BY <1>1, <1>2, <1>6, <1>7, <1>8, HandlerInv DEF Inv, Types, TypeOK

(* The event of a token is stored: the head check passed.                   *)
LEMMA IssueCommitInv ==
    ASSUME Inv, NEW r \in Replicas, IssueCommit(r)
    PROVE  Inv'
<1>1. /\ op[r].step = "issue" /\ Commit(r, Issued(ledger, op[r].token, op[r])) /\ Enter(r, Idle)
      /\ UNCHANGED <<rows, expired, served, loggedOut>>
  BY DEF IssueCommit
<1>2. op[r].token \in Tokens /\ op[r].user \in Users /\ op[r].label \in Labels
  BY <1>1 DEF Inv, Types, Holding
<1>3. Issued(ledger, op[r].token, op[r]) \in State
      /\ Issued(ledger, op[r].token, op[r]).seq = ledger.seq
  BY <1>2, StateUpdates DEF Inv, Types, TypeOK
<1>4. op'[r] = Idle /\ DOMAIN op' = Replicas /\ \A q \in Replicas \ {r} : op'[q] = op[q]
  BY <1>1, EnterKeeps DEF Inv
<1>5. Holding(r)' /\ ForActive(r)'
  BY <1>4 DEF Idle, Holding, ForActive
<1> QED BY <1>1, <1>3, <1>4, <1>5, CommitInv

(* The event lost against another commit; the row stays without one.        *)
LEMMA IssueRefusedInv ==
    ASSUME Inv, NEW r \in Replicas, IssueRefused(r)
    PROVE  Inv'
<1>1. /\ op[r].step = "issue" /\ Conflict(r) /\ Enter(r, Idle)
      /\ rows' \in {rows, [rows EXCEPT ![op[r].token] = "none"]}
      /\ UNCHANGED <<expired, served, loggedOut>>
  BY DEF IssueRefused
<1>2. rows' \in [Tokens -> {"none", "valid", "revoked"}]
  BY <1>1 DEF Inv, Types, TypeOK, Holding
<1>3. op'[r] = Idle /\ DOMAIN op' = Replicas /\ \A q \in Replicas \ {r} : op'[q] = op[q]
  BY <1>1, EnterKeeps DEF Inv
<1>4. cache' = [cache EXCEPT ![r] = ledger] /\ UNCHANGED <<ledger, request>> /\ op'[r].step = "idle"
  BY <1>1, <1>3 DEF Conflict, Idle
<1> QED BY <1>1, <1>2, <1>3, <1>4, ReloadInv

(* A revocation on its way, or refused.                                     *)
LEMMA RevocationInv ==
    ASSUME Inv, NEW r \in Replicas, NEW c \in Tokens, NEW a \in BOOLEAN,
           Free(r), cache[r].creds[c] # NoCred,
           UNCHANGED <<rows, expired, served, loggedOut>>,
           \/ /\ Commit(r, Revoked(ledger, c))
              /\ Enter(r, [step |-> "revoke", token |-> c, answer |-> a])
           \/ Conflict(r) /\ UNCHANGED op
    PROVE  Inv'
<1>1. CASE /\ Commit(r, Revoked(ledger, c))
           /\ Enter(r, [step |-> "revoke", token |-> c, answer |-> a])
  <2>1. cache[r] = ledger
    BY <1>1 DEF Commit, Current, Inv, CachesBehind, Behind
  <2>2. Revoked(ledger, c) \in State /\ Revoked(ledger, c).seq = ledger.seq
    BY <2>1, StateUpdates DEF Inv, Types, TypeOK
  <2>3. /\ op'[r] = [step |-> "revoke", token |-> c, answer |-> a]
        /\ DOMAIN op' = Replicas /\ \A q \in Replicas \ {r} : op'[q] = op[q]
    BY <1>1, EnterKeeps DEF Inv
  <2>4. Holding(r)' /\ ForActive(r)'
    BY <2>3 DEF Holding, ForActive
  <2> QED BY <1>1, <2>2, <2>3, <2>4, CommitInv
<1>2. CASE Conflict(r) /\ UNCHANGED op
  BY <1>2, ReloadInv DEF Conflict, Free, Inv, Types, TypeOK
<1> QED BY <1>1, <1>2

(* A token is revoked by its event.                                         *)
LEMMA RevokeCredentialInv ==
    ASSUME Inv, NEW r \in Replicas, NEW c \in Tokens, RevokeCredential(r, c)
    PROVE  Inv'
<1>1. cache[r].creds[c] # NoCred
  BY DEF RevokeCredential, NoCred
<1> QED BY <1>1, RevocationInv DEF RevokeCredential

(* A session is ended, as far as the cache of the replica knows it.         *)
LEMMA LogoutInv ==
    ASSUME Inv, NEW r \in Replicas, NEW c \in Tokens, Logout(r, c)
    PROVE  Inv'
<1>1. UNCHANGED <<rows, expired, served, pending>> /\ Free(r)
  BY DEF Logout
<1>2. CASE loggedOut' = loggedOut \cup {c} /\ UNCHANGED <<ledger, cache, op, request>>
  BY <1>1, <1>2, QuietInv DEF Inv, Types, TypeOK
<1>3. CASE /\ cache[r].creds[c].label = "session"
           /\ \/ /\ Commit(r, Revoked(ledger, c))
                 /\ Enter(r, [step |-> "revoke", token |-> c, answer |-> TRUE])
              \/ Conflict(r) /\ UNCHANGED op
           /\ UNCHANGED loggedOut
  <2>1. cache[r].creds[c] # NoCred
    BY <1>3 DEF NoCred
  <2> QED BY <1>1, <1>3, <2>1, RevocationInv
<1> QED BY <1>2, <1>3 DEF Logout

(* The row of a revoked token follows its event.                            *)
LEMMA RevokeRowInv ==
    ASSUME Inv, NEW r \in Replicas, RevokeRow(r)
    PROVE  Inv'
<1>1. /\ op[r].step = "revoke" /\ Enter(r, Idle)
      /\ rows' = [rows EXCEPT ![op[r].token] = IF @ = "valid" THEN "revoked" ELSE @]
      /\ loggedOut' \subseteq loggedOut \cup {op[r].token}
      /\ UNCHANGED <<ledger, cache, expired, request, served>>
  BY DEF RevokeRow
<1>2. op[r].token \in Tokens
  BY <1>1 DEF Inv, Types, Holding
<1>3. rows' \in [Tokens -> {"none", "valid", "revoked"}] /\ loggedOut' \subseteq Tokens
  BY <1>1, <1>2 DEF Inv, Types, TypeOK
<1>4. op'[r] = Idle
  BY <1>1, EnterKeeps DEF Inv
<1>5. Holding(r)' /\ ForActive(r)'
  BY <1>4 DEF Idle, Holding, ForActive
<1> QED BY <1>1, <1>3, <1>5, HandlerInv

(* A replica stops anywhere and starts with the log.                        *)
LEMMA CrashInv ==
    ASSUME Inv, NEW r \in Replicas, Crash(r)
    PROVE  Inv'
<1>1. /\ cache' = [cache EXCEPT ![r] = ledger] /\ Enter(r, Idle)
      /\ request' = [s \in Slots |->
                       IF request[s] # NoOne /\ request[s].at = r THEN NoOne ELSE request[s]]
      /\ UNCHANGED <<ledger, rows, expired, served, loggedOut>>
  BY DEF Crash, Refresh
<1>2. /\ ledger' \in State /\ cache' \in [Replicas -> State] /\ CachesBehind'
      /\ \A q \in Replicas \ {r} : cache'[q] = cache[q]
  BY <1>1, ReloadKeeps DEF Inv
<1>3. request' \in [Slots -> {NoOne} \cup Waiting]
  BY <1>1 DEF Inv, Types
<1>4. RequestsSaw'
  <2> SUFFICES ASSUME NEW s \in Slots, request'[s] # NoOne
               PROVE  /\ request'[s] \in Waiting
                      /\ Live(ledger, request[s].token)' => request'[s].live
                      /\ Live(cache[request[s].at], request[s].token)' => request'[s].live
    BY DEF RequestsSaw
  <2>1. request'[s] = request[s] /\ request[s].at # r
    BY <1>1
  <2>2. request[s] \in Waiting
    BY <2>1 DEF Inv, RequestsSaw
  <2>3. cache'[request[s].at] = cache[request[s].at]
    BY <1>2, <2>1, <2>2 DEF Waiting
  <2> QED BY <1>1, <2>1, <2>2, <2>3 DEF Inv, RequestsSaw, Live
<1>5. op'[r] = Idle /\ DOMAIN op' = Replicas /\ \A q \in Replicas \ {r} : op'[q] = op[q]
  BY <1>1, EnterKeeps DEF Inv
<1>6. Holding(r)' /\ ForActive(r)'
  BY <1>5 DEF Idle, Holding, ForActive
<1> QED BY <1>1, <1>2, <1>3, <1>4, <1>5, <1>6, ReplicaStep DEF Inv, Types, TypeOK

-----------------------------------------------------------------------------
(* Nobody has a token at first.                                             *)
LEMMA InitInv ==
    ASSUME Init
    PROVE  Inv
<1>1. Empty \in State /\ Empty.seq = 0
  BY SessionsAssumption DEF Empty, State, UserStatus
<1>2. Types
  BY <1>1 DEF Init, Types, TypeOK, Holding, Idle
<1>3. CachesBehind
  BY <1>1 DEF Init, CachesBehind, Behind
<1> QED BY <1>2, <1>3 DEF Init, Inv, RequestsSaw, SessionsForActive, ForActive, Idle, ServedWasLive

(* The invariant is inductive.                                              *)
LEMMA StepInv ==
    ASSUME Inv, [Next]_vars
    PROVE  Inv'
<1>1. ASSUME NEW s \in Slots, NEW r \in Replicas, NEW c \in Tokens, Arrive(s, r, c) PROVE Inv'
  BY <1>1, ArriveInv
<1>2. ASSUME NEW s \in Slots, Handle(s) PROVE Inv'
  BY <1>2, HandleInv
<1>3. ASSUME NEW r \in Replicas, NEW u \in Users, NEW x \in UserStatus, SetUser(r, u, x)
      PROVE  Inv'
  BY <1>3, SetUserInv
<1>4. CASE SignIn
  <2>1. ASSUME NEW p, Begin(p) \/ LoginExpires(p) PROVE Inv'
    BY <2>1, QuietInv DEF Begin, LoginExpires, Inv, Types, TypeOK
  <2>2. ASSUME NEW r \in Replicas, NEW u \in Users, NEW n \in 1 .. MaxLogins,
               OidcCallback(r, u, n) \/ FeishuCallback(r, u, n)
        PROVE  Inv'
    BY <2>2, OidcInv, FeishuInv
  <2> QED BY <1>4, <2>1, <2>2 DEF SignIn, OidcLogin, FeishuLogin
<1>5. ASSUME NEW r \in Replicas, NEW u \in Users, StartIssue(r, u) PROVE Inv'
  BY <1>5, StartIssueInv
<1>6. ASSUME NEW r \in Replicas, InsertRow(r) \/ IssueCommit(r) \/ IssueRefused(r) PROVE Inv'
  BY <1>6, InsertRowInv, IssueCommitInv, IssueRefusedInv
<1>7. ASSUME NEW r \in Replicas, NEW c \in Tokens, RevokeCredential(r, c) \/ Logout(r, c)
      PROVE  Inv'
  BY <1>7, RevokeCredentialInv, LogoutInv
<1>8. ASSUME NEW r \in Replicas, RevokeRow(r) \/ Crash(r) PROVE Inv'
  BY <1>8, RevokeRowInv, CrashInv
<1>9. ASSUME NEW c \in Tokens, Expire(c) PROVE Inv'
  BY <1>9, QuietInv DEF Expire, Inv, Types, TypeOK
<1>10. CASE UNCHANGED vars
  BY <1>10, QuietInv DEF vars, Inv, Types, TypeOK
<1> QED BY <1>1, <1>2, <1>3, <1>4, <1>5, <1>6, <1>7, <1>8, <1>9, <1>10 DEF Next

(* The inductive invariant holds in every reachable state.                  *)
THEOREM SessionsInvariant == Spec => []Inv
BY InitInv, StepInv, PTL DEF Spec

(* Whoever is served held a token that was good at some moment since the    *)
(* request's middleware ran, for any number of replicas with stale caches   *)
(* and any crashes between row and event: authenticate_api_token.           *)
THEOREM ServedTokensWereLive == Spec => []ServedWasLive
<1>1. Inv => ServedWasLive
  BY DEF Inv
<1> QED BY <1>1, SessionsInvariant, PTL

-----------------------------------------------------------------------------
(* What a commit stores is the state that was decided.                      *)
LEMMA CommitFields ==
    ASSUME Types, NEW r, NEW state \in State, Commit(r, state)
    PROVE  ledger'.users = state.users /\ ledger'.creds = state.creds
<1>1. ledger' = [state EXCEPT !.seq = @ + 1]
  BY DEF Commit
<1> QED BY <1>1 DEF State

NewSessionIsForActive(c) ==
    (ledger.creds[c] = NoCred /\ ledger'.creds[c].label = "session")
        => ledger'.users[ledger'.creds[c].user] = "active"

(* A step that leaves a token's label as it was gives nobody a session.      *)
LEMMA SameLabel ==
    ASSUME NEW c \in Tokens, ledger'.creds[c].label = ledger.creds[c].label
    PROVE  NewSessionIsForActive(c)
BY DEF NewSessionIsForActive, NoCred

(* A session is issued to somebody who is active in the log that it         *)
(* extends.                                                                 *)
LEMMA IssueGoesToActive ==
    ASSUME Inv, NEW r \in Replicas, IssueCommit(r), NEW c \in Tokens
    PROVE  NewSessionIsForActive(c)
<1> DEFINE o == op[r]
           state == Issued(ledger, o.token, o)
<1>1. o.step = "issue" /\ Commit(r, state)
  BY DEF IssueCommit
<1>2. o.token \in Tokens /\ o.user \in Users /\ o.label \in Labels
  BY <1>1 DEF Inv, Types, Holding
<1>3. /\ state \in State /\ state.users = ledger.users
      /\ state.creds[o.token].user = o.user /\ state.creds[o.token].label = o.label
      /\ \A d \in Tokens \ {o.token} : state.creds[d] = ledger.creds[d]
  <2>1. ledger \in State
    BY DEF Inv, Types, TypeOK
  <2> QED BY <1>2, <2>1, StateUpdates
<1>4. ledger'.users = ledger.users /\ ledger'.creds = state.creds
  BY <1>1, <1>3, CommitFields DEF Inv
<1>5. cache[r] = ledger
  BY <1>1 DEF Commit, Current, Inv, CachesBehind, Behind
<1>6. o.label = "session" => ledger.users[o.user] = "active"
  BY <1>1, <1>5 DEF Inv, SessionsForActive, ForActive
<1> HIDE DEF state, o
<1>7. CASE c = o.token
  BY <1>3, <1>4, <1>6, <1>7 DEF NewSessionIsForActive
<1>8. CASE c # o.token
  BY <1>3, <1>4, <1>8, SameLabel
<1> QED BY <1>7, <1>8

(* Revoking a token gives nobody a session.                                 *)
LEMMA RevokedKeepsLabels ==
    ASSUME Inv, NEW r \in Replicas, NEW d \in Tokens, cache[r].creds[d] # NoCred,
           Commit(r, Revoked(ledger, d)), NEW c \in Tokens
    PROVE  NewSessionIsForActive(c)
<1>1. cache[r] = ledger
  BY DEF Commit, Current, Inv, CachesBehind, Behind
<1>2. /\ Revoked(ledger, d) \in State
      /\ Revoked(ledger, d).creds[c].label = ledger.creds[c].label
  BY <1>1, StateUpdates DEF Inv, Types, TypeOK
<1>3. ledger'.creds = Revoked(ledger, d).creds
  BY <1>2, CommitFields DEF Inv
<1> QED BY <1>2, <1>3, SameLabel

(* Changing the status of a human gives nobody a session.                   *)
LEMMA UserCommitKeepsLabels ==
    ASSUME Inv, NEW r \in Replicas, NEW u \in Users, NEW x \in UserStatus,
           Commit(r, [ledger EXCEPT !.users[u] = x]), NEW c \in Tokens
    PROVE  NewSessionIsForActive(c)
<1> DEFINE state == [ledger EXCEPT !.users[u] = x]
<1>1. state \in State /\ state.creds = ledger.creds
  BY StateUpdates DEF Inv, Types, TypeOK
<1> HIDE DEF state
<1>2. ledger'.creds = state.creds
  BY <1>1, CommitFields DEF Inv, state
<1> QED BY <1>1, <1>2, SameLabel

(* No step gives a session to somebody who is not active.                   *)
LEMMA SessionStep ==
    ASSUME Inv, [Next]_vars, NEW c \in Tokens
    PROVE  NewSessionIsForActive(c)
<1>1. CASE ledger' = ledger
  BY <1>1, SameLabel
<1>2. ASSUME NEW r \in Replicas, NEW u \in Users, NEW x \in UserStatus, SetUser(r, u, x)
      PROVE  NewSessionIsForActive(c)
  BY <1>2, UserCommitKeepsLabels DEF SetUser
<1>3. ASSUME NEW r \in Replicas, NEW u \in Users, NEW n, FeishuCallback(r, u, n)
      PROVE  NewSessionIsForActive(c)
  <2>1. "active" \in UserStatus
    BY DEF UserStatus
  <2> QED BY <1>1, <1>3, <2>1, UserCommitKeepsLabels DEF FeishuCallback, Conflict
<1>4. ASSUME NEW r \in Replicas, IssueCommit(r) PROVE NewSessionIsForActive(c)
  BY <1>4, IssueGoesToActive
<1>5. ASSUME NEW r \in Replicas, NEW d \in Tokens, RevokeCredential(r, d) \/ Logout(r, d)
      PROVE  NewSessionIsForActive(c)
  <2>1. CASE Commit(r, Revoked(ledger, d)) /\ cache[r].creds[d] # NoCred
    BY <2>1, RevokedKeepsLabels
  <2>2. (cache[r].creds[d].status = "live" \/ cache[r].creds[d].label = "session")
            => cache[r].creds[d] # NoCred
    BY DEF NoCred
  <2> QED BY <1>1, <1>5, <2>1, <2>2 DEF RevokeCredential, Logout, Conflict
<1>6. ASSUME NEW s \in Slots, NEW r \in Replicas, NEW d \in Tokens, Arrive(s, r, d)
      PROVE  ledger' = ledger
  BY <1>6 DEF Arrive
<1>7. ASSUME NEW s \in Slots, Handle(s) PROVE ledger' = ledger
  BY <1>7 DEF Handle
<1>8. ASSUME NEW p, Begin(p) \/ LoginExpires(p) PROVE ledger' = ledger
  BY <1>8 DEF Begin, LoginExpires
<1>9. ASSUME NEW r \in Replicas, NEW u \in Users, NEW n, OidcCallback(r, u, n) \/ StartIssue(r, u)
      PROVE  ledger' = ledger
  BY <1>9 DEF OidcCallback, StartIssue
<1>10. ASSUME NEW r \in Replicas,
              InsertRow(r) \/ IssueRefused(r) \/ RevokeRow(r) \/ Crash(r)
       PROVE  ledger' = ledger
  BY <1>10 DEF InsertRow, IssueRefused, Conflict, RevokeRow, Crash
<1>11. ASSUME NEW d \in Tokens, Expire(d) PROVE ledger' = ledger
  BY <1>11 DEF Expire
<1>12. CASE UNCHANGED vars
  BY <1>1, <1>12 DEF vars
<1>13. CASE SignIn
  BY <1>1, <1>3, <1>8, <1>9, <1>13 DEF SignIn, OidcLogin, FeishuLogin
<1> QED BY <1>1, <1>2, <1>4, <1>5, <1>6, <1>7, <1>9, <1>10, <1>11, <1>12, <1>13 DEF Next

(* A browser session is committed only for a human who is active in the     *)
(* ledger at that very commit, although every replica looked the human up    *)
(* in a cache that nothing refreshed: oidc_principal, feishu_principal,     *)
(* issue_credential_until.                                                 *)
THEOREM SessionsAreForActiveHumans == Spec => SessionsGoToActiveHumans
<1>1. Inv /\ [Next]_vars =>
        [\A c \in Tokens :
           (ledger.creds[c] = NoCred /\ ledger'.creds[c].label = "session")
              => ledger'.users[ledger'.creds[c].user] = "active"]_vars
  BY SessionStep DEF NewSessionIsForActive
<1> QED BY <1>1, SessionsInvariant, PTL DEF Spec, SessionsGoToActiveHumans

-----------------------------------------------------------------------------
(* The tenants of the fleet.                                                *)

Stores ==
    [catalog : SUBSET Tenants,
     ledger  : [Tenants -> Seq(Kinds)],
     token   : [Tenants -> {"none", "live", "revoked"}],
     blobs   : [Tenants -> SUBSET {Blob}]]

Sq == at["sqlite"]
Pg == at["postgres"]

FleetTypes ==
    /\ at \in [Backends -> Stores]
    /\ serving \in Backends \cup {"none"}
    /\ cutover \in BOOLEAN
    /\ migration \in Migration

(* s is the beginning of t.                                                 *)
Begins(s, t) == Len(s) <= Len(t) /\ \A i \in 1 .. Len(s) : s[i] = t[i]

(* What SQLite holds: the root ledger was set up, a tenant of the catalog has *)
(* a ledger, and the root is the only default.                              *)
SourceOK ==
    /\ 2 <= Len(Sq.ledger[Root]) /\ Sq.ledger[Root][1] = "init"
    /\ \A t \in Sq.catalog : Sq.ledger[t] # <<>> /\ (IsDefault(t) => t = Root)

(* The UNIQUE columns of the catalog on PostgreSQL.                          *)
OneSlug == \A t, u \in Pg.catalog : SlugOf[t] = SlugOf[u] => t = u

(* The row of a credential is there before its event.                        *)
IssuedHasRow ==
    \A b \in Backends, t \in Tenants : Has(b, t, "issue") => at[b].token[t] # "none"

(* Until the cutover PostgreSQL holds an earlier state of each tenant that    *)
(* SQLite may have; when the counts agree it is the present one.             *)
BehindSource(t) ==
    /\ Begins(Pg.ledger[t], Sq.ledger[t])
    /\ Sq.token[t] = "none" => Pg.token[t] = "none"
    /\ Len(Pg.ledger[t]) = Len(Sq.ledger[t])
       /\ (Pg.token[t] = "none" <=> Sq.token[t] = "none") => Pg.token[t] = Sq.token[t]

TargetBehind ==
    ~cutover => \A t \in Tenants : t = Root \/ ~IsDefault(t) => BehindSource(t)

(* What the migration has done.                                             *)
Copied(t) ==
    /\ t \in Pg.catalog
    /\ Pg.ledger[t] = Sq.ledger[t]
    /\ Pg.token[t] = Sq.token[t]
    /\ Pg.blobs[t] = Sq.blobs[t]

MigrationOK ==
    /\ migration.pc \in {"catalog", "import", "done"} =>
          /\ Root \in Sq.catalog /\ migration.todo \subseteq Sq.catalog
          /\ ~cutover => \A t \in Sq.catalog \ migration.todo : Copied(t)
    /\ migration.pc = "import" => \A t \in Tenants : Turn(t) => t \in Pg.catalog
    /\ migration.pc = "done" => migration.todo = {}

(* Who may write where.                                                     *)
ServingOK ==
    /\ serving = "sqlite" => ~cutover /\ ~Migrating
    /\ serving = "postgres" => cutover

(* What the cutover keeps of a tenant.                                      *)
KeptTenant(t) ==
    /\ t \in Pg.catalog
    /\ Begins(Sq.ledger[t], Pg.ledger[t])
    /\ Sq.blobs[t] \subseteq Pg.blobs[t]
    /\ Pg.ledger[t] = Sq.ledger[t] /\ Has("sqlite", t, "issue") =>
          Pg.token[t] = Sq.token[t]

Kept == cutover => Root \in Sq.catalog /\ \A t \in Sq.catalog : KeptTenant(t)

FleetInv ==
    /\ FleetTypes /\ SourceOK /\ OneSlug /\ IssuedHasRow
    /\ TargetBehind /\ MigrationOK /\ ServingOK /\ Kept

(* A write to tenant t of store s, as far as the invariant is concerned: the  *)
(* ledger grows by an event or only the row or the content changes.          *)
Written(s, n, t) ==
    /\ n \in Stores
    /\ s.catalog \subseteq n.catalog
    /\ \A u \in Tenants \ {t} :
          n.ledger[u] = s.ledger[u] /\ n.token[u] = s.token[u] /\ n.blobs[u] = s.blobs[u]
    /\ s.blobs[t] \subseteq n.blobs[t]
    /\ n.token[t] = "none" => s.token[t] = "none"
    /\ \/ n.ledger[t] = s.ledger[t] /\ (n.token[t] = s.token[t] \/ s.token[t] = "none")
       \/ \E k \in Kinds : /\ n.ledger[t] = Append(s.ledger[t], k)
                           /\ k = "issue" => n.token[t] # "none"

(* The fields of a store with another row in its catalog.                    *)
LEMMA RegisteredIs ==
    ASSUME NEW s \in Stores, NEW t \in Tenants
    PROVE  /\ Registered(s, t) \in Stores
           /\ Registered(s, t).catalog = s.catalog \cup {t}
           /\ Registered(s, t).ledger = s.ledger
           /\ Registered(s, t).token = s.token
           /\ Registered(s, t).blobs = s.blobs
BY DEF Registered, Stores

(* The fields of a store with another event in a ledger.                     *)
LEMMA AppendedIs ==
    ASSUME NEW s \in Stores, NEW t \in Tenants, NEW k \in Kinds
    PROVE  /\ Appended(s, t, k) \in Stores
           /\ Appended(s, t, k).catalog = s.catalog
           /\ Appended(s, t, k).ledger = [s.ledger EXCEPT ![t] = Append(s.ledger[t], k)]
           /\ Appended(s, t, k).token = s.token
           /\ Appended(s, t, k).blobs = s.blobs
<1>1. Append(s.ledger[t], k) \in Seq(Kinds)
  BY DEF Stores
<1> QED BY <1>1 DEF Appended, Stores

(* An event that is not an issue leaves the issues alone; an issue adds one.  *)
LEMMA AppendHas ==
    ASSUME NEW l \in Seq(Kinds), NEW k \in Kinds
    PROVE  /\ Append(l, k) \in Seq(Kinds) /\ Len(Append(l, k)) = Len(l) + 1
           /\ Contains(Append(l, k), "issue") => Contains(l, "issue") \/ k = "issue"
           /\ Begins(l, Append(l, k))
<1>1. Append(l, k) \in Seq(Kinds) /\ Len(Append(l, k)) = Len(l) + 1 /\ Len(l) \in Nat
  OBVIOUS
<1>2. \A i \in 1 .. Len(l) : Append(l, k)[i] = l[i]
  OBVIOUS
<1>3. Append(l, k)[Len(l) + 1] = k
  OBVIOUS
<1>4. \A i \in 1 .. (Len(l) + 1) : i \in 1 .. Len(l) \/ i = Len(l) + 1
  BY <1>1
<1> QED BY <1>1, <1>2, <1>3, <1>4 DEF Contains, Begins

(* A ledger that goes on from one that goes on from l goes on from l.        *)
LEMMA BeginsTransitive ==
    ASSUME NEW l \in Seq(Kinds), NEW m \in Seq(Kinds), NEW n \in Seq(Kinds),
           Begins(l, m), Begins(m, n)
    PROVE  Begins(l, n)
BY DEF Begins

(* Ledgers of one length, one of which begins the other, are equal.          *)
LEMMA BeginsSameLength ==
    ASSUME NEW l \in Seq(Kinds), NEW m \in Seq(Kinds), Begins(l, m), Len(l) = Len(m)
    PROVE  l = m
BY DEF Begins

(* Begins is IsPrefix, element by element.                                   *)
LEMMA BeginsIsPrefix ==
    ASSUME NEW l \in Seq(Kinds), NEW m \in Seq(Kinds), Begins(l, m)
    PROVE  IsPrefix(l, m)
<1>1. Len(l) \in Nat /\ Len(m) \in Nat /\ Len(l) <= Len(m)
  BY DEF Begins
<1>2. SubSeq(l, 1, Len(l)) = [i \in 1 .. Len(l) |-> l[i]]
  BY <1>1
<1>3. SubSeq(m, 1, Len(l)) = [i \in 1 .. Len(l) |-> m[i]]
  BY <1>1
<1> QED BY <1>1, <1>2, <1>3 DEF Begins, IsPrefix

(* The first event of every ledger begins one that was set up.               *)
LEMMA InitBegins ==
    ASSUME NEW l \in Seq(Kinds), NEW m \in Seq(Kinds), Len(l) = 1, l[1] = "init",
           2 <= Len(m), m[1] = "init"
    PROVE  Begins(l, m) /\ Len(l) # Len(m)
<1>1. Len(m) \in Nat /\ \A i \in 1 .. Len(l) : i = 1
  OBVIOUS
<1> QED BY <1>1 DEF Begins

(* A write keeps the row of a credential before its event.                  *)
LEMMA WrittenRow ==
    ASSUME NEW s \in Stores, NEW n, NEW t \in Tenants, Written(s, n, t),
           \A u \in Tenants : Contains(s.ledger[u], "issue") => s.token[u] # "none"
    PROVE  \A u \in Tenants : Contains(n.ledger[u], "issue") => n.token[u] # "none"
<1>1. s.ledger[t] \in Seq(Kinds)
  BY DEF Stores
<1>2. Contains(n.ledger[t], "issue") => n.token[t] # "none"
  <2>1. CASE n.ledger[t] = s.ledger[t]
    BY <2>1 DEF Written
  <2>2. CASE n.ledger[t] # s.ledger[t]
    <3>1. PICK k \in Kinds : /\ n.ledger[t] = Append(s.ledger[t], k)
                             /\ k = "issue" => n.token[t] # "none"
      BY <2>2 DEF Written
    <3>2. Contains(n.ledger[t], "issue") => Contains(s.ledger[t], "issue") \/ k = "issue"
      BY <1>1, <3>1, AppendHas
    <3>3. n.token[t] = "none" => s.token[t] = "none"
      BY DEF Written
    <3> QED BY <3>1, <3>2, <3>3
  <2> QED BY <2>1, <2>2
<1> QED BY <1>2 DEF Written

(* A write only extends ledgers.                                            *)
LEMMA WrittenGrows ==
    ASSUME NEW s \in Stores, NEW n, NEW t \in Tenants, Written(s, n, t), NEW u \in Tenants
    PROVE  /\ s.ledger[u] \in Seq(Kinds) /\ n.ledger[u] \in Seq(Kinds)
           /\ Begins(s.ledger[u], n.ledger[u])
           /\ n.ledger[u] = s.ledger[u] \/ Len(n.ledger[u]) = Len(s.ledger[u]) + 1
<1>1. s.ledger[u] \in Seq(Kinds) /\ n.ledger[u] \in Seq(Kinds)
  BY DEF Stores, Written
<1>2. Begins(s.ledger[u], s.ledger[u])
  BY <1>1 DEF Begins
<1>3. CASE n.ledger[u] = s.ledger[u]
  BY <1>1, <1>2, <1>3
<1>4. CASE n.ledger[u] # s.ledger[u]
  <2>1. u = t
    BY <1>4 DEF Written
  <2>2. PICK k \in Kinds : n.ledger[u] = Append(s.ledger[u], k)
    BY <1>4, <2>1 DEF Written
  <2> QED BY <1>1, <2>2, AppendHas
<1> QED BY <1>3, <1>4

(* A write to SQLite before the cutover.                                     *)
LEMMA SqWrite ==
    ASSUME FleetInv, NEW n, NEW t \in Tenants, Written(Sq, n, t),
           at' = [at EXCEPT !["sqlite"] = n],
           \A u \in n.catalog : n.ledger[u] # <<>> /\ (IsDefault(u) => u = Root),
           ~cutover, cutover' = cutover, serving' \in {serving, "none"},
           migration' = [pc |-> "idle", todo |-> {}]
    PROVE  FleetInv'
<1>1. Sq' = n /\ Pg' = Pg /\ Sq \in Stores /\ Pg \in Stores /\ n \in Stores
  BY DEF FleetInv, FleetTypes, Sq, Pg, Backends, Written
<1>2. FleetTypes'
  BY <1>1 DEF FleetInv, FleetTypes, Sq, Pg, Backends, Migration
<1>3. SourceOK'
  <2>1. Begins(Sq.ledger[Root], n.ledger[Root]) /\ n.ledger[Root] \in Seq(Kinds)
        /\ Sq.ledger[Root] \in Seq(Kinds)
    BY <1>1, WrittenGrows, FleetAssumption
  <2>2. 2 <= Len(n.ledger[Root]) /\ n.ledger[Root][1] = "init"
    BY <2>1 DEF FleetInv, SourceOK, Begins
  <2> QED BY <1>1, <2>2 DEF SourceOK, IsDefault
<1>4. OneSlug'
  BY <1>1 DEF FleetInv, OneSlug
<1>5. IssuedHasRow'
  <2>1. \A u \in Tenants : Contains(Sq.ledger[u], "issue") => Sq.token[u] # "none"
    BY DEF FleetInv, IssuedHasRow, Has, Sq, Backends
  <2>2. \A u \in Tenants : Contains(n.ledger[u], "issue") => n.token[u] # "none"
    BY <1>1, <2>1, WrittenRow
  <2>3. \A u \in Tenants : Contains(Pg.ledger[u], "issue") => Pg.token[u] # "none"
    BY DEF FleetInv, IssuedHasRow, Has, Pg, Backends
  <2> QED BY <1>1, <2>2, <2>3 DEF IssuedHasRow, Has, Sq, Pg, Backends
<1>6. TargetBehind'
  <2> SUFFICES ASSUME NEW u \in Tenants, u = Root \/ ~IsDefault(u)
               PROVE  BehindSource(u)'
    BY DEF TargetBehind, IsDefault
  <2>1. BehindSource(u)
    BY DEF FleetInv, TargetBehind
  <2>2. Pg.ledger[u] \in Seq(Kinds) /\ Begins(Sq.ledger[u], n.ledger[u])
        /\ Sq.ledger[u] \in Seq(Kinds) /\ n.ledger[u] \in Seq(Kinds)
        /\ (n.ledger[u] = Sq.ledger[u] \/ Len(n.ledger[u]) = Len(Sq.ledger[u]) + 1)
    BY <1>1, WrittenGrows DEF Stores
  <2>3. Begins(Pg.ledger[u], n.ledger[u])
    BY <2>1, <2>2, BeginsTransitive DEF BehindSource
  <2>4. n.token[u] = "none" => Sq.token[u] = "none"
    BY DEF Written
  <2>5. CASE n.ledger[u] = Sq.ledger[u]
    <3>1. n.token[u] = Sq.token[u] \/ Sq.token[u] = "none"
      <4>1. CASE u # t
        BY <4>1 DEF Written
      <4>2. CASE u = t
        <5>1. \A k \in Kinds : Append(Sq.ledger[u], k) # Sq.ledger[u]
          BY <2>2, AppendHas
        <5> QED BY <4>2, <5>1, <2>5 DEF Written
      <4> QED BY <4>1, <4>2
    <3> QED BY <1>1, <2>1, <2>3, <2>4, <2>5, <3>1 DEF BehindSource
  <2>6. CASE Len(n.ledger[u]) = Len(Sq.ledger[u]) + 1
    <3>1. Len(Pg.ledger[u]) # Len(n.ledger[u])
      BY <2>1, <2>2, <2>6 DEF BehindSource, Begins
    <3> QED BY <1>1, <2>1, <2>3, <2>4, <3>1 DEF BehindSource
  <2> QED BY <2>2, <2>5, <2>6
<1>7. MigrationOK' /\ ServingOK' /\ Kept'
  BY DEF FleetInv, MigrationOK, ServingOK, Kept, Migrating
<1> QED BY <1>2, <1>3, <1>4, <1>5, <1>6, <1>7 DEF FleetInv
(* A write to PostgreSQL: after the cutover, or to a tenant that SQLite does   *)
(* not have or, for the root, whose stream is empty.                         *)
LEMMA PgWrite ==
    ASSUME FleetInv, NEW n, NEW t \in Tenants, Written(Pg, n, t),
           at' = [at EXCEPT !["postgres"] = n],
           \A u, v \in n.catalog : SlugOf[u] = SlugOf[v] => u = v,
           cutover \/ IsDefault(t),
           ~cutover => \/ t # Root
                       \/ /\ Pg.ledger[t] = <<>> /\ Len(n.ledger[t]) = 1
                          /\ n.ledger[t][1] = "init" /\ n.token[t] = Pg.token[t],
           cutover' = cutover, serving' \in {serving, "none"}, migration' = migration
    PROVE  FleetInv'
<1>1. Sq' = Sq /\ Pg' = n /\ Sq \in Stores /\ Pg \in Stores /\ n \in Stores
      /\ Pg.catalog \subseteq n.catalog
  BY DEF FleetInv, FleetTypes, Sq, Pg, Backends, Written
<1>2. FleetTypes'
  BY <1>1 DEF FleetInv, FleetTypes, Sq, Pg, Backends
<1>3. SourceOK'
  BY <1>1 DEF FleetInv, SourceOK, IsDefault
<1>4. OneSlug'
  BY <1>1 DEF OneSlug
<1>5. IssuedHasRow'
  <2>1. \A u \in Tenants : Contains(Pg.ledger[u], "issue") => Pg.token[u] # "none"
    BY DEF FleetInv, IssuedHasRow, Has, Pg, Backends
  <2>2. \A u \in Tenants : Contains(n.ledger[u], "issue") => n.token[u] # "none"
    BY <1>1, <2>1, WrittenRow
  <2>3. \A u \in Tenants : Contains(Sq.ledger[u], "issue") => Sq.token[u] # "none"
    BY DEF FleetInv, IssuedHasRow, Has, Sq, Backends
  <2> QED BY <1>1, <2>2, <2>3 DEF IssuedHasRow, Has, Sq, Pg, Backends
<1>6. TargetBehind'
  <2> SUFFICES ASSUME ~cutover, NEW u \in Tenants, u = Root \/ ~IsDefault(u)
               PROVE  BehindSource(u)'
    BY DEF TargetBehind, IsDefault
  <2>1. BehindSource(u)
    BY DEF FleetInv, TargetBehind
  <2>2. CASE u # t
    <3>1. n.ledger[u] = Pg.ledger[u] /\ n.token[u] = Pg.token[u]
      BY <2>2 DEF Written
    <3> QED BY <1>1, <2>1, <3>1 DEF BehindSource
  <2>3. CASE u = t
    <3>1. u = Root /\ Len(n.ledger[u]) = 1 /\ n.ledger[u][1] = "init" /\ n.token[u] = Pg.token[u]
      BY <2>3
    <3>2. 2 <= Len(Sq.ledger[u]) /\ Sq.ledger[u][1] = "init" /\ Sq.ledger[u] \in Seq(Kinds)
      BY <1>1, <3>1 DEF FleetInv, SourceOK, Stores
    <3>3. Begins(n.ledger[u], Sq.ledger[u]) /\ Len(n.ledger[u]) # Len(Sq.ledger[u])
      <4>1. n.ledger[u] \in Seq(Kinds)
        BY <1>1 DEF Stores
      <4> QED BY <3>1, <3>2, <4>1, InitBegins
    <3> QED BY <1>1, <2>1, <3>1, <3>3 DEF BehindSource
  <2> QED BY <2>2, <2>3
<1>7. MigrationOK'
  <2>1. ASSUME migration.pc \in {"catalog", "import", "done"}, ~cutover,
               NEW u \in Sq.catalog \ migration.todo
        PROVE  Copied(u)'
    <3>1. Copied(u) /\ Sq.ledger[u] # <<>> /\ (IsDefault(u) => u = Root) /\ u \in Tenants
      BY <1>1, <2>1 DEF FleetInv, MigrationOK, SourceOK, Stores
    <3>2. u # t
      BY <2>1, <3>1 DEF Copied
    <3>3. n.ledger[u] = Pg.ledger[u] /\ n.token[u] = Pg.token[u] /\ n.blobs[u] = Pg.blobs[u]
      BY <3>1, <3>2 DEF Written
    <3> QED BY <1>1, <3>1, <3>3 DEF Copied
  <2>2. \A u \in Tenants : Turn(u)' <=> Turn(u)
    BY DEF Turn, Earlier
  <2> QED BY <1>1, <2>1, <2>2 DEF FleetInv, MigrationOK
<1>8. ServingOK'
  BY DEF FleetInv, ServingOK, Migrating
<1>9. Kept'
  <2> SUFFICES ASSUME cutover, NEW u \in Sq.catalog
               PROVE  KeptTenant(u)'
    BY <1>1 DEF FleetInv, Kept
  <2>1. KeptTenant(u) /\ u \in Tenants
    BY <1>1 DEF FleetInv, Kept, Stores
  <2>2. /\ Pg.ledger[u] \in Seq(Kinds) /\ n.ledger[u] \in Seq(Kinds) /\ Sq.ledger[u] \in Seq(Kinds)
        /\ Begins(Pg.ledger[u], n.ledger[u])
        /\ n.ledger[u] = Pg.ledger[u] \/ Len(n.ledger[u]) = Len(Pg.ledger[u]) + 1
    BY <1>1, <2>1, WrittenGrows DEF Stores
  <2>3. Begins(Sq.ledger[u], n.ledger[u])
    BY <2>1, <2>2, BeginsTransitive DEF KeptTenant
  <2>4. Sq.blobs[u] \subseteq n.blobs[u]
    <3>1. Pg.blobs[u] \subseteq n.blobs[u]
      BY <2>1 DEF Written
    <3> QED BY <2>1, <3>1 DEF KeptTenant
  <2>5. ASSUME n.ledger[u] = Sq.ledger[u], Contains(Sq.ledger[u], "issue")
        PROVE  n.token[u] = Sq.token[u]
    <3>1. Len(Sq.ledger[u]) <= Len(Pg.ledger[u])
      BY <2>1 DEF KeptTenant, Begins
    <3>2. n.ledger[u] = Pg.ledger[u]
      BY <2>2, <2>5, <3>1
    <3>3. Pg.token[u] = Sq.token[u]
      BY <2>1, <2>5, <3>2 DEF KeptTenant, Has, Sq
    <3>4. Pg.token[u] # "none"
      BY <2>1, <2>5, <3>2 DEF FleetInv, IssuedHasRow, Has, Pg, Backends
    <3>5. n.token[u] = Pg.token[u] \/ Pg.token[u] = "none"
      <4>1. \A k \in Kinds : Append(Pg.ledger[u], k) # Pg.ledger[u]
        BY <2>2, AppendHas
      <4> QED BY <2>1, <3>2, <4>1 DEF Written
    <3> QED BY <3>3, <3>4, <3>5
  <2> QED BY <1>1, <2>1, <2>3, <2>4, <2>5 DEF KeptTenant, Has, Sq
<1> QED BY <1>2, <1>3, <1>4, <1>5, <1>6, <1>7, <1>8, <1>9 DEF FleetInv
(* A write of the server to tenant t, whole or cut short.                    *)
LEMMA ServerWrite ==
    ASSUME FleetInv, NEW b \in Backends, NEW t \in Tenants, Room(b, t),
           NEW first, NEW whole, Writes(b, first, whole),
           Written(at[b], first, t), Written(at[b], whole, t),
           first.catalog = at[b].catalog, whole.catalog = at[b].catalog
    PROVE  FleetInv'
<1>1. PICK n : /\ n \in {first, whole} /\ at' = [at EXCEPT ![b] = n]
               /\ serving' \in {serving, "none"}
  BY DEF Writes
<1>2. Written(at[b], n, t) /\ n.catalog = at[b].catalog /\ cutover' = cutover
      /\ migration' = Outdated(b)
  BY <1>1 DEF Writes
<1>3. CASE b = "sqlite"
  <2>1. ~cutover
    BY <1>3 DEF FleetInv, ServingOK, Room
  <2>2. \A u \in n.catalog : n.ledger[u] # <<>> /\ (IsDefault(u) => u = Root)
    <3> SUFFICES ASSUME NEW u \in n.catalog
                 PROVE  n.ledger[u] # <<>> /\ (IsDefault(u) => u = Root)
      OBVIOUS
    <3>1. Sq.ledger[u] # <<>> /\ (IsDefault(u) => u = Root) /\ Sq \in Stores /\ u \in Tenants
      BY <1>2, <1>3 DEF FleetInv, FleetTypes, SourceOK, Sq, Stores, Backends
    <3>2. n.ledger[u] = Sq.ledger[u] \/ Len(n.ledger[u]) = Len(Sq.ledger[u]) + 1
      BY <1>2, <1>3, <3>1, WrittenGrows DEF Sq
    <3>3. Sq.ledger[u] \in Seq(Kinds) /\ n.ledger[u] \in Seq(Kinds)
      BY <1>2, <1>3, <3>1, WrittenGrows DEF Sq
    <3>4. CASE n.ledger[u] = Sq.ledger[u]
      BY <3>1, <3>4
    <3>5. CASE Len(n.ledger[u]) = Len(Sq.ledger[u]) + 1
      <4>1. Len(n.ledger[u]) # 0
        BY <3>3, <3>5
      <4> QED BY <3>1, <4>1
    <3> QED BY <3>2, <3>4, <3>5
  <2> QED BY <1>1, <1>2, <1>3, <2>1, <2>2, SqWrite DEF Outdated, Sq
<1>4. CASE b = "postgres"
  <2>1. cutover
    BY <1>4 DEF FleetInv, ServingOK, Room
  <2>2. \A u, v \in n.catalog : SlugOf[u] = SlugOf[v] => u = v
    BY <1>2, <1>4 DEF FleetInv, OneSlug, Pg
  <2> QED BY <1>1, <1>2, <1>4, <2>1, <2>2, PgWrite DEF Outdated, Pg
<1> QED BY <1>3, <1>4 DEF Backends

(* A token is issued: the row, then the event.                              *)
LEMMA IssueStep ==
    ASSUME FleetInv, NEW b \in Backends, NEW t \in Tenants, IssueToken(b, t)
    PROVE  FleetInv'
<1>1. at[b] \in Stores
  BY DEF FleetInv, FleetTypes
<1>2. PICK row : row = [at[b] EXCEPT !.token[t] = "live"]
  OBVIOUS
<1>3. /\ row \in Stores /\ row.catalog = at[b].catalog /\ row.ledger = at[b].ledger
      /\ row.blobs = at[b].blobs /\ row.token = [at[b].token EXCEPT ![t] = "live"]
  BY <1>1, <1>2 DEF Stores
<1>4. PICK whole : whole = Appended(row, t, "issue")
  OBVIOUS
<1>5. "issue" \in Kinds
  BY DEF Kinds
<1>6. /\ whole \in Stores /\ whole.catalog = row.catalog /\ whole.token = row.token
      /\ whole.blobs = row.blobs
      /\ whole.ledger = [row.ledger EXCEPT ![t] = Append(row.ledger[t], "issue")]
  BY <1>3, <1>4, <1>5, AppendedIs
<1>7. Room(b, t) /\ at[b].token[t] = "none" /\ Writes(b, row, whole)
  BY <1>2, <1>4 DEF IssueToken
<1>8. Written(at[b], row, t)
  BY <1>1, <1>3, <1>7 DEF Written, Stores
<1>9. Written(at[b], whole, t)
  <2>1. /\ whole.ledger[t] = Append(at[b].ledger[t], "issue")
        /\ \A u \in Tenants \ {t} : whole.ledger[u] = at[b].ledger[u]
    BY <1>1, <1>3, <1>5, <1>6 DEF Stores
  <2>2. /\ \A u \in Tenants \ {t} :
              whole.token[u] = at[b].token[u] /\ whole.blobs[u] = at[b].blobs[u]
        /\ at[b].blobs[t] \subseteq whole.blobs[t]
        /\ whole.token[t] = "none" => at[b].token[t] = "none"
        /\ "issue" = "issue" => whole.token[t] # "none"
    BY <1>1, <1>3, <1>5, <1>6, <1>7 DEF Stores
  <2> QED BY <1>1, <1>3, <1>5, <1>6, <2>1, <2>2 DEF Written
<1> QED BY <1>3, <1>6, <1>7, <1>8, <1>9, ServerWrite

(* A token is revoked: the event, then the row.                             *)
LEMMA RevokeStep ==
    ASSUME FleetInv, NEW b \in Backends, NEW t \in Tenants, RevokeToken(b, t)
    PROVE  FleetInv'
<1>1. at[b] \in Stores /\ "revoke" \in Kinds
  BY DEF FleetInv, FleetTypes, Kinds
<1>2. PICK event : event = Appended(at[b], t, "revoke")
  OBVIOUS
<1>3. /\ event \in Stores /\ event.catalog = at[b].catalog /\ event.token = at[b].token
      /\ event.blobs = at[b].blobs
      /\ event.ledger = [at[b].ledger EXCEPT ![t] = Append(at[b].ledger[t], "revoke")]
  BY <1>1, <1>2, AppendedIs
<1>4. PICK whole : whole = [event EXCEPT !.token[t] = "revoked"]
  OBVIOUS
<1>5. /\ whole \in Stores /\ whole.catalog = event.catalog /\ whole.ledger = event.ledger
      /\ whole.blobs = event.blobs /\ whole.token = [event.token EXCEPT ![t] = "revoked"]
  BY <1>3, <1>4 DEF Stores
<1>6. Room(b, t) /\ Writes(b, event, whole)
  BY <1>2, <1>4 DEF RevokeToken
<1>7. Written(at[b], event, t)
  BY <1>1, <1>3 DEF Written, Stores
<1>8. Written(at[b], whole, t)
  <2>1. /\ whole.ledger[t] = Append(at[b].ledger[t], "revoke")
        /\ \A u \in Tenants \ {t} : whole.ledger[u] = at[b].ledger[u]
    BY <1>1, <1>3, <1>5 DEF Stores
  <2>2. /\ \A u \in Tenants \ {t} :
              whole.token[u] = at[b].token[u] /\ whole.blobs[u] = at[b].blobs[u]
        /\ at[b].blobs[t] \subseteq whole.blobs[t]
        /\ whole.token[t] = "none" => at[b].token[t] = "none"
        /\ "revoke" = "issue" => whole.token[t] # "none"
    BY <1>1, <1>3, <1>5 DEF Stores
  <2> QED BY <1>1, <1>3, <1>5, <2>1, <2>2 DEF Written
<1> QED BY <1>3, <1>5, <1>6, <1>7, <1>8, ServerWrite

(* An artifact is filed: the content, then the event.                       *)
LEMMA FileStep ==
    ASSUME FleetInv, NEW b \in Backends, NEW t \in Tenants, FileArtifact(b, t)
    PROVE  FleetInv'
<1>1. at[b] \in Stores /\ "file" \in Kinds
  BY DEF FleetInv, FleetTypes, Kinds
<1>2. PICK content : content = [at[b] EXCEPT !.blobs[t] = {Blob}]
  OBVIOUS
<1>3. /\ content \in Stores /\ content.catalog = at[b].catalog /\ content.ledger = at[b].ledger
      /\ content.token = at[b].token /\ content.blobs = [at[b].blobs EXCEPT ![t] = {Blob}]
  BY <1>1, <1>2 DEF Stores
<1>4. PICK whole : whole = Appended(content, t, "file")
  OBVIOUS
<1>5. /\ whole \in Stores /\ whole.catalog = content.catalog /\ whole.token = content.token
      /\ whole.blobs = content.blobs
      /\ whole.ledger = [content.ledger EXCEPT ![t] = Append(content.ledger[t], "file")]
  BY <1>1, <1>3, <1>4, AppendedIs
<1>6. Room(b, t) /\ Writes(b, content, whole)
  BY <1>2, <1>4 DEF FileArtifact
<1>7. Written(at[b], content, t)
  BY <1>1, <1>3 DEF Written, Stores
<1>8. Written(at[b], whole, t)
  <2>1. /\ whole.ledger[t] = Append(at[b].ledger[t], "file")
        /\ \A u \in Tenants \ {t} : whole.ledger[u] = at[b].ledger[u]
    BY <1>1, <1>3, <1>5 DEF Stores
  <2>2. /\ \A u \in Tenants \ {t} :
              whole.token[u] = at[b].token[u] /\ whole.blobs[u] = at[b].blobs[u]
        /\ at[b].blobs[t] \subseteq whole.blobs[t]
        /\ whole.token[t] = "none" => at[b].token[t] = "none"
        /\ "file" = "issue" => whole.token[t] # "none"
    BY <1>1, <1>3, <1>5 DEF Stores
  <2> QED BY <1>1, <1>3, <1>5, <2>1, <2>2 DEF Written
<1> QED BY <1>3, <1>5, <1>6, <1>7, <1>8, ServerWrite
(* A tenant is created on the back end in use.                               *)
LEMMA CreateStep ==
    ASSUME FleetInv, NEW b \in Backends, NEW t \in Tenants, CreateTenant(b, t)
    PROVE  FleetInv'
<1>1. at[b] \in Stores /\ "init" \in Kinds /\ Root \in Tenants /\ "init" # "issue"
  BY FleetAssumption DEF FleetInv, FleetTypes, Kinds
<1>2. PICK adopted : adopted = IF b = "sqlite" THEN Registered(at[b], Root) ELSE at[b]
  OBVIOUS
<1>3. /\ adopted \in Stores /\ adopted.ledger = at[b].ledger /\ adopted.token = at[b].token
      /\ adopted.blobs = at[b].blobs
      /\ adopted.catalog = IF b = "sqlite" THEN at[b].catalog \cup {Root} ELSE at[b].catalog
  BY <1>1, <1>2, RegisteredIs
<1>4. PICK opened : opened = Appended(adopted, t, "init")
  OBVIOUS
<1>5. /\ opened \in Stores /\ opened.catalog = adopted.catalog /\ opened.token = adopted.token
      /\ opened.blobs = adopted.blobs
      /\ opened.ledger = [adopted.ledger EXCEPT ![t] = Append(adopted.ledger[t], "init")]
  BY <1>1, <1>3, <1>4, AppendedIs
<1>6. PICK n : n \in {opened, Registered(opened, t)} /\ at' = [at EXCEPT ![b] = n]
  BY <1>2, <1>4 DEF CreateTenant
<1>7. /\ n \in Stores /\ n.token = opened.token /\ n.blobs = opened.blobs
      /\ n.ledger = opened.ledger /\ n.catalog \in {opened.catalog, opened.catalog \cup {t}}
  BY <1>5, <1>6, RegisteredIs
<1>8. Written(at[b], n, t)
  <2>1. /\ n.ledger[t] = Append(at[b].ledger[t], "init")
        /\ \A u \in Tenants \ {t} : n.ledger[u] = at[b].ledger[u]
    BY <1>1, <1>3, <1>5, <1>7 DEF Stores
  <2>2. n.token = at[b].token /\ n.blobs = at[b].blobs /\ at[b].catalog \subseteq n.catalog
    BY <1>3, <1>5, <1>7
  <2> QED BY <1>1, <1>7, <2>1, <2>2 DEF Written
<1>9. ~IsDefault(t) /\ ~SlugTaken(b, t) /\ b = CurrentBackend /\ UNCHANGED <<serving, cutover>>
      /\ migration' = Outdated(b)
  BY DEF CreateTenant
<1>10. CASE b = "sqlite"
  <2>1. ~cutover
    BY <1>9, <1>10 DEF CurrentBackend
  <2>2. \A u \in n.catalog : n.ledger[u] # <<>> /\ (IsDefault(u) => u = Root)
    <3> SUFFICES ASSUME NEW u \in n.catalog
                 PROVE  n.ledger[u] # <<>> /\ (IsDefault(u) => u = Root)
      OBVIOUS
    <3>1. u \in Sq.catalog \/ u = Root \/ u = t
      BY <1>3, <1>5, <1>7, <1>10 DEF Sq
    <3>2. u \in Tenants
      BY <1>7 DEF Stores
    <3>3. IsDefault(u) => u = Root
      BY <1>9, <3>1 DEF FleetInv, SourceOK
    <3>4. Sq.ledger[u] \in Seq(Kinds) /\ n.ledger[u] \in Seq(Kinds)
          /\ (n.ledger[u] = Sq.ledger[u] \/ Len(n.ledger[u]) = Len(Sq.ledger[u]) + 1)
      BY <1>1, <1>8, <1>10, <3>2, WrittenGrows DEF Sq
    <3>5. CASE u = t
      <4>1. n.ledger[u] = Append(Sq.ledger[u], "init")
        BY <1>1, <1>3, <1>5, <1>7, <1>10, <3>5 DEF Stores, Sq
      <4>2. Len(n.ledger[u]) # 0
        BY <1>1, <3>4, <4>1
      <4> QED BY <3>3, <4>2
    <3>6. CASE u # t
      <4>1. n.ledger[u] = Sq.ledger[u]
        BY <1>8, <1>10, <3>2, <3>6 DEF Written, Sq
      <4>2. Sq.ledger[Root] # <<>>
        BY DEF FleetInv, SourceOK
      <4> QED BY <3>1, <3>3, <3>6, <4>1, <4>2 DEF FleetInv, SourceOK
    <3> QED BY <3>5, <3>6
  <2>3. migration' = [pc |-> "idle", todo |-> {}]
    BY <1>9, <1>10 DEF Outdated
  <2> QED BY <1>6, <1>8, <1>9, <1>10, <2>1, <2>2, <2>3, SqWrite DEF Sq
<1>11. CASE b = "postgres"
  <2>1. cutover /\ migration' = migration
    BY <1>9, <1>11 DEF CurrentBackend, Outdated
  <2>2. \A u, v \in n.catalog : SlugOf[u] = SlugOf[v] => u = v
    <3>1. n.catalog \in {Pg.catalog, Pg.catalog \cup {t}}
      BY <1>3, <1>5, <1>7, <1>11 DEF Pg
    <3>2. \A u \in Pg.catalog : SlugOf[u] # SlugOf[t]
      BY <1>9, <1>11 DEF SlugTaken, Pg
    <3> QED BY <3>1, <3>2 DEF FleetInv, OneSlug
  <2> QED BY <1>6, <1>8, <1>9, <1>11, <2>1, <2>2, PgWrite DEF Pg
<1> QED BY <1>10, <1>11 DEF Backends

(* The default tenant of a catalog is one, if there is any.                  *)
LEMMA DefaultIs ==
    ASSUME NEW b \in Backends, FleetTypes
    PROVE  \/ DefaultTenant(b) \in at[b].catalog /\ IsDefault(DefaultTenant(b))
           \/ DefaultTenant(b) = NoTenant /\ \A t \in at[b].catalog : ~IsDefault(t)
<1>1. PICK defaults : defaults = {t \in at[b].catalog : IsDefault(t)}
  OBVIOUS
<1>2. CASE defaults = {}
  BY <1>1, <1>2 DEF DefaultTenant
<1>3. CASE defaults # {}
  <2>1. PICK t : t = (CHOOSE u \in defaults : TRUE)
    OBVIOUS
  <2>2. t \in defaults
    BY <1>3, <2>1
  <2>3. DefaultTenant(b) = t
    BY <1>1, <1>3, <2>1 DEF DefaultTenant
  <2> QED BY <1>1, <2>2, <2>3
<1> QED BY <1>2, <1>3

(* `relay org init` on PostgreSQL.                                          *)
LEMMA InitOrganizationStep ==
    ASSUME FleetInv, NEW t \in Tenants, InitOrganization(t)
    PROVE  FleetInv'
<1>1. Pg \in Stores /\ "init" \in Kinds /\ "init" # "issue" /\ NoTenant \notin Tenants
  BY FleetAssumption DEF FleetInv, FleetTypes, Kinds, Pg, Backends
<1>2. PICK opened : opened = Appended(Pg, t, "init")
  OBVIOUS
<1>3. /\ opened \in Stores /\ opened.catalog = Pg.catalog /\ opened.token = Pg.token
      /\ opened.blobs = Pg.blobs
      /\ opened.ledger = [Pg.ledger EXCEPT ![t] = Append(Pg.ledger[t], "init")]
  BY <1>1, <1>2, AppendedIs
<1>4. PICK n : n \in {opened, Registered(opened, t)} /\ at' = [at EXCEPT !["postgres"] = n]
  BY <1>2 DEF InitOrganization, Pg
<1>5. /\ n \in Stores /\ n.token = opened.token /\ n.blobs = opened.blobs
      /\ n.ledger = opened.ledger /\ n.catalog \in {opened.catalog, opened.catalog \cup {t}}
  BY <1>3, <1>4, RegisteredIs
<1>6. /\ n.ledger[t] = Append(Pg.ledger[t], "init") /\ Pg.ledger[t] \in Seq(Kinds)
      /\ \A u \in Tenants \ {t} : n.ledger[u] = Pg.ledger[u]
  BY <1>1, <1>3, <1>5 DEF Stores
<1>7. Written(Pg, n, t)
  <2>1. n.token = Pg.token /\ n.blobs = Pg.blobs /\ Pg.catalog \subseteq n.catalog
    BY <1>3, <1>5
  <2> QED BY <1>1, <1>5, <1>6, <2>1 DEF Written
<1>8. ~cutover /\ Pg.ledger[t] = <<>> /\ UNCHANGED <<serving, cutover, migration>>
  BY DEF InitOrganization, Initialized, Pg
<1>9. Len(n.ledger[t]) = 1 /\ n.ledger[t][1] = "init" /\ n.token[t] = Pg.token[t]
  BY <1>1, <1>3, <1>5, <1>6, <1>8
<1>10. IsDefault(t) /\ (t \in Pg.catalog \/ \A u \in Pg.catalog : ~IsDefault(u))
  <2>1. PICK d : d = DefaultTenant("postgres")
    OBVIOUS
  <2>2. IF d # NoTenant THEN t = d ELSE IsDefault(t) /\ t # Root
    BY <2>1 DEF InitOrganization
  <2>3. \/ d \in Pg.catalog /\ IsDefault(d)
        \/ d = NoTenant /\ \A u \in Pg.catalog : ~IsDefault(u)
    BY <2>1, DefaultIs DEF FleetInv, Backends, Pg
  <2>4. d \in Pg.catalog => d \in Tenants
    BY <1>1 DEF Stores
  <2> QED BY <1>1, <2>2, <2>3, <2>4
<1>11. \A u, v \in n.catalog : SlugOf[u] = SlugOf[v] => u = v
  BY <1>3, <1>5, <1>10 DEF FleetInv, OneSlug, IsDefault
<1> QED BY <1>4, <1>7, <1>8, <1>9, <1>10, <1>11, PgWrite
(* The server starts and stops.                                             *)
LEMMA ServeStep ==
    ASSUME FleetInv, ServeSqlite \/ ServePostgres \/ Stop
    PROVE  FleetInv'
<1>1. ASSUME ServeSqlite
      PROVE  FleetInv'
  <2>1. Sq \in Stores /\ Root \in Tenants
    BY FleetAssumption DEF FleetInv, FleetTypes, Sq, Backends
  <2>2. PICK n : n = Registered(Sq, Root)
    OBVIOUS
  <2>3. /\ n \in Stores /\ n.catalog = Sq.catalog \cup {Root} /\ n.ledger = Sq.ledger
        /\ n.token = Sq.token /\ n.blobs = Sq.blobs
    BY <2>1, <2>2, RegisteredIs
  <2>4. /\ at' = [at EXCEPT !["sqlite"] = n] /\ serving' = "sqlite" /\ ~cutover /\ ~Migrating
        /\ UNCHANGED <<cutover, migration>>
    BY <1>1, <2>2 DEF ServeSqlite, Sq
  <2>5. Sq' = n /\ Pg' = Pg
    BY <2>3, <2>4 DEF FleetInv, FleetTypes, Sq, Pg, Backends
  <2>6. FleetTypes'
    BY <2>3, <2>4 DEF FleetInv, FleetTypes, Backends
  <2>7. Sq.ledger[Root] # <<>>
    BY DEF FleetInv, SourceOK
  <2>8. SourceOK'
    BY <2>3, <2>5, <2>7 DEF FleetInv, SourceOK, IsDefault
  <2>9. OneSlug'
    BY <2>5 DEF FleetInv, OneSlug
  <2>10. IssuedHasRow'
    <3>1. \A b \in Backends : at'[b].ledger = at[b].ledger /\ at'[b].token = at[b].token
      BY <2>3, <2>4 DEF FleetInv, FleetTypes, Sq, Backends
    <3> QED BY <3>1 DEF FleetInv, IssuedHasRow, Has
  <2>11. TargetBehind'
    BY <2>3, <2>4, <2>5 DEF FleetInv, TargetBehind, BehindSource, IsDefault
  <2>12. MigrationOK'
    <3>1. \A t \in Tenants : Turn(t)' <=> Turn(t)
      BY <2>4 DEF Turn, Earlier
    <3>2. \A t : Copied(t)' <=> Copied(t)
      BY <2>3, <2>5 DEF Copied
    <3> QED BY <2>3, <2>4, <2>5, <3>1, <3>2 DEF FleetInv, MigrationOK
  <2>13. ServingOK' /\ Kept'
    BY <2>4 DEF FleetInv, ServingOK, Kept, Migrating
  <2> QED BY <2>6, <2>8, <2>9, <2>10, <2>11, <2>12, <2>13 DEF FleetInv
<1>2. ASSUME ServePostgres
      PROVE  FleetInv'
  <2>1. /\ serving' = "postgres" /\ cutover' = TRUE /\ UNCHANGED <<at, migration>>
        /\ (cutover \/ migration.pc = "done")
    BY <1>2 DEF ServePostgres
  <2>2. Sq' = Sq /\ Pg' = Pg
    BY <2>1 DEF Sq, Pg
  <2>3. FleetTypes' /\ TargetBehind' /\ ServingOK'
    BY <2>1 DEF FleetInv, FleetTypes, TargetBehind, ServingOK, Backends
  <2>4. SourceOK' /\ OneSlug' /\ IssuedHasRow'
    BY <2>1, <2>2 DEF FleetInv, SourceOK, OneSlug, IssuedHasRow, IsDefault, Has
  <2>5. MigrationOK'
    <3>1. \A t \in Tenants : Turn(t)' <=> Turn(t)
      BY <2>1 DEF Turn, Earlier
    <3> QED BY <2>1, <2>2, <3>1 DEF FleetInv, MigrationOK
  <2>6. Kept'
    <3>1. \A t : KeptTenant(t)' <=> KeptTenant(t)
      BY <2>1, <2>2 DEF KeptTenant, Has
    <3>2. CASE cutover
      BY <2>2, <3>1, <3>2 DEF FleetInv, Kept
    <3>3. CASE ~cutover
      <4>1. Root \in Sq.catalog /\ \A t \in Sq.catalog : Copied(t)
        BY <2>1, <3>3 DEF FleetInv, MigrationOK
      <4>2. \A t \in Sq.catalog : Sq.ledger[t] \in Seq(Kinds)
        BY DEF FleetInv, FleetTypes, Sq, Backends, Stores
      <4>3. \A t \in Sq.catalog : KeptTenant(t)
        BY <4>1, <4>2 DEF Copied, KeptTenant, Begins
      <4> QED BY <2>2, <3>1, <4>1, <4>3 DEF Kept
    <3> QED BY <3>2, <3>3
  <2> QED BY <2>3, <2>4, <2>5, <2>6 DEF FleetInv
<1>3. ASSUME Stop
      PROVE  FleetInv'
  <2>1. serving' = "none" /\ UNCHANGED <<at, cutover, migration>>
    BY <1>3 DEF Stop
  <2>2. ServingOK' /\ FleetTypes'
    BY <2>1 DEF FleetInv, FleetTypes, ServingOK
  <2>3. SourceOK' /\ OneSlug' /\ IssuedHasRow' /\ TargetBehind' /\ MigrationOK' /\ Kept'
    BY <2>1 DEF FleetInv, SourceOK, OneSlug, IssuedHasRow, TargetBehind, MigrationOK, Kept,
                IsDefault, Has, BehindSource, Turn, Earlier, Copied, KeptTenant, Sq, Pg
  <2> QED BY <2>2, <2>3 DEF FleetInv
<1> QED BY <1>1, <1>2, <1>3
(* What does not change with the migration's variable.                       *)
LEMMA OnlyMigration ==
    ASSUME FleetInv, UNCHANGED <<at, serving, cutover>>, migration' \in Migration,
           Migrating' => serving # "sqlite", MigrationOK'
    PROVE  FleetInv'
<1>1. FleetTypes' /\ ServingOK'
  BY DEF FleetInv, FleetTypes, ServingOK
<1>2. SourceOK' /\ OneSlug' /\ IssuedHasRow' /\ TargetBehind' /\ Kept'
  BY DEF FleetInv, SourceOK, OneSlug, IssuedHasRow, TargetBehind, Kept,
         IsDefault, Has, BehindSource, KeptTenant, Sq, Pg
<1> QED BY <1>1, <1>2 DEF FleetInv

(* The migration starts, ends, is killed.                                    *)
LEMMA MigrateEnds ==
    ASSUME FleetInv, MigrateDone \/ MigrateCrash
    PROVE  FleetInv'
<1>1. migration \in Migration /\ (Migrating => serving # "sqlite")
  BY DEF FleetInv, FleetTypes, ServingOK
<1>2. CASE MigrateDone
  <2>1. /\ UNCHANGED <<at, serving, cutover>> /\ migration.pc = "catalog" /\ migration.todo = {}
        /\ migration' = [migration EXCEPT !.pc = "done"]
    BY <1>2 DEF MigrateDone
  <2>2. migration'.pc = "done" /\ migration'.todo = {} /\ migration' \in Migration
    BY <1>1, <2>1 DEF Migration
  <2>3. Sq' = Sq /\ \A t : Copied(t)' <=> Copied(t)
    BY <2>1 DEF Copied, Sq, Pg
  <2>4. MigrationOK'
    BY <2>1, <2>2, <2>3 DEF FleetInv, MigrationOK
  <2>5. ~Migrating'
    BY <2>2 DEF Migrating
  <2> QED BY <2>1, <2>2, <2>4, <2>5, OnlyMigration
<1>3. CASE MigrateCrash
  <2>1. UNCHANGED <<at, serving, cutover>> /\ migration' = [pc |-> "idle", todo |-> {}]
    BY <1>3 DEF MigrateCrash
  <2>2. MigrationOK' /\ migration' \in Migration /\ ~Migrating'
    BY <2>1 DEF MigrationOK, Migration, Migrating
  <2> QED BY <2>1, <2>2, OnlyMigration
<1> QED BY <1>2, <1>3

(* The migration stops with an error.                                       *)
LEMMA RefuseStep ==
    ASSUME FleetInv, Refuse, UNCHANGED <<serving, cutover>>
    PROVE  FleetInv'
<1>1. migration \in Migration
  BY DEF FleetInv, FleetTypes
<1>2. migration' \in Migration /\ migration'.pc = "refused"
  BY <1>1 DEF Refuse, Migration
<1>3. MigrationOK' /\ ~Migrating'
  BY <1>2 DEF MigrationOK, Migrating
<1> QED BY <1>2, <1>3, OnlyMigration DEF Refuse

(* The migration lists the tenants of SQLite.                               *)
LEMMA MigrateStartStep ==
    ASSUME FleetInv, MigrateStart
    PROVE  FleetInv'
<1>1. Sq \in Stores /\ Root \in Tenants
  BY FleetAssumption DEF FleetInv, FleetTypes, Sq, Backends
<1>2. PICK n : n = Registered(Sq, Root)
  OBVIOUS
<1>3. /\ n \in Stores /\ n.catalog = Sq.catalog \cup {Root} /\ n.ledger = Sq.ledger
      /\ n.token = Sq.token /\ n.blobs = Sq.blobs
  BY <1>1, <1>2, RegisteredIs
<1>4. /\ at' = [at EXCEPT !["sqlite"] = n] /\ serving # "sqlite"
      /\ UNCHANGED <<serving, cutover>> /\ migration' = [pc |-> "catalog", todo |-> n.catalog]
  BY <1>2 DEF MigrateStart, Sq
<1>5. Sq' = n /\ Pg' = Pg
  BY <1>3, <1>4 DEF FleetInv, FleetTypes, Sq, Pg, Backends
<1>6. n.catalog \in SUBSET Tenants
  BY <1>3 DEF Stores
<1>7. FleetTypes'
  BY <1>3, <1>4, <1>6 DEF FleetInv, FleetTypes, Backends, Migration
<1>8. Sq.ledger[Root] # <<>>
  BY DEF FleetInv, SourceOK
<1>9. SourceOK' /\ OneSlug'
  BY <1>3, <1>5, <1>8 DEF FleetInv, SourceOK, OneSlug, IsDefault
<1>10. IssuedHasRow'
  <2>1. \A b \in Backends : at'[b].ledger = at[b].ledger /\ at'[b].token = at[b].token
    BY <1>3, <1>4 DEF FleetInv, FleetTypes, Sq, Backends
  <2> QED BY <2>1 DEF FleetInv, IssuedHasRow, Has
<1>11. TargetBehind'
  BY <1>3, <1>4, <1>5 DEF FleetInv, TargetBehind, BehindSource, IsDefault
<1>12. MigrationOK' /\ ServingOK'
  BY <1>3, <1>4, <1>5 DEF FleetInv, MigrationOK, ServingOK
<1>13. Kept'
  <2> SUFFICES ASSUME cutover
               PROVE  Root \in n.catalog /\ \A t \in n.catalog : KeptTenant(t)'
    BY <1>4, <1>5 DEF Kept
  <2>1. Root \in Sq.catalog /\ n.catalog = Sq.catalog /\ \A t \in Sq.catalog : KeptTenant(t)
    BY <1>3 DEF FleetInv, Kept
  <2>2. \A t : KeptTenant(t)' <=> KeptTenant(t)
    BY <1>3, <1>5 DEF KeptTenant, Has, Sq
  <2> QED BY <2>1, <2>2
<1> QED BY <1>7, <1>9, <1>10, <1>11, <1>12, <1>13 DEF FleetInv

(* One tenant at a time has its turn.                                       *)
LEMMA OneTurn ==
    ASSUME NEW t \in Tenants, NEW u \in Tenants, Turn(t), Turn(u)
    PROVE  t = u
<1>1. PICK i \in DOMAIN Listing : Listing[i] = t
  BY DEF Tenants, Range
<1>2. PICK j \in DOMAIN Listing : Listing[j] = u
  BY DEF Tenants, Range
<1>3. ~(i < j) /\ ~(j < i)
  BY <1>1, <1>2 DEF Turn, Earlier
<1>4. i \in Int /\ j \in Int
  BY <1>1, <1>2, FleetAssumption
<1> QED BY <1>1, <1>2, <1>3, <1>4
(* The catalog row of a tenant.                                              *)
LEMMA MigrateCatalogStep ==
    ASSUME FleetInv, NEW t \in Tenants, MigrateCatalog(t)
    PROVE  FleetInv'
<1>1. /\ migration \in Migration /\ Pg \in Stores /\ migration.pc = "catalog" /\ Turn(t)
      /\ UNCHANGED <<serving, cutover>> /\ serving # "sqlite"
  BY DEF FleetInv, FleetTypes, ServingOK, Migrating, MigrateCatalog, Pg, Backends
<1>2. /\ Root \in Sq.catalog /\ migration.todo \subseteq Sq.catalog /\ t \in Sq.catalog
      /\ ~cutover => \A u \in Sq.catalog \ migration.todo : Copied(u)
  BY <1>1 DEF FleetInv, MigrationOK, Turn
<1>3. CASE migration' = [migration EXCEPT !.pc = "import"]
  <2>1. /\ migration' \in Migration /\ migration'.pc = "import"
        /\ migration'.todo = migration.todo
    BY <1>1, <1>3 DEF Migration
  <2>2. \A u \in Tenants : Turn(u)' => u = t
    <3>1. \A u \in Tenants : Turn(u)' <=> Turn(u)
      BY <2>1 DEF Turn, Earlier
    <3> QED BY <1>1, <3>1, OneTurn
  <2>3. CASE t \in Pg.catalog /\ UNCHANGED at
    <3>1. Sq' = Sq /\ Pg' = Pg /\ \A u : Copied(u)' <=> Copied(u)
      BY <2>3 DEF Copied, Sq, Pg
    <3>2. MigrationOK'
      BY <1>1, <1>2, <2>1, <2>2, <2>3, <3>1 DEF MigrationOK
    <3> QED BY <1>1, <2>1, <2>3, <3>2, OnlyMigration
  <2>4. CASE t \notin Pg.catalog /\ at' = [at EXCEPT !["postgres"] = Registered(Pg, t)]
             /\ AdmitsToPostgres(t)
    <3>1. ~cutover
      BY <1>2, <2>4 DEF FleetInv, Kept, KeptTenant
    <3>2. PICK n : n = Registered(Pg, t)
      OBVIOUS
    <3>3. /\ n \in Stores /\ n.catalog = Pg.catalog \cup {t} /\ n.ledger = Pg.ledger
          /\ n.token = Pg.token /\ n.blobs = Pg.blobs
      BY <1>1, <3>2, RegisteredIs
    <3>4. Sq' = Sq /\ Pg' = n
      BY <2>4, <3>2 DEF FleetInv, FleetTypes, Sq, Pg, Backends
    <3>5. FleetTypes' /\ ServingOK' /\ Kept'
      BY <1>1, <2>1, <2>4, <3>1, <3>2, <3>3
         DEF FleetInv, FleetTypes, Backends, ServingOK, Kept, Migrating
    <3>6. SourceOK' /\ TargetBehind'
      BY <1>1, <3>3, <3>4 DEF FleetInv, SourceOK, TargetBehind, BehindSource, IsDefault
    <3>7. OneSlug'
      <4>1. \A u \in Pg.catalog : SlugOf[u] # SlugOf[t]
        BY <2>4 DEF AdmitsToPostgres, SlugTaken, Pg
      <4> QED BY <3>3, <3>4, <4>1 DEF FleetInv, OneSlug
    <3>8. IssuedHasRow'
      <4>1. \A b \in Backends : at'[b].ledger = at[b].ledger /\ at'[b].token = at[b].token
        BY <2>4, <3>2, <3>3 DEF FleetInv, FleetTypes, Pg, Backends
      <4> QED BY <4>1 DEF FleetInv, IssuedHasRow, Has
    <3>9. MigrationOK'
      <4>1. \A u : Copied(u) => Copied(u)'
        BY <3>3, <3>4 DEF Copied
      <4> QED BY <1>1, <1>2, <2>1, <2>2, <3>3, <3>4, <4>1 DEF MigrationOK
    <3> QED BY <3>5, <3>6, <3>7, <3>8, <3>9 DEF FleetInv
  <2>5. /\ t \in Pg.catalog => UNCHANGED at
        /\ t \notin Pg.catalog /\ AdmitsToPostgres(t) =>
              at' = [at EXCEPT !["postgres"] = Registered(Pg, t)]
        /\ t \notin Pg.catalog /\ ~AdmitsToPostgres(t) => Refuse
    BY DEF MigrateCatalog, Pg
  <2>6. ~Refuse
    <3>1. [migration EXCEPT !.pc = "refused"].pc = "refused"
      BY <1>1 DEF Migration
    <3>2. "refused" # "import"
      OBVIOUS
    <3> QED BY <2>1, <3>1, <3>2 DEF Refuse
  <2> QED BY <2>3, <2>4, <2>5, <2>6
<1>4. CASE Refuse
  BY <1>1, <1>4, RefuseStep
<1> QED BY <1>3, <1>4 DEF MigrateCatalog

(* The transaction that copies a tenant, or finds the copy.                  *)
LEMMA MigrateImportStep ==
    ASSUME FleetInv, NEW t \in Tenants, MigrateImport(t)
    PROVE  FleetInv'
<1>1. /\ migration \in Migration /\ Pg \in Stores /\ Sq \in Stores
      /\ migration.pc = "import" /\ Turn(t)
      /\ UNCHANGED <<serving, cutover>> /\ serving # "sqlite"
  BY DEF FleetInv, FleetTypes, ServingOK, Migrating, MigrateImport, Pg, Sq, Backends
<1>2. /\ Root \in Sq.catalog /\ migration.todo \subseteq Sq.catalog /\ t \in Sq.catalog
      /\ t \in Pg.catalog
      /\ ~cutover => \A u \in Sq.catalog \ migration.todo : Copied(u)
  BY <1>1 DEF FleetInv, MigrationOK, Turn
<1>3. Sq.ledger[t] # <<>> /\ (IsDefault(t) => t = Root)
  BY <1>2 DEF FleetInv, SourceOK
<1>4. PICK next : next = [pc |-> "catalog", todo |-> migration.todo \ {t}]
  OBVIOUS
<1>5. /\ next \in Migration /\ next.pc = "catalog" /\ next.todo = migration.todo \ {t}
  BY <1>1, <1>4 DEF Migration
<1>6. CASE /\ EmptyTarget(t) /\ migration' = next
           /\ at' = [at EXCEPT !["postgres"] = Imported(Pg, Sq, t)]
  <2>1. ~cutover
    <3>1. Pg.ledger[t] = <<>>
      BY <1>6 DEF EmptyTarget, Pg
    <3>2. Sq.ledger[t] \in Seq(Kinds) /\ Len(Sq.ledger[t]) # 0 /\ Len(Pg.ledger[t]) = 0
      BY <1>1, <1>3, <3>1 DEF Stores
    <3>3. ~Begins(Sq.ledger[t], Pg.ledger[t])
      BY <3>2 DEF Begins
    <3> QED BY <1>2, <3>3 DEF FleetInv, Kept, KeptTenant
  <2>2. PICK n : n = Imported(Pg, Sq, t)
    OBVIOUS
  <2>3. /\ n \in Stores /\ n.catalog = Pg.catalog
        /\ n.ledger = [Pg.ledger EXCEPT ![t] = Sq.ledger[t]]
        /\ n.token = [Pg.token EXCEPT ![t] = Sq.token[t]]
        /\ n.blobs = [Pg.blobs EXCEPT ![t] = Sq.blobs[t]]
    BY <1>1, <2>2 DEF Imported, Stores
  <2>4. Sq' = Sq /\ Pg' = n
    BY <1>6, <2>2 DEF FleetInv, FleetTypes, Sq, Pg, Backends
  <2>5. /\ n.ledger[t] = Sq.ledger[t] /\ n.token[t] = Sq.token[t] /\ n.blobs[t] = Sq.blobs[t]
        /\ \A u \in Tenants \ {t} : /\ n.ledger[u] = Pg.ledger[u] /\ n.token[u] = Pg.token[u]
                                    /\ n.blobs[u] = Pg.blobs[u]
    BY <1>1, <2>3 DEF Stores
  <2>6. FleetTypes' /\ ServingOK' /\ Kept'
    BY <1>1, <1>5, <1>6, <2>1, <2>2, <2>3
       DEF FleetInv, FleetTypes, Backends, ServingOK, Kept, Migrating
  <2>7. SourceOK' /\ OneSlug'
    BY <2>3, <2>4 DEF FleetInv, SourceOK, OneSlug, IsDefault
  <2>8. IssuedHasRow'
    <3>1. \A u \in Tenants : Contains(Sq.ledger[u], "issue") => Sq.token[u] # "none"
      BY DEF FleetInv, IssuedHasRow, Has, Sq, Backends
    <3>2. \A u \in Tenants : Contains(Pg.ledger[u], "issue") => Pg.token[u] # "none"
      BY DEF FleetInv, IssuedHasRow, Has, Pg, Backends
    <3>3. \A u \in Tenants : Contains(n.ledger[u], "issue") => n.token[u] # "none"
      BY <2>5, <3>1, <3>2
    <3> QED BY <2>4, <3>1, <3>3 DEF IssuedHasRow, Has, Sq, Pg, Backends
  <2>9. TargetBehind'
    <3> SUFFICES ASSUME NEW u \in Tenants, u = Root \/ ~IsDefault(u)
                 PROVE  BehindSource(u)'
      BY DEF TargetBehind, IsDefault
    <3>1. BehindSource(u)
      BY <2>1 DEF FleetInv, TargetBehind
    <3>2. CASE u = t
      <4>1. Sq.ledger[t] \in Seq(Kinds)
        BY <1>1 DEF Stores
      <4>2. Begins(Sq.ledger[t], Sq.ledger[t])
        BY <4>1 DEF Begins
      <4> QED BY <2>4, <2>5, <3>2, <4>2 DEF BehindSource
    <3>3. CASE u # t
      BY <2>4, <2>5, <3>1, <3>3 DEF BehindSource
    <3> QED BY <3>2, <3>3
  <2>10. MigrationOK'
    <3>1. \A u \in Sq.catalog \ next.todo : Copied(u)'
      <4> SUFFICES ASSUME NEW u \in Sq.catalog \ next.todo
                   PROVE  Copied(u)'
        OBVIOUS
      <4>1. CASE u = t
        BY <1>2, <2>3, <2>4, <2>5, <4>1 DEF Copied
      <4>2. CASE u # t
        <5>1. Copied(u) /\ u \in Tenants
          BY <1>1, <1>2, <1>5, <2>1, <4>2 DEF Stores
        <5> QED BY <2>3, <2>4, <2>5, <4>2, <5>1 DEF Copied
      <4> QED BY <4>1, <4>2
    <3> QED BY <1>2, <1>5, <1>6, <2>4, <3>1 DEF MigrationOK
  <2> QED BY <2>6, <2>7, <2>8, <2>9, <2>10 DEF FleetInv
<1>7. CASE SameCounts(t) /\ migration' = next /\ UNCHANGED at
  <2>1. ~cutover => Copied(t)
    <3> SUFFICES ASSUME ~cutover
                 PROVE  Copied(t)
      OBVIOUS
    <3>1. BehindSource(t)
      BY <1>3 DEF FleetInv, TargetBehind
    <3>2. /\ Len(Pg.ledger[t]) = Len(Sq.ledger[t])
          /\ (Pg.token[t] = "none") <=> (Sq.token[t] = "none")
          /\ Pg.blobs[t] = Sq.blobs[t]
      BY <1>7 DEF SameCounts, Pg, Sq
    <3>3. Pg.ledger[t] \in Seq(Kinds) /\ Sq.ledger[t] \in Seq(Kinds)
      BY <1>1 DEF Stores
    <3>4. Pg.ledger[t] = Sq.ledger[t]
      BY <3>1, <3>2, <3>3, BeginsSameLength DEF BehindSource
    <3> QED BY <1>2, <3>1, <3>2, <3>4 DEF BehindSource, Copied
  <2>2. Sq' = Sq /\ Pg' = Pg /\ \A u : Copied(u)' <=> Copied(u)
    BY <1>7 DEF Copied, Sq, Pg
  <2>3. MigrationOK'
    BY <1>1, <1>2, <1>5, <1>7, <2>1, <2>2 DEF MigrationOK
  <2> QED BY <1>1, <1>5, <1>7, <2>3, OnlyMigration
<1>8. CASE Refuse
  BY <1>1, <1>8, RefuseStep
<1> QED BY <1>4, <1>6, <1>7, <1>8 DEF MigrateImport, Pg, Sq

(* Every step of the fleet keeps the invariant.                              *)
LEMMA FleetStep ==
    ASSUME FleetInv, [FleetNext]_fleetVars
    PROVE  FleetInv'
<1>1. CASE UNCHANGED fleetVars
  BY <1>1 DEF fleetVars, FleetInv, FleetTypes, SourceOK, OneSlug, IssuedHasRow, TargetBehind,
              MigrationOK, ServingOK, Kept, IsDefault, Has, BehindSource, Turn, Earlier, Copied,
              KeptTenant, Sq, Pg, Migrating
<1> QED
  BY <1>1, ServeStep, IssueStep, RevokeStep, FileStep, CreateStep, InitOrganizationStep,
     MigrateStartStep, MigrateCatalogStep, MigrateImportStep, MigrateEnds DEF FleetNext
(* At the start PostgreSQL is empty.                                         *)
LEMMA FleetInitInv == FleetInit => FleetInv
<1> SUFFICES ASSUME FleetInit
             PROVE  FleetInv
  OBVIOUS
<1>1. PICK catalog \in {{}, {Root}} :
         at = [b \in Backends |->
                 [catalog |-> IF b = "sqlite" THEN catalog ELSE {},
                  ledger  |-> [t \in Tenants |->
                                 IF b = "sqlite" /\ t = Root
                                     THEN <<"init", "setup">> ELSE <<>>],
                  token   |-> [t \in Tenants |-> "none"],
                  blobs   |-> [t \in Tenants |-> {}]]]
  BY DEF FleetInit
<1>2. Root \in Tenants /\ SlugOf[Root] = DefaultSlug
  BY FleetAssumption
<1>3. PICK two : two = <<"init", "setup">>
  OBVIOUS
<1>4. two \in Seq(Kinds) /\ Len(two) = 2 /\ two[1] = "init" /\ two[2] = "setup"
  BY <1>3 DEF Kinds
<1>5. Sq = [catalog |-> catalog,
            ledger  |-> [t \in Tenants |-> IF t = Root THEN two ELSE <<>>],
            token   |-> [t \in Tenants |-> "none"],
            blobs   |-> [t \in Tenants |-> {}]]
  BY <1>1, <1>3 DEF Sq, Backends
<1>6. Pg = [catalog |-> {},
            ledger  |-> [t \in Tenants |-> <<>>],
            token   |-> [t \in Tenants |-> "none"],
            blobs   |-> [t \in Tenants |-> {}]]
  BY <1>1 DEF Pg, Backends
<1>7. <<>> \in Seq(Kinds) /\ Len(<<>>) = 0
  OBVIOUS
<1>8. Sq \in Stores /\ Pg \in Stores
  BY <1>2, <1>4, <1>5, <1>6, <1>7 DEF Stores
<1>9. FleetTypes
  <2>1. at \in [Backends -> Stores]
    BY <1>1, <1>8 DEF Sq, Pg, Backends
  <2> QED BY <2>1 DEF FleetInit, FleetTypes, Backends, Migration
<1>10. SourceOK
  <2>1. Sq.ledger[Root] = two /\ \A t \in Sq.catalog : t = Root
    BY <1>2, <1>5
  <2> QED BY <1>4, <2>1 DEF SourceOK
<1>11. OneSlug
  BY <1>6 DEF OneSlug
<1>12. IssuedHasRow
  <2>1. ASSUME NEW t \in Tenants
        PROVE  ~Contains(Sq.ledger[t], "issue") /\ ~Contains(Pg.ledger[t], "issue")
    <3>1. Sq.ledger[t] \in {two, <<>>} /\ Pg.ledger[t] = <<>>
      BY <1>5, <1>6
    <3>2. ~Contains(<<>>, "issue")
      BY <1>7 DEF Contains
    <3>3. ~Contains(two, "issue")
      BY <1>4 DEF Contains
    <3> QED BY <3>1, <3>2, <3>3
  <2> QED BY <2>1 DEF IssuedHasRow, Has, Sq, Pg, Backends
<1>13. TargetBehind
  <2> SUFFICES ASSUME NEW t \in Tenants
               PROVE  BehindSource(t)
    BY DEF TargetBehind
  <2>1. Pg.ledger[t] = <<>> /\ Sq.token[t] = "none" /\ Pg.token[t] = "none"
        /\ Sq.ledger[t] \in {two, <<>>}
    BY <1>5, <1>6
  <2>2. Len(Sq.ledger[t]) \in Nat
    BY <1>4, <1>7, <2>1
  <2>3. Begins(<<>>, Sq.ledger[t])
    BY <1>7, <2>2 DEF Begins
  <2> QED BY <2>1, <2>3 DEF BehindSource
<1>14. MigrationOK /\ ServingOK /\ Kept
  BY DEF FleetInit, MigrationOK, ServingOK, Kept
<1> QED BY <1>9, <1>10, <1>11, <1>12, <1>13, <1>14 DEF FleetInv

(* The default tenant is the same on both sides of the cutover.              *)
LEMMA SameDefault ==
    ASSUME FleetInv, cutover
    PROVE  DefaultTenant("sqlite") = Root /\ DefaultTenant("postgres") = Root
<1>1. Root \in Sq.catalog /\ Root \in Pg.catalog /\ IsDefault(Root)
  BY FleetAssumption DEF FleetInv, Kept, KeptTenant, IsDefault
<1>2. DefaultTenant("sqlite") \in Sq.catalog /\ IsDefault(DefaultTenant("sqlite"))
  BY <1>1, DefaultIs DEF FleetInv, Backends, Sq
<1>3. DefaultTenant("postgres") \in Pg.catalog /\ IsDefault(DefaultTenant("postgres"))
  BY <1>1, DefaultIs DEF FleetInv, Backends, Pg
<1> QED BY <1>1, <1>2, <1>3 DEF FleetInv, SourceOK, OneSlug, IsDefault

(* A request after the cutover.                                              *)
LEMMA SameAnswer ==
    ASSUME FleetInv, cutover, NEW r \in Requests
    PROVE  \/ Answer("postgres", r) = Answer("sqlite", r)
           \/ Answer("postgres", r) \in Pg.catalog \ Sq.catalog
           \/ r.token \in Pg.catalog /\ Pg.ledger[r.token] # Sq.ledger[r.token]
<1>1. /\ \A t \in Sq.catalog : KeptTenant(t)
      /\ Sq.catalog \subseteq Pg.catalog /\ Pg.catalog \subseteq Tenants
  BY DEF FleetInv, FleetTypes, Kept, KeptTenant, Pg, Stores, Backends
<1>2. "bad_request" \notin Tenants /\ "unauthorized" \notin Tenants /\ NoTenant \notin Tenants
  BY FleetAssumption
<1>3. PICK named : named = IF r.hint THEN r.token ELSE NoTenant
  OBVIOUS
<1>4. PICK wanted : wanted = IF named # NoTenant THEN named
                             ELSE IF r.header # NoTenant THEN r.header
                             ELSE IF r.login # NoTenant THEN r.login
                             ELSE Root
  OBVIOUS
<1>5. \/ FleetDispatch("sqlite", r) = "bad_request" /\ FleetDispatch("postgres", r) = "bad_request"
      \/ /\ FleetDispatch("sqlite", r) = IF wanted \notin Sq.catalog THEN "unauthorized" ELSE wanted
         /\ FleetDispatch("postgres", r) = IF wanted \notin Pg.catalog THEN "unauthorized" ELSE wanted
  <2>1. FleetDispatch("sqlite", r) =
          IF named # NoTenant /\ r.header # NoTenant /\ named # r.header THEN "bad_request"
          ELSE IF wanted \notin Sq.catalog THEN "unauthorized" ELSE wanted
    BY <1>3, <1>4, SameDefault DEF FleetDispatch, Sq
  <2>2. FleetDispatch("postgres", r) =
          IF named # NoTenant /\ r.header # NoTenant /\ named # r.header THEN "bad_request"
          ELSE IF wanted \notin Pg.catalog THEN "unauthorized" ELSE wanted
    BY <1>3, <1>4, SameDefault DEF FleetDispatch, Pg
  <2> QED BY <2>1, <2>2
<1>6. CASE FleetDispatch("sqlite", r) = FleetDispatch("postgres", r)
           /\ FleetDispatch("sqlite", r) \notin Tenants
  BY <1>6 DEF Answer
<1>7. CASE wanted \in Pg.catalog \ Sq.catalog
           /\ FleetDispatch("sqlite", r) = "unauthorized" /\ FleetDispatch("postgres", r) = wanted
  BY <1>1, <1>2, <1>7 DEF Answer
<1>8. CASE wanted \in Sq.catalog
           /\ FleetDispatch("sqlite", r) = wanted /\ FleetDispatch("postgres", r) = wanted
  <2>1. wanted \in Tenants
    BY <1>1, <1>8
  <2>2. CASE LetsIn("sqlite", wanted, r) <=> LetsIn("postgres", wanted, r)
    BY <1>8, <2>1, <2>2 DEF Answer
  <2>3. CASE r.token = wanted /\ Pg.ledger[wanted] # Sq.ledger[wanted]
    BY <1>1, <1>8, <2>3
  <2>4. CASE r.token = wanted /\ Pg.ledger[wanted] = Sq.ledger[wanted]
    <3>1. Has("sqlite", wanted, "issue") => Pg.token[wanted] = Sq.token[wanted]
      BY <1>1, <1>8, <2>4 DEF KeptTenant
    <3>2. \A k : Has("sqlite", wanted, k) <=> Has("postgres", wanted, k)
      BY <2>4 DEF Has, Sq, Pg
    <3>3. LetsIn("sqlite", wanted, r) <=> LetsIn("postgres", wanted, r)
      BY <3>1, <3>2 DEF LetsIn, Sq, Pg
    <3> QED BY <2>2, <3>3
  <2>5. CASE r.token # wanted
    <3>1. ~LetsIn("sqlite", wanted, r) /\ ~LetsIn("postgres", wanted, r)
      BY <2>5 DEF LetsIn
    <3> QED BY <2>2, <3>1
  <2> QED BY <2>3, <2>4, <2>5
<1> QED BY <1>1, <1>2, <1>5, <1>6, <1>7, <1>8

-----------------------------------------------------------------------------
(* The fleet keeps its inductive invariant: until the cutover PostgreSQL      *)
(* holds earlier states of SQLite's tenants, after it later ones.            *)
THEOREM FleetInvariant == FleetSpec => []FleetInv
<1>1. FleetInv /\ [FleetNext]_fleetVars => FleetInv'
  BY FleetStep
<1> QED BY <1>1, FleetInitInv, PTL DEF FleetSpec

(* However often sqlite_fleet_to_postgres is killed and run again, the switch *)
(* to PostgreSQL loses no tenant, event or artifact, and fleet_dispatch gives *)
(* the answers that it gave on SQLite.                                      *)
THEOREM CutoversKeepTheFleet == FleetSpec => []CutoverKeepsTheFleet
<1>1. FleetInv => CutoverKeepsTheFleet
  <2> SUFFICES ASSUME FleetInv, cutover
               PROVE  CutoverKeepsTheFleet
    BY DEF CutoverKeepsTheFleet
  <2>1. ASSUME NEW t \in Sq.catalog
        PROVE  /\ t \in Pg.catalog /\ IsPrefix(Sq.ledger[t], Pg.ledger[t])
               /\ Sq.blobs[t] \subseteq Pg.blobs[t]
    <3>1. KeptTenant(t)
      BY DEF FleetInv, Kept
    <3>2. Sq.ledger[t] \in Seq(Kinds) /\ Pg.ledger[t] \in Seq(Kinds)
      BY DEF FleetInv, FleetTypes, Sq, Pg, Stores, Backends
    <3>3. IsPrefix(Sq.ledger[t], Pg.ledger[t])
      BY <3>1, <3>2, BeginsIsPrefix DEF KeptTenant
    <3> QED BY <3>1, <3>3 DEF KeptTenant
  <2> QED BY <2>1, SameAnswer DEF CutoverKeepsTheFleet, Sq, Pg
<1> QED BY <1>1, FleetInvariant, PTL
=============================================================================
