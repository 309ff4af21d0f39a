----------------------------- MODULE ModelKeys ------------------------------
(***************************************************************************)
(* The model credentials that people leave with the control plane, and the *)
(* planning workers that run on them (application/app/mod.rs,              *)
(* adapters/secretbox.rs, interfaces/server.rs, interfaces/worker.rs).     *)
(*                                                                         *)
(* They are not events: a row per person, sealed with the master key of    *)
(* the server process that stored it, or plain when it has none.  The      *)
(* master key comes from the environment and may be another, unusable or    *)
(* gone after a restart.  A planning request keeps the name that its         *)
(* requester had when it was made.  A claim of Planning.tla is answered with *)
(* the key of whoever has that name now, read under a second lock; the       *)
(* worker puts it into the environment of its own process, which the model  *)
(* inherits.                                                               *)
(***************************************************************************)
EXTENDS Naturals

CONSTANTS
    People,         \* requesters, by the id of the principal
    Names,          \* what they may be called, which may be the id of one
    FirstName,      \* and are called at first
    Credentials,    \* what they may enter: [provider, key, base], base may be Unset
    MasterKeys,     \* well-formed values of RELAY_CREDENTIAL_KEY
    Unset,          \* an absent value: no master key, no base URL, no row
    Malformed,      \* a RELAY_CREDENTIAL_KEY that is not 64 hex digits
    Garbage,        \* what a ciphertext reads as
    Executor,       \* the variables that the command line of the worker's model reads
    MaxChanges      \* bound: credentials set or deleted, restarts, renamings

Providers == {"anthropic", "openai", "other"}

ASSUME KeysAssumption ==
    /\ Unset \notin MasterKeys \cup Credentials
    /\ FirstName \in [People -> Names]
    /\ \A p, q \in People : FirstName[p] = FirstName[q] => p = q
    /\ \A c \in Credentials :
          /\ c = [provider |-> c.provider, key |-> c.key, base |-> c.base]
          /\ c.provider \in Providers /\ c.key # Garbage
    /\ Executor \in {"anthropic", "openai"}
    /\ MaxChanges \in Nat

VARIABLES
    name,           \* Principal.name
    asked,          \* PlanningRequest: by whom, and the requester it names
    row,            \* provider_credentials
    master,         \* RELAY_CREDENTIAL_KEY of the server process
    env,            \* the provider variables of the worker process
    errand,         \* what the worker is doing
    wish,           \* history: what each person last asked to be stored
    changes

keyVars == <<name, asked, row, master, env, errand, wish, changes>>

(* The environment that the worker was started with.                        *)
OwnEnv == [v \in {"anthropic", "openai"} |-> [key |-> "own", base |-> "own"]]

AtRest == [at |-> "idle"]

Request(p) == [by |-> p, requester |-> name[p]]

KeysInit ==
    /\ name = FirstName
    /\ asked = {Request(p) : p \in People}
    /\ row = [p \in People |-> Unset]
    /\ master \in MasterKeys \cup {Unset}
    /\ env = OwnEnv
    /\ errand = AtRest
    /\ wish = [p \in People |-> Unset]
    /\ changes = 0

Change == changes < MaxChanges /\ changes' = changes + 1

-----------------------------------------------------------------------------
(* update_directory_human: a name that nobody else has.  Requests are made     *)
(* under it at any time, and stay as they are.                              *)
Rename(p, n) ==
    /\ Change
    /\ \A q \in People : name[q] # n
    /\ name' = [name EXCEPT ![p] = n]
    /\ asked' = asked \cup {[by |-> p, requester |-> n]}
    /\ UNCHANGED <<row, master, env, errand, wish>>

(* SecretBox::seal, or the bytes as they are without a master key.            *)
Sealed(c) == [by |-> master, credential |-> c]

(* upsert_provider_credential and delete_provider_credential of the store.     *)
Upsert(p, c) == row' = [row EXCEPT ![p] = Sealed(c)]

DeleteRow(p) == row' = [row EXCEPT ![p] = Unset]

(* set_provider_credential; an unusable master key refuses.                  *)
SetProvider(p, c) ==
    /\ Change
    /\ master # Malformed
    /\ Upsert(p, c)
    /\ wish' = [wish EXCEPT ![p] = c]
    /\ UNCHANGED <<name, asked, master, env, errand>>

(* delete_provider_credential *)
DeleteProvider(p) ==
    /\ Change
    /\ row[p] # Unset
    /\ DeleteRow(p)
    /\ wish' = [wish EXCEPT ![p] = Unset]
    /\ UNCHANGED <<name, asked, master, env, errand>>

(* The server process is started again, with whatever environment.           *)
RestartServer(m) ==
    /\ Change
    /\ m # master
    /\ master' = m
    /\ UNCHANGED <<name, asked, row, env, errand, wish>>

(* Mutant of Opened: without a master key a row is taken for plain text.      *)
OpenedAsIs(m, r) ==
    IF m = r.by THEN {r.credential.key} ELSE IF m = Unset THEN {Garbage} ELSE {}

(* SecretBox::open: the results of decryption.  It authenticates, so that only *)
(* the key that sealed opens; without a master key there is nothing to open   *)
(* with, which is an error too.                                             *)
Opened(m, r) == IF m = r.by THEN {r.credential.key} ELSE {}

(* RelayApp::provider_credential: the set of its Ok answers, empty when it    *)
(* fails.  An unusable master key fails for a plain row as well.             *)
ProviderCredential(p) ==
    IF row[p] = Unset THEN {Unset}
    ELSE IF master = Malformed THEN {}
    ELSE IF row[p].by = Unset THEN {row[p].credential}
    ELSE {[row[p].credential EXCEPT !.key = k] : k \in Opened(master, row[p])}

(* claim_planning_request of the server, up to the end of `mutate'.           *)
ClaimFor(request) ==
    /\ errand = AtRest
    /\ errand' = [at |-> "claimed", for |-> request]
    /\ UNCHANGED <<name, asked, row, master, env, wish, changes>>

(* Who answers to the requester that a request names: by name or by id.       *)
Bearers(requester) == {p \in People : requester \in {name[p], p}}

(* The rest of the handler: the key of a bearer as it is now, none without a   *)
(* bearer; an error counts as none.                                         *)
HandOut ==
    /\ errand.at = "claimed"
    /\ LET bearers == Bearers(errand.for.requester)
           found == IF bearers = {} THEN {{}} ELSE {ProviderCredential(p) : p \in bearers}
       IN \E answers \in found : \E provider \in IF answers = {} THEN {Unset} ELSE answers :
             errand' = [at |-> "provided", for |-> errand.for, provider |-> provider]
    /\ UNCHANGED <<name, asked, row, master, env, wish, changes>>

(* apply_provider_env: which variables are set; a base URL only if given.     *)
Applied(e, c) ==
    [v \in DOMAIN e |->
        IF c.provider \in {v, "other"}
        THEN [key |-> c.key, base |-> IF c.base = Unset THEN e[v].base ELSE c.base]
        ELSE e[v]]

(* run_decompose_once from the claim to the start of the model.              *)
RunPlan ==
    /\ errand.at = "provided"
    /\ env' = IF errand.provider = Unset THEN env ELSE Applied(env, errand.provider)
    /\ errand' = [errand EXCEPT !.at = "running"]
    /\ UNCHANGED <<name, asked, row, master, wish, changes>>

(* The run ends and the plan is submitted: the process goes on to the next    *)
(* request.  A failure, or a lost connection, ends the process.              *)
Finish ==
    /\ errand.at = "running"
    /\ errand' = AtRest
    /\ UNCHANGED <<name, asked, row, master, env, wish, changes>>

RestartWorker ==
    /\ errand # AtRest \/ env # OwnEnv
    /\ errand' = AtRest
    /\ env' = OwnEnv
    /\ UNCHANGED <<name, asked, row, master, wish, changes>>

KeysNext ==
    \/ \E p \in People, c \in Credentials : SetProvider(p, c)
    \/ \E p \in People : DeleteProvider(p) \/ \E n \in Names : Rename(p, n)
    \/ \E request \in asked : ClaimFor(request)
    \/ \E m \in MasterKeys \cup {Unset, Malformed} : RestartServer(m)
    \/ HandOut \/ RunPlan \/ Finish \/ RestartWorker

KeysSpec == KeysInit /\ [][KeysNext]_keyVars

-----------------------------------------------------------------------------
(* What a worker is handed is what the person that the request names has      *)
(* stored at that moment, or nothing: never a deleted or replaced key, and    *)
(* never the ciphertext of one sealed under a master key that was changed or *)
(* lost since (provider_credential, "report it, do not silently treat it as  *)
(* plain text").  That person is the requester for as long as the requester  *)
(* has the name of the request, if it is nobody's id; once they are called   *)
(* otherwise, it is whoever took the name, if anybody.                       *)
HandedOutIsTheWish ==
    [][errand.at = "claimed" /\ errand'.at = "provided" =>
          LET by == errand.for.by
              requester == errand.for.requester
          IN  /\ \/ errand'.provider = Unset
                 \/ \E p \in Bearers(requester) : errand'.provider = wish[p]
              /\ name[by] = requester /\ requester \notin People =>
                    errand'.provider \in {Unset, wish[by]}]_keyVars

(* "The worker calls the model with the requester's own key" and, when there  *)
(* is none, "goes on with the worker's own environment" (server.rs,           *)
(* run_decompose_once): a run never uses the key or the address that another  *)
(* requester left with the process.                                         *)
RunsOnOwnAccount ==
    errand.at = "running" =>
        LET used == env[Executor]
            given == errand.provider
        IN  /\ used.key = "own" \/ (given # Unset /\ used.key = given.key)
            /\ used.base = "own" \/ (given # Unset /\ used.base = given.base)
=============================================================================
