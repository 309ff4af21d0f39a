------------------------------ MODULE MCWorker ------------------------------
(* Workers in decompose mode over a planning queue, or in execute mode over   *)
(* flight leases: RemoteWorker::run_once dispatches on options.mode, which a   *)
(* process keeps.  The third mode is the first again, seen from the           *)
(* credentials that the worker of a decomposition is handed.                 *)
EXTENDS Worker, ModelKeys, TLC

CONSTANTS q1, q2, w1, w2, t1, h1, h2, n1, n2, k1, k2, u1, m1, m2

VARIABLE mode       \* options.mode

mcVars == <<mode, vars, workerVars, keyVars>>

(* Three leases on one task: of a machine without the repository, so that the  *)
(* next ones may be forks of it that are open together; of both workers; and  *)
(* of the first worker only.                                                *)
MCTaskOf == [l \in Leases |-> t1]
MCMapped == (w1 :> {1, 2}) @@ (w2 :> {1})

(* Two people, of whom one may be called by the id of the other.              *)
MCNames == {n1, n2, h2}
MCFirstName == (h1 :> n1) @@ (h2 :> n2)

(* A key for one provider at an address of its own, and one for any provider   *)
(* at the usual address.                                                    *)
MCCredentials == {[provider |-> "anthropic", key |-> k1, base |-> u1],
                  [provider |-> "other", key |-> k2, base |-> Unset]}

MCInit ==
    /\ mode \in {"decompose", "execute", "credentials"}
    /\ Init
    /\ WorkerInit
    /\ KeysInit
    /\ mode = "credentials" \/ master = Unset

MCNext ==
    /\ \/ mode = "decompose" /\ Next /\ UNCHANGED <<workerVars, keyVars>>
       \/ mode = "execute" /\ WorkerNext /\ UNCHANGED <<vars, keyVars>>
       \/ mode = "credentials" /\ KeysNext /\ UNCHANGED <<vars, workerVars>>
    /\ UNCHANGED mode

(* In execute mode every process is restarted and goes on: a call ends within  *)
(* its timeout and so does the model.                                       *)
MCSpec ==
    /\ MCInit /\ [][MCNext]_mcVars
    /\ QueueFairness
    /\ \A p \in Workers : WF_workerVars(mode = "execute" /\ ExecuteStep(p))
=============================================================================
