---------------------------- MODULE AtomicLedger ----------------------------
(***************************************************************************)
(* What the Flow Ledger promises to the operations built on it, without    *)
(* replicas, caches, conflicts or crashes: one log, extended by whole      *)
(* batches, each decided on exactly the log it extends, and an answer to   *)
(* the caller that tells the truth about it.                               *)
(*                                                                         *)
(* Ledger.tla, the optimistic-concurrency implementation, is shown to      *)
(* implement this specification.  It is what allows every other module of  *)
(* the project to model a RelayApp operation as one atomic step.           *)
(***************************************************************************)
EXTENDS Projection

CONSTANTS Batches,  \* the non-empty sequences of keys one operation may commit
          Ops       \* identities of the operations (calls of commit_as)

VARIABLES log,      \* the envelopes stored so far
          acked,    \* operations whose caller was told Ok
          refused   \* operations whose caller was told "conflict" or "invalid"

avars == <<log, acked, refused>>

AInit == /\ Replayable(log)
         /\ acked = {}
         /\ refused = {}

(* The batch is stored; the caller is answered in the same step or never.   *)
AAppend(op, keys, answered) ==
    /\ op \notin OpsIn(log) \cup refused
    /\ Acceptable(KeysIn(log), keys)
    /\ log' = log \o Envelopes(op, keys, Len(log))
    /\ acked' = IF answered THEN acked \cup {op} ELSE acked
    /\ UNCHANGED refused

ARefuse(op) ==
    /\ op \notin OpsIn(log)
    /\ refused' = refused \cup {op}
    /\ UNCHANGED <<log, acked>>

ANext == \E op \in Ops :
            \/ ARefuse(op)
            \/ \E keys \in Batches, answered \in BOOLEAN :
                  AAppend(op, keys, answered)

ASpec == AInit /\ [][ANext]_avars
=============================================================================
