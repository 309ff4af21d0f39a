----------------------------- MODULE Projection -----------------------------
(***************************************************************************)
(* The event envelopes of the Flow Ledger and the state projected from     *)
(* them: OrganizationState::apply and replay (core/state.rs) and the       *)
(* numbering of a batch (EventStore::prepare_batch, adapters/store.rs).    *)
(*                                                                         *)
(* Data abstraction: an event is the key it concerns.  apply rejects some  *)
(* events on some states (a second organization, a second tenant, a        *)
(* conflicting resource lease ...); that is abstracted to the keys in      *)
(* Unique, which a state accepts once.  Other keys are always accepted.    *)
(***************************************************************************)
EXTENDS Integers, Sequences

CONSTANT Unique     \* the keys a projection accepts only once

DefaultState == [known |-> {}, lastSequence |-> 0]

(* The Err result of apply and replay. *)
Error == [known |-> {}, lastSequence |-> -1]

(* OrganizationState::apply: the sequence test, then the event's own test.  *)
Apply(state, envelope) ==
    IF /\ envelope.sequence = state.lastSequence + 1
       /\ envelope.key \in Unique => envelope.key \notin state.known
    THEN [known        |-> state.known \cup {envelope.key},
          lastSequence |-> envelope.sequence]
    ELSE Error

(* OrganizationState::replay: fold apply over the envelopes, stopping at the *)
(* first error.                                                             *)
Replay(s) ==
    LET upTo[n \in 0 .. Len(s)] ==
            IF n = 0 THEN DefaultState
            ELSE IF upTo[n - 1] = Error THEN Error ELSE Apply(upTo[n - 1], s[n])
    IN  upTo[Len(s)]

-----------------------------------------------------------------------------
KeysIn(s) == {s[i].key : i \in 1 .. Len(s)}

OpsIn(s) == {s[i].op : i \in 1 .. Len(s)}

(* EventStore::prepare_batch: the batch of operation op, numbered from the  *)
(* sequence the operation was decided on.                                   *)
Envelopes(op, keys, basis) ==
    [i \in 1 .. Len(keys) |->
        [sequence |-> basis + i, key |-> keys[i], op |-> op, basis |-> basis]]

(* replay in closed form: when it succeeds, and what it then yields.        *)
Replayable(s) ==
    \A i \in 1 .. Len(s) :
        /\ s[i].sequence = i
        /\ s[i].key \in Unique => \A j \in 1 .. i - 1 : s[j].key # s[i].key

Projection(s) == [known |-> KeysIn(s), lastSequence |-> Len(s)]

(* Mutant of Acceptable: tests each event on the cache, not on the clone that *)
(* has the earlier events of the batch.                                     *)
AcceptableOneByOne(known, keys) ==
    \A i \in 1 .. Len(keys) : keys[i] \in Unique => keys[i] \notin known

(* The same for the batch that commit_as projects on a clone of its cache.  *)
Acceptable(known, keys) ==
    \A i \in 1 .. Len(keys) :
        keys[i] \in Unique => /\ keys[i] \notin known
                              /\ \A j \in 1 .. i - 1 : keys[j] # keys[i]

Projected(v, keys) ==
    [known        |-> v.known \cup {keys[i] : i \in 1 .. Len(keys)},
     lastSequence |-> v.lastSequence + Len(keys)]
=============================================================================
