----------------------------- MODULE EventStream ----------------------------
(* Every log that a ledger may be asked to replay: envelopes in the order    *)
(* they are read, whose sequence numbers may be right, repeated or skipped.  *)
EXTENDS Projection

CONSTANTS
    Keys,       \* what events concern
    MaxLen      \* bound: envelopes in a log

ASSUME StreamAssumption == MaxLen \in Nat

VARIABLE stream

AnyEnvelope == [sequence : 1 .. MaxLen + 1, key : Keys]

StreamInit == stream = <<>>

StreamNext == /\ Len(stream) < MaxLen
              /\ \E e \in AnyEnvelope : stream' = Append(stream, e)

StreamSpec == StreamInit /\ [][StreamNext]_stream

(* OrganizationState::replay succeeds exactly on the logs called Replayable  *)
(* and then yields what Projection says: no gap, no repetition and no        *)
(* reordering of sequence numbers goes unnoticed.  commit_as projects a      *)
(* prepared batch exactly when the log extended with it replays, and to the  *)
(* same state: the cache after a commit is the replay.                      *)
BatchProjectsLikeReplay ==
    /\ Replay(stream) = IF Replayable(stream) THEN Projection(stream) ELSE Error
    /\ \A n \in 0 .. Len(stream) :
        LET prefix == SubSeq(stream, 1, n)
            keys == [i \in 1 .. Len(stream) - n |-> stream[n + i].key]
            longer == prefix \o Envelopes(1, keys, n)
        IN  Replayable(prefix) =>
                /\ Acceptable(KeysIn(prefix), keys) <=> Replay(longer) # Error
                /\ Acceptable(KeysIn(prefix), keys) =>
                       Replay(longer) = Projected(Replay(prefix), keys)
=============================================================================
