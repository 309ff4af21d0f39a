---------------------------- MODULE LedgerProofs ----------------------------
(***************************************************************************)
(* Proofs about the Flow Ledger for any number of instances, any keys and  *)
(* any bounds: the safety properties of Ledger.tla, and that it implements *)
(* AtomicLedger.tla.                                                       *)
(***************************************************************************)
EXTENDS Ledger, SequenceTheorems, TLAPS

-----------------------------------------------------------------------------
(* The envelopes of a batch (prepare_batch) are envelopes, one per event.     *)
LEMMA EnvelopesProperties ==
    ASSUME NEW op \in Ops, NEW keys \in Seq(Keys), NEW basis \in Nat
    PROVE  /\ Envelopes(op, keys, basis) \in Seq(Envelope)
           /\ Len(Envelopes(op, keys, basis)) = Len(keys)
           /\ \A i \in 1 .. Len(keys) :
                 Envelopes(op, keys, basis)[i] =
                    [sequence |-> basis + i, key |-> keys[i], op |-> op, basis |-> basis]
<1> DEFINE n == Len(keys)
           e == Envelopes(op, keys, basis)
<1>1. n \in Nat /\ keys \in [1 .. n -> Keys]
  BY LenProperties
<1>2. \A i \in 1 .. n : [sequence |-> basis + i, key |-> keys[i],
                         op |-> op, basis |-> basis] \in Envelope
  BY <1>1 DEF Envelope
<1>3. e \in [1 .. n -> Envelope]
  BY <1>1, <1>2 DEF Envelopes
<1>4. e \in Seq(Envelope) /\ Len(e) = n
  BY <1>1, <1>3
<1> QED
  BY <1>4 DEF Envelopes

(* The log after a batch was appended to the log it was decided on.           *)
Extended(l, op, keys) == l \o Envelopes(op, keys, Len(l))

(* Appending a batch keeps the log it extends and adds its numbered events.   *)
LEMMA ExtendedLog ==
    ASSUME NEW l \in Seq(Envelope), NEW op \in Ops, NEW keys \in Seq(Keys)
    PROVE  /\ Extended(l, op, keys) \in Seq(Envelope)
           /\ Len(l) \in Nat /\ Len(keys) \in Nat
           /\ Len(Extended(l, op, keys)) = Len(l) + Len(keys)
           /\ \A i \in 1 .. Len(l) : Extended(l, op, keys)[i] = l[i]
           /\ \A i \in 1 .. Len(l) + Len(keys) : i > Len(l) =>
                 /\ Extended(l, op, keys)[i].sequence = i
                 /\ Extended(l, op, keys)[i].key = keys[i - Len(l)]
                 /\ Extended(l, op, keys)[i].op = op
                 /\ Extended(l, op, keys)[i].basis = Len(l)
<1>1. Len(l) \in Nat /\ Len(keys) \in Nat
  BY LenProperties
<1>2. PICK e : e = Envelopes(op, keys, Len(l))
  OBVIOUS
<1>3. /\ e \in Seq(Envelope)
      /\ Len(e) = Len(keys)
      /\ \A i \in 1 .. Len(keys) :
            e[i] = [sequence |-> Len(l) + i, key |-> keys[i], op |-> op, basis |-> Len(l)]
  BY <1>1, <1>2, EnvelopesProperties
<1>4. Extended(l, op, keys) = l \o e
  BY <1>2 DEF Extended
<1>5. /\ l \o e \in Seq(Envelope)
      /\ Len(l \o e) = Len(l) + Len(e)
      /\ \A i \in 1 .. Len(l) + Len(e) :
            (l \o e)[i] = IF i <= Len(l) THEN l[i] ELSE e[i - Len(l)]
  <2>1. l \in Seq(Envelope) /\ e \in Seq(Envelope)
    BY <1>3
  <2> QED
    BY <2>1, ConcatProperties
<1>6. \A i \in 1 .. Len(l) : Extended(l, op, keys)[i] = l[i]
  BY <1>1, <1>3, <1>4, <1>5
<1>7. ASSUME NEW i \in 1 .. Len(l) + Len(keys), i > Len(l)
      PROVE  /\ Extended(l, op, keys)[i].sequence = i
             /\ Extended(l, op, keys)[i].key = keys[i - Len(l)]
             /\ Extended(l, op, keys)[i].op = op
             /\ Extended(l, op, keys)[i].basis = Len(l)
  <2>1. i - Len(l) \in 1 .. Len(keys) /\ Len(l) + (i - Len(l)) = i
    BY <1>1, <1>7
  <2>2. Extended(l, op, keys)[i] = e[i - Len(l)]
    BY <1>1, <1>3, <1>4, <1>5, <1>7
  <2>3. e[i - Len(l)] = [sequence |-> i, key |-> keys[i - Len(l)],
                         op |-> op, basis |-> Len(l)]
    BY <1>3, <2>1
  <2> QED
    BY <2>2, <2>3
<1>8. /\ Extended(l, op, keys) \in Seq(Envelope)
      /\ Len(Extended(l, op, keys)) = Len(l) + Len(keys)
  BY <1>3, <1>4, <1>5
<1> QED
  BY <1>1, <1>6, <1>7, <1>8

(* The projection of a prefix, in terms of the whole log.                     *)
LEMMA PrefixProjection ==
    ASSUME NEW l \in Seq(Envelope), NEW n \in 0 .. Len(l)
    PROVE  Projection(SubSeq(l, 1, n)) =
              [known |-> {l[i].key : i \in 1 .. n}, lastSequence |-> n]
<1>1. Len(l) \in Nat /\ \A i \in 1 .. n : l[i] \in Envelope
  BY LenProperties, ElementOfSeq
<1>2. /\ Len(SubSeq(l, 1, n)) = IF 1 <= n THEN n - 1 + 1 ELSE 0
      /\ \A i \in 1 .. n - 1 + 1 : SubSeq(l, 1, n)[i] = l[1 + i - 1]
  BY <1>1, SubSeqProperties
<1>3. Len(SubSeq(l, 1, n)) = n
  BY <1>1, <1>2
<1>4. \A i \in 1 .. n : SubSeq(l, 1, n)[i] = l[i]
  BY <1>1, <1>2
<1>5. KeysIn(SubSeq(l, 1, n)) = {l[i].key : i \in 1 .. n}
  BY <1>3, <1>4 DEF KeysIn
<1> QED
  BY <1>3, <1>5 DEF Projection

(* The keys and operations of an extended log.                                *)
LEMMA ExtendedKeysAndOps ==
    ASSUME NEW l \in Seq(Envelope), NEW op \in Ops, NEW keys \in Seq(Keys)
    PROVE  /\ KeysIn(Extended(l, op, keys)) =
                 KeysIn(l) \cup {keys[i] : i \in 1 .. Len(keys)}
           /\ OpsIn(Extended(l, op, keys)) \subseteq OpsIn(l) \cup {op}
           /\ OpsIn(l) \subseteq OpsIn(Extended(l, op, keys))
           /\ Len(keys) > 0 => op \in OpsIn(Extended(l, op, keys))
<1>1. PICK m : m = Extended(l, op, keys)
  OBVIOUS
<1>2. /\ Len(l) \in Nat /\ Len(keys) \in Nat
      /\ Len(m) = Len(l) + Len(keys)
      /\ \A i \in 1 .. Len(l) : m[i] = l[i]
      /\ \A i \in 1 .. Len(l) + Len(keys) : i > Len(l) =>
            m[i].key = keys[i - Len(l)] /\ m[i].op = op
  BY <1>1, ExtendedLog
<1>3. ASSUME NEW i \in 1 .. Len(m)
      PROVE  /\ m[i].key \in KeysIn(l) \cup {keys[j] : j \in 1 .. Len(keys)}
             /\ m[i].op \in OpsIn(l) \cup {op}
  <2>1. CASE i <= Len(l)
    BY <1>2, <2>1 DEF KeysIn, OpsIn
  <2>2. CASE i > Len(l)
    <3>1. i - Len(l) \in 1 .. Len(keys) /\ i \in 1 .. Len(l) + Len(keys)
      BY <1>2, <2>2
    <3>2. m[i].key = keys[i - Len(l)] /\ m[i].op = op
      BY <1>2, <2>2, <3>1
    <3> QED
      BY <3>1, <3>2
  <2> QED
    BY <1>2, <2>1, <2>2
<1>4. ASSUME NEW i \in 1 .. Len(l)
      PROVE  l[i].key \in KeysIn(m) /\ l[i].op \in OpsIn(m)
  <2>1. i \in 1 .. Len(m) /\ m[i] = l[i]
    BY <1>2
  <2> QED
    BY <2>1 DEF KeysIn, OpsIn
<1>5. ASSUME NEW j \in 1 .. Len(keys)
      PROVE  keys[j] \in KeysIn(m) /\ op \in OpsIn(m)
  <2>1. Len(l) + j \in 1 .. Len(m) /\ Len(l) + j > Len(l) /\ (Len(l) + j) - Len(l) = j
    BY <1>2
  <2>2. m[Len(l) + j].key = keys[j] /\ m[Len(l) + j].op = op
    BY <1>2, <2>1
  <2> QED
    BY <2>1, <2>2 DEF KeysIn, OpsIn
<1>6. KeysIn(m) \subseteq KeysIn(l) \cup {keys[i] : i \in 1 .. Len(keys)}
  BY <1>3 DEF KeysIn
<1>7. KeysIn(l) \cup {keys[i] : i \in 1 .. Len(keys)} \subseteq KeysIn(m)
  <2>1. KeysIn(l) \subseteq KeysIn(m)
    BY <1>4 DEF KeysIn
  <2> QED
    BY <1>5, <2>1
<1>8. OpsIn(m) \subseteq OpsIn(l) \cup {op}
  BY <1>3 DEF OpsIn
<1>9. OpsIn(l) \subseteq OpsIn(m)
  BY <1>4 DEF OpsIn
<1>10. Len(keys) > 0 => op \in OpsIn(m)
  <2>1. Len(keys) > 0 => 1 \in 1 .. Len(keys)
    BY <1>2
  <2> QED
    BY <1>5, <2>1
<1> QED
  BY <1>1, <1>6, <1>7, <1>8, <1>9, <1>10

(* A log that replays, extended by a batch that projects, replays.            *)
LEMMA ExtendedReplays ==
    ASSUME NEW l \in Seq(Envelope), NEW op \in Ops, NEW keys \in Seq(Keys),
           Replayable(l), Acceptable(KeysIn(l), keys)
    PROVE  Replayable(Extended(l, op, keys))
<1>1. PICK m : m = Extended(l, op, keys)
  OBVIOUS
<1>2. /\ Len(l) \in Nat /\ Len(keys) \in Nat
      /\ Len(m) = Len(l) + Len(keys)
      /\ \A i \in 1 .. Len(l) : m[i] = l[i]
      /\ \A i \in 1 .. Len(l) + Len(keys) : i > Len(l) =>
            m[i].sequence = i /\ m[i].key = keys[i - Len(l)]
  BY <1>1, ExtendedLog
<1>3. ASSUME NEW i \in 1 .. Len(m)
      PROVE  /\ m[i].sequence = i
             /\ m[i].key \in Unique => \A j \in 1 .. i - 1 : m[j].key # m[i].key
  <2>1. CASE i <= Len(l)
    <3>1. i \in 1 .. Len(l) /\ \A j \in 1 .. i - 1 : j \in 1 .. Len(l)
      BY <1>2, <2>1
    <3> QED
      BY <1>2, <3>1 DEF Replayable
  <2>2. CASE i > Len(l)
    <3>1. i - Len(l) \in 1 .. Len(keys) /\ i \in 1 .. Len(l) + Len(keys)
      BY <1>2, <2>2
    <3>2. m[i].sequence = i /\ m[i].key = keys[i - Len(l)]
      BY <1>2, <2>2, <3>1
    <3>3. ASSUME m[i].key \in Unique, NEW j \in 1 .. i - 1
          PROVE  m[j].key # m[i].key
      <4>1. CASE j <= Len(l)
        <5>1. m[j].key \in KeysIn(l)
          BY <1>2, <4>1 DEF KeysIn
        <5>2. m[i].key \notin KeysIn(l)
          BY <3>1, <3>2, <3>3 DEF Acceptable
        <5> QED
          BY <5>1, <5>2
      <4>2. CASE j > Len(l)
        <5>1. /\ j - Len(l) \in 1 .. (i - Len(l)) - 1
              /\ j \in 1 .. Len(l) + Len(keys)
          BY <1>2, <3>1, <4>2
        <5>2. m[j].key = keys[j - Len(l)]
          BY <1>2, <4>2, <5>1
        <5> QED
          BY <3>1, <3>2, <3>3, <5>1, <5>2 DEF Acceptable
      <4> QED
        BY <1>2, <4>1, <4>2
    <3> QED
      BY <3>2, <3>3
  <2> QED
    BY <1>2, <2>1, <2>2
<1>4. Replayable(m)
  BY <1>3 DEF Replayable
<1> QED
  BY <1>1, <1>4

-----------------------------------------------------------------------------
(* A batch an operation may commit is a non-empty sequence of keys.           *)
LEMMA BatchesAreSequences ==
    ASSUME NEW keys \in Batches
    PROVE  keys \in Seq(Keys) /\ Len(keys) > 0
<1>1. PICK n \in 1 .. MaxBatch : keys \in [1 .. n -> Keys]
  BY DEF Batches
<1> QED
  BY <1>1, LedgerAssumption DEF LedgerAssumption

(* The migration's batch is a non-empty sequence of keys.                     *)
LEMMA MigrationIsABatch == <<Tenant>> \in Seq(Keys) /\ Len(<<Tenant>>) = 1
  BY LedgerAssumption DEF LedgerAssumption

(* The projection of a log of envelopes has the type of a cache.              *)
LEMMA ProjectionType ==
    ASSUME NEW l \in Seq(Envelope)
    PROVE  Projection(l) \in [known : SUBSET Keys, lastSequence : Nat]
<1>1. Len(l) \in Nat /\ \A i \in 1 .. Len(l) : l[i] \in Envelope
  BY LenProperties, ElementOfSeq
<1>2. KeysIn(l) \subseteq Keys
  BY <1>1 DEF KeysIn, Envelope
<1> QED
  BY <1>1, <1>2 DEF Projection

(* StartMigration, at any stage, keeps the types of what it assigns.          *)
LEMMA StartMigrationType ==
    ASSUME TypeOK, NEW r \in Replicas, NEW v,
           NEW stage \in {"migrate", "migrateAgain"}, StartMigration(r, v, stage)
    PROVE  /\ pc' \in [Replicas -> {"down", "ready", "commit", "migrate", "migrateAgain"}]
           /\ pending' \in [Replicas -> [op : Ops, keys : Seq(Keys)]]
           /\ nextOp' \in 1 .. MaxOps + 1
<1>1. NoOp \in [op : Ops, keys : Seq(Keys)]
  BY LedgerAssumption DEF NoOp, Ops, LedgerAssumption
<1>2. CASE NeedsMigration(v) /\ CanStartOp
  <2>1. nextOp \in Ops /\ nextOp + 1 \in 1 .. MaxOps + 1
    BY <1>2, LedgerAssumption DEF TypeOK, CanStartOp, Ops, LedgerAssumption
  <2>2. [op |-> nextOp, keys |-> <<Tenant>>] \in [op : Ops, keys : Seq(Keys)]
    BY <2>1, MigrationIsABatch
  <2> QED
    BY <1>2, <2>1, <2>2 DEF TypeOK, StartMigration
<1>3. CASE ~ (NeedsMigration(v) /\ CanStartOp)
  BY <1>1, <1>3 DEF TypeOK, StartMigration
<1> QED
  BY <1>2, <1>3

(* What an append stores is a log of envelopes.                               *)
LEMMA StoreType ==
    ASSUME TypeOK, NEW r \in Replicas, Store(r)
    PROVE  log' \in Seq(Envelope)
<1>1. /\ log \in Seq(Envelope)
      /\ pending[r].op \in Ops /\ pending[r].keys \in Seq(Keys)
      /\ view[r].lastSequence \in Nat
  BY DEF TypeOK
<1>2. Envelopes(pending[r].op, pending[r].keys, view[r].lastSequence) \in Seq(Envelope)
  BY <1>1, EnvelopesProperties
<1> QED
  BY <1>1, <1>2, ConcatProperties DEF Store

(* The non-conflict error path keeps the types of what it assigns.            *)
LEMMA AfterStoreErrorType ==
    ASSUME TypeOK, NEW r \in Replicas, AfterStoreError(r)
    PROVE  /\ pc' \in [Replicas -> {"down", "ready", "commit", "migrate", "migrateAgain"}]
           /\ pending' \in [Replicas -> [op : Ops, keys : Seq(Keys)]]
<1>1. NoOp \in [op : Ops, keys : Seq(Keys)]
  BY LedgerAssumption DEF NoOp, Ops, LedgerAssumption
<1> QED
  BY <1>1 DEF TypeOK, AfterStoreError

(* Every step of the ledger keeps the types of its variables.                 *)
LEMMA TypeStep == TypeOK /\ [Next]_vars => TypeOK'
<1> SUFFICES ASSUME TypeOK, [Next]_vars
             PROVE  TypeOK'
  OBVIOUS
<1>0. NoOp \in [op : Ops, keys : Seq(Keys)]
  BY LedgerAssumption DEF NoOp, Ops, LedgerAssumption
<1>p. Projection(log) \in [known : SUBSET Keys, lastSequence : Nat]
  BY ProjectionType DEF TypeOK
<1>1. ASSUME NEW r \in Replicas, Open(r)
      PROVE  TypeOK'
  <2>1. view' \in [Replicas -> [known : SUBSET Keys, lastSequence : Nat]]
    BY <1>1, <1>p DEF TypeOK, Open
  <2>2. StartMigration(r, Projection(log), "migrate")
    BY <1>1 DEF Open
  <2> QED
    BY <1>1, <2>1, <2>2, StartMigrationType DEF TypeOK, Open
<1>2. ASSUME NEW r \in Replicas, Refresh(r)
      PROVE  TypeOK'
  BY <1>2, <1>p DEF TypeOK, Refresh
<1>3. ASSUME NEW r \in Replicas, Crash(r)
      PROVE  TypeOK'
  BY <1>3, <1>0 DEF TypeOK, Crash, DefaultState
<1>4. ASSUME NEW r \in Replicas, NEW keys \in Batches, Decide(r, keys)
      PROVE  TypeOK'
  <2>1. nextOp \in Ops /\ nextOp + 1 \in 1 .. MaxOps + 1
    BY <1>4, LedgerAssumption DEF TypeOK, Decide, CanStartOp, Ops, LedgerAssumption
  <2>2. [op |-> nextOp, keys |-> keys] \in [op : Ops, keys : Seq(Keys)]
    BY <2>1, BatchesAreSequences
  <2> QED
    BY <1>4, <2>1, <2>2 DEF TypeOK, Decide
<1>5. ASSUME NEW r \in Replicas, NEW keys \in Batches, Invalid(r, keys)
      PROVE  TypeOK'
  <2>1. nextOp \in Ops /\ nextOp + 1 \in 1 .. MaxOps + 1
    BY <1>5, LedgerAssumption DEF TypeOK, Invalid, CanStartOp, Ops, LedgerAssumption
  <2> QED
    BY <1>5, <2>1 DEF TypeOK, Invalid
<1>6. ASSUME NEW r \in Replicas, AppendOk(r)
      PROVE  TypeOK'
  <2>1. log' \in Seq(Envelope)
    BY <1>6, StoreType DEF AppendOk
  <2>2. pending[r].keys \in Seq(Keys) /\ pending[r].op \in Ops /\ view[r].known \subseteq Keys
        /\ view[r].lastSequence \in Nat
    BY DEF TypeOK
  <2>3. Len(pending[r].keys) \in Nat
        /\ \A i \in 1 .. Len(pending[r].keys) : pending[r].keys[i] \in Keys
    BY <2>2, LenProperties, ElementOfSeq
  <2>4. Projected(view[r], pending[r].keys) \in [known : SUBSET Keys, lastSequence : Nat]
    BY <2>2, <2>3 DEF Projected
  <2> QED
    BY <1>0, <1>6, <2>1, <2>2, <2>4 DEF TypeOK, AppendOk
<1>7. ASSUME NEW r \in Replicas, AppendConflict(r)
      PROVE  TypeOK'
  <2>1. view' \in [Replicas -> [known : SUBSET Keys, lastSequence : Nat]]
        /\ refused' \in SUBSET Ops /\ log' = log /\ acked' = acked
    BY <1>7, <1>p DEF TypeOK, AppendConflict
  <2>2. CASE pc[r] = "migrate"
    <3>1. StartMigration(r, Projection(log), "migrateAgain")
      BY <1>7, <2>2 DEF AppendConflict
    <3> QED
      BY <2>1, <3>1, StartMigrationType DEF TypeOK
  <2>3. CASE pc[r] # "migrate"
    BY <1>0, <1>7, <2>1, <2>3 DEF TypeOK, AppendConflict
  <2> QED
    BY <2>2, <2>3
<1>8. ASSUME NEW r \in Replicas, StoreFails(r)
      PROVE  TypeOK'
  <2>1. AfterStoreError(r)
    BY <1>8 DEF StoreFails
  <2> QED
    BY <1>8, <2>1, AfterStoreErrorType DEF TypeOK, StoreFails, AfterStoreError
<1>9. ASSUME NEW r \in Replicas, OutcomeLost(r)
      PROVE  TypeOK'
  <2>1. AfterStoreError(r) /\ Store(r)
    BY <1>9 DEF OutcomeLost
  <2>2. log' \in Seq(Envelope)
    BY <2>1, StoreType
  <2> QED
    BY <2>1, <2>2, AfterStoreErrorType DEF TypeOK, AfterStoreError
<1>10. CASE UNCHANGED vars
  BY <1>10 DEF TypeOK, vars
<1> QED
  BY <1>1, <1>2, <1>3, <1>4, <1>5, <1>6, <1>7, <1>8, <1>9, <1>10 DEF Next

(* The initial states have the right types.                                   *)
LEMMA TypeInit == Init => TypeOK
<1> SUFFICES ASSUME Init
             PROVE  TypeOK
  OBVIOUS
<1>1. NoOp \in [op : Ops, keys : Seq(Keys)] /\ 0 \in Ops
  BY LedgerAssumption DEF NoOp, Ops, LedgerAssumption
<1>2. <<Org>> \in Seq(Keys)
  BY LedgerAssumption DEF LedgerAssumption
<1>3. LegacyLog \in Seq(Envelope)
  BY <1>1, <1>2, EnvelopesProperties DEF LegacyLog
<1>4. log \in Seq(Envelope)
  <2>1. log = <<>> \/ log = LegacyLog
    BY DEF Init
  <2> QED
    BY <1>3, <2>1, EmptySeq
<1> QED
  BY <1>1, <1>4, LedgerAssumption DEF Init, TypeOK, DefaultState, LedgerAssumption

(* The type invariant of the ledger, for every number of instances, every set *)
(* of keys and all bounds.                                                    *)
THEOREM LedgerType == Spec => []TypeOK
  BY TypeInit, TypeStep, PTL DEF Spec

-----------------------------------------------------------------------------
(* The inductive invariant: the properties of the ledger, and that an         *)
(* operation between its decision and its transaction is named by a number    *)
(* nobody else has and can be projected on the cache it was decided on.       *)

KnownUpTo(l, n) == {l[i].key : i \in 1 .. n}

CacheSound(r) ==
    pc[r] # "down" =>
        /\ view[r].lastSequence <= Len(log)
        /\ view[r].known = KnownUpTo(log, view[r].lastSequence)

PendingSound(r) ==
    Committing(r) =>
        /\ Len(pending[r].keys) > 0
        /\ Acceptable(view[r].known, pending[r].keys)
        /\ pending[r].op < nextOp
        /\ pending[r].op \notin OpsIn(log) \cup refused

PendingDistinct ==
    \A r, s \in Replicas :
        (r # s /\ Committing(r) /\ Committing(s)) => pending[r].op # pending[s].op

OpsNamed == \A o \in OpsIn(log) \cup refused : o < nextOp

Inv ==
    /\ ReplayNeverFails
    /\ DecidedOnWhatItExtends
    /\ AnswersAreTrue
    /\ OpsNamed
    /\ \A r \in Replicas : CacheSound(r) /\ PendingSound(r)
    /\ PendingDistinct

(* What any step of instance r may do, as far as the invariant is concerned.  *)
Stored(r) == Committing(r) /\ HeadUnmoved(r) /\ Store(r)

StepOf(r) ==
    /\ \A s \in Replicas \ {r} :
          pc'[s] = pc[s] /\ view'[s] = view[s] /\ pending'[s] = pending[s]
    /\ nextOp' \in {nextOp, nextOp + 1}
    /\ log' = log \/ (Stored(r) /\ refused' = refused)
    /\ acked' = acked \/ (Stored(r) /\ acked' = acked \cup {pending[r].op})
    /\ \/ refused' = refused
       \/ Committing(r) /\ refused' = refused \cup {pending[r].op}
       \/ ~ Committing(r)' /\ nextOp' = nextOp + 1 /\ refused' = refused \cup {nextOp}
    /\ Committing(r)' =>
          /\ log' = log
          /\ nextOp' = nextOp + 1
          /\ pending'[r].op = nextOp
          /\ Len(pending'[r].keys) > 0
          /\ Acceptable(view'[r].known, pending'[r].keys)
    /\ pc'[r] # "down" =>
          \/ log' = log /\ view'[r] = Projection(log)
          \/ pc[r] # "down" /\ view'[r] = view[r]
          \/ Stored(r) /\ view'[r] = Projected(view[r], pending[r].keys)

-----------------------------------------------------------------------------
(* The legacy migration's batch can be projected where it is needed.          *)
LEMMA MigrationAcceptable ==
    ASSUME NEW v, NeedsMigration(v)
    PROVE  Acceptable(v.known, <<Tenant>>)
  BY DEF NeedsMigration, Acceptable

(* open_with_store and its second attempt, seen as a step of the instance.    *)
LEMMA StartMigrationStep ==
    ASSUME TypeOK, NEW r \in Replicas, NEW v,
           NEW stage \in {"migrate", "migrateAgain"}, StartMigration(r, v, stage)
    PROVE  /\ \A s \in Replicas \ {r} : pc'[s] = pc[s] /\ pending'[s] = pending[s]
           /\ nextOp' \in {nextOp, nextOp + 1}
           /\ Committing(r)' =>
                 /\ nextOp' = nextOp + 1
                 /\ pending'[r].op = nextOp
                 /\ Len(pending'[r].keys) > 0
                 /\ Acceptable(v.known, pending'[r].keys)
<1>1. CASE NeedsMigration(v) /\ CanStartOp
  <2>1. pending'[r] = [op |-> nextOp, keys |-> <<Tenant>>]
    BY <1>1 DEF TypeOK, StartMigration
  <2>2. Acceptable(v.known, <<Tenant>>) /\ Len(<<Tenant>>) > 0
    BY <1>1, MigrationAcceptable, MigrationIsABatch
  <2> QED
    BY <1>1, <2>1, <2>2 DEF TypeOK, StartMigration
<1>2. CASE ~ (NeedsMigration(v) /\ CanStartOp)
  <2>1. pc'[r] \in {"down", "ready"}
    BY <1>2 DEF TypeOK, StartMigration
  <2> QED
    BY <1>2, <2>1 DEF TypeOK, StartMigration, Committing
<1> QED
  BY <1>1, <1>2

(* Every step of the ledger is such a step of some instance.                  *)
LEMMA EveryStepIsAStepOf ==
    ASSUME TypeOK, Next
    PROVE  \E r \in Replicas : StepOf(r)
<1>1. ASSUME NEW r \in Replicas, Open(r)
      PROVE  StepOf(r)
  <2>1. StartMigration(r, Projection(log), "migrate")
    BY <1>1 DEF Open
  <2>2. /\ \A s \in Replicas \ {r} : view'[s] = view[s]
        /\ view'[r] = Projection(log)
        /\ log' = log /\ acked' = acked /\ refused' = refused
    BY <1>1 DEF TypeOK, Open
  <2> QED
    BY <2>1, <2>2, StartMigrationStep DEF StepOf
<1>2. ASSUME NEW r \in Replicas, Refresh(r)
      PROVE  StepOf(r)
  BY <1>2 DEF TypeOK, Refresh, StepOf, Committing
<1>3. ASSUME NEW r \in Replicas, Crash(r)
      PROVE  StepOf(r)
  BY <1>3 DEF TypeOK, Crash, StepOf, Committing
<1>4. ASSUME NEW r \in Replicas, NEW keys \in Batches, Decide(r, keys)
      PROVE  StepOf(r)
  <2>1. Len(keys) > 0
    BY BatchesAreSequences
  <2>2. pending'[r] = [op |-> nextOp, keys |-> keys] /\ view'[r] = view[r] /\ pc[r] = "ready"
    BY <1>4 DEF TypeOK, Decide
  <2> QED
    BY <1>4, <2>1, <2>2 DEF TypeOK, Decide, StepOf
<1>5. ASSUME NEW r \in Replicas, NEW keys \in Batches, Invalid(r, keys)
      PROVE  StepOf(r)
  BY <1>5 DEF TypeOK, Invalid, StepOf, Committing
<1>6. ASSUME NEW r \in Replicas, AppendOk(r)
      PROVE  StepOf(r)
  <2>1. Stored(r) /\ pc'[r] = "ready" /\ view'[r] = Projected(view[r], pending[r].keys)
    BY <1>6 DEF TypeOK, AppendOk, Stored
  <2> QED
    BY <1>6, <2>1 DEF TypeOK, AppendOk, StepOf, Committing
<1>7. ASSUME NEW r \in Replicas, AppendConflict(r)
      PROVE  StepOf(r)
  <2>1. /\ \A s \in Replicas \ {r} : view'[s] = view[s]
        /\ view'[r] = Projection(log)
        /\ log' = log /\ acked' = acked
        /\ Committing(r) /\ refused' = refused \cup {pending[r].op}
    BY <1>7 DEF TypeOK, AppendConflict
  <2>2. CASE pc[r] = "migrate"
    <3>1. StartMigration(r, Projection(log), "migrateAgain")
      BY <1>7, <2>2 DEF AppendConflict
    <3> QED
      BY <2>1, <3>1, StartMigrationStep DEF StepOf
  <2>3. CASE pc[r] # "migrate"
    <3>1. pc'[r] \in {"down", "ready"} /\ nextOp' = nextOp
          /\ \A s \in Replicas \ {r} : pc'[s] = pc[s] /\ pending'[s] = pending[s]
      BY <1>7, <2>3 DEF TypeOK, AppendConflict
    <3> QED
      BY <2>1, <3>1 DEF StepOf, Committing
  <2> QED
    BY <2>2, <2>3
<1>8. ASSUME NEW r \in Replicas, StoreFails(r)
      PROVE  StepOf(r)
  <2>1. pc'[r] \in {"down", "ready"} /\ pc[r] # "down"
    BY <1>8 DEF TypeOK, StoreFails, AfterStoreError, Committing
  <2> QED
    BY <1>8, <2>1 DEF TypeOK, StoreFails, AfterStoreError, StepOf, Committing
<1>9. ASSUME NEW r \in Replicas, OutcomeLost(r)
      PROVE  StepOf(r)
  <2>1. pc'[r] \in {"down", "ready"} /\ pc[r] # "down" /\ Stored(r)
    BY <1>9 DEF TypeOK, OutcomeLost, AfterStoreError, Committing, Stored
  <2> QED
    BY <1>9, <2>1 DEF TypeOK, OutcomeLost, AfterStoreError, StepOf, Committing
<1> QED
  BY <1>1, <1>2, <1>3, <1>4, <1>5, <1>6, <1>7, <1>8, <1>9 DEF Next

(* What an instance stores extends the whole log it has cached, by events     *)
(* that the log's projection accepts.                                         *)
LEMMA StoredExtends ==
    ASSUME TypeOK, Inv, NEW r \in Replicas, Stored(r)
    PROVE  /\ log' = Extended(log, pending[r].op, pending[r].keys)
           /\ view[r].lastSequence = Len(log)
           /\ view[r].known = KeysIn(log)
           /\ Acceptable(KeysIn(log), pending[r].keys)
           /\ Len(pending[r].keys) > 0
           /\ pending[r].op \in Ops /\ pending[r].keys \in Seq(Keys)
<1>1. view[r].lastSequence = Len(log)
  BY DEF Stored, HeadUnmoved
<1>2. log' = Extended(log, pending[r].op, pending[r].keys)
  BY <1>1 DEF Stored, Store, Extended
<1>3. pc[r] # "down" /\ Committing(r)
  BY DEF Stored, Committing
<1>4. view[r].known = KeysIn(log)
  BY <1>1, <1>3 DEF Inv, CacheSound, KnownUpTo, KeysIn
<1>5. Acceptable(view[r].known, pending[r].keys) /\ Len(pending[r].keys) > 0
  BY <1>3 DEF Inv, PendingSound
<1>6. pending[r].op \in Ops /\ pending[r].keys \in Seq(Keys)
  BY DEF TypeOK
<1> QED
  BY <1>1, <1>2, <1>4, <1>5, <1>6

(* A store makes the log longer by the events of the operation.               *)
LEMMA StoredLength ==
    ASSUME TypeOK, Inv, NEW r \in Replicas, Stored(r)
    PROVE  /\ Len(log') = Len(log) + Len(pending[r].keys)
           /\ Len(pending[r].keys) \in Nat \ {0}
<1> DEFINE m == Extended(log, pending[r].op, pending[r].keys)
<1>1. /\ log' = m /\ Len(pending[r].keys) > 0
      /\ pending[r].op \in Ops /\ pending[r].keys \in Seq(Keys)
      /\ log \in Seq(Envelope)
  BY StoredExtends DEF TypeOK
<1>2. /\ Len(pending[r].keys) \in Nat
      /\ Len(m) = Len(log) + Len(pending[r].keys)
  BY <1>1, ExtendedLog
<1> QED
  BY <1>1, <1>2

(* A stored log keeps its prefix, so what was known up to a number stays so.  *)
LEMMA KnownStays ==
    ASSUME TypeOK, Inv, NEW r \in Replicas, log' = log \/ Stored(r)
    PROVE  /\ Len(log) \in Nat /\ Len(log') \in Nat
           /\ Len(log) <= Len(log')
           /\ \A n \in 0 .. Len(log) : KnownUpTo(log', n) = KnownUpTo(log, n)
           /\ \A i \in 1 .. Len(log) : log'[i] = log[i]
           /\ OpsIn(log) \subseteq OpsIn(log')
<1>1. log \in Seq(Envelope) /\ Len(log) \in Nat
  BY LenProperties DEF TypeOK
<1>2. CASE log' = log
  BY <1>1, <1>2
<1>3. CASE Stored(r)
  <2>1. /\ log' = Extended(log, pending[r].op, pending[r].keys)
        /\ pending[r].op \in Ops /\ pending[r].keys \in Seq(Keys)
    BY <1>3, StoredExtends
  <2>2. /\ Len(pending[r].keys) \in Nat
        /\ Len(log') = Len(log) + Len(pending[r].keys)
        /\ \A i \in 1 .. Len(log) : log'[i] = log[i]
    <3> DEFINE m == Extended(log, pending[r].op, pending[r].keys)
    <3>1. /\ Len(pending[r].keys) \in Nat
          /\ Len(m) = Len(log) + Len(pending[r].keys)
          /\ \A i \in 1 .. Len(log) : m[i] = log[i]
      BY <1>1, <2>1, ExtendedLog
    <3> QED
      BY <2>1, <3>1
  <2>3. OpsIn(log) \subseteq OpsIn(log')
    BY <1>1, <2>1, ExtendedKeysAndOps
  <2>4. ASSUME NEW n \in 0 .. Len(log)
        PROVE  KnownUpTo(log', n) = KnownUpTo(log, n)
    <3>1. \A i \in 1 .. n : log'[i] = log[i]
      BY <1>1, <2>2
    <3> QED
      BY <3>1 DEF KnownUpTo
  <2>5. Len(log') \in Nat /\ Len(log) <= Len(log')
    BY <1>1, <2>2
  <2> QED
    BY <1>1, <2>2, <2>3, <2>4, <2>5
<1> QED
  BY <1>2, <1>3

(* The operations an instance's step adds to the log or to the refused ones.  *)
LEMMA NewOps ==
    ASSUME TypeOK, Inv, NEW r \in Replicas, StepOf(r)
    PROVE  \/ OpsIn(log') \cup refused' \subseteq OpsIn(log) \cup refused
           \/ /\ Committing(r)
              /\ OpsIn(log') \cup refused' \subseteq OpsIn(log) \cup refused \cup {pending[r].op}
           \/ /\ ~ Committing(r)' /\ nextOp' = nextOp + 1
              /\ OpsIn(log') \cup refused' \subseteq OpsIn(log) \cup refused \cup {nextOp}
<1>1. CASE log' = log
  BY <1>1 DEF StepOf
<1>2. CASE Stored(r) /\ refused' = refused
  <2>1. /\ log' = Extended(log, pending[r].op, pending[r].keys)
        /\ pending[r].op \in Ops /\ pending[r].keys \in Seq(Keys)
    BY <1>2, StoredExtends
  <2>2. OpsIn(log') \subseteq OpsIn(log) \cup {pending[r].op}
    BY <2>1, ExtendedKeysAndOps DEF TypeOK
  <2> QED
    BY <1>2, <2>2 DEF Stored
<1> QED
  BY <1>1, <1>2 DEF StepOf

(* The names in use are numbers, so they can be compared.                     *)
LEMMA NamesAreNumbers ==
    ASSUME TypeOK
    PROVE  /\ nextOp \in Nat
           /\ \A r \in Replicas : pending[r].op \in Nat
           /\ \A o \in OpsIn(log) \cup refused : o \in Nat
<1>1. Ops \subseteq Nat /\ MaxOps \in Nat
  BY LedgerAssumption DEF Ops, LedgerAssumption
<1>2. \A i \in 1 .. Len(log) : log[i] \in Envelope
  BY ElementOfSeq DEF TypeOK
<1>3. OpsIn(log) \subseteq Ops
  BY <1>2 DEF OpsIn, Envelope
<1>4. refused \subseteq Ops /\ nextOp \in Nat
  BY <1>1 DEF TypeOK
<1>5. \A r \in Replicas : pending[r].op \in Ops
  BY DEF TypeOK
<1> QED
  BY <1>1, <1>3, <1>4, <1>5

(* The stored events of an operation stay contiguous and directly after the   *)
(* prefix they were decided on.                                               *)
LEMMA StoreIsSerial ==
    ASSUME TypeOK, Inv, NEW r \in Replicas, Stored(r)
    PROVE  DecidedOnWhatItExtends'
<1> DEFINE op == pending[r].op
           keys == pending[r].keys
           m == Extended(log, op, keys)
<1>1. log' = m /\ op \in Ops /\ keys \in Seq(Keys) /\ log \in Seq(Envelope)
  BY StoredExtends DEF TypeOK
<1>2. op \notin OpsIn(log)
  BY DEF Inv, PendingSound, Stored
<1>3. /\ Len(log) \in Nat /\ Len(keys) \in Nat
      /\ Len(m) = Len(log) + Len(keys)
      /\ \A i \in 1 .. Len(log) : m[i] = log[i]
      /\ \A i \in 1 .. Len(log) + Len(keys) : i > Len(log) =>
            m[i].op = op /\ m[i].basis = Len(log)
  BY <1>1, ExtendedLog, SMTT(30)
<1> HIDE DEF m, op, keys
<1>4. ASSUME NEW i \in 1 .. Len(m)
      PROVE  /\ m[i].basis < i
             /\ \A j \in m[i].basis + 1 .. i : m[j].op = m[i].op /\ m[j].basis = m[i].basis
             /\ \A j \in 1 .. m[i].basis : m[j].op # m[i].op
  <2>1. CASE i <= Len(log)
    <3>1. i \in 1 .. Len(log) /\ m[i] = log[i]
      BY <1>3, <2>1
    <3>2. /\ log[i].basis < i
          /\ \A j \in log[i].basis + 1 .. i :
                log[j].op = log[i].op /\ log[j].basis = log[i].basis
          /\ \A j \in 1 .. log[i].basis : log[j].op # log[i].op
      BY <3>1 DEF Inv, DecidedOnWhatItExtends
    <3>3. log[i].basis \in Nat
      <4>1. log[i] \in Envelope
        BY <1>1, <3>1, ElementOfSeq
      <4> QED
        BY <4>1 DEF Envelope
    <3>4. \A j \in 1 .. i : j \in 1 .. Len(log) /\ m[j] = log[j]
      BY <1>3, <2>1
    <3>5. /\ \A j \in log[i].basis + 1 .. i : j \in 1 .. i
          /\ \A j \in 1 .. log[i].basis : j \in 1 .. i
      BY <3>2, <3>3
    <3> QED
      BY <3>1, <3>2, <3>4, <3>5
  <2>2. CASE i > Len(log)
    <3>1. m[i].op = op /\ m[i].basis = Len(log)
      BY <1>3, <2>2
    <3>2. \A j \in Len(log) + 1 .. i : m[j].op = op /\ m[j].basis = Len(log)
      BY <1>3, <2>2
    <3>3. \A j \in 1 .. Len(log) : m[j].op # op
      BY <1>2, <1>3 DEF OpsIn
    <3> QED
      BY <1>3, <2>2, <3>1, <3>2, <3>3
  <2> QED
    BY <1>3, <2>1, <2>2
<1> QED
  BY <1>1, <1>4 DEF DecidedOnWhatItExtends

(* Steps of instances preserve the invariant.                                 *)
LEMMA StepPreservesInv ==
    ASSUME TypeOK, TypeOK', Inv, NEW r \in Replicas, StepOf(r)
    PROVE  Inv'
<1>1. log' = log \/ Stored(r)
  BY DEF StepOf
<1>2. /\ nextOp \in Nat /\ nextOp' \in Nat /\ nextOp <= nextOp'
      /\ \A s \in Replicas : pending[s].op \in Nat
      /\ \A o \in OpsIn(log) \cup refused : o \in Nat /\ o < nextOp
  BY NamesAreNumbers DEF StepOf, Inv, OpsNamed
<1>3. /\ Len(log) \in Nat /\ Len(log') \in Nat
      /\ Len(log) <= Len(log')
      /\ \A n \in 0 .. Len(log) : KnownUpTo(log', n) = KnownUpTo(log, n)
      /\ OpsIn(log) \subseteq OpsIn(log')
  BY <1>1, KnownStays
<1>4. \A s \in Replicas : Committing(s) => pending[s].op < nextOp
                             /\ pending[s].op \notin OpsIn(log) \cup refused
  BY DEF Inv, PendingSound
<1>5. ReplayNeverFails'
  <2>1. CASE log' = log
    BY <2>1 DEF Inv, ReplayNeverFails, Replayable
  <2>2. CASE Stored(r)
    <3>1. /\ log' = Extended(log, pending[r].op, pending[r].keys)
          /\ Acceptable(KeysIn(log), pending[r].keys)
          /\ pending[r].op \in Ops /\ pending[r].keys \in Seq(Keys)
          /\ log \in Seq(Envelope) /\ Replayable(log)
      BY <2>2, StoredExtends DEF TypeOK, Inv, ReplayNeverFails
    <3>2. Replayable(Extended(log, pending[r].op, pending[r].keys))
      BY <3>1, ExtendedReplays
    <3> QED
      BY <3>1, <3>2 DEF ReplayNeverFails, Replayable
  <2> QED
    BY <1>1, <2>1, <2>2
<1>6. DecidedOnWhatItExtends'
  <2>1. CASE log' = log
    BY <2>1 DEF Inv, DecidedOnWhatItExtends
  <2> QED
    BY <1>1, <2>1, StoreIsSerial
<1>7. AnswersAreTrue'
  <2>1. acked \subseteq OpsIn(log) /\ refused \cap OpsIn(log) = {}
    BY DEF Inv, AnswersAreTrue
  <2>2. CASE Stored(r) /\ refused' = refused
    <3>1. OpsIn(log') \subseteq OpsIn(log) \cup {pending[r].op} /\ pending[r].op \in OpsIn(log')
      BY <2>2, StoredExtends, ExtendedKeysAndOps DEF TypeOK
    <3>2. pending[r].op \notin refused
      BY <1>4, <2>2 DEF Stored
    <3>3. acked' \subseteq acked \cup {pending[r].op}
      BY DEF StepOf
    <3> QED
      BY <1>3, <2>1, <2>2, <3>1, <3>2, <3>3 DEF AnswersAreTrue
  <2>3. CASE log' = log
    <3>1. OpsIn(log') = OpsIn(log)
      BY <2>3
    <3>2. acked' = acked
      <4>1. Stored(r) => Len(log') # Len(log)
        BY <1>3, StoredLength
      <4> QED
        BY <2>3, <4>1 DEF StepOf
    <3>3. nextOp \notin OpsIn(log)
      BY <1>2
    <3>4. refused' \cap OpsIn(log) = {}
      BY <1>4, <2>1, <3>3 DEF StepOf
    <3> QED
      BY <2>1, <3>1, <3>2, <3>4 DEF AnswersAreTrue
  <2> QED
    BY <2>2, <2>3 DEF StepOf
<1>8. OpsNamed'
  <2>1. ASSUME NEW o \in OpsIn(log') \cup refused'
        PROVE  o < nextOp'
    <3>1. \/ o \in OpsIn(log) \cup refused
          \/ Committing(r) /\ o = pending[r].op
          \/ nextOp' = nextOp + 1 /\ o = nextOp
      BY <2>1, NewOps
    <3> QED
      BY <1>2, <1>4, <3>1
  <2> QED
    BY <2>1 DEF OpsNamed
<1>9. ASSUME NEW s \in Replicas
      PROVE  CacheSound(s)'
  <2>1. view[s].lastSequence \in Nat
    BY DEF TypeOK
  <2>2. CASE view'[s] = view[s] /\ (pc'[s] # "down" => pc[s] # "down")
    <3>1. ASSUME pc'[s] # "down"
          PROVE  /\ view[s].lastSequence <= Len(log)
                 /\ view[s].known = KnownUpTo(log, view[s].lastSequence)
      BY <2>2, <3>1 DEF Inv, CacheSound
    <3> QED
      BY <1>3, <2>1, <2>2, <3>1 DEF CacheSound
  <2>3. CASE s = r /\ log' = log /\ view'[r] = Projection(log)
    <3>1. view'[s].lastSequence = Len(log) /\ view'[s].known = KnownUpTo(log, Len(log))
      BY <2>3 DEF Projection, KeysIn, KnownUpTo
    <3> QED
      BY <1>3, <2>3, <3>1 DEF CacheSound
  <2>4. CASE s = r /\ Stored(r) /\ view'[r] = Projected(view[r], pending[r].keys)
    <3>1. /\ log' = Extended(log, pending[r].op, pending[r].keys)
          /\ view[r].lastSequence = Len(log)
          /\ view[r].known = KeysIn(log)
          /\ pending[r].op \in Ops /\ pending[r].keys \in Seq(Keys)
          /\ log \in Seq(Envelope)
      BY <2>4, StoredExtends DEF TypeOK
    <3>2. Len(log') = Len(log) + Len(pending[r].keys)
      BY <2>4, StoredLength
    <3>3. KeysIn(log') = KeysIn(log) \cup {pending[r].keys[i] : i \in 1 .. Len(pending[r].keys)}
      BY <3>1, ExtendedKeysAndOps
    <3>4. /\ view'[s].lastSequence = Len(log')
          /\ view'[s].known = KeysIn(log')
      BY <2>4, <3>1, <3>2, <3>3 DEF Projected
    <3>5. KeysIn(log') = KnownUpTo(log', Len(log'))
      BY DEF KeysIn, KnownUpTo
    <3> QED
      BY <1>3, <3>4, <3>5 DEF CacheSound
  <2>5. CASE s = r /\ pc'[s] = "down"
    BY <2>5 DEF CacheSound
  <2> QED
    BY <2>2, <2>3, <2>4, <2>5 DEF StepOf
<1>10. ASSUME NEW s \in Replicas
       PROVE  PendingSound(s)'
  <2>1. CASE s = r
    <3>1. SUFFICES ASSUME Committing(r)'
                   PROVE  PendingSound(r)'
      BY <2>1 DEF PendingSound
    <3>2. /\ nextOp' = nextOp + 1 /\ pending'[r].op = nextOp
          /\ Len(pending'[r].keys) > 0
          /\ Acceptable(view'[r].known, pending'[r].keys)
      BY <3>1 DEF StepOf
    <3>3. nextOp \notin OpsIn(log') \cup refused'
      BY <1>2, <1>4, <3>1, NewOps
    <3> QED
      BY <1>2, <3>2, <3>3 DEF PendingSound, Acceptable
  <2>2. CASE s # r
    <3>1. pc'[s] = pc[s] /\ view'[s] = view[s] /\ pending'[s] = pending[s]
      BY <2>2 DEF StepOf
    <3>2. SUFFICES ASSUME Committing(s)
                   PROVE  PendingSound(s)'
      BY <3>1 DEF PendingSound, Committing
    <3>3. /\ Len(pending[s].keys) > 0
          /\ Acceptable(view[s].known, pending[s].keys)
          /\ pending[s].op < nextOp
          /\ pending[s].op \notin OpsIn(log) \cup refused
      BY <3>2 DEF Inv, PendingSound
    <3>4. Committing(r) => pending[s].op # pending[r].op
      BY <2>2, <3>2 DEF Inv, PendingDistinct
    <3>5. pending[s].op \notin OpsIn(log') \cup refused'
      BY <1>2, <3>3, <3>4, NewOps
    <3> QED
      BY <1>2, <3>1, <3>3, <3>5 DEF PendingSound, Acceptable
  <2> QED
    BY <2>1, <2>2
<1>11. PendingDistinct'
  <2>1. ASSUME NEW s \in Replicas, s # r, Committing(s)'
        PROVE  /\ Committing(s) /\ pending'[s].op = pending[s].op
               /\ Committing(r)' => pending'[s].op # pending'[r].op
    <3>1. pc'[s] = pc[s] /\ pending'[s] = pending[s]
      BY <2>1 DEF StepOf
    <3>2. Committing(s)
      BY <2>1, <3>1 DEF Committing
    <3>3. Committing(r)' => pending'[r].op = nextOp
      BY DEF StepOf
    <3> QED
      BY <1>2, <1>4, <3>1, <3>2, <3>3
  <2>2. ASSUME NEW s \in Replicas, NEW t \in Replicas, s # t, Committing(s)', Committing(t)'
        PROVE  pending'[s].op # pending'[t].op
    <3>1. CASE s # r /\ t # r
      BY <2>1, <2>2, <3>1 DEF Inv, PendingDistinct
    <3>2. CASE s = r \/ t = r
      BY <2>1, <2>2, <3>2
    <3> QED
      BY <3>1, <3>2
  <2> QED
    BY <2>2 DEF PendingDistinct
<1> QED
  BY <1>5, <1>6, <1>7, <1>8, <1>9, <1>10, <1>11 DEF Inv

(* The invariant holds in the empty ledger and in a ledger left by a version  *)
(* without tenants.                                                           *)
LEMMA InvInit == Init => Inv
<1> SUFFICES ASSUME Init
             PROVE  Inv
  OBVIOUS
<1>1. \A r \in Replicas : pc[r] = "down" /\ CacheSound(r) /\ ~ Committing(r)
  BY DEF Init, CacheSound, Committing
<1>2. acked = {} /\ refused = {} /\ nextOp = 1
  BY DEF Init
<1>3. CASE log = <<>>
  <2>1. Len(log) = 0
    BY <1>3
  <2>2. OpsIn(log) = {} /\ Replayable(log) /\ DecidedOnWhatItExtends
    BY <2>1 DEF OpsIn, Replayable, DecidedOnWhatItExtends
  <2> QED
    BY <1>1, <1>2, <2>2 DEF Inv, ReplayNeverFails, AnswersAreTrue, OpsNamed,
                            PendingSound, PendingDistinct
<1>4. CASE log = LegacyLog
  <2>1. Len(log) = 1 /\ log[1] = [sequence |-> 1, key |-> Org, op |-> 0, basis |-> 0]
    BY <1>4 DEF LegacyLog, Envelopes
  <2>2. OpsIn(log) \subseteq {0}
    BY <2>1 DEF OpsIn
  <2>3. Replayable(log)
    BY <2>1 DEF Replayable
  <2>4. DecidedOnWhatItExtends
    BY <2>1 DEF DecidedOnWhatItExtends
  <2> QED
    BY <1>1, <1>2, <2>2, <2>3, <2>4
       DEF Inv, ReplayNeverFails, AnswersAreTrue, OpsNamed, PendingSound, PendingDistinct
<1> QED
  BY <1>3, <1>4 DEF Init

(* Every step preserves the invariant.                                        *)
LEMMA InvStep == TypeOK /\ TypeOK' /\ Inv /\ [Next]_vars => Inv'
<1> SUFFICES ASSUME TypeOK, TypeOK', Inv, [Next]_vars
             PROVE  Inv'
  OBVIOUS
<1>1. CASE Next
  BY <1>1, EveryStepIsAStepOf, StepPreservesInv
<1>2. CASE UNCHANGED vars
  BY <1>2 DEF vars, Inv, ReplayNeverFails, DecidedOnWhatItExtends, AnswersAreTrue, OpsNamed,
              OpsIn, Replayable, CacheSound, KnownUpTo, PendingSound, PendingDistinct,
              Committing, Acceptable
<1> QED
  BY <1>1, <1>2

(* The invariant gives the property of the caches as the runs check it.       *)
LEMMA InvGivesCaches ==
    ASSUME TypeOK, Inv
    PROVE  CacheIsReplayOfPrefix
<1>1. ASSUME NEW r \in Replicas, pc[r] # "down"
      PROVE  /\ view[r].lastSequence <= Len(log)
             /\ view[r] = Projection(SubSeq(log, 1, view[r].lastSequence))
  <2> DEFINE n == view[r].lastSequence
  <2>1. n <= Len(log) /\ view[r].known = KnownUpTo(log, n)
    BY <1>1 DEF Inv, CacheSound
  <2>2. /\ log \in Seq(Envelope) /\ n \in Nat
        /\ view[r] \in [known : SUBSET Keys, lastSequence : Nat]
    BY DEF TypeOK
  <2>3. n \in 0 .. Len(log)
    BY <2>1, <2>2, LenProperties
  <2>4. Projection(SubSeq(log, 1, n)) =
           [known |-> {log[i].key : i \in 1 .. n}, lastSequence |-> n]
    BY <2>2, <2>3, PrefixProjection
  <2>5. view[r] = [known |-> view[r].known, lastSequence |-> n]
    BY <2>2
  <2> QED
    BY <2>1, <2>4, <2>5 DEF KnownUpTo
<1> QED
  BY <1>1 DEF CacheIsReplayOfPrefix

(* The ledger keeps its inductive invariant.                                  *)
THEOREM LedgerInvariant == Spec => [](TypeOK /\ Inv)
<1>1. Init => TypeOK /\ Inv
  BY TypeInit, InvInit
<1>2. (TypeOK /\ Inv) /\ [Next]_vars => (TypeOK /\ Inv)'
  BY TypeStep, InvStep
<1> QED
  BY <1>1, <1>2, PTL DEF Spec

(* No interleaving of instances, conflicts, lost outcomes and crashes leaves a *)
(* log that OrganizationState::replay rejects.                                *)
THEOREM LedgerReplays == Spec => []ReplayNeverFails
<1>1. TypeOK /\ Inv => ReplayNeverFails
  BY DEF Inv
<1> QED
  BY <1>1, LedgerInvariant, PTL

(* A live instance's cache is always the replay of a prefix of the log.       *)
THEOREM LedgerCaches == Spec => []CacheIsReplayOfPrefix
<1>1. TypeOK /\ Inv => CacheIsReplayOfPrefix
  BY InvGivesCaches
<1> QED
  BY <1>1, LedgerInvariant, PTL

(* Every operation's events directly follow the log it was decided on: the    *)
(* optimistic concurrency control of commit_as makes operations serialisable. *)
THEOREM LedgerSerialisable == Spec => []DecidedOnWhatItExtends
<1>1. TypeOK /\ Inv => DecidedOnWhatItExtends
  BY DEF Inv
<1> QED
  BY <1>1, LedgerInvariant, PTL

(* What commit_as answered stays true: Ok means stored, a conflict or a       *)
(* validation error means not stored.                                         *)
THEOREM LedgerAnswers == Spec => []AnswersAreTrue
<1>1. TypeOK /\ Inv => AnswersAreTrue
  BY DEF Inv
<1> QED
  BY <1>1, LedgerInvariant, PTL


-----------------------------------------------------------------------------
(* Refinement: the ledger implements AtomicLedger.                            *)

(* What is about to be stored is a batch an operation may commit.             *)
PendingIsBatch == \A r \in Replicas : Committing(r) => pending[r].keys \in Batches

(* The migration's batch is one of the batches.                               *)
LEMMA MigrationInBatches == <<Tenant>> \in Batches
<1>1. <<Tenant>> \in [1 .. 1 -> Keys] /\ 1 \in 1 .. MaxBatch
  BY LedgerAssumption DEF LedgerAssumption
<1> QED
  BY <1>1 DEF Batches

(* open_with_store has nothing but the migration's batch to commit.           *)
LEMMA StartMigrationBatch ==
    ASSUME TypeOK, NEW r \in Replicas, NEW v,
           NEW stage \in {"migrate", "migrateAgain"}, StartMigration(r, v, stage)
    PROVE  /\ \A s \in Replicas \ {r} : pc'[s] = pc[s] /\ pending'[s] = pending[s]
           /\ Committing(r)' => pending'[r].keys \in Batches
<1>1. CASE NeedsMigration(v) /\ CanStartOp
  <2>1. pending'[r] = [op |-> nextOp, keys |-> <<Tenant>>]
    BY <1>1 DEF TypeOK, StartMigration
  <2> QED
    BY <1>1, <2>1, MigrationInBatches DEF TypeOK, StartMigration
<1>2. CASE ~ (NeedsMigration(v) /\ CanStartOp)
  <2>1. pc'[r] \in {"down", "ready"}
    BY <1>2 DEF TypeOK, StartMigration
  <2> QED
    BY <1>2, <2>1 DEF TypeOK, StartMigration, Committing
<1> QED
  BY <1>1, <1>2

(* Every step of instance r leaves it with nothing to store, or with a batch. *)
LEMMA BatchStep == TypeOK /\ PendingIsBatch /\ [Next]_vars => PendingIsBatch'
<1> SUFFICES ASSUME TypeOK, PendingIsBatch, [Next]_vars
             PROVE  PendingIsBatch'
  OBVIOUS
<1> DEFINE OnlyOf(r) ==
               /\ \A s \in Replicas \ {r} : pc'[s] = pc[s] /\ pending'[s] = pending[s]
               /\ Committing(r)' => pending'[r].keys \in Batches
<1>1. ASSUME NEW r \in Replicas, Open(r)
      PROVE  OnlyOf(r)
  <2>1. StartMigration(r, Projection(log), "migrate")
    BY <1>1 DEF Open
  <2> QED
    BY <2>1, StartMigrationBatch
<1>2. ASSUME NEW r \in Replicas, NEW keys \in Batches, Decide(r, keys)
      PROVE  OnlyOf(r)
  <2>1. pending'[r] = [op |-> nextOp, keys |-> keys]
    BY <1>2 DEF TypeOK, Decide
  <2> QED
    BY <1>2, <2>1 DEF TypeOK, Decide
<1>3. ASSUME NEW r \in Replicas, AppendConflict(r)
      PROVE  OnlyOf(r)
  <2>1. CASE pc[r] = "migrate"
    <3>1. StartMigration(r, Projection(log), "migrateAgain")
      BY <1>3, <2>1 DEF AppendConflict
    <3> QED
      BY <3>1, StartMigrationBatch
  <2>2. CASE pc[r] # "migrate"
    <3>1. /\ pc'[r] \in {"down", "ready"}
          /\ \A s \in Replicas \ {r} : pc'[s] = pc[s] /\ pending'[s] = pending[s]
      BY <1>3, <2>2 DEF TypeOK, AppendConflict
    <3> QED
      BY <3>1 DEF Committing
  <2> QED
    BY <2>1, <2>2
<1>4. ASSUME NEW r \in Replicas,
             \/ Refresh(r) \/ Crash(r) \/ AppendOk(r) \/ StoreFails(r) \/ OutcomeLost(r)
             \/ \E keys \in Batches : Invalid(r, keys)
      PROVE  OnlyOf(r)
  <2>1. /\ pc'[r] \in {"down", "ready"}
        /\ \A s \in Replicas \ {r} : pc'[s] = pc[s] /\ pending'[s] = pending[s]
    BY <1>4 DEF TypeOK, Refresh, Crash, AppendOk, StoreFails, OutcomeLost,
                AfterStoreError, Invalid
  <2> QED
    BY <2>1 DEF Committing
<1>5. CASE Next
  <2>1. PICK r \in Replicas : OnlyOf(r)
    BY <1>1, <1>2, <1>3, <1>4, <1>5 DEF Next
  <2> QED
    BY <2>1 DEF PendingIsBatch, Committing
<1>6. CASE UNCHANGED vars
  BY <1>6 DEF vars, PendingIsBatch, Committing
<1> QED
  BY <1>5, <1>6

(* A step that stores is one append of the atomic ledger.                     *)
LEMMA StoreIsAppend ==
    ASSUME TypeOK, Inv, PendingIsBatch, NEW r \in Replicas, Stored(r),
           refused' = refused, acked' \in {acked, acked \cup {pending[r].op}}
    PROVE  Atomic!ANext
<1> DEFINE op == pending[r].op
           keys == pending[r].keys
<1>1. /\ log' = Extended(log, op, keys) /\ Acceptable(KeysIn(log), keys) /\ op \in Ops
  BY StoredExtends
<1>2. Committing(r)
  BY DEF Stored
<1>3. keys \in Batches
  BY <1>2 DEF PendingIsBatch
<1>4. op \notin OpsIn(log) \cup refused
  BY <1>2 DEF Inv, PendingSound
<1>5. PICK answered \in BOOLEAN : acked' = IF answered THEN acked \cup {op} ELSE acked
  <2>1. CASE acked' = acked
    BY <2>1
  <2>2. CASE acked' = acked \cup {op}
    BY <2>2
  <2> QED
    BY <2>1, <2>2
<1>6. Atomic!AAppend(op, keys, answered)
  BY <1>1, <1>4, <1>5 DEF Atomic!AAppend, Atomic!OpsIn, Atomic!KeysIn, Atomic!Acceptable,
                         Atomic!Envelopes, OpsIn, KeysIn, Acceptable, Envelopes, Extended
<1> QED
  BY <1>1, <1>3, <1>6 DEF Atomic!ANext

(* A step that stores nothing refuses an operation or is invisible.           *)
LEMMA OtherStepRefuses ==
    ASSUME TypeOK, TypeOK', Inv, NEW r \in Replicas, StepOf(r), log' = log
    PROVE  [Atomic!ANext]_(Atomic!avars)
<1>1. ~ Stored(r)
  BY StoredLength, LenProperties DEF TypeOK
<1>2. acked' = acked
  BY <1>1 DEF StepOf
<1>3. ASSUME NEW op, refused' = refused \cup {op}, op \notin OpsIn(log)
      PROVE  Atomic!ANext
  <2>1. op \in Ops
    BY <1>3 DEF TypeOK
  <2>2. Atomic!ARefuse(op)
    BY <1>2, <1>3 DEF Atomic!ARefuse, Atomic!OpsIn, OpsIn
  <2> QED
    BY <2>1, <2>2 DEF Atomic!ANext
<1>4. CASE refused' = refused
  BY <1>2, <1>4 DEF Atomic!avars
<1>5. CASE Committing(r) /\ refused' = refused \cup {pending[r].op}
  <2>1. pending[r].op \notin OpsIn(log)
    BY <1>5 DEF Inv, PendingSound
  <2> QED
    BY <1>3, <1>5, <2>1
<1>6. CASE refused' = refused \cup {nextOp}
  <2>1. nextOp \notin OpsIn(log)
    BY NamesAreNumbers DEF Inv, OpsNamed
  <2> QED
    BY <1>3, <1>6, <2>1
<1> QED
  BY <1>4, <1>5, <1>6 DEF StepOf

(* The ledger with its caches, conflicts, lost outcomes and crashes           *)
(* implements one atomic log: this is what lets every other module treat an   *)
(* operation of RelayApp as one step.                                         *)
THEOREM LedgerImplementsAtomic == Spec => ImplementsAtomicLedger
<1>1. Init => PendingIsBatch
  BY DEF Init, PendingIsBatch, Committing
<1>2. Init => Atomic!AInit
  BY InvInit DEF Init, Inv, ReplayNeverFails, Atomic!AInit, Atomic!Replayable, Replayable
<1>3. TypeOK /\ TypeOK' /\ Inv /\ PendingIsBatch /\ [Next]_vars => [Atomic!ANext]_(Atomic!avars)
  <2> SUFFICES ASSUME TypeOK, TypeOK', Inv, PendingIsBatch, [Next]_vars
               PROVE  [Atomic!ANext]_(Atomic!avars)
    OBVIOUS
  <2>1. CASE Next
    <3>1. PICK r \in Replicas : StepOf(r)
      BY <2>1, EveryStepIsAStepOf
    <3>2. CASE log' = log
      BY <3>1, <3>2, OtherStepRefuses
    <3>3. CASE log' # log
      <4>1. /\ Stored(r) /\ refused' = refused
            /\ acked' \in {acked, acked \cup {pending[r].op}}
        BY <3>1, <3>3 DEF StepOf
      <4> QED
        BY <4>1, StoreIsAppend
    <3> QED
      BY <3>2, <3>3
  <2>2. CASE UNCHANGED vars
    BY <2>2 DEF vars, Atomic!avars
  <2> QED
    BY <2>1, <2>2
<1> QED
  BY <1>1, <1>2, <1>3, BatchStep, LedgerInvariant, PTL
     DEF Spec, ImplementsAtomicLedger, Atomic!ASpec
=============================================================================
