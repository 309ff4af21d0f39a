-------------------------- MODULE AlgorithmsProofs --------------------------
(***************************************************************************)
(* Proofs about the deterministic core: replay, work calendars, the        *)
(* matcher and the scheduler, for logs, plans, calendars and loads of any  *)
(* size, and about the machine of Scheduling that uses them.               *)
(*                                                                         *)
(* Each of these algorithms is a loop, modelled as a recursive function.   *)
(* Three steps show what a loop computes: the function exists (so that it  *)
(* is its own definition: ...LoopExists), its values satisfy an invariant  *)
(* of the loop (SetInduction over the turns at which they do), and the     *)
(* invariant of the last turn is the result.                               *)
(*                                                                         *)
(* Of the machine, TimeInv says that from the draft on the flow has a plan *)
(* that can be carried out.  It is inductive because a flow under way has  *)
(* something left to do and a completed one has not: a change that was     *)
(* proposed while something was left can then not be approved after the    *)
(* flow was completed, since the statuses it was computed from differ.     *)
(***************************************************************************)
EXTENDS Scheduling, EventStream, FiniteSetTheorems, SequenceTheorems,
        WellFoundedInduction, TLAPS

-----------------------------------------------------------------------------
(***************************************************************************)
(* Induction, for what a loop does.                                        *)
(***************************************************************************)

(* Every non-empty set of natural numbers has a least member. *)
LEMMA Least ==
    ASSUME NEW T, T \subseteq Nat, T # {}
    PROVE  \E m \in T : \A n \in T : m <= n
<1>1. PICK R : R = OpToRel(<, Nat)
  OBVIOUS
<1>2. IsWellFoundedOn(R, Nat)
  BY <1>1, NatLessThanWellFounded
<1>3. PICK x \in T : \A y \in T : ~(<<y, x>> \in R)
  BY <1>2, WFMin
<1>4. \A y \in T : ~(y < x)
  <2>1. \A y \in Nat, z \in Nat : y < z => <<y, z>> \in R
    BY <1>1 DEF OpToRel
  <2> QED BY <1>3, <2>1
<1>5. \A y \in T : x <= y
  BY <1>4
<1> QED BY <1>5

(* Induction: a set of numbers that holds the first and every next one.  *)
LEMMA SetInduction ==
    ASSUME NEW N \in Nat, NEW T, 0 \in T, \A n \in 0 .. N - 1 : n \in T => n + 1 \in T
    PROVE  0 .. N \subseteq T
<1>1. PICK U : U = (0 .. N) \ T
  OBVIOUS
<1>2. SUFFICES ASSUME U # {}
             PROVE  FALSE
  BY <1>1
<1>3. U \subseteq Nat
  BY <1>1
<1>4. PICK m \in U : \A n \in U : m <= n
  BY <1>2, <1>3, Least
<1>5. m # 0 /\ m - 1 \in 0 .. N - 1 /\ m - 1 \in T
  BY <1>1, <1>3, <1>4
<1> QED BY <1>1, <1>3, <1>4, <1>5

(* A function on 1 .. n is a sequence. *)
LEMMA SeqIntro ==
    ASSUME NEW E, NEW n \in Nat, NEW f, f = [i \in 1 .. n |-> f[i]], \A i \in 1 .. n : f[i] \in E
    PROVE  f \in Seq(E) /\ Len(f) = n
<1>1. f \in [1 .. n -> E]
  BY SMT
<1>2. f \in Seq(E)
  BY <1>1, SeqDef
<1> QED BY <1>1, <1>2, LenProperties

-----------------------------------------------------------------------------
(***************************************************************************)
(* Replay of a log (core/domain.rs), loop by loop turn.                    *)
(***************************************************************************)

(* The states of the loop of replay. *)
ReplayLoop(f, s, N) ==
    f = [n \in 0 .. N |-> IF n = 0 THEN DefaultState
                          ELSE IF f[n - 1] = Error THEN Error ELSE Apply(f[n - 1], s[n])]

(* Replay is the last state of its loop. *)
LEMMA ReplayUpTo ==
    ASSUME NEW S, NEW s \in Seq(S)
    PROVE  \E f : ReplayLoop(f, s, Len(s)) /\ Replay(s) = f[Len(s)]
<1>0. Len(s) \in Nat
  OBVIOUS
<1>1. PICK T : T = {k \in 0 .. Len(s) : \E f : ReplayLoop(f, s, k)}
  OBVIOUS
<1>2. 0 \in T
  <2>1. PICK f : f = [n \in 0 .. 0 |-> DefaultState]
    OBVIOUS
  <2>2. ReplayLoop(f, s, 0)
    BY <2>1 DEF ReplayLoop
  <2> QED BY <1>1, <2>2, <1>0
<1>3. \A k \in 0 .. Len(s) - 1 : k \in T => k + 1 \in T
  <2> SUFFICES ASSUME NEW k \in 0 .. Len(s) - 1, k \in T
               PROVE  k + 1 \in T
    OBVIOUS
  <2>1. PICK f : ReplayLoop(f, s, k)
    BY <1>1
  <2>2. PICK g : g = [n \in 0 .. k + 1 |->
                        IF n = k + 1 THEN IF f[k] = Error THEN Error ELSE Apply(f[k], s[n])
                        ELSE f[n]]
    OBVIOUS
  <2>3. ReplayLoop(g, s, k + 1)
    BY <2>1, <2>2 DEF ReplayLoop
  <2> QED BY <1>0, <1>1, <2>3
<1>4. 0 .. Len(s) \subseteq T
  BY <1>0, <1>2, <1>3, SetInduction
<1>5. \E f : ReplayLoop(f, s, Len(s))
  BY <1>0, <1>1, <1>4
<1>6. PICK f : f = CHOOSE g : ReplayLoop(g, s, Len(s))
  OBVIOUS
<1>7. ReplayLoop(f, s, Len(s))
  BY <1>5, <1>6
<1>8. Replay(s) = f[Len(s)]
  BY <1>6 DEF Replay, ReplayLoop
<1> QED BY <1>7, <1>8

(* The first k envelopes can be replayed. *)
ReplayableTo(s, k) ==
    \A i \in 1 .. k :
        /\ s[i].sequence = i
        /\ s[i].key \in Unique => \A j \in 1 .. i - 1 : s[j].key # s[i].key

(* What they project to. *)
StateAt(s, k) ==
    IF ReplayableTo(s, k) THEN [known |-> {s[i].key : i \in 1 .. k}, lastSequence |-> k]
    ELSE Error

(* Replay fails, or yields the projection, exactly as the log is           *)
(* Replayable.                                                             *)
LEMMA ReplayClosedForm ==
    ASSUME NEW S, NEW s \in Seq(S)
    PROVE  Replay(s) = IF Replayable(s) THEN Projection(s) ELSE Error
<1>0. Len(s) \in Nat
  OBVIOUS
<1>1. PICK f : ReplayLoop(f, s, Len(s)) /\ Replay(s) = f[Len(s)]
  BY ReplayUpTo
<1>2. PICK T : T = {k \in 0 .. Len(s) : f[k] = StateAt(s, k)}
  OBVIOUS
<1>3. 0 \in T
  <2>1. f[0] = DefaultState
    BY <1>0, <1>1 DEF ReplayLoop
  <2>2. ReplayableTo(s, 0) /\ {s[i].key : i \in 1 .. 0} = {}
    BY DEF ReplayableTo
  <2> QED BY <1>0, <1>2, <2>1, <2>2 DEF StateAt, DefaultState
<1>4. \A k \in 0 .. Len(s) - 1 : k \in T => k + 1 \in T
  <2> SUFFICES ASSUME NEW k \in 0 .. Len(s) - 1, k \in T
               PROVE  k + 1 \in T
    OBVIOUS
  <2>1. k \in Nat /\ k + 1 \in 1 .. Len(s) /\ k + 1 \in 0 .. Len(s) /\ k + 1 # 0 /\ (k + 1) - 1 = k
    BY <1>0
  <2>2. f[k + 1] = IF f[k] = Error THEN Error ELSE Apply(f[k], s[k + 1])
    BY <1>1, <2>1 DEF ReplayLoop
  <2>3. f[k] = StateAt(s, k)
    BY <1>2
  <2>4. ReplayableTo(s, k + 1) =>
            /\ ReplayableTo(s, k)
            /\ s[k + 1].sequence = k + 1
            /\ s[k + 1].key \in Unique => s[k + 1].key \notin {s[i].key : i \in 1 .. k}
    BY <2>1 DEF ReplayableTo
  <2>5. /\ ReplayableTo(s, k)
        /\ s[k + 1].sequence = k + 1
        /\ s[k + 1].key \in Unique => s[k + 1].key \notin {s[i].key : i \in 1 .. k}
        => ReplayableTo(s, k + 1)
    BY <2>1 DEF ReplayableTo
  <2>6. CASE ~ ReplayableTo(s, k)
    BY <1>2, <2>1, <2>2, <2>3, <2>4, <2>6 DEF StateAt
  <2>7. CASE ReplayableTo(s, k)
    <3>1. PICK st : st = [known |-> {s[i].key : i \in 1 .. k}, lastSequence |-> k]
      OBVIOUS
    <3>2. f[k] = st /\ st # Error
      BY <2>3, <2>7, <2>1, <3>1 DEF StateAt, Error
    <3>3. f[k + 1] = Apply(st, s[k + 1])
      BY <2>2, <3>2
    <3>4. st.known \cup {s[k + 1].key} = {s[i].key : i \in 1 .. k + 1}
      BY <2>1, <3>1
    <3>5. st.known = {s[i].key : i \in 1 .. k} /\ st.lastSequence = k
      BY <3>1
    <3>6. f[k + 1] = StateAt(s, k + 1)
      BY <2>4, <2>5, <2>7, <3>3, <3>4, <3>5 DEF Apply, StateAt
    <3> QED BY <1>2, <2>1, <3>6
  <2> QED BY <2>6, <2>7
<1>5. 0 .. Len(s) \subseteq T
  BY <1>0, <1>3, <1>4, SetInduction
<1>6. Replay(s) = StateAt(s, Len(s))
  BY <1>0, <1>1, <1>2, <1>5
<1>7. ReplayableTo(s, Len(s)) <=> Replayable(s)
  BY DEF ReplayableTo, Replayable
<1>8. Replayable(s) => StateAt(s, Len(s)) = Projection(s)
  BY <1>7 DEF StateAt, Projection, KeysIn
<1>9. ~ Replayable(s) => StateAt(s, Len(s)) = Error
  BY <1>7 DEF StateAt
<1> QED BY <1>6, <1>8, <1>9

-----------------------------------------------------------------------------
(***************************************************************************)
(* A batch that is committed, and every stream of envelopes.               *)
(***************************************************************************)

(* Replay of a log and a batch numbered after it. *)
LEMMA BatchReplays ==
    ASSUME NEW S, NEW s \in Seq(S), Replayable(s), NEW K, NEW keys \in Seq(K), NEW op
    PROVE  LET longer == s \o Envelopes(op, keys, Len(s))
           IN  /\ Acceptable(KeysIn(s), keys) <=> Replay(longer) # Error
               /\ Acceptable(KeysIn(s), keys) => Replay(longer) = Projected(Replay(s), keys)
<1>1. PICK m \in Nat : m = Len(s)
  OBVIOUS
<1>2. PICK n \in Nat : n = Len(keys)
  OBVIOUS
<1>3. PICK batch : batch = Envelopes(op, keys, m)
  OBVIOUS
<1>4. PICK longer : longer = s \o batch
  OBVIOUS
<1>5. batch = [i \in 1 .. n |-> [sequence |-> m + i, key |-> keys[i], op |-> op, basis |-> m]]
  BY <1>2, <1>3 DEF Envelopes
<1>6. PICK E : E = {batch[i] : i \in 1 .. n}
  OBVIOUS
<1>7. batch \in Seq(E) /\ Len(batch) = n
  <2>1. batch = [i \in 1 .. n |-> batch[i]]
    BY <1>5
  <2>2. \A i \in 1 .. n : batch[i] \in E
    BY <1>6
  <2> QED BY <2>1, <2>2, SeqIntro
<1>8. longer \in Seq(S \cup E) /\ Len(longer) = m + n
  BY <1>1, <1>4, <1>7
<1>9. \A i \in 1 .. m : longer[i] = s[i]
  BY <1>1, <1>4, <1>7
<1>10. \A i \in 1 .. n : longer[m + i].sequence = m + i /\ longer[m + i].key = keys[i]
  <2> SUFFICES ASSUME NEW i \in 1 .. n
               PROVE  longer[m + i].sequence = m + i /\ longer[m + i].key = keys[i]
    OBVIOUS
  <2>1. longer[m + i] = batch[i]
    BY <1>1, <1>4, <1>7
  <2> QED BY <2>1, <1>5
<1>11. \A i \in 1 .. m : s[i].sequence = i
  BY <1>1 DEF Replayable
<1>12. KeysIn(s) = {s[i].key : i \in 1 .. m}
  BY <1>1 DEF KeysIn
<1>13. Replayable(longer) => Acceptable(KeysIn(s), keys)
  <2> SUFFICES ASSUME Replayable(longer), NEW i \in 1 .. n, keys[i] \in Unique
               PROVE  keys[i] \notin KeysIn(s) /\ \A j \in 1 .. i - 1 : keys[j] # keys[i]
    BY <1>2 DEF Acceptable
  <2>1. m + i \in 1 .. m + n /\ longer[m + i].key = keys[i]
    BY <1>10
  <2>2. \A j \in 1 .. (m + i) - 1 : longer[j].key # keys[i]
    BY <1>8, <2>1 DEF Replayable
  <2>3. \A j \in 1 .. m : s[j].key # keys[i]
    <3> SUFFICES ASSUME NEW j \in 1 .. m PROVE s[j].key # keys[i]
      OBVIOUS
    <3>1. j \in 1 .. (m + i) - 1
      OBVIOUS
    <3> QED BY <2>2, <3>1, <1>9
  <2>4. \A j \in 1 .. i - 1 : keys[j] # keys[i]
    <3> SUFFICES ASSUME NEW j \in 1 .. i - 1 PROVE keys[j] # keys[i]
      OBVIOUS
    <3>1. m + j \in 1 .. (m + i) - 1 /\ j \in 1 .. n
      OBVIOUS
    <3> QED BY <2>2, <3>1, <1>10
  <2> QED BY <2>3, <2>4, <1>12
<1>14. Acceptable(KeysIn(s), keys) => Replayable(longer)
  <2> SUFFICES ASSUME Acceptable(KeysIn(s), keys), NEW i \in 1 .. m + n
               PROVE  /\ longer[i].sequence = i
                      /\ longer[i].key \in Unique =>
                             \A j \in 1 .. i - 1 : longer[j].key # longer[i].key
    BY <1>8 DEF Replayable
  <2>1. CASE i \in 1 .. m
    <3>1. \A j \in 1 .. i - 1 : longer[j] = s[j]
      <4>1. 1 .. i - 1 \subseteq 1 .. m
        BY <2>1
      <4> QED BY <1>9, <4>1
    <3>2. s[i].key \in Unique => \A j \in 1 .. i - 1 : s[j].key # s[i].key
      BY <1>1, <2>1 DEF Replayable
    <3> QED BY <1>9, <1>11, <2>1, <3>1, <3>2
  <2>2. CASE i \notin 1 .. m
    <3>1. PICK k \in 1 .. n : i = m + k
      <4>1. i - m \in 1 .. n /\ i = m + (i - m)
        BY <2>2
      <4> QED BY <4>1
    <3>2. longer[i].sequence = i /\ longer[i].key = keys[k]
      BY <3>1, <1>10
    <3>3. ASSUME keys[k] \in Unique, NEW j \in 1 .. i - 1
          PROVE  longer[j].key # keys[k]
      <4>1. keys[k] \notin KeysIn(s) /\ \A l \in 1 .. k - 1 : keys[l] # keys[k]
        BY <3>3, <1>2 DEF Acceptable
      <4>2. CASE j \in 1 .. m
        BY <4>1, <4>2, <1>9, <1>12
      <4>3. CASE j \notin 1 .. m
        <5>1. j - m \in 1 .. k - 1 /\ j = m + (j - m) /\ j - m \in 1 .. n
          BY <4>3, <3>1
        <5> QED BY <5>1, <4>1, <1>10
      <4> QED BY <4>2, <4>3
    <3> QED BY <3>2, <3>3
  <2> QED BY <2>1, <2>2
<1>15. Replay(longer) = IF Replayable(longer) THEN Projection(longer) ELSE Error
  BY <1>8, ReplayClosedForm
<1>16. Projection(longer) # Error
  BY <1>8 DEF Projection, Error
<1>17. Replay(s) = Projection(s)
  BY ReplayClosedForm
<1>18. Projection(longer) = Projected(Projection(s), keys)
  <2>1. KeysIn(longer) = KeysIn(s) \cup {keys[i] : i \in 1 .. n}
    <3>1. KeysIn(longer) = {longer[i].key : i \in 1 .. m + n}
      BY <1>8 DEF KeysIn
    <3>2. ASSUME NEW i \in 1 .. m + n
          PROVE  longer[i].key \in KeysIn(s) \cup {keys[k] : k \in 1 .. n}
      <4>1. CASE i \in 1 .. m
        BY <4>1, <1>9, <1>12
      <4>2. CASE i \notin 1 .. m
        <5>1. i - m \in 1 .. n /\ i = m + (i - m)
          BY <4>2
        <5> QED BY <5>1, <1>10
      <4> QED BY <4>1, <4>2
    <3>3. ASSUME NEW i \in 1 .. m
          PROVE  s[i].key \in {longer[k].key : k \in 1 .. m + n}
      BY <1>9
    <3>4. ASSUME NEW i \in 1 .. n
          PROVE  keys[i] \in {longer[k].key : k \in 1 .. m + n}
      <4>1. m + i \in 1 .. m + n
        OBVIOUS
      <4> QED BY <4>1, <1>10
    <3> QED BY <3>1, <3>2, <3>3, <3>4, <1>12
  <2>2. PICK v : v = Projection(s)
    OBVIOUS
  <2>3. v.known = KeysIn(s) /\ v.lastSequence = m
    BY <2>2, <1>1 DEF Projection
  <2>4. Projected(v, keys) = [known |-> KeysIn(s) \cup {keys[i] : i \in 1 .. n}, lastSequence |-> m + n]
    BY <2>3, <1>2 DEF Projected
  <2> QED BY <2>1, <2>2, <2>4, <1>8 DEF Projection
<1> QED BY <1>1, <1>3, <1>4, <1>13, <1>14, <1>15, <1>16, <1>17, <1>18

(* The property holds of every sequence of envelopes. *)
LEMMA BatchProjects ==
    ASSUME NEW S, stream \in Seq(S)
    PROVE  BatchProjectsLikeReplay
<1>0. PICK m \in Nat : m = Len(stream)
  OBVIOUS
<1>1. Replay(stream) = IF Replayable(stream) THEN Projection(stream) ELSE Error
  BY ReplayClosedForm
<1>2. ASSUME NEW n \in 0 .. m, NEW prefix, prefix = SubSeq(stream, 1, n),
             NEW keys, keys = [i \in 1 .. m - n |-> stream[n + i].key],
             Replayable(prefix)
      PROVE  /\ Acceptable(KeysIn(prefix), keys) <=> Replay(prefix \o Envelopes(1, keys, n)) # Error
             /\ Acceptable(KeysIn(prefix), keys) =>
                   Replay(prefix \o Envelopes(1, keys, n)) = Projected(Replay(prefix), keys)
  <2>1. prefix \in Seq(S) /\ Len(prefix) = n
    BY <1>0, <1>2
  <2>2. PICK K : K = {stream[n + i].key : i \in 1 .. m - n}
    OBVIOUS
  <2>3. m - n \in Nat
    OBVIOUS
  <2>4. keys \in Seq(K)
    <3>1. keys = [i \in 1 .. m - n |-> keys[i]]
      BY <1>2
    <3>2. \A i \in 1 .. m - n : keys[i] \in K
      BY <1>2, <2>2
    <3> QED BY <2>3, <3>1, <3>2, SeqIntro
  <2> QED BY <2>1, <2>4, <1>2, BatchReplays
<1> QED BY <1>0, <1>1, <1>2, ZenonT(60) DEF BatchProjectsLikeReplay

LogOfEnvelopes == stream \in Seq(AnyEnvelope)

(* OrganizationState::replay accepts exactly the logs without gap,         *)
(* repetition or reordering, and a commit projects a batch exactly when    *)
(* the longer log replays and to the same state: for every log, of any     *)
(* length.                                                                 *)
THEOREM ReplayIsExact == StreamSpec => []BatchProjectsLikeReplay
<1>1. StreamInit => LogOfEnvelopes
  BY DEF StreamInit, LogOfEnvelopes
<1>2. LogOfEnvelopes /\ [StreamNext]_stream => LogOfEnvelopes'
  <2>1. PICK S : S = AnyEnvelope
    OBVIOUS
  <2>2. (stream \in Seq(S)) /\ [StreamNext]_stream => stream' \in Seq(S)
    BY <2>1 DEF StreamNext
  <2>3. AnyEnvelope' = AnyEnvelope
    BY DEF AnyEnvelope
  <2> QED BY <2>1, <2>2, <2>3 DEF LogOfEnvelopes
<1>3. LogOfEnvelopes => BatchProjectsLikeReplay
  BY BatchProjects DEF LogOfEnvelopes
<1> QED BY <1>1, <1>2, <1>3, PTL DEF StreamSpec

-----------------------------------------------------------------------------
(***************************************************************************)
(* next_available (core/calendar.rs): dates, days, the search.             *)
(***************************************************************************)

(* Quotient and remainder. *)
LEMMA DivMod ==
    ASSUME NEW x \in Int, NEW d \in Int, d > 0
    PROVE  /\ x \div d \in Int
           /\ x % d \in 0 .. d - 1
           /\ x = d * (x \div d) + (x % d)
<1>1. x \div d \in Int
  OBVIOUS
<1>2. x % d \in 0 .. d - 1
  OBVIOUS
<1>3. x = d * (x \div d) + (x % d)
  BY Z3T(60)
<1> QED BY <1>1, <1>2, <1>3

(* They are the only ones. *)
LEMMA DivUnique ==
    ASSUME NEW x \in Int, NEW d \in Int, d > 0, NEW k \in Int, NEW m \in 0 .. d - 1, x = k * d + m
    PROVE  x \div d = k /\ x % d = m
<1>1. x \div d = k
  BY SMTT(60)
<1>2. x % d = m
  BY SMTT(60)
<1> QED BY <1>1, <1>2

(* The least of a set of integers that are not below some integer. *)
LEMMA LeastFrom ==
    ASSUME NEW a \in Int, NEW T, T \subseteq Int, T # {}, \A x \in T : a <= x
    PROVE  Min(T) \in T /\ \A x \in T : Min(T) <= x
<1>1. PICK U : U = {x - a : x \in T}
  OBVIOUS
<1>2. U \subseteq Nat /\ U # {}
  <2>1. \A x \in T : x - a \in Nat
    OBVIOUS
  <2> QED BY <1>1, <2>1
<1>3. PICK m \in U : \A n \in U : m <= n
  BY <1>2, Least
<1>4. PICK x \in T : m = x - a
  BY <1>1, <1>3
<1>5. \A y \in T : x <= y
  <2> SUFFICES ASSUME NEW y \in T PROVE x <= y
    OBVIOUS
  <2>1. y - a \in U
    BY <1>1
  <2>2. m <= y - a
    BY <1>3, <2>1
  <2> QED BY <1>4, <2>2
<1> QED BY <1>5 DEF Min

(* Max and Min of two integers *)
LEMMA MinOfTwo ==
    ASSUME NEW a \in Int, NEW b \in Int
    PROVE  Min({a, b}) = IF a <= b THEN a ELSE b
BY DEF Min

(* The greater of two integers. *)
LEMMA MaxOfTwo ==
    ASSUME NEW a \in Int, NEW b \in Int
    PROVE  Max({a, b}) = IF a >= b THEN a ELSE b
BY DEF Max

-----------------------------------------------------------------------------
Block == [starts : Nat, ends : Nat, cancelled : BOOLEAN]

(* What a configured calendar is. *)
WellFormed(c) ==
    /\ c.offset \in Int /\ c.from \in Nat /\ c.to \in Nat
    /\ Valid(c)
    /\ c.off \subseteq Block
    /\ \A b \in c.off : b.starts < b.ends

(* Midnight of a local day, in UTC. *)
Midnight(c, date) == date * DayLength - c.offset

(* An instant lies in its local day. *)
LEMMA DateFacts ==
    ASSUME NEW c, WellFormed(c), NEW i \in Int
    PROVE  /\ LocalDate(c, i) \in Int
           /\ Midnight(c, LocalDate(c, i)) \in Int
           /\ Midnight(c, LocalDate(c, i)) <= i
           /\ i < Midnight(c, LocalDate(c, i)) + DayLength
<1>1. c.offset \in Int /\ DayLength \in Int /\ DayLength > 0
  BY CalendarAssumption DEF WellFormed
<1>2. PICK x \in Int : x = i + c.offset
  BY <1>1
<1>3. /\ x \div DayLength \in Int
      /\ x % DayLength \in 0 .. DayLength - 1
      /\ x = DayLength * (x \div DayLength) + (x % DayLength)
  BY <1>1, DivMod
<1>4. PICK k \in Int : k = x \div DayLength
  BY <1>3
<1>5. LocalDate(c, i) = k
  BY <1>2, <1>4 DEF LocalDate
<1>6. PICK y \in Int : y = k * DayLength
  BY <1>1
<1>7. DayLength * k = y
  BY <1>1, <1>6
<1>8. y <= x /\ x < y + DayLength
  BY <1>1, <1>3, <1>4, <1>7
<1>9. Midnight(c, k) = y - c.offset
  BY <1>6 DEF Midnight
<1> QED BY <1>1, <1>2, <1>5, <1>8, <1>9

(* local_minute_to_utc counts from midnight. *)
LEMMA MinuteFacts ==
    ASSUME NEW c, WellFormed(c), NEW date \in Int, NEW m \in Int
    PROVE  /\ LocalMinuteToUtc(c, date, m) = Midnight(c, date) + m
           /\ LocalMinuteToUtc(c, date + 1, 0) = Midnight(c, date) + DayLength
<1>1. c.offset \in Int /\ DayLength \in Int
  BY CalendarAssumption DEF WellFormed
<1>2. PICK y \in Int : y = date * DayLength
  BY <1>1
<1>3. (date + 1) * DayLength = y + DayLength
  BY <1>1, <1>2
<1> QED BY <1>1, <1>2, <1>3 DEF LocalMinuteToUtc, Midnight

(* Availability within one local day. *)
LEMMA AvailableWithin ==
    ASSUME NEW c, WellFormed(c), NEW date \in Int, NEW i \in Int,
           Midnight(c, date) <= i, i < Midnight(c, date) + DayLength
    PROVE  Available(c, i) <=>
              /\ date % WeekLength \in c.days
              /\ Midnight(c, date) + c.from <= i /\ i < Midnight(c, date) + c.to
              /\ \A b \in c.off : IsActive(b) => ~ (b.starts <= i /\ i < b.ends)
<1>1. c.offset \in Int /\ DayLength \in Int /\ DayLength > 0 /\ c.from \in Int /\ c.to \in Int
  BY CalendarAssumption DEF WellFormed
<1>2. PICK y \in Int : y = date * DayLength
  BY <1>1
<1>3. Midnight(c, date) = y - c.offset
  BY <1>2 DEF Midnight
<1>4. PICK m \in 0 .. DayLength - 1 : m = (i + c.offset) - y
  BY <1>1, <1>3
<1>5. i + c.offset = date * DayLength + m
  BY <1>1, <1>2, <1>4
<1>6. (i + c.offset) \div DayLength = date /\ (i + c.offset) % DayLength = m
  BY <1>1, <1>5, DivUnique
<1>7. LocalDate(c, i) = date
  BY <1>6 DEF LocalDate
<1>8. m \in c.from .. c.to - 1 <=> Midnight(c, date) + c.from <= i /\ i < Midnight(c, date) + c.to
  BY <1>1, <1>3, <1>4
<1>9. \A b \in c.off : i \notin b.starts .. b.ends - 1 <=> ~ (b.starts <= i /\ i < b.ends)
  BY DEF WellFormed, Block
<1> QED BY <1>6, <1>7, <1>8, <1>9 DEF Available

(* One turn of next_available: it never goes back, passes over no instant at *)
(* which the owner works, and stops only at one at which the owner does.    *)
LEMMA SearchIsExact ==
    ASSUME NEW c, WellFormed(c), NEW cursor \in Nat
    PROVE  /\ Search(c, cursor) = [found |-> Search(c, cursor).found, at |-> Search(c, cursor).at]
           /\ Search(c, cursor).found \in BOOLEAN
           /\ Search(c, cursor).at \in Nat /\ Search(c, cursor).at >= cursor
           /\ \A i \in cursor .. Search(c, cursor).at - 1 : ~ Available(c, i)
           /\ Search(c, cursor).found => Available(c, Search(c, cursor).at)
<1>1. c.offset \in Int /\ DayLength \in Int /\ DayLength > 0 /\ c.from \in Nat /\ c.to \in Nat
      /\ c.from < c.to /\ c.to <= DayLength
  BY CalendarAssumption DEF WellFormed, Valid
<1>2. PICK date \in Int : date = LocalDate(c, cursor)
  BY DateFacts
<1>3. PICK mid \in Int : mid = Midnight(c, date)
  BY <1>2, DateFacts
<1>4. mid <= cursor /\ cursor < mid + DayLength
  BY <1>2, <1>3, DateFacts
<1>5. /\ LocalMinuteToUtc(c, date, c.from) = mid + c.from
      /\ LocalMinuteToUtc(c, date, c.to) = mid + c.to
      /\ LocalMinuteToUtc(c, date + 1, 0) = mid + DayLength
  BY <1>1, <1>3, MinuteFacts
<1>6. PICK from \in Int : from = IF cursor > mid + c.from THEN cursor ELSE mid + c.from
  BY <1>1
<1>7. from >= cursor /\ from >= mid + c.from
  BY <1>1, <1>6
<1>8. PICK over : over = {b \in c.off : IsActive(b) /\ b.starts <= from /\ b.ends > from}
  OBVIOUS
<1>9. Search(c, cursor) =
        IF date % WeekLength \notin c.days \/ from >= mid + c.to
        THEN [found |-> FALSE, at |-> mid + DayLength]
        ELSE IF over = {} THEN [found |-> TRUE, at |-> from]
        ELSE [found |-> FALSE, at |-> Min({b.ends : b \in over})]
  BY <1>2, <1>5, <1>6, <1>8 DEF Search
<1>10. \A i \in Int : mid <= i /\ i < mid + DayLength =>
          (Available(c, i) <=>
              /\ date % WeekLength \in c.days
              /\ mid + c.from <= i /\ i < mid + c.to
              /\ \A b \in c.off : IsActive(b) => ~ (b.starts <= i /\ i < b.ends))
  BY <1>3, AvailableWithin
<1>11. CASE date % WeekLength \notin c.days \/ from >= mid + c.to
  <2>1. Search(c, cursor) = [found |-> FALSE, at |-> mid + DayLength]
    BY <1>9, <1>11
  <2>2. ASSUME NEW i \in cursor .. (mid + DayLength) - 1
        PROVE  ~ Available(c, i)
    <3>1. mid <= i /\ i < mid + DayLength
      BY <1>1, <1>4
    <3>2. date % WeekLength \notin c.days \/ ~ (mid + c.from <= i /\ i < mid + c.to)
      BY <1>1, <1>6, <1>11
    <3> QED BY <3>1, <3>2, <1>10
  <2>3. mid + DayLength \in Nat /\ mid + DayLength >= cursor
    BY <1>1, <1>4
  <2> QED BY <2>1, <2>2, <2>3
<1>12. CASE date % WeekLength \in c.days /\ from < mid + c.to
  <2>1. from \in Nat /\ mid <= from /\ from < mid + DayLength
    BY <1>1, <1>4, <1>7, <1>12
  <2>2. ASSUME NEW i \in cursor .. from - 1
        PROVE  ~ Available(c, i)
    <3>1. mid <= i /\ i < mid + DayLength /\ ~ (mid + c.from <= i)
      BY <1>1, <1>4, <1>6, <2>1
    <3> QED BY <3>1, <1>10
  <2>3. CASE over = {}
    <3>1. Search(c, cursor) = [found |-> TRUE, at |-> from]
      BY <1>9, <1>12, <2>3, <1>1
    <3>2. Available(c, from)
      <4>1. \A b \in c.off : IsActive(b) => ~ (b.starts <= from /\ from < b.ends)
        BY <1>8, <2>3 DEF WellFormed, Block
      <4> QED BY <4>1, <2>1, <1>7, <1>10, <1>12
    <3> QED BY <3>1, <3>2, <2>1, <2>2, <1>7
  <2>4. CASE over # {}
    <3>1. PICK ends : ends = {b.ends : b \in over}
      OBVIOUS
    <3>2. ends \subseteq Int /\ ends # {} /\ \A x \in ends : from <= x
      <4>1. \A b \in over : b.ends \in Int /\ from <= b.ends
        BY <1>8 DEF WellFormed, Block
      <4> QED BY <3>1, <4>1, <2>4
    <3>3. Min(ends) \in ends
      BY <3>2, LeastFrom
    <3>4. PICK b \in over : Min(ends) = b.ends
      BY <3>1, <3>3
    <3>5. b \in c.off /\ IsActive(b) /\ b.starts <= from /\ b.ends > from /\ b.starts \in Nat /\ b.ends \in Nat
      BY <1>8 DEF WellFormed, Block
    <3>6. Search(c, cursor) = [found |-> FALSE, at |-> b.ends]
      <4>1. ~ (date % WeekLength \notin c.days \/ from >= mid + c.to)
        BY <1>1, <1>12
      <4>2. Search(c, cursor) = [found |-> FALSE, at |-> Min({o.ends : o \in over})]
        BY <1>9, <2>4, <4>1
      <4> QED BY <4>2, <3>1, <3>4
    <3>7. ASSUME NEW i \in from .. b.ends - 1
          PROVE  ~ Available(c, i)
      <4>1. i \in b.starts .. b.ends - 1
        BY <3>5
      <4> QED BY <3>5, <4>1 DEF Available
    <3>8. \A i \in cursor .. b.ends - 1 : ~ Available(c, i)
      <4> SUFFICES ASSUME NEW i \in cursor .. b.ends - 1 PROVE ~ Available(c, i)
        OBVIOUS
      <4>1. i \in cursor .. from - 1 \/ i \in from .. b.ends - 1
        BY <3>5
      <4> QED BY <4>1, <2>2, <3>7
    <3> QED BY <3>5, <3>6, <3>8, <1>7
  <2> QED BY <2>3, <2>4
<1> QED BY <1>1, <1>11, <1>12

(* next_available answers, if it does, the first instant at which the owner  *)
(* works.                                                                    *)
SearchTurn(c, last) == IF last.found THEN last ELSE Search(c, last.at)

SearchLoop(f, c, start, N) ==
    f = [n \in 0 .. N |->
            IF n = 0 THEN [found |-> FALSE, at |-> start] ELSE SearchTurn(c, f[n - 1])]

(* The loop of next_available is defined. *)
LEMMA SearchLoopExists ==
    ASSUME NEW c, NEW start, NEW N \in Nat
    PROVE  \E f : SearchLoop(f, c, start, N)
<1>1. PICK T : T = {k \in 0 .. N : \E f : SearchLoop(f, c, start, k)}
  OBVIOUS
<1>2. 0 \in T
  <2>1. PICK f : f = [n \in 0 .. 0 |-> [found |-> FALSE, at |-> start]]
    OBVIOUS
  <2>2. SearchLoop(f, c, start, 0)
    BY <2>1 DEF SearchLoop
  <2> QED BY <1>1, <2>2
<1>3. \A k \in 0 .. N - 1 : k \in T => k + 1 \in T
  <2> SUFFICES ASSUME NEW k \in 0 .. N - 1, k \in T
               PROVE  k + 1 \in T
    OBVIOUS
  <2>1. PICK f : SearchLoop(f, c, start, k)
    BY <1>1
  <2>2. PICK g : g = [n \in 0 .. k + 1 |-> IF n = k + 1 THEN SearchTurn(c, f[k]) ELSE f[n]]
    OBVIOUS
  <2>3. SearchLoop(g, c, start, k + 1)
    <3>1. PICK first : first = [found |-> FALSE, at |-> start]
      OBVIOUS
    <3>2. f = [n \in 0 .. k |-> IF n = 0 THEN first ELSE SearchTurn(c, f[n - 1])]
      BY <2>1, <3>1 DEF SearchLoop
    <3>3. g = [n \in 0 .. k + 1 |-> IF n = 0 THEN first ELSE SearchTurn(c, g[n - 1])]
      BY <2>2, <3>2
    <3> QED BY <3>1, <3>3 DEF SearchLoop
  <2> QED BY <1>1, <2>3
<1>4. 0 .. N \subseteq T
  BY <1>2, <1>3, SetInduction
<1> QED BY <1>1, <1>4

(* What a search from start has established when it is at instant `at`.      *)
Searched(c, start, r) ==
    /\ r.found \in BOOLEAN
    /\ r.at \in Nat /\ r.at >= start
    /\ \A i \in start .. r.at - 1 : ~ Available(c, i)
    /\ r.found => Available(c, r.at)

(* next_available answers the first instant at which the owner works, or   *)
(* the error.                                                              *)
LEMMA NextAvailableIsEarliest ==
    ASSUME NEW c, WellFormed(c), NEW start \in Nat
    PROVE  \/ NextAvailable(c, start) = Never
           \/ NextAvailable(c, start) \in Nat /\ EarliestFrom(c, start)
<1>0. PICK N \in Nat : N = MaxSearchDays
  BY CalendarAssumption
<1>1. \E f : SearchLoop(f, c, start, N)
  BY SearchLoopExists
<1>2. PICK f : f = CHOOSE g : SearchLoop(g, c, start, N)
  OBVIOUS
<1>3. SearchLoop(f, c, start, N)
  BY <1>1, <1>2
<1>4. NextAvailable(c, start) = IF f[N].found THEN f[N].at ELSE Never
  BY <1>0, <1>2 DEF NextAvailable, SearchLoop, SearchTurn
<1>5. PICK T : T = {k \in 0 .. N : Searched(c, start, f[k])}
  OBVIOUS
<1>6. 0 \in T
  <2>1. f[0] = [found |-> FALSE, at |-> start]
    BY <1>3 DEF SearchLoop
  <2>2. Searched(c, start, f[0])
    BY <2>1 DEF Searched
  <2> QED BY <1>5, <2>2
<1>7. \A k \in 0 .. N - 1 : k \in T => k + 1 \in T
  <2> SUFFICES ASSUME NEW k \in 0 .. N - 1, k \in T
               PROVE  k + 1 \in T
    OBVIOUS
  <2>1. k \in 0 .. N /\ k + 1 \in 0 .. N /\ k + 1 # 0 /\ (k + 1) - 1 = k
    OBVIOUS
  <2>2. f[k + 1] = IF f[k].found THEN f[k] ELSE Search(c, f[k].at)
    BY <1>3, <2>1 DEF SearchLoop, SearchTurn
  <2>3. Searched(c, start, f[k])
    BY <1>5
  <2>4. CASE f[k].found
    BY <1>5, <2>1, <2>2, <2>3, <2>4
  <2>5. CASE ~ f[k].found
    <3>1. PICK cursor \in Nat : cursor = f[k].at /\ cursor >= start
      BY <2>3 DEF Searched
    <3>2. PICK r : r = Search(c, cursor)
      OBVIOUS
    <3>3. f[k + 1] = r
      BY <2>2, <2>5, <3>1, <3>2
    <3>4. /\ r.found \in BOOLEAN
          /\ r.at \in Nat /\ r.at >= cursor
          /\ \A i \in cursor .. r.at - 1 : ~ Available(c, i)
          /\ r.found => Available(c, r.at)
      BY <3>2, SearchIsExact
    <3>5. \A i \in start .. cursor - 1 : ~ Available(c, i)
      BY <2>3, <3>1 DEF Searched
    <3>6. ASSUME NEW i \in start .. r.at - 1
          PROVE  ~ Available(c, i)
      <4>1. i \in start .. cursor - 1 \/ i \in cursor .. r.at - 1
        BY <3>4
      <4> QED BY <4>1, <3>4, <3>5
    <3>7. Searched(c, start, r)
      BY <3>1, <3>4, <3>6 DEF Searched
    <3> QED BY <1>5, <2>1, <3>3, <3>7
  <2> QED BY <2>4, <2>5
<1>8. 0 .. N \subseteq T
  BY <1>6, <1>7, SetInduction
<1>9. Searched(c, start, f[N])
  BY <1>5, <1>8
<1> QED BY <1>4, <1>9 DEF EarliestFrom, Searched

-----------------------------------------------------------------------------
(***************************************************************************)
(* add_working_hours: working time adds up.                                *)
(***************************************************************************)

(* The working time between two instants. *)
Units(c, from, to) == Cardinality({i \in from .. to - 1 : Available(c, i)})

(* Working time of consecutive spans adds up. *)
LEMMA UnitsAddUp ==
    ASSUME NEW c, NEW a \in Nat, NEW b \in Nat, NEW d \in Nat, a <= b, b <= d
    PROVE  /\ Units(c, a, d) = Units(c, a, b) + Units(c, b, d)
           /\ Units(c, a, b) \in Nat /\ Units(c, b, d) \in Nat
<1>1. PICK S : S = {i \in a .. b - 1 : Available(c, i)}
  OBVIOUS
<1>2. PICK T : T = {i \in b .. d - 1 : Available(c, i)}
  OBVIOUS
<1>3. S \cap T = {} /\ S \cup T = {i \in a .. d - 1 : Available(c, i)}
  BY <1>1, <1>2
<1>4. IsFiniteSet(a .. b - 1) /\ IsFiniteSet(b .. d - 1)
  BY FS_Interval
<1>5. IsFiniteSet(S) /\ IsFiniteSet(T)
  BY <1>1, <1>2, <1>4, FS_Subset
<1>6. Cardinality(S \cup T) = Cardinality(S) + Cardinality(T) - Cardinality(S \cap T)
  BY <1>5, FS_Union
<1>7. Cardinality(S \cap T) = 0
  BY <1>3, FS_EmptySet
<1>8. Cardinality(S) \in Nat /\ Cardinality(T) \in Nat
  BY <1>5, FS_CardinalityType
<1>9. Units(c, a, b) = Cardinality(S) /\ Units(c, b, d) = Cardinality(T)
  BY <1>1, <1>2 DEF Units
<1>10. Units(c, a, d) = Cardinality(S \cup T)
  BY <1>3 DEF Units
<1> QED BY <1>6, <1>7, <1>8, <1>9, <1>10

(* All of a span in which the owner works counts. *)
LEMMA UnitsOfWork ==
    ASSUME NEW c, NEW a \in Nat, NEW b \in Nat, a <= b, \A i \in a .. b - 1 : Available(c, i)
    PROVE  Units(c, a, b) = b - a
<1>1. {i \in a .. b - 1 : Available(c, i)} = a .. b - 1
  OBVIOUS
<1>2. Cardinality(a .. b - 1) = b - a
  <2>1. b - 1 \in Int /\ a \in Int
    OBVIOUS
  <2>2. Cardinality(a .. b - 1) = IF a > b - 1 THEN 0 ELSE (b - 1) - a + 1
    BY <2>1, FS_Interval
  <2> QED BY <2>2
<1> QED BY <1>1, <1>2 DEF Units

(* None of a span in which the owner does not work counts. *)
LEMMA UnitsOfRest ==
    ASSUME NEW c, NEW a \in Nat, NEW b \in Nat, \A i \in a .. b - 1 : ~ Available(c, i)
    PROVE  Units(c, a, b) = 0
<1>1. {i \in a .. b - 1 : Available(c, i)} = {}
  OBVIOUS
<1> QED BY <1>1, FS_EmptySet DEF Units

(* Where the work that began at start stands: what was worked and what is   *)
(* left are what was asked for, and the owner is at work or has just been.   *)
Progress(c, start, units, w) ==
    \/ w.cursor = Never
    \/ /\ w.cursor \in Nat /\ w.cursor >= start
       /\ w.left \in 0 .. units
       /\ w.done \in BOOLEAN
       /\ Units(c, start, w.cursor) = units - w.left
       /\ w.done => w.left = 0 /\ (units > 0 => Available(c, w.cursor - 1))
       /\ ~ w.done => w.left > 0 /\ Available(c, w.cursor)

(* One turn of add_working_hours keeps the account. *)
LEMMA AdvanceIsExact ==
    ASSUME NEW c, WellFormed(c), NEW start \in Nat, NEW units \in Nat,
           NEW w, w.cursor # Never, ~ w.done, Progress(c, start, units, w)
    PROVE  Progress(c, start, units, Advance(c, w))
<1>1. PICK cursor \in Nat : cursor = w.cursor /\ cursor >= start
  BY DEF Progress
<1>2. PICK left \in 0 .. units : left = w.left /\ left > 0
  BY DEF Progress
<1>3. Available(c, cursor) /\ Units(c, start, cursor) = units - left
  BY <1>1, <1>2 DEF Progress
<1>4. /\ c.offset \in Int /\ DayLength \in Int /\ DayLength > 0 /\ c.from \in Nat /\ c.to \in Nat
      /\ c.from < c.to /\ c.to <= DayLength
  BY CalendarAssumption DEF WellFormed, Valid
<1>5. PICK date \in Int : date = LocalDate(c, cursor)
  BY DateFacts
<1>6. PICK mid \in Int : mid = Midnight(c, date)
  BY <1>5, DateFacts
<1>7. mid <= cursor /\ cursor < mid + DayLength
  BY <1>5, <1>6, DateFacts
<1>8. \A i \in Int : mid <= i /\ i < mid + DayLength =>
          (Available(c, i) <=>
              /\ date % WeekLength \in c.days
              /\ mid + c.from <= i /\ i < mid + c.to
              /\ \A b \in c.off : IsActive(b) => ~ (b.starts <= i /\ i < b.ends))
  BY <1>6, AvailableWithin
<1>9. PICK end \in Int : end = mid + c.to
  BY <1>4
<1>10. LocalMinuteToUtc(c, date, c.to) = end
  BY <1>4, <1>6, <1>9, MinuteFacts
<1>11. /\ date % WeekLength \in c.days
       /\ mid + c.from <= cursor /\ cursor < end
       /\ \A b \in c.off : IsActive(b) => ~ (b.starts <= cursor /\ cursor < b.ends)
  BY <1>3, <1>7, <1>8, <1>9
<1>12. PICK ahead : ahead = {b \in c.off : IsActive(b) /\ b.starts < end /\ b.ends > cursor}
  OBVIOUS
<1>13. \A b \in ahead : /\ b \in c.off /\ IsActive(b) /\ b.starts \in Nat /\ b.ends \in Nat
                        /\ b.starts < b.ends /\ cursor < b.starts /\ b.starts < end
  BY <1>11, <1>12 DEF WellFormed, Block
<1>14. PICK block : block = CHOOSE b \in ahead : \A o \in ahead : b.starts <= o.starts
  OBVIOUS
<1>15. ASSUME ahead # {}
       PROVE  block \in ahead /\ \A o \in ahead : block.starts <= o.starts
  <2>1. PICK T : T = {b.starts : b \in ahead}
    OBVIOUS
  <2>2. T \subseteq Nat /\ T # {}
    BY <1>13, <1>15, <2>1
  <2>3. PICK m \in T : \A n \in T : m <= n
    BY <2>2, Least
  <2>4. PICK b \in ahead : m = b.starts
    BY <2>1, <2>3
  <2>5. \A o \in ahead : b.starts <= o.starts
    BY <2>1, <2>3, <2>4
  <2> QED BY <1>14, <2>5
<1>16. PICK until : until = IF ahead = {} THEN end ELSE Min({end, block.starts})
  OBVIOUS
<1>17. PICK resume : resume = IF ahead = {} THEN end ELSE block.ends
  OBVIOUS
<1>18. until \in Nat /\ resume \in Nat /\ cursor < until /\ until <= end /\ until <= resume
  <2>1. CASE ahead = {}
    BY <2>1, <1>11, <1>16, <1>17
  <2>2. CASE ahead # {}
    <3>1. block \in ahead
      BY <2>2, <1>15
    <3>2. block.starts \in Nat /\ block.ends \in Nat /\ block.starts < block.ends
          /\ cursor < block.starts /\ block.starts < end
      BY <3>1, <1>13
    <3>3. Min({end, block.starts}) = block.starts
      BY <3>2, MinOfTwo
    <3> QED BY <2>2, <3>2, <3>3, <1>16, <1>17
  <2> QED BY <2>1, <2>2
<1>19. \A b \in ahead : until <= b.starts
  <2> SUFFICES ASSUME NEW b \in ahead PROVE until <= b.starts
    OBVIOUS
  <2>1. block \in ahead /\ block.starts <= b.starts
    BY <1>15
  <2>2. block.starts \in Nat /\ block.starts < end /\ b.starts \in Nat
    BY <2>1, <1>13
  <2>3. Min({end, block.starts}) = block.starts
    BY <2>2, MinOfTwo
  <2> QED BY <1>16, <2>1, <2>3
<1>20. ASSUME NEW i \in cursor .. until - 1
       PROVE  Available(c, i)
  <2>1. mid <= i /\ i < mid + DayLength /\ mid + c.from <= i /\ i < mid + c.to
    BY <1>4, <1>7, <1>9, <1>11, <1>18
  <2>2. ASSUME NEW b \in c.off, IsActive(b), b.starts <= i, i < b.ends
        PROVE  FALSE
    <3>1. b.starts \in Nat /\ b.ends \in Nat
      BY DEF WellFormed, Block
    <3>2. b.starts < end /\ b.ends > cursor
      BY <2>2, <3>1, <1>18
    <3>3. until <= b.starts
      BY <2>2, <3>2, <1>12, <1>19
    <3> QED BY <2>2, <3>1, <3>3, <1>18
  <2> QED BY <2>1, <2>2, <1>8, <1>11
<1>21. ASSUME NEW i \in until .. resume - 1
       PROVE  ~ Available(c, i)
  <2>1. ahead # {} /\ until = block.starts /\ resume = block.ends
        /\ block \in c.off /\ IsActive(block)
    <3>1. ahead # {}
      BY <1>16, <1>17, <1>18
    <3>2. block \in ahead
      BY <3>1, <1>15
    <3>3. block.starts \in Nat /\ block.starts < end
      BY <3>2, <1>13
    <3>4. Min({end, block.starts}) = block.starts
      BY <3>3, MinOfTwo
    <3> QED BY <3>1, <3>2, <3>4, <1>13, <1>16, <1>17
  <2>2. i \in block.starts .. block.ends - 1
    BY <2>1
  <2> QED BY <2>1, <2>2 DEF Available
<1>22. PICK worked \in Nat : worked = until - cursor
  BY <1>18
<1>23. Max({until - cursor, 0}) = worked
  BY <1>22, MaxOfTwo
<1>24. Advance(c, w) = IF left <= worked
                       THEN [cursor |-> cursor + left, left |-> 0, done |-> TRUE]
                       ELSE [cursor |-> NextAvailable(c, resume),
                             left |-> left - worked, done |-> FALSE]
  BY <1>1, <1>2, <1>5, <1>10, <1>12, <1>14, <1>16, <1>17, <1>23 DEF Advance
<1>25. CASE left <= worked
  <2>1. Advance(c, w) = [cursor |-> cursor + left, left |-> 0, done |-> TRUE]
    BY <1>24, <1>25
  <2>2. cursor + left \in Nat /\ cursor + left <= until /\ cursor <= cursor + left
        /\ (cursor + left) - cursor = left /\ (cursor + left) - 1 \in cursor .. until - 1
    BY <1>2, <1>18, <1>22, <1>25
  <2>3. \A i \in cursor .. (cursor + left) - 1 : Available(c, i)
    <3>1. cursor .. (cursor + left) - 1 \subseteq cursor .. until - 1
      BY <2>2, <1>18
    <3> QED BY <1>20, <3>1
  <2>4. Units(c, cursor, cursor + left) = left
    BY <2>2, <2>3, UnitsOfWork
  <2>5. Units(c, start, cursor + left) = Units(c, start, cursor) + Units(c, cursor, cursor + left)
    BY <1>1, <2>2, UnitsAddUp
  <2>6. Units(c, start, cursor + left) = units
    BY <1>2, <1>3, <2>4, <2>5
  <2>7. Available(c, (cursor + left) - 1)
    BY <1>20, <2>2
  <2> QED BY <1>1, <2>1, <2>2, <2>6, <2>7 DEF Progress
<1>26. CASE ~ (left <= worked)
  <2>1. PICK next : next = NextAvailable(c, resume)
    OBVIOUS
  <2>2. Advance(c, w) = [cursor |-> next, left |-> left - worked, done |-> FALSE]
    BY <1>24, <1>26, <2>1
  <2>3. CASE next = Never
    BY <2>2, <2>3 DEF Progress
  <2>4. CASE next # Never
    <3>1. /\ next \in Nat /\ next >= resume
          /\ Available(c, next) /\ \A i \in resume .. next - 1 : ~ Available(c, i)
      BY <1>18, <2>1, <2>4, NextAvailableIsEarliest DEF EarliestFrom
    <3>2. \A i \in until .. next - 1 : ~ Available(c, i)
      <4> SUFFICES ASSUME NEW i \in until .. next - 1 PROVE ~ Available(c, i)
        OBVIOUS
      <4>1. i \in until .. resume - 1 \/ i \in resume .. next - 1
        BY <1>18, <3>1
      <4> QED BY <4>1, <1>21, <3>1
    <3>3. Units(c, cursor, until) = worked
      BY <1>18, <1>20, <1>22, UnitsOfWork
    <3>4. Units(c, until, next) = 0
      BY <1>18, <3>1, <3>2, UnitsOfRest
    <3>5. Units(c, start, until) = Units(c, start, cursor) + Units(c, cursor, until)
      BY <1>1, <1>18, UnitsAddUp
    <3>6. Units(c, start, next) = Units(c, start, until) + Units(c, until, next)
      <4>1. start <= until /\ until <= next
        BY <1>1, <1>18, <3>1
      <4> QED BY <1>18, <3>1, <4>1, UnitsAddUp
    <3>7. Units(c, start, next) = units - (left - worked)
      BY <1>2, <1>3, <1>22, <3>3, <3>4, <3>5, <3>6
    <3>8. left - worked \in 0 .. units /\ left - worked > 0 /\ next >= start
      BY <1>1, <1>2, <1>18, <1>22, <1>26, <3>1
    <3> QED BY <2>2, <3>1, <3>7, <3>8 DEF Progress
  <2> QED BY <2>3, <2>4
<1> QED BY <1>25, <1>26

(* The states of the loop of add_working_hours. *)
AddTurn(c, last) == IF last.done \/ last.cursor = Never THEN last ELSE Advance(c, last)

AddLoop(f, c, first, units, N) ==
    f = [n \in 0 .. N |->
            IF n = 0
            THEN [cursor |-> first, left |-> units, done |-> units = 0]
            ELSE AddTurn(c, f[n - 1])]

(* The loop is defined. *)
LEMMA AddLoopExists ==
    ASSUME NEW c, NEW first, NEW units, NEW N \in Nat
    PROVE  \E f : AddLoop(f, c, first, units, N)
<1>1. PICK T : T = {k \in 0 .. N : \E f : AddLoop(f, c, first, units, k)}
  OBVIOUS
<1>2. 0 \in T
  <2>1. PICK f : f = [n \in 0 .. 0 |-> [cursor |-> first, left |-> units, done |-> units = 0]]
    OBVIOUS
  <2>2. AddLoop(f, c, first, units, 0)
    BY <2>1 DEF AddLoop
  <2> QED BY <1>1, <2>2
<1>3. \A k \in 0 .. N - 1 : k \in T => k + 1 \in T
  <2> SUFFICES ASSUME NEW k \in 0 .. N - 1, k \in T
               PROVE  k + 1 \in T
    OBVIOUS
  <2>1. PICK f : AddLoop(f, c, first, units, k)
    BY <1>1
  <2>2. PICK g : g = [n \in 0 .. k + 1 |-> IF n = k + 1 THEN AddTurn(c, f[k]) ELSE f[n]]
    OBVIOUS
  <2>3. AddLoop(g, c, first, units, k + 1)
    BY <2>1, <2>2 DEF AddLoop
  <2> QED BY <1>1, <2>3
<1>4. 0 .. N \subseteq T
  BY <1>2, <1>3, SetInduction
<1> QED BY <1>1, <1>4

(* add_working_hours answers when exactly that much working time has       *)
(* passed, or the error.                                                   *)
LEMMA AddWorkingHoursIsExact ==
    ASSUME NEW c, WellFormed(c), NEW start \in Nat, NEW units \in Nat
    PROVE  LET finish == AddWorkingHours(c, start, units)
           IN  \/ finish = Never
               \/ finish \in Nat /\ finish >= start /\ Worked(c, start, units)
<1>0. PICK N \in Nat : N = 4 * MaxSearchDays
  BY CalendarAssumption
<1>1. PICK first : first = NextAvailable(c, start)
  OBVIOUS
<1>2. \E f : AddLoop(f, c, first, units, N)
  BY AddLoopExists
<1>3. PICK f : f = CHOOSE g : AddLoop(g, c, first, units, N)
  OBVIOUS
<1>4. AddLoop(f, c, first, units, N)
  BY <1>2, <1>3
<1>5. PICK finish : finish = AddWorkingHours(c, start, units)
  OBVIOUS
<1>6. finish = IF f[N].done THEN f[N].cursor ELSE Never
  BY <1>0, <1>1, <1>3, <1>5 DEF AddWorkingHours, AddLoop, AddTurn
<1>7. PICK T : T = {k \in 0 .. N : Progress(c, start, units, f[k])}
  OBVIOUS
<1>8. 0 \in T
  <2>1. f[0] = [cursor |-> first, left |-> units, done |-> units = 0]
    BY <1>4 DEF AddLoop
  <2>2. ASSUME first # Never
        PROVE  /\ first \in Nat /\ first >= start
               /\ Available(c, first) /\ Units(c, start, first) = 0
    <3>1. /\ first \in Nat /\ first >= start
          /\ Available(c, first) /\ \A i \in start .. first - 1 : ~ Available(c, i)
      BY <1>1, <2>2, NextAvailableIsEarliest DEF EarliestFrom
    <3> QED BY <3>1, UnitsOfRest
  <2>3. Progress(c, start, units, f[0])
    <3>1. f[0].cursor = first /\ f[0].left = units /\ (f[0].done <=> units = 0)
          /\ f[0].done \in BOOLEAN
      <4>1. f[0].cursor = first /\ f[0].left = units
        BY <2>1
      <4>2. f[0].done = (units = 0)
        BY <2>1
      <4>3. (units = 0) \in BOOLEAN
        OBVIOUS
      <4>4. f[0].done \in BOOLEAN
        BY <4>2, <4>3, Zenon
      <4>5. f[0].done <=> units = 0
        BY <4>2, Zenon
      <4> QED BY <4>1, <4>4, <4>5
    <3>2. CASE first = Never
      BY <3>1, <3>2 DEF Progress
    <3>3. CASE first # Never
      <4>1. Units(c, start, first) = units - units
        BY <2>2, <3>3
      <4>2. units \in 0 .. units /\ (units # 0 => units > 0)
        OBVIOUS
      <4> QED BY <3>1, <3>3, <2>2, <4>1, <4>2 DEF Progress
    <3> QED BY <3>2, <3>3
  <2> QED BY <1>7, <2>3
<1>9. \A k \in 0 .. N - 1 : k \in T => k + 1 \in T
  <2> SUFFICES ASSUME NEW k \in 0 .. N - 1, k \in T
               PROVE  k + 1 \in T
    OBVIOUS
  <2>1. k \in 0 .. N /\ k + 1 \in 0 .. N /\ k + 1 # 0 /\ (k + 1) - 1 = k
    OBVIOUS
  <2>2. f[k + 1] = IF f[k].done \/ f[k].cursor = Never THEN f[k] ELSE Advance(c, f[k])
    BY <1>4, <2>1 DEF AddLoop, AddTurn
  <2>3. Progress(c, start, units, f[k])
    BY <1>7
  <2>4. Progress(c, start, units, f[k + 1])
    BY <2>2, <2>3, AdvanceIsExact
  <2> QED BY <1>7, <2>1, <2>4
<1>10. 0 .. N \subseteq T
  BY <1>8, <1>9, SetInduction
<1>11. Progress(c, start, units, f[N])
  BY <1>7, <1>10
<1>12. ASSUME finish # Never
       PROVE  /\ finish \in Nat /\ finish >= start
              /\ Units(c, start, finish) = units
              /\ units > 0 => Available(c, finish - 1)
  <2>1. f[N].done /\ f[N].cursor = finish
    BY <1>6, <1>12
  <2> QED BY <2>1, <1>11, <1>12 DEF Progress
<1> QED BY <1>5, <1>12 DEF Worked, Units

-----------------------------------------------------------------------------
(***************************************************************************)
(* The order of the keys (application/scheduler.rs): Kahn's algorithm.     *)
(***************************************************************************)

(* The members of S, smallest first. *)
IsAscending(s, S) ==
    /\ s \in [1 .. Cardinality(S) -> S]
    /\ \A i, j \in 1 .. Cardinality(S) : i < j => s[i] < s[j]

AllAscend(n) == \A U \in SUBSET (1 .. n) : \E s : IsAscending(s, U)

(* Every finite set of numbers can be enumerated in ascending order. *)
LEMMA AscendingExists ==
    ASSUME NEW N \in Nat, NEW S, S \subseteq 1 .. N
    PROVE  \E s : IsAscending(s, S)
<1>1. PICK T : T = {n \in 0 .. N : AllAscend(n)}
  OBVIOUS
<1>2. 0 \in T
  <2>1. Cardinality({}) = 0
    BY FS_EmptySet
  <2>2. PICK s : s = [i \in 1 .. 0 |-> i]
    OBVIOUS
  <2>3. IsAscending(s, {})
    BY <2>1, <2>2 DEF IsAscending
  <2>4. \A U \in SUBSET (1 .. 0) : U = {}
    OBVIOUS
  <2>5. AllAscend(0)
    BY <2>3, <2>4 DEF AllAscend
  <2> QED BY <1>1, <2>5
<1>3. \A n \in 0 .. N - 1 : n \in T => n + 1 \in T
  <2> SUFFICES ASSUME NEW n \in 0 .. N - 1, n \in T
               PROVE  AllAscend(n + 1)
    BY <1>1
  <2> SUFFICES ASSUME NEW U \in SUBSET (1 .. n + 1)
               PROVE  \E s : IsAscending(s, U)
    BY DEF AllAscend
  <2>0. AllAscend(n)
    BY <1>1
  <2>1. CASE n + 1 \notin U
    <3>1. U \in SUBSET (1 .. n)
      BY <2>1
    <3> QED BY <2>0, <3>1 DEF AllAscend
  <2>2. CASE n + 1 \in U
    <3>1. PICK V : V = U \ {n + 1}
      OBVIOUS
    <3>2. V \in SUBSET (1 .. n)
      BY <3>1
    <3>3. PICK s : IsAscending(s, V)
      BY <2>0, <3>2 DEF AllAscend
    <3>4. IsFiniteSet(1 .. n)
      BY FS_Interval
    <3>5. IsFiniteSet(V)
      BY <3>2, <3>4, FS_Subset
    <3>6. PICK m \in Nat : m = Cardinality(V)
      BY <3>5, FS_CardinalityType
    <3>7. U = V \cup {n + 1} /\ n + 1 \notin V
      BY <2>2, <3>1
    <3>8. Cardinality(U) = m + 1
      BY <3>5, <3>6, <3>7, FS_AddElement
    <3>9. PICK t : t = [i \in 1 .. m + 1 |-> IF i = m + 1 THEN n + 1 ELSE s[i]]
      OBVIOUS
    <3>10. s \in [1 .. m -> V] /\ \A i, j \in 1 .. m : i < j => s[i] < s[j]
      BY <3>3, <3>6 DEF IsAscending
    <3>11. ASSUME NEW i \in 1 .. m + 1
           PROVE  t[i] \in U
      <4>1. CASE i = m + 1
        BY <3>9, <4>1, <2>2
      <4>2. CASE i # m + 1
        <5>1. i \in 1 .. m
          BY <4>2
        <5> QED BY <3>7, <3>9, <3>10, <5>1, <4>2
      <4> QED BY <4>1, <4>2
    <3>12. ASSUME NEW i \in 1 .. m + 1, NEW j \in 1 .. m + 1, i < j
           PROVE  t[i] < t[j]
      <4>1. i \in 1 .. m /\ i # m + 1
        BY <3>12
      <4>2. t[i] = s[i] /\ s[i] \in 1 .. n
        BY <3>2, <3>9, <3>10, <4>1
      <4>3. CASE j = m + 1
        BY <3>9, <4>2, <4>3
      <4>4. CASE j # m + 1
        <5>1. j \in 1 .. m
          BY <4>4
        <5>2. t[j] = s[j]
          BY <3>9, <4>4
        <5> QED BY <3>10, <3>12, <4>1, <4>2, <5>1, <5>2
      <4> QED BY <4>3, <4>4
    <3>13. t \in [1 .. m + 1 -> U]
      BY <3>9, <3>11
    <3>14. IsAscending(t, U)
      BY <3>8, <3>12, <3>13 DEF IsAscending
    <3> QED BY <3>14
  <2> QED BY <2>1, <2>2
<1>4. 0 .. N \subseteq T
  BY <1>2, <1>3, SetInduction
<1>5. N \in T
  BY <1>4
<1> QED BY <1>1, <1>5 DEF AllAscend

(* No key twice. *)
InjectiveSeq(s) == \A i, j \in 1 .. Len(s) : s[i] = s[j] => i = j

Members(s) == {s[i] : i \in 1 .. Len(s)}

(* Ascending has every member of the set, once. *)
LEMMA AscendingFacts ==
    ASSUME NEW N \in Nat, NEW S, S \subseteq 1 .. N
    PROVE  /\ Ascending(S) \in Seq(1 .. N)
           /\ InjectiveSeq(Ascending(S))
           /\ Members(Ascending(S)) = S
<1>1. PICK s : s = Ascending(S)
  OBVIOUS
<1>2. \E t : IsAscending(t, S)
  BY AscendingExists
<1>3. IsAscending(s, S)
  BY <1>1, <1>2 DEF Ascending, IsAscending
<1>4. IsFiniteSet(1 .. N)
  BY FS_Interval
<1>5. IsFiniteSet(S)
  BY <1>4, FS_Subset
<1>6. PICK m \in Nat : m = Cardinality(S)
  BY <1>5, FS_CardinalityType
<1>7. s \in [1 .. m -> S] /\ \A i, j \in 1 .. m : i < j => s[i] < s[j]
  BY <1>3, <1>6 DEF IsAscending
<1>8. s \in Seq(1 .. N) /\ Len(s) = m
  <2>1. s \in [1 .. m -> 1 .. N]
    BY <1>7
  <2>2. s \in Seq(1 .. N)
    BY <2>1, SeqDef
  <2> QED BY <2>1, <2>2, LenProperties
<1>9. \A i, j \in 1 .. m : s[i] = s[j] => i = j
  <2> SUFFICES ASSUME NEW i \in 1 .. m, NEW j \in 1 .. m, s[i] = s[j], i # j
               PROVE  FALSE
    OBVIOUS
  <2>1. s[i] \in 1 .. N /\ s[j] \in 1 .. N
    BY <1>7
  <2>2. i < j \/ j < i
    OBVIOUS
  <2>3. s[i] < s[j] \/ s[j] < s[i]
    BY <1>7, <2>2
  <2> QED BY <2>1, <2>3
<1>10. InjectiveSeq(s)
  BY <1>8, <1>9 DEF InjectiveSeq
<1>11. s \in Injection(1 .. m, S)
  BY <1>7, <1>9 DEF Injection, IsInjective
<1>12. IsFiniteSet(1 .. m) /\ Cardinality(1 .. m) = m
  BY FS_Interval
<1>13. s \in Surjection(1 .. m, S)
  BY <1>5, <1>6, <1>11, <1>12, FS_Injection
<1>14. Members(s) = S
  BY <1>7, <1>8, <1>13 DEF Surjection, Members
<1> QED BY <1>1, <1>8, <1>10, <1>14

-----------------------------------------------------------------------------
(* Order *)
KahnTurn(r, deps) ==
    LET keys == 1 .. Len(deps)
        key  == Head(r.queue)
        left == [i \in keys |-> r.left[i] - (IF key \in deps[i] THEN 1 ELSE 0)]
    IN  IF r.queue = <<>> THEN r
        ELSE [left  |-> left,
              queue |-> Tail(r.queue) \o
                        Ascending({i \in keys : key \in deps[i] /\ left[i] = 0}),
              order |-> Append(r.order, key)]

KahnStart(deps) ==
    [left  |-> [i \in 1 .. Len(deps) |-> Cardinality(deps[i])],
     queue |-> Ascending({i \in 1 .. Len(deps) : deps[i] = {}}),
     order |-> <<>>]

KahnLoop(f, deps, N) ==
    f = [n \in 0 .. N |-> IF n = 0 THEN KahnStart(deps) ELSE KahnTurn(f[n - 1], deps)]

(* The loop is defined. *)
LEMMA KahnLoopExists ==
    ASSUME NEW deps, NEW N \in Nat
    PROVE  \E f : KahnLoop(f, deps, N)
<1>1. PICK T : T = {k \in 0 .. N : \E f : KahnLoop(f, deps, k)}
  OBVIOUS
<1>2. 0 \in T
  <2>1. PICK f : f = [n \in 0 .. 0 |-> KahnStart(deps)]
    OBVIOUS
  <2>2. KahnLoop(f, deps, 0)
    BY <2>1 DEF KahnLoop
  <2> QED BY <1>1, <2>2
<1>3. \A k \in 0 .. N - 1 : k \in T => k + 1 \in T
  <2> SUFFICES ASSUME NEW k \in 0 .. N - 1, k \in T
               PROVE  k + 1 \in T
    OBVIOUS
  <2>1. PICK f : KahnLoop(f, deps, k)
    BY <1>1
  <2>2. PICK g : g = [n \in 0 .. k + 1 |-> IF n = k + 1 THEN KahnTurn(f[k], deps) ELSE f[n]]
    OBVIOUS
  <2>3. KahnLoop(g, deps, k + 1)
    BY <2>1, <2>2 DEF KahnLoop
  <2> QED BY <1>1, <2>3
<1>4. 0 .. N \subseteq T
  BY <1>2, <1>3, SetInduction
<1> QED BY <1>1, <1>4

(* Order is what its last state holds. *)
LEMMA OrderIsKahn ==
    ASSUME NEW deps, Len(deps) \in Nat
    PROVE  \E f : KahnLoop(f, deps, Len(deps)) /\ Order(deps) = f[Len(deps)].order
<1>1. \E f : KahnLoop(f, deps, Len(deps))
  BY KahnLoopExists
<1>2. PICK f : f = CHOOSE g : KahnLoop(g, deps, Len(deps))
  OBVIOUS
<1>3. KahnLoop(f, deps, Len(deps))
  BY <1>1, <1>2
<1>4. Order(deps) = f[Len(deps)].order
  BY <1>2 DEF Order, KahnLoop, KahnStart, KahnTurn
<1> QED BY <1>3, <1>4

(* Members and injectivity of sequences that grow and shrink. *)
LEMMA AppendMembers ==
    ASSUME NEW S, NEW s \in Seq(S), NEW e \in S
    PROVE  /\ Append(s, e) \in Seq(S) /\ Len(Append(s, e)) = Len(s) + 1
           /\ \A i \in 1 .. Len(s) : Append(s, e)[i] = s[i]
           /\ Append(s, e)[Len(s) + 1] = e
           /\ Members(Append(s, e)) = Members(s) \cup {e}
           /\ InjectiveSeq(s) /\ e \notin Members(s) => InjectiveSeq(Append(s, e))
<1>1. PICK n \in Nat : n = Len(s)
  OBVIOUS
<1>2. PICK t : t = Append(s, e)
  OBVIOUS
<1>3. t \in Seq(S) /\ Len(t) = n + 1
  BY <1>1, <1>2
<1>4. \A i \in 1 .. n : t[i] = s[i]
  BY <1>1, <1>2
<1>5. t[n + 1] = e
  BY <1>1, <1>2
<1>6. \A i \in 1 .. n + 1 : i \in 1 .. n \/ i = n + 1
  OBVIOUS
<1>7. 1 .. n \subseteq 1 .. n + 1 /\ n + 1 \in 1 .. n + 1
  OBVIOUS
<1>8. Members(t) = Members(s) \cup {e}
  BY <1>1, <1>3, <1>4, <1>5, <1>6, <1>7 DEF Members
<1>9. ASSUME InjectiveSeq(s), e \notin Members(s), NEW i \in 1 .. n + 1, NEW j \in 1 .. n + 1, t[i] = t[j]
      PROVE  i = j
  <2>1. \A k \in 1 .. n : t[k] # e
    BY <1>1, <1>4, <1>9 DEF Members
  <2>2. CASE i \in 1 .. n /\ j \in 1 .. n
    BY <1>1, <1>4, <1>9, <2>2 DEF InjectiveSeq
  <2>3. CASE ~ (i \in 1 .. n /\ j \in 1 .. n)
    BY <1>5, <1>6, <1>9, <2>1, <2>3
  <2> QED BY <2>2, <2>3
<1>10. InjectiveSeq(s) /\ e \notin Members(s) => InjectiveSeq(t)
  BY <1>3, <1>9 DEF InjectiveSeq
<1> QED BY <1>1, <1>2, <1>3, <1>4, <1>5, <1>8, <1>10

(* What is left when the first key is taken. *)
LEMMA TailMembers ==
    ASSUME NEW S, NEW s \in Seq(S), s # <<>>, InjectiveSeq(s)
    PROVE  /\ Head(s) \in S /\ Head(s) \in Members(s)
           /\ Tail(s) \in Seq(S)
           /\ Members(Tail(s)) = Members(s) \ {Head(s)}
           /\ InjectiveSeq(Tail(s))
<1>1. PICK n \in Nat \ {0} : n = Len(s)
  BY EmptySeq
<1>2. PICK t : t = Tail(s)
  OBVIOUS
<1>3. t \in Seq(S) /\ Len(t) = n - 1
  BY <1>1, <1>2, HeadTailProperties
<1>4. \A i \in 1 .. n - 1 : t[i] = s[i + 1]
  BY <1>1, <1>2, <1>3, HeadTailProperties
<1>5. Head(s) = s[1]
  BY <1>1
<1>6. \A i, j \in 1 .. n : s[i] = s[j] => i = j
  BY <1>1 DEF InjectiveSeq
<1>7. \A i, j \in 1 .. n - 1 : t[i] = t[j] => i = j
  <2> SUFFICES ASSUME NEW i \in 1 .. n - 1, NEW j \in 1 .. n - 1, t[i] = t[j]
               PROVE  i = j
    OBVIOUS
  <2>1. s[i + 1] = s[j + 1] /\ i + 1 \in 1 .. n /\ j + 1 \in 1 .. n
    BY <1>4
  <2>2. i + 1 = j + 1
    BY <1>6, <2>1
  <2> QED BY <2>2
<1>8. InjectiveSeq(t)
  BY <1>3, <1>7 DEF InjectiveSeq
<1>9. Members(t) = Members(s) \ {s[1]}
  <2>1. Members(t) = {t[i] : i \in 1 .. n - 1} /\ Members(s) = {s[i] : i \in 1 .. n}
    BY <1>1, <1>3 DEF Members
  <2>2. ASSUME NEW i \in 1 .. n - 1
        PROVE  t[i] \in Members(s) /\ t[i] # s[1]
    <3>1. t[i] = s[i + 1] /\ i + 1 \in 1 .. n /\ i + 1 # 1 /\ 1 \in 1 .. n
      BY <1>4
    <3> QED BY <2>1, <3>1, <1>6
  <2>3. ASSUME NEW i \in 1 .. n, s[i] # s[1]
        PROVE  s[i] \in Members(t)
    <3>1. i - 1 \in 1 .. n - 1 /\ (i - 1) + 1 = i
      BY <2>3
    <3>2. s[i] = t[i - 1]
      BY <1>4, <3>1
    <3> QED BY <2>1, <3>1, <3>2
  <2> QED BY <2>1, <2>2, <2>3
<1>10. s[1] \in Members(s) /\ s[1] \in S
  BY <1>1 DEF Members
<1> QED BY <1>2, <1>3, <1>5, <1>8, <1>9, <1>10

(* What is there when keys join the queue. *)
LEMMA ConcatMembers ==
    ASSUME NEW S, NEW s \in Seq(S), NEW t \in Seq(S)
    PROVE  /\ s \o t \in Seq(S)
           /\ Members(s \o t) = Members(s) \cup Members(t)
           /\ InjectiveSeq(s) /\ InjectiveSeq(t) /\ Members(s) \cap Members(t) = {}
              => InjectiveSeq(s \o t)
<1>1. PICK m \in Nat : m = Len(s)
  OBVIOUS
<1>2. PICK n \in Nat : n = Len(t)
  OBVIOUS
<1>3. PICK u : u = s \o t
  OBVIOUS
<1>4. u \in Seq(S) /\ Len(u) = m + n
  BY <1>1, <1>2, <1>3
<1>5. \A i \in 1 .. m : u[i] = s[i]
  BY <1>1, <1>2, <1>3
<1>6. \A i \in 1 .. n : u[m + i] = t[i]
  BY <1>1, <1>2, <1>3
<1>7. \A i \in 1 .. m + n : i \in 1 .. m \/ (i - m \in 1 .. n /\ m + (i - m) = i)
  OBVIOUS
<1>8. \A i \in 1 .. n : m + i \in 1 .. m + n
  OBVIOUS
<1>9. 1 .. m \subseteq 1 .. m + n
  OBVIOUS
<1>10. Members(s) = {s[i] : i \in 1 .. m} /\ Members(t) = {t[i] : i \in 1 .. n}
       /\ Members(u) = {u[i] : i \in 1 .. m + n}
  BY <1>1, <1>2, <1>4 DEF Members
<1>11. \A i \in 1 .. m + n : u[i] \in Members(s) \cup Members(t)
  BY <1>5, <1>6, <1>7, <1>10
<1>12. \A i \in 1 .. m : s[i] \in Members(u)
  BY <1>5, <1>9, <1>10
<1>13. \A i \in 1 .. n : t[i] \in Members(u)
  BY <1>6, <1>8, <1>10
<1>14. Members(u) = Members(s) \cup Members(t)
  BY <1>10, <1>11, <1>12, <1>13
<1>15. ASSUME InjectiveSeq(s), InjectiveSeq(t), Members(s) \cap Members(t) = {},
              NEW i \in 1 .. m + n, NEW j \in 1 .. m + n, u[i] = u[j]
       PROVE  i = j
  <2>1. CASE i \in 1 .. m /\ j \in 1 .. m
    BY <1>1, <1>5, <1>15, <2>1 DEF InjectiveSeq
  <2>2. CASE i \notin 1 .. m /\ j \notin 1 .. m
    <3>1. i - m \in 1 .. n /\ j - m \in 1 .. n /\ u[i] = t[i - m] /\ u[j] = t[j - m]
      BY <1>6, <1>7, <2>2
    <3>2. i - m = j - m
      BY <1>2, <1>15, <3>1 DEF InjectiveSeq
    <3> QED BY <3>2
  <2>3. CASE i \in 1 .. m /\ j \notin 1 .. m
    <3>1. u[i] \in Members(s) /\ u[j] \in Members(t)
      BY <1>5, <1>6, <1>7, <1>10, <2>3, SMTT(60)
    <3> QED BY <3>1, <1>15
  <2>4. CASE i \notin 1 .. m /\ j \in 1 .. m
    <3>1. u[i] \in Members(t) /\ u[j] \in Members(s)
      BY <1>5, <1>6, <1>7, <1>10, <2>4, SMTT(60)
    <3> QED BY <3>1, <1>15
  <2> QED BY <2>1, <2>2, <2>3, <2>4
<1>16. InjectiveSeq(s) /\ InjectiveSeq(t) /\ Members(s) \cap Members(t) = {} => InjectiveSeq(u)
  BY <1>4, <1>15 DEF InjectiveSeq
<1> QED BY <1>3, <1>4, <1>14, <1>16

(* Dependencies are keys of the flow. *)
DepsWithin(deps) ==
    /\ Len(deps) \in Nat
    /\ \A i \in 1 .. Len(deps) : deps[i] \subseteq 1 .. Len(deps)

(* Kahn's algorithm after some turns: the order is one in which every key   *)
(* comes after what it depends on, and a key is in the order or the queue    *)
(* exactly when all it depends on is in the order.                          *)
KahnInv(r, deps) ==
    /\ r.order \in Seq(1 .. Len(deps)) /\ r.queue \in Seq(1 .. Len(deps))
    /\ InjectiveSeq(r.order) /\ InjectiveSeq(r.queue)
    /\ Members(r.order) \cap Members(r.queue) = {}
    /\ \A i \in 1 .. Len(deps) : r.left[i] = Cardinality(deps[i] \ Members(r.order))
    /\ \A i \in 1 .. Len(deps) :
          deps[i] \subseteq Members(r.order) <=> i \in Members(r.order) \cup Members(r.queue)
    /\ \A k \in 1 .. Len(r.order) : deps[r.order[k]] \subseteq {r.order[j] : j \in 1 .. k - 1}

(* The first state is good. *)
LEMMA KahnStarts ==
    ASSUME NEW deps, DepsWithin(deps)
    PROVE  KahnInv(KahnStart(deps), deps)
<1>1. PICK N \in Nat : N = Len(deps)
  BY DEF DepsWithin
<1>2. PICK q : q = {i \in 1 .. N : deps[i] = {}}
  OBVIOUS
<1>3. PICK queue : queue = Ascending(q)
  OBVIOUS
<1>4. queue \in Seq(1 .. N) /\ InjectiveSeq(queue) /\ Members(queue) = q
  BY <1>2, <1>3, AscendingFacts
<1>5. PICK r : r = KahnStart(deps)
  OBVIOUS
<1>6. /\ r.left = [i \in 1 .. N |-> Cardinality(deps[i])]
      /\ r.queue = queue /\ r.order = <<>>
  BY <1>1, <1>2, <1>3, <1>5 DEF KahnStart
<1>7. Members(<<>>) = {} /\ InjectiveSeq(<<>>) /\ <<>> \in Seq(1 .. N) /\ Len(<<>>) = 0
  BY DEF Members, InjectiveSeq
<1>8. \A i \in 1 .. N : deps[i] \ {} = deps[i] /\ (deps[i] \subseteq {} <=> i \in q)
  BY <1>2
<1>9. \A i \in 1 .. N : r.left[i] = Cardinality(deps[i] \ {})
  BY <1>6, <1>8
<1>10. /\ r.order \in Seq(1 .. N) /\ r.queue \in Seq(1 .. N)
       /\ InjectiveSeq(r.order) /\ InjectiveSeq(r.queue)
       /\ Members(r.order) = {} /\ Members(r.queue) = q /\ Len(r.order) = 0
  BY <1>4, <1>6, <1>7
<1>11. \A i \in 1 .. N : deps[i] \subseteq Members(r.order) <=> i \in Members(r.order) \cup Members(r.queue)
  BY <1>8, <1>10
<1>12. \A i \in 1 .. N : r.left[i] = Cardinality(deps[i] \ Members(r.order))
  BY <1>9, <1>10
<1>13. \A k \in 1 .. Len(r.order) : FALSE
  BY <1>10
<1> QED BY <1>1, <1>5, <1>10, <1>11, <1>12, <1>13 DEF KahnInv

(* A turn keeps it good. *)
LEMMA KahnTurns ==
    ASSUME NEW deps, DepsWithin(deps), NEW r, KahnInv(r, deps)
    PROVE  KahnInv(KahnTurn(r, deps), deps)
<1>1. PICK N \in Nat : N = Len(deps)
  BY DEF DepsWithin
<1>2. CASE r.queue = <<>>
  BY <1>2 DEF KahnTurn
<1>3. CASE r.queue # <<>>
  <2>1. PICK key : key = Head(r.queue)
    OBVIOUS
  <2>2. PICK done : done = Members(r.order)
    OBVIOUS
  <2>3. PICK wait : wait = Members(r.queue)
    OBVIOUS
  <2>4. /\ r.order \in Seq(1 .. N) /\ r.queue \in Seq(1 .. N)
        /\ InjectiveSeq(r.order) /\ InjectiveSeq(r.queue)
        /\ done \cap wait = {}
        /\ \A i \in 1 .. N : r.left[i] = Cardinality(deps[i] \ done)
        /\ \A i \in 1 .. N : deps[i] \subseteq done <=> i \in done \cup wait
        /\ \A k \in 1 .. Len(r.order) : deps[r.order[k]] \subseteq {r.order[j] : j \in 1 .. k - 1}
    BY <1>1, <2>2, <2>3 DEF KahnInv
  <2>5. PICK tail : tail = Tail(r.queue)
    OBVIOUS
  <2>6. /\ key \in 1 .. N /\ key \in wait
        /\ tail \in Seq(1 .. N) /\ Members(tail) = wait \ {key} /\ InjectiveSeq(tail)
    BY <1>3, <2>1, <2>3, <2>4, <2>5, TailMembers
  <2>7. key \notin done /\ deps[key] \subseteq done
    BY <2>4, <2>6
  <2>8. PICK left : left = [i \in 1 .. N |-> r.left[i] - (IF key \in deps[i] THEN 1 ELSE 0)]
    OBVIOUS
  <2>9. PICK new : new = {i \in 1 .. N : key \in deps[i] /\ left[i] = 0}
    OBVIOUS
  <2>10. PICK asc : asc = Ascending(new)
    OBVIOUS
  <2>11. asc \in Seq(1 .. N) /\ InjectiveSeq(asc) /\ Members(asc) = new
    BY <2>9, <2>10, AscendingFacts
  <2>12. PICK s : s = KahnTurn(r, deps)
    OBVIOUS
  <2>13. s = [left |-> left, queue |-> tail \o asc, order |-> Append(r.order, key)]
    BY <1>1, <1>3, <2>1, <2>5, <2>8, <2>9, <2>10, <2>12 DEF KahnTurn
  <2>14. s.left = left /\ s.queue = tail \o asc /\ s.order = Append(r.order, key)
    BY <2>13
  <2>15. \A i \in 1 .. N : left[i] = Cardinality(deps[i] \ (done \cup {key}))
    <3> SUFFICES ASSUME NEW i \in 1 .. N
                 PROVE  left[i] = Cardinality(deps[i] \ (done \cup {key}))
      OBVIOUS
    <3>1. IsFiniteSet(1 .. N)
      BY FS_Interval
    <3>2. PICK D : D = deps[i] \ done
      OBVIOUS
    <3>3. D \subseteq 1 .. N
      BY <1>1, <3>2 DEF DepsWithin
    <3>4. IsFiniteSet(D)
      BY <3>1, <3>3, FS_Subset
    <3>5. Cardinality(D \ {key}) = IF key \in D THEN Cardinality(D) - 1 ELSE Cardinality(D)
      BY <3>4, FS_RemoveElement
    <3>6. deps[i] \ (done \cup {key}) = D \ {key} /\ (key \in D <=> key \in deps[i])
      BY <3>2, <2>7
    <3>7. Cardinality(D) \in Nat /\ r.left[i] = Cardinality(D)
      BY <2>4, <3>2, <3>4, FS_CardinalityType
    <3>8. left[i] = r.left[i] - (IF key \in deps[i] THEN 1 ELSE 0)
      BY <2>8
    <3> QED BY <3>5, <3>6, <3>7, <3>8
  <2>16. new = {i \in 1 .. N : key \in deps[i] /\ deps[i] \subseteq done \cup {key}}
    <3>1. ASSUME NEW i \in 1 .. N
          PROVE  left[i] = 0 <=> deps[i] \subseteq done \cup {key}
      <4>1. PICK D : D = deps[i] \ (done \cup {key})
        OBVIOUS
      <4>2. IsFiniteSet(1 .. N) /\ D \subseteq 1 .. N
        <5>1. IsFiniteSet(1 .. N)
          BY FS_Interval
        <5>2. D \subseteq 1 .. N
          BY <1>1, <4>1 DEF DepsWithin
        <5> QED BY <5>1, <5>2
      <4>3. IsFiniteSet(D)
        BY <4>2, FS_Subset
      <4>4. Cardinality(D) = 0 <=> D = {}
        BY <4>3, FS_EmptySet
      <4> QED BY <2>15, <4>1, <4>4
    <3> QED BY <2>9, <3>1
  <2>17. PICK done1 : done1 = done \cup {key}
    OBVIOUS
  <2>18. PICK wait1 : wait1 = (wait \ {key}) \cup new
    OBVIOUS
  <2>19. new \cap done = {} /\ new \cap wait = {} /\ key \notin new
    BY <2>4, <2>6, <2>7, <2>16
  <2>20. /\ s.order \in Seq(1 .. N) /\ Members(s.order) = done1 /\ InjectiveSeq(s.order)
         /\ Len(s.order) = Len(r.order) + 1
         /\ \A k \in 1 .. Len(r.order) : s.order[k] = r.order[k]
         /\ s.order[Len(r.order) + 1] = key
    BY <2>2, <2>4, <2>6, <2>7, <2>14, <2>17, AppendMembers
  <2>21. /\ s.queue \in Seq(1 .. N) /\ Members(s.queue) = wait1 /\ InjectiveSeq(s.queue)
    <3>1. Members(tail) \cap Members(asc) = {}
      BY <2>6, <2>11, <2>19
    <3> QED BY <2>6, <2>11, <2>14, <2>18, <3>1, ConcatMembers
  <2>22. done1 \cap wait1 = {}
    BY <2>4, <2>17, <2>18, <2>19
  <2>23. \A i \in 1 .. N : deps[i] \subseteq done1 <=> i \in done1 \cup wait1
    <3> SUFFICES ASSUME NEW i \in 1 .. N
                 PROVE  deps[i] \subseteq done1 <=> i \in done1 \cup wait1
      OBVIOUS
    <3>1. done1 \cup wait1 = done \cup wait \cup new
      BY <2>6, <2>17, <2>18
    <3>2. CASE key \in deps[i]
      <4>1. ~ (deps[i] \subseteq done)
        BY <2>7, <3>2
      <4>2. i \notin done \cup wait
        BY <2>4, <4>1
      <4> QED BY <2>16, <2>17, <3>1, <3>2, <4>2
    <3>3. CASE key \notin deps[i]
      <4>1. deps[i] \subseteq done1 <=> deps[i] \subseteq done
        BY <2>17, <3>3
      <4>2. i \notin new
        BY <2>16, <3>3
      <4> QED BY <2>4, <3>1, <4>1, <4>2
    <3> QED BY <3>2, <3>3
  <2>24. PICK L \in Nat : L = Len(r.order)
    BY <2>4
  <2>25. \A k \in 1 .. L + 1 : deps[s.order[k]] \subseteq {s.order[j] : j \in 1 .. k - 1}
    <3> SUFFICES ASSUME NEW k \in 1 .. L + 1, NEW d \in deps[s.order[k]]
                 PROVE  \E j \in 1 .. k - 1 : d = s.order[j]
      OBVIOUS
    <3>1. CASE k \in 1 .. L
      <4>1. s.order[k] = r.order[k]
        BY <2>20, <2>24, <3>1
      <4>2. PICK j \in 1 .. k - 1 : d = r.order[j]
        BY <2>4, <2>24, <3>1, <4>1
      <4>3. j \in 1 .. L
        BY <3>1
      <4> QED BY <2>20, <2>24, <4>2, <4>3
    <3>2. CASE k = L + 1
      <4>1. d \in done
        BY <2>7, <2>20, <2>24, <3>2
      <4>2. PICK j \in 1 .. L : d = r.order[j]
        BY <2>2, <2>24, <4>1 DEF Members
      <4>3. j \in 1 .. k - 1 /\ s.order[j] = r.order[j]
        BY <2>20, <2>24, <3>2
      <4> QED BY <4>2, <4>3
    <3> QED BY <3>1, <3>2
  <2>26. \A i \in 1 .. N : s.left[i] = Cardinality(deps[i] \ done1)
    BY <2>14, <2>15, <2>17
  <2>27. KahnInv(s, deps)
    BY <1>1, <2>20, <2>21, <2>22, <2>23, <2>24, <2>25, <2>26 DEF KahnInv
  <2> QED BY <2>12, <2>27
<1> QED BY <1>2, <1>3

(* A topological order of keys: none twice, and each after what it depends   *)
(* on.                                                                       *)
Topological(order, deps) ==
    /\ order \in Seq(1 .. Len(deps))
    /\ InjectiveSeq(order)
    /\ \A k \in 1 .. Len(order) : deps[order[k]] \subseteq {order[j] : j \in 1 .. k - 1}

(* The algorithm stops when every key is in the order, or none is left to    *)
(* take.                                                                    *)
Stopped(r, n) == Len(r.order) = n \/ r.queue = <<>>

(* The state in which the algorithm stops. *)
LEMMA KahnRuns ==
    ASSUME NEW deps, DepsWithin(deps)
    PROVE  \E r : KahnInv(r, deps) /\ Stopped(r, Len(deps)) /\ Order(deps) = r.order
<1>1. PICK N \in Nat : N = Len(deps)
  BY DEF DepsWithin
<1>2. PICK f : KahnLoop(f, deps, N) /\ Order(deps) = f[N].order
  BY <1>1, OrderIsKahn
<1>3. PICK T : T = {k \in 0 .. N : KahnInv(f[k], deps) /\ Stopped(f[k], k)}
  OBVIOUS
<1>4. 0 \in T
  <2>1. f[0] = KahnStart(deps)
    BY <1>2 DEF KahnLoop
  <2>2. f[0].order = <<>> /\ Len(<<>>) = 0
    BY <2>1 DEF KahnStart
  <2>3. Stopped(f[0], 0)
    BY <2>2 DEF Stopped
  <2> QED BY <1>3, <2>1, <2>3, KahnStarts
<1>5. \A k \in 0 .. N - 1 : k \in T => k + 1 \in T
  <2> SUFFICES ASSUME NEW k \in 0 .. N - 1, k \in T
               PROVE  k + 1 \in T
    OBVIOUS
  <2>1. k \in 0 .. N /\ k + 1 \in 0 .. N /\ k + 1 # 0 /\ (k + 1) - 1 = k /\ k \in Nat
    OBVIOUS
  <2>2. f[k + 1] = KahnTurn(f[k], deps)
    BY <1>2, <2>1 DEF KahnLoop
  <2>3. KahnInv(f[k], deps) /\ Stopped(f[k], k)
    BY <1>3
  <2>4. PICK r : r = f[k]
    OBVIOUS
  <2>5. PICK s : s = f[k + 1]
    OBVIOUS
  <2>6. Stopped(s, k + 1)
    <3>1. CASE r.queue = <<>>
      BY <2>2, <2>4, <2>5, <3>1 DEF KahnTurn, Stopped
    <3>2. CASE r.queue # <<>>
      <4>1. PICK key : key = Head(r.queue)
        OBVIOUS
      <4>2. s.order = Append(r.order, key)
        <5>1. s = KahnTurn(r, deps)
          BY <2>2, <2>4, <2>5
        <5>2. PICK left : left = [i \in 1 .. Len(deps) |->
                                    r.left[i] - (IF key \in deps[i] THEN 1 ELSE 0)]
          OBVIOUS
        <5>3. PICK queue : queue = Tail(r.queue) \o
                  Ascending({i \in 1 .. Len(deps) : key \in deps[i] /\ left[i] = 0})
          OBVIOUS
        <5>4. s = [left |-> left, queue |-> queue, order |-> Append(r.order, key)]
          BY <3>2, <4>1, <5>1, <5>2, <5>3, Zenon DEF KahnTurn
        <5> QED BY <5>4
      <4>3. PICK old : old = r.order
        OBVIOUS
      <4>4. old \in Seq(1 .. Len(deps)) /\ Len(old) = k
        BY <2>3, <2>4, <3>2, <4>3 DEF KahnInv, Stopped
      <4>5. key \in 1 .. Len(deps)
        <5>1. r.queue \in Seq(1 .. Len(deps))
          BY <2>3, <2>4 DEF KahnInv
        <5> QED BY <3>2, <4>1, <5>1, HeadTailProperties
      <4>6. Len(Append(old, key)) = k + 1
        BY <4>4, <4>5, AppendProperties
      <4> QED BY <4>2, <4>3, <4>6 DEF Stopped
    <3> QED BY <3>1, <3>2
  <2>7. KahnInv(s, deps)
    BY <2>2, <2>3, <2>5, KahnTurns
  <2> QED BY <1>3, <2>1, <2>5, <2>6, <2>7
<1>6. 0 .. N \subseteq T
  BY <1>4, <1>5, SetInduction
<1>7. KahnInv(f[N], deps) /\ Stopped(f[N], N)
  BY <1>3, <1>6
<1> QED BY <1>1, <1>2, <1>7

(* An order as long as the flow has every key, and one that has every key is *)
(* as long as the flow.                                                     *)
LEMMA CompleteOrder ==
    ASSUME NEW N \in Nat, NEW order \in Seq(1 .. N), InjectiveSeq(order)
    PROVE  Len(order) = N <=> Members(order) = 1 .. N
<1>1. IsFiniteSet(1 .. N) /\ Cardinality(1 .. N) = N
  <2>1. 1 \in Int /\ N \in Int
    OBVIOUS
  <2>2. IsFiniteSet(1 .. N) /\ Cardinality(1 .. N) = IF 1 > N THEN 0 ELSE N - 1 + 1
    BY <2>1, FS_Interval
  <2> QED BY <2>2
<1>2. PICK n \in Nat : n = Len(order)
  OBVIOUS
<1>3. order \in [1 .. n -> 1 .. N] /\ \A i, j \in 1 .. n : order[i] = order[j] => i = j
  BY <1>2, LenProperties DEF InjectiveSeq
<1>4. order \in Injection(1 .. n, 1 .. N)
  BY <1>3 DEF Injection, IsInjective
<1>5. ASSUME n = N PROVE Members(order) = 1 .. N
  <2>1. order \in Injection(1 .. N, 1 .. N)
    BY <1>4, <1>5
  <2>2. order \in Surjection(1 .. N, 1 .. N)
    BY <1>1, <2>1, FS_Injection
  <2> QED BY <1>2, <1>3, <1>5, <2>2 DEF Surjection, Members
<1>6. ASSUME Members(order) = 1 .. N PROVE n = N
  <2>1. order \in Surjection(1 .. n, 1 .. N)
    BY <1>2, <1>3, <1>6 DEF Surjection, Members
  <2>2. order \in Bijection(1 .. n, 1 .. N)
    BY <1>4, <2>1 DEF Bijection
  <2>3. IsFiniteSet(1 .. n) /\ Cardinality(1 .. n) = n
    <3>1. 1 \in Int /\ n \in Int
      OBVIOUS
    <3>2. IsFiniteSet(1 .. n) /\ Cardinality(1 .. n) = IF 1 > n THEN 0 ELSE n - 1 + 1
      BY <3>1, FS_Interval
    <3> QED BY <3>2
  <2>4. ExistsBijection(1 .. n, 1 .. N)
    BY <2>2 DEF ExistsBijection
  <2>5. Cardinality(1 .. n) = Cardinality(1 .. N)
    BY <1>1, <2>3, <2>4, FS_Bijection
  <2> QED BY <1>1, <2>3, <2>5
<1> QED BY <1>2, <1>5, <1>6

(* The order respects the dependencies, and is complete if it is long      *)
(* enough.                                                                 *)
LEMMA OrderIsTopological ==
    ASSUME NEW deps, DepsWithin(deps)
    PROVE  /\ Topological(Order(deps), deps)
           /\ Len(Order(deps)) = Len(deps) => Members(Order(deps)) = 1 .. Len(deps)
<1>1. PICK r : KahnInv(r, deps) /\ Order(deps) = r.order
  BY KahnRuns
<1>2. Topological(Order(deps), deps)
  BY <1>1 DEF KahnInv, Topological
<1>3. Len(deps) \in Nat
  BY DEF DepsWithin
<1>4. Len(Order(deps)) = Len(deps) => Members(Order(deps)) = 1 .. Len(deps)
  BY <1>2, <1>3, CompleteOrder DEF Topological
<1> QED BY <1>2, <1>4

(* Keys that all wait for one another. *)
Circular(S, deps) == S # {} /\ \A i \in S : deps[i] \cap S # {}

(* The test for cycles, which is how long the order has become, refuses a    *)
(* plan exactly when some of its tasks wait for one another.                *)
THEOREM CyclesAreFound ==
    ASSUME NEW deps, DepsWithin(deps)
    PROVE  /\ Topological(Order(deps), deps)
           /\ Len(Order(deps)) = Len(deps) <=> ~ \E S \in SUBSET (1 .. Len(deps)) : Circular(S, deps)
<1>1. PICK N \in Nat : N = Len(deps)
  BY DEF DepsWithin
<1>2. PICK order : order = Order(deps)
  OBVIOUS
<1>3. Topological(order, deps)
  BY <1>2, OrderIsTopological
<1>4. order \in Seq(1 .. N) /\ InjectiveSeq(order)
  BY <1>1, <1>3 DEF Topological
<1>5. ASSUME Len(order) = N, NEW S \in SUBSET (1 .. N), Circular(S, deps)
      PROVE  FALSE
  <2>1. Members(order) = 1 .. N
    BY <1>4, <1>5, CompleteOrder
  <2>2. \A i \in 1 .. N : \E k \in 1 .. N : order[k] = i
    BY <1>5, <2>1 DEF Members
  <2>3. PICK T : T = {k \in 1 .. N : order[k] \in S}
    OBVIOUS
  <2>4. T \subseteq Nat /\ T # {}
    <3>1. PICK i \in S : i \in 1 .. N
      BY <1>5 DEF Circular
    <3>2. PICK k \in 1 .. N : order[k] = i
      BY <2>2, <3>1
    <3>3. k \in T
      BY <2>3, <3>1, <3>2
    <3> QED BY <2>3, <3>3
  <2>5. PICK m \in T : \A k \in T : m <= k
    BY <2>4, Least
  <2>6. PICK x : x \in deps[order[m]] /\ x \in S
    BY <1>5, <2>3, <2>5 DEF Circular
  <2>7. PICK k \in 1 .. m - 1 : x = order[k]
    <3>1. m \in 1 .. Len(order)
      BY <1>5, <2>3, <2>5
    <3>2. PICK D : D = deps[order[m]]
      OBVIOUS
    <3>3. D \subseteq {order[j] : j \in 1 .. m - 1}
      BY <1>3, <3>1, <3>2 DEF Topological
    <3> QED BY <2>6, <3>2, <3>3
  <2>8. k \in T /\ k < m
    BY <2>3, <2>5, <2>6, <2>7
  <2> QED BY <2>4, <2>5, <2>8
<1>6. ASSUME Len(order) # N
      PROVE  \E S \in SUBSET (1 .. N) : Circular(S, deps)
  <2>1. PICK r : KahnInv(r, deps) /\ Stopped(r, N) /\ order = r.order
    BY <1>1, <1>2, KahnRuns
  <2>2. Members(r.queue) = {}
    <3>1. r.queue = <<>>
      BY <1>6, <2>1 DEF Stopped
    <3>2. Members(<<>>) = {}
      BY DEF Members
    <3> QED BY <3>1, <3>2
  <2>3. PICK S : S = (1 .. N) \ Members(order)
    OBVIOUS
  <2>4. S # {}
    <3>1. Members(order) # 1 .. N
      BY <1>4, <1>6, CompleteOrder
    <3>2. Members(order) \subseteq 1 .. N
      BY <1>4 DEF Members
    <3> QED BY <2>3, <3>1, <3>2
  <2>5. ASSUME NEW i \in S PROVE deps[i] \cap S # {}
    <3>1. i \in 1 .. N /\ i \notin Members(order)
      BY <2>3
    <3>2. ~ (deps[i] \subseteq Members(order))
      BY <1>1, <2>1, <2>2, <3>1 DEF KahnInv
    <3>3. deps[i] \subseteq 1 .. N
      BY <1>1, <3>1 DEF DepsWithin
    <3> QED BY <2>3, <3>2, <3>3
  <2>6. Circular(S, deps) /\ S \in SUBSET (1 .. N)
    BY <2>3, <2>4, <2>5 DEF Circular
  <2> QED BY <2>6
<1>7. Len(order) = N <=> ~ \E S \in SUBSET (1 .. N) : Circular(S, deps)
  BY <1>5, <1>6
<1> QED BY <1>1, <1>2, <1>3, <1>7

-----------------------------------------------------------------------------
(***************************************************************************)
(* The estimate of one task.                                               *)
(***************************************************************************)

(* The dependency that finishes last. *)
IsLastOf(d, U, est) ==
    d \in U /\ \A o \in U : est[d].p80 > est[o].p80 \/ (est[d].p80 = est[o].p80 /\ d >= o)

HasLast(n, D, est) ==
    \A U \in SUBSET (D \cap (1 .. n)) : U # {} => \E d : IsLastOf(d, U, est)

(* LastOf names one of the dependencies, and none finishes later. *)
LEMMA LastOfFacts ==
    ASSUME NEW N \in Nat, NEW D, D \subseteq 1 .. N, D # {},
           NEW est, \A d \in D : est[d].p80 \in Int
    PROVE  LastOf(D, est) \in D /\ \A o \in D : est[LastOf(D, est)].p80 >= est[o].p80
<1>1. PICK T : T = {n \in 0 .. N : HasLast(n, D, est)}
  OBVIOUS
<1>2. 0 \in T
  <2>1. D \cap (1 .. 0) = {}
    OBVIOUS
  <2>2. HasLast(0, D, est)
    BY <2>1 DEF HasLast
  <2> QED BY <1>1, <2>2
<1>3. \A n \in 0 .. N - 1 : n \in T => n + 1 \in T
  <2> SUFFICES ASSUME NEW n \in 0 .. N - 1, n \in T
               PROVE  HasLast(n + 1, D, est)
    BY <1>1
  <2>0. HasLast(n, D, est)
    BY <1>1
  <2> SUFFICES ASSUME NEW U \in SUBSET (D \cap (1 .. n + 1)), U # {}
               PROVE  \E d : IsLastOf(d, U, est)
    BY DEF HasLast
  <2>1. PICK V : V = U \ {n + 1}
    OBVIOUS
  <2>2. V \in SUBSET (D \cap (1 .. n))
    BY <2>1
  <2>3. CASE n + 1 \notin U
    <3>1. V = U
      BY <2>1, <2>3
    <3> QED BY <2>0, <2>2, <3>1 DEF HasLast
  <2>4. CASE n + 1 \in U /\ V = {}
    <3>1. U = {n + 1}
      BY <2>1, <2>4
    <3>2. IsLastOf(n + 1, U, est)
      BY <3>1 DEF IsLastOf
    <3> QED BY <3>2
  <2>5. CASE n + 1 \in U /\ V # {}
    <3>1. PICK v : IsLastOf(v, V, est)
      BY <2>0, <2>2, <2>5 DEF HasLast
    <3>2. v \in D /\ v \in 1 .. n /\ n + 1 \in D
      BY <2>2, <2>5, <3>1 DEF IsLastOf
    <3>3. PICK a \in Int : a = est[v].p80
      BY <3>2
    <3>4. PICK b \in Int : b = est[n + 1].p80
      BY <3>2
    <3>5. \A o \in V : o \in 1 .. n /\ est[o].p80 \in Int /\ (a > est[o].p80 \/ (a = est[o].p80 /\ v >= o))
      BY <2>2, <3>1, <3>3 DEF IsLastOf
    <3>6. \A o \in U : o \in V \/ o = n + 1
      BY <2>1
    <3>7. CASE b >= a
      <4>1. \A o \in U : b > est[o].p80 \/ (b = est[o].p80 /\ n + 1 >= o)
        BY <3>4, <3>5, <3>6, <3>7
      <4>2. IsLastOf(n + 1, U, est)
        BY <2>5, <3>4, <4>1 DEF IsLastOf
      <4> QED BY <4>2
    <3>8. CASE b < a
      <4>1. \A o \in U : a > est[o].p80 \/ (a = est[o].p80 /\ v >= o)
        BY <3>4, <3>5, <3>6, <3>8
      <4>2. v \in U
        BY <2>1, <3>1 DEF IsLastOf
      <4>3. IsLastOf(v, U, est)
        BY <3>3, <4>1, <4>2 DEF IsLastOf
      <4> QED BY <4>3
    <3> QED BY <3>7, <3>8
  <2> QED BY <2>3, <2>4, <2>5
<1>4. 0 .. N \subseteq T
  BY <1>2, <1>3, SetInduction
<1>5. HasLast(N, D, est)
  BY <1>1, <1>4
<1>6. \E d : IsLastOf(d, D, est)
  <2>1. D \in SUBSET (D \cap (1 .. N))
    OBVIOUS
  <2> QED BY <1>5, <2>1 DEF HasLast
<1>7. PICK d : d = LastOf(D, est)
  OBVIOUS
<1>8. IsLastOf(d, D, est)
  BY <1>6, <1>7 DEF LastOf, IsLastOf
<1>9. \A o \in D : est[d].p80 >= est[o].p80
  <2>1. d \in D /\ est[d].p80 \in Int
    BY <1>8 DEF IsLastOf
  <2> SUFFICES ASSUME NEW o \in D PROVE est[d].p80 >= est[o].p80
    OBVIOUS
  <2>2. est[d].p80 > est[o].p80 \/ est[d].p80 = est[o].p80
    BY <1>8 DEF IsLastOf
  <2> QED BY <2>1, <2>2
<1> QED BY <1>7, <1>8, <1>9 DEF IsLastOf

(* Rounded hours are natural numbers. *)
LEMMA RoundedType ==
    ASSUME NEW n \in Nat, NEW d \in Nat, d > 0
    PROVE  Rounded(n, d) \in Nat
<1>1. PICK x \in Nat : x = 2 * n + d
  OBVIOUS
<1>2. PICK y \in Nat : y = 2 * d /\ y > 0
  OBVIOUS
<1>3. PICK q \in Int : q = x \div y
  BY <1>2, DivMod
<1>4. PICK r \in 0 .. y - 1 : r = x % y
  BY <1>2, DivMod
<1>5. x = y * q + r
  BY <1>2, <1>3, <1>4, DivMod
<1>6. q >= 0
  <2> SUFFICES ASSUME q <= -1
               PROVE  FALSE
    BY <1>3
  <2>1. y * q <= -y
    BY <1>2
  <2> QED BY <1>5, <2>1, <1>4, <1>2
<1> QED BY <1>1, <1>2, <1>3, <1>6 DEF Rounded

(* What the scheduler is given. *)
TaskOk(t) ==
    /\ t.effort \in Nat
    /\ t.owner \in Principal \cup DOMAIN Teams
    /\ t.heartbeat \in Nat \cup {NoHeartbeat}

CalendarsOk(cs) == \A p \in Principal : WellFormed(cs[p])

(* P50 and P80 hours are natural numbers. *)
LEMMA HoursType ==
    ASSUME NEW t, TaskOk(t)
    PROVE  P50Hours(t) \in Nat /\ P80Hours(t) \in Nat
<1>1. PICK c \in Nat : c = Capacity(t.owner) /\ c > 0
  <2>1. CASE IsTeam(t.owner)
    BY <2>1 DEF Capacity
  <2>2. CASE ~ IsTeam(t.owner)
    <3>1. PICK k \in Nat : k = People[t.owner].capacity
      BY <2>2, PeopleAssumption DEF TaskOk, IsTeam
    <3>2. Max({k, 10}) = IF k >= 10 THEN k ELSE 10
      BY MaxOfTwo
    <3>3. Capacity(t.owner) = Max({k, 10})
      BY <2>2, <3>1 DEF Capacity
    <3> QED BY <3>2, <3>3
  <2> QED BY <2>1, <2>2
<1>2. PICK k \in Nat : k = Coordination(t)
  <2>1. PICK a \in Nat : a = IF Cardinality(t.deps) > 1 THEN 10 ELSE 0
    OBVIOUS
  <2>2. PICK b \in Nat : b = IF t.human THEN 8 ELSE 0
    OBVIOUS
  <2>3. Coordination(t) = 100 + a + b
    BY <2>1, <2>2 DEF Coordination
  <2> QED BY <2>3
<1>3. PICK e \in Nat : e = t.effort
  BY DEF TaskOk
<1>4. PICK n \in Nat : n = e * k
  OBVIOUS
<1>5. P50Hours(t) = Rounded(n, c)
  BY <1>1, <1>2, <1>3, <1>4 DEF P50Hours
<1>6. PICK m \in Nat : m = P50Hours(t)
  BY <1>1, <1>5, RoundedType
<1>7. Rounded(m * 14, 10) \in Nat
  BY RoundedType
<1> QED BY <1>6, <1>7 DEF P80Hours

(* assignment_start: not before the instant, and when the owner works. *)
LEMMA StartForFacts ==
    ASSUME NEW owner \in Principal \cup DOMAIN Teams, NEW cs, CalendarsOk(cs),
           NEW instant \in Nat
    PROVE  LET start == StartFor(owner, cs, instant)
           IN  start # Never =>
                  /\ start \in Nat /\ start >= instant
                  /\ ~ IsTeam(owner) => Available(cs[owner], start)
<1>1. CASE IsTeam(owner)
  BY <1>1 DEF StartFor
<1>2. CASE ~ IsTeam(owner)
  <2>1. WellFormed(cs[owner])
    BY <1>2 DEF IsTeam, CalendarsOk
  <2>2. StartFor(owner, cs, instant) = NextAvailable(cs[owner], instant)
    BY <1>2 DEF StartFor
  <2> QED BY <2>1, <2>2, NextAvailableIsEarliest DEF EarliestFrom
<1> QED BY <1>1, <1>2

(* assignment_finish: an instant. *)
LEMMA FinishForFacts ==
    ASSUME NEW owner \in Principal \cup DOMAIN Teams, NEW cs, CalendarsOk(cs),
           NEW start \in Nat, NEW units \in Nat
    PROVE  FinishFor(owner, cs, start, units) # Never =>
              FinishFor(owner, cs, start, units) \in Nat
<1>1. CASE IsTeam(owner)
  BY <1>1 DEF FinishFor
<1>2. CASE ~ IsTeam(owner)
  <2>1. WellFormed(cs[owner])
    BY <1>2 DEF IsTeam, CalendarsOk
  <2>2. FinishFor(owner, cs, start, units) = AddWorkingHours(cs[owner], start, units)
    BY <1>2 DEF FinishFor
  <2> QED BY <2>1, <2>2, AddWorkingHoursIsExact
<1> QED BY <1>1, <1>2

(* No date of the estimate is the error. *)
Answers(e) == Never \notin {e.start, e.p50, e.p80}

(* An estimate that was found starts no sooner than what it waits for, at an *)
(* instant at which the owner works.                                        *)
LEMMA EstimateFacts ==
    ASSUME NEW N \in Nat, NEW t, TaskOk(t), t.deps \subseteq 1 .. N,
           NEW cs, CalendarsOk(cs), NEW clock \in Nat, NEW how,
           NEW est, \A d \in t.deps : est[d].p80 \in Nat,
           NEW e, e = EstimateOf(t, est, cs, clock, how), Answers(e)
    PROVE  /\ e.start \in Nat /\ e.p50 \in Nat /\ e.p80 \in Nat
           /\ IF Terminal(t) THEN e.how = "actual"
              ELSE /\ e.how = how
                   /\ \A d \in t.deps : e.start >= est[d].p80
                   /\ ~ IsTeam(t.owner) => Available(cs[t.owner], e.start)
<1>1. CASE Terminal(t)
  <2>1. PICK at : at = IF t.heartbeat = NoHeartbeat THEN clock ELSE Min({clock, t.heartbeat})
    OBVIOUS
  <2>2. e = [start |-> at, p50 |-> at, p80 |-> at, how |-> "actual"]
    BY <1>1, <2>1 DEF EstimateOf
  <2>3. at \in Nat
    <3>1. CASE t.heartbeat = NoHeartbeat
      BY <2>1, <3>1
    <3>2. CASE t.heartbeat # NoHeartbeat
      <4>1. PICK h \in Nat : h = t.heartbeat
        BY <3>2 DEF TaskOk
      <4>2. Min({clock, h}) \in Nat
        BY MinOfTwo
      <4> QED BY <2>1, <3>2, <4>1, <4>2
    <3> QED BY <3>1, <3>2
  <2> QED BY <1>1, <2>2, <2>3
<1>2. CASE ~ Terminal(t)
  <2>1. PICK ready : ready = ReadyAt(t, est, clock)
    OBVIOUS
  <2>2. ready \in Nat /\ \A d \in t.deps : ready >= est[d].p80
    <3>1. CASE t.deps = {}
      BY <2>1, <3>1 DEF ReadyAt
    <3>2. CASE t.deps # {}
      <4>1. PICK d : d = LastOf(t.deps, est)
        OBVIOUS
      <4>2. d \in t.deps /\ \A o \in t.deps : est[d].p80 >= est[o].p80
        BY <3>2, <4>1, LastOfFacts
      <4>3. PICK p \in Nat : p = est[d].p80
        BY <4>2
      <4>4. Max({clock, p}) = IF clock >= p THEN clock ELSE p
        BY MaxOfTwo
      <4>5. ready = Max({clock, p})
        BY <2>1, <3>2, <4>1, <4>3 DEF ReadyAt
      <4>6. ready \in Nat /\ ready >= p
        <5>1. PICK m \in Nat : m = Max({clock, p}) /\ m >= p
          BY <4>4
        <5> QED BY <4>5, <5>1
      <4>7. \A o \in t.deps : est[o].p80 \in Int /\ p >= est[o].p80
        BY <4>2, <4>3
      <4> QED BY <4>6, <4>7
    <3> QED BY <3>1, <3>2
  <2>3. PICK start : start = StartFor(t.owner, cs, ready)
    OBVIOUS
  <2>4. e = [start |-> start,
             p50   |-> FinishFor(t.owner, cs, start, P50Hours(t)),
             p80   |-> FinishFor(t.owner, cs, start, P80Hours(t)),
             how   |-> how]
    BY <1>2, <2>1, <2>3 DEF EstimateOf
  <2>5. t.owner \in Principal \cup DOMAIN Teams
    BY DEF TaskOk
  <2>6. /\ start \in Nat /\ start >= ready
        /\ ~ IsTeam(t.owner) => Available(cs[t.owner], start)
    <3>1. start # Never
      BY <2>4 DEF Answers
    <3> QED BY <2>2, <2>3, <2>5, <3>1, StartForFacts
  <2>7. P50Hours(t) \in Nat /\ P80Hours(t) \in Nat
    BY HoursType
  <2>8. e.p50 \in Nat
    <3>1. e.p50 = FinishFor(t.owner, cs, start, P50Hours(t)) /\ e.p50 # Never
      BY <2>4 DEF Answers
    <3> QED BY <2>5, <2>6, <2>7, <3>1, FinishForFacts
  <2>9. e.p80 \in Nat
    <3>1. e.p80 = FinishFor(t.owner, cs, start, P80Hours(t)) /\ e.p80 # Never
      BY <2>4 DEF Answers
    <3> QED BY <2>5, <2>6, <2>7, <3>1, FinishForFacts
  <2>10. e.start = start /\ e.how = how
    BY <2>4
  <2>11. \A d \in t.deps : start >= est[d].p80
    BY <2>2, <2>6
  <2> QED BY <1>2, <2>6, <2>8, <2>9, <2>10, <2>11
<1> QED BY <1>1, <1>2

-----------------------------------------------------------------------------
(***************************************************************************)
(* Estimates of a whole flow, in the order of the keys.                    *)
(***************************************************************************)

(* The turns of the loop of schedule and reschedule. *)
PathFrom(last, task) ==
    IF task.deps = {} THEN <<>> ELSE last.path[LastOf(task.deps, last.est)]

EstimateTurn(last, key, tasks, cs, clock, how) ==
    [est  |-> AddEntry(last.est, key, EstimateOf(tasks[key], last.est, cs, clock, how)),
     path |-> AddEntry(last.path, key, Append(PathFrom(last, tasks[key]), key))]

EstimateLoop(f, order, tasks, cs, clock, how, N) ==
    f = [n \in 0 .. N |->
            IF n = 0 THEN [est |-> <<>>, path |-> <<>>]
            ELSE EstimateTurn(f[n - 1], order[n], tasks, cs, clock, how)]

(* The loop is defined. *)
LEMMA EstimateLoopExists ==
    ASSUME NEW order, NEW tasks, NEW cs, NEW clock, NEW how, NEW N \in Nat
    PROVE  \E f : EstimateLoop(f, order, tasks, cs, clock, how, N)
<1>1. PICK T : T = {k \in 0 .. N : \E f : EstimateLoop(f, order, tasks, cs, clock, how, k)}
  OBVIOUS
<1>2. 0 \in T
  <2>1. PICK f : f = [n \in 0 .. 0 |-> [est |-> <<>>, path |-> <<>>]]
    OBVIOUS
  <2>2. EstimateLoop(f, order, tasks, cs, clock, how, 0)
    BY <2>1 DEF EstimateLoop
  <2> QED BY <1>1, <2>2
<1>3. \A k \in 0 .. N - 1 : k \in T => k + 1 \in T
  <2> SUFFICES ASSUME NEW k \in 0 .. N - 1, k \in T
               PROVE  k + 1 \in T
    OBVIOUS
  <2>1. PICK f : EstimateLoop(f, order, tasks, cs, clock, how, k)
    BY <1>1
  <2>2. PICK g : g = [n \in 0 .. k + 1 |->
                        IF n = k + 1 THEN EstimateTurn(f[k], order[n], tasks, cs, clock, how)
                        ELSE f[n]]
    OBVIOUS
  <2>3. EstimateLoop(g, order, tasks, cs, clock, how, k + 1)
    BY <2>1, <2>2 DEF EstimateLoop
  <2> QED BY <1>1, <2>3
<1>4. 0 .. N \subseteq T
  BY <1>2, <1>3, SetInduction
<1> QED BY <1>1, <1>4

(* Estimates is its last state. *)
LEMMA EstimatesAreTheLoop ==
    ASSUME NEW tasks, NEW cs, NEW clock, NEW how,
           NEW order, order = Order(DepsOf(tasks)), Len(order) \in Nat
    PROVE  \E f : /\ EstimateLoop(f, order, tasks, cs, clock, how, Len(order))
                  /\ Estimates(tasks, cs, clock, how) = f[Len(order)]
<1>1. \E f : EstimateLoop(f, order, tasks, cs, clock, how, Len(order))
  BY EstimateLoopExists
<1>2. PICK f : f = CHOOSE g : EstimateLoop(g, order, tasks, cs, clock, how, Len(order))
  OBVIOUS
<1>3. EstimateLoop(f, order, tasks, cs, clock, how, Len(order))
  BY <1>1, <1>2
<1>4. Estimates(tasks, cs, clock, how) = f[Len(order)]
  BY <1>2 DEF Estimates, EstimateLoop, EstimateTurn, PathFrom
<1> QED BY <1>3, <1>4

(* An entry, once made, stays. *)
Kept(f, order, n) ==
    /\ DOMAIN f[n].est = {order[j] : j \in 1 .. n}
    /\ DOMAIN f[n].path = {order[j] : j \in 1 .. n}
    /\ \A j \in 1 .. n : /\ f[n].est[order[j]] = f[j].est[order[j]]
                         /\ f[n].path[order[j]] = f[j].path[order[j]]

(* Later turns leave the estimates of earlier ones alone. *)
LEMMA EntriesAreKept ==
    ASSUME NEW N \in Nat, NEW order, \A i, j \in 1 .. N : order[i] = order[j] => i = j,
           NEW tasks, NEW cs, NEW clock, NEW how,
           NEW f, EstimateLoop(f, order, tasks, cs, clock, how, N)
    PROVE  \A n \in 0 .. N : Kept(f, order, n)
<1>1. PICK T : T = {n \in 0 .. N : Kept(f, order, n)}
  OBVIOUS
<1>2. 0 \in T
  <2>1. f[0] = [est |-> <<>>, path |-> <<>>]
    BY DEF EstimateLoop
  <2>2. f[0].est = <<>> /\ f[0].path = <<>> /\ DOMAIN <<>> = {} /\ {order[j] : j \in 1 .. 0} = {}
    BY <2>1
  <2>3. Kept(f, order, 0)
    BY <2>2 DEF Kept
  <2> QED BY <1>1, <2>3
<1>3. \A n \in 0 .. N - 1 : n \in T => n + 1 \in T
  <2> SUFFICES ASSUME NEW n \in 0 .. N - 1, n \in T
               PROVE  n + 1 \in T
    OBVIOUS
  <2>1. n \in 0 .. N /\ n + 1 \in 0 .. N /\ n + 1 # 0 /\ (n + 1) - 1 = n
    OBVIOUS
  <2>2. f[n + 1] = EstimateTurn(f[n], order[n + 1], tasks, cs, clock, how)
    BY <2>1 DEF EstimateLoop
  <2>3. PICK key : key = order[n + 1]
    OBVIOUS
  <2>4. PICK v : v = EstimateOf(tasks[key], f[n].est, cs, clock, how)
    OBVIOUS
  <2>5. PICK w : w = Append(PathFrom(f[n], tasks[key]), key)
    OBVIOUS
  <2>6. f[n + 1].est = AddEntry(f[n].est, key, v) /\ f[n + 1].path = AddEntry(f[n].path, key, w)
    BY <2>2, <2>3, <2>4, <2>5 DEF EstimateTurn
  <2>6a. /\ DOMAIN f[n + 1].est = DOMAIN f[n].est \cup {key}
         /\ DOMAIN f[n + 1].path = DOMAIN f[n].path \cup {key}
    <3>1. PICK e : e = f[n].est
      OBVIOUS
    <3>2. PICK p : p = f[n].path
      OBVIOUS
    <3>3. DOMAIN AddEntry(e, key, v) = DOMAIN e \cup {key} /\ DOMAIN AddEntry(p, key, w) = DOMAIN p \cup {key}
      BY DEF AddEntry
    <3> QED BY <2>6, <3>1, <3>2, <3>3
  <2>6b. /\ \A k \in DOMAIN f[n].est \ {key} : f[n + 1].est[k] = f[n].est[k]
         /\ \A k \in DOMAIN f[n].path \ {key} : f[n + 1].path[k] = f[n].path[k]
    <3>1. PICK e : e = f[n].est
      OBVIOUS
    <3>2. PICK p : p = f[n].path
      OBVIOUS
    <3>3. /\ \A k \in DOMAIN e \ {key} : AddEntry(e, key, v)[k] = e[k]
          /\ \A k \in DOMAIN p \ {key} : AddEntry(p, key, w)[k] = p[k]
      BY DEF AddEntry
    <3> QED BY <2>6, <3>1, <3>2, <3>3
  <2>7. Kept(f, order, n)
    BY <1>1
  <2>8. \A j \in 1 .. n : order[j] # key
    <3> SUFFICES ASSUME NEW j \in 1 .. n PROVE order[j] # key
      OBVIOUS
    <3>1. j \in 1 .. N /\ n + 1 \in 1 .. N /\ j # n + 1
      OBVIOUS
    <3> QED BY <2>3, <3>1
  <2>9. {order[j] : j \in 1 .. n + 1} = {order[j] : j \in 1 .. n} \cup {key}
    <3>1. \A j \in 1 .. n + 1 : j \in 1 .. n \/ j = n + 1
      OBVIOUS
    <3>2. 1 .. n \subseteq 1 .. n + 1 /\ n + 1 \in 1 .. n + 1
      OBVIOUS
    <3> QED BY <2>3, <3>1, <3>2
  <2>10. /\ DOMAIN f[n + 1].est = {order[j] : j \in 1 .. n + 1}
         /\ DOMAIN f[n + 1].path = {order[j] : j \in 1 .. n + 1}
    BY <2>6a, <2>7, <2>9 DEF Kept
  <2>11. ASSUME NEW j \in 1 .. n + 1
         PROVE  /\ f[n + 1].est[order[j]] = f[j].est[order[j]]
                /\ f[n + 1].path[order[j]] = f[j].path[order[j]]
    <3>1. CASE j = n + 1
      BY <3>1
    <3>2. CASE j # n + 1
      <4>1. j \in 1 .. n
        BY <3>2
      <4>2. order[j] \in DOMAIN f[n].est \ {key} /\ order[j] \in DOMAIN f[n].path \ {key}
        <5>1. order[j] \in {order[i] : i \in 1 .. n} /\ order[j] # key
          BY <2>8, <4>1
        <5> QED BY <2>7, <5>1 DEF Kept
      <4>3. f[n + 1].est[order[j]] = f[n].est[order[j]] /\ f[n + 1].path[order[j]] = f[n].path[order[j]]
        BY <2>6b, <4>2
      <4> QED BY <2>7, <4>1, <4>3 DEF Kept
    <3> QED BY <3>1, <3>2
  <2>12. Kept(f, order, n + 1)
    BY <2>10, <2>11 DEF Kept
  <2> QED BY <1>1, <2>1, <2>12
<1>4. 0 .. N \subseteq T
  BY <1>2, <1>3, SetInduction
<1> QED BY <1>1, <1>4

(* An estimate of dates, after those it waits for, in working time. *)
GoodEstimate(i, e, tasks, cs, how) ==
    /\ e.est[i].start \in Nat /\ e.est[i].p50 \in Nat /\ e.est[i].p80 \in Nat
    /\ IF Terminal(tasks[i]) THEN e.est[i].how = "actual"
       ELSE /\ e.est[i].how = how
            /\ \A d \in tasks[i].deps : e.est[i].start >= e.est[d].p80
            /\ ~ IsTeam(tasks[i].owner) => Available(cs[tasks[i].owner], e.est[i].start)

(* A chain of dependencies that ends in task i, each the one that holds up   *)
(* the next one most.                                                       *)
GoodPath(p, i, est, tasks) ==
    /\ p \in Seq(1 .. Len(tasks)) /\ Len(p) >= 1 /\ p[Len(p)] = i
    /\ tasks[p[1]].deps = {}
    /\ \A k \in 2 .. Len(p) :
          /\ p[k - 1] \in tasks[p[k]].deps
          /\ \A d \in tasks[p[k]].deps : est[p[k - 1]].p80 >= est[d].p80

(* A path continued by a task that waits for its end. *)
LEMMA PathGrows ==
    ASSUME NEW N \in Nat, NEW tasks, Len(tasks) = N, NEW est,
           NEW d \in 1 .. N, NEW p, GoodPath(p, d, est, tasks),
           NEW i \in 1 .. N, d \in tasks[i].deps,
           \A o \in tasks[i].deps : est[d].p80 >= est[o].p80
    PROVE  GoodPath(Append(p, i), i, est, tasks)
<1>1. p \in Seq(1 .. N)
  BY DEF GoodPath
<1>2. PICK m \in Nat : m = Len(p) /\ m >= 1 /\ p[m] = d
  BY <1>1 DEF GoodPath
<1>3. PICK q : q = Append(p, i)
  OBVIOUS
<1>4. /\ q \in Seq(1 .. N) /\ Len(q) = m + 1 /\ q[m + 1] = i
      /\ \A k \in 1 .. m : q[k] = p[k]
  BY <1>1, <1>2, <1>3
<1>5. tasks[q[1]].deps = {}
  <2>1. q[1] = p[1]
    BY <1>2, <1>4
  <2> QED BY <2>1 DEF GoodPath
<1>6. ASSUME NEW k \in 2 .. m + 1
      PROVE  /\ q[k - 1] \in tasks[q[k]].deps
             /\ \A o \in tasks[q[k]].deps : est[q[k - 1]].p80 >= est[o].p80
  <2>1. CASE k = m + 1
    <3>1. q[k] = i /\ q[k - 1] = d
      BY <1>2, <1>4, <2>1
    <3> QED BY <3>1
  <2>2. CASE k # m + 1
    <3>1. k \in 2 .. m /\ k \in 1 .. m /\ k - 1 \in 1 .. m
      BY <2>2
    <3>2. q[k] = p[k] /\ q[k - 1] = p[k - 1]
      BY <1>4, <3>1
    <3> QED BY <1>2, <3>1, <3>2 DEF GoodPath
  <2> QED BY <2>1, <2>2
<1>7. m + 1 >= 1
  OBVIOUS
<1> QED BY <1>3, <1>4, <1>5, <1>6, <1>7 DEF GoodPath

GoodUpTo(j, e, order, tasks, cs, how) ==
    \A l \in 1 .. j : /\ GoodEstimate(order[l], e, tasks, cs, how)
                      /\ GoodPath(e.path[order[l]], order[l], e.est, tasks)

(* An order of the keys of a plan: each once, after what it depends on. *)
GoodOrder(order, tasks, N) ==
    /\ Len(order) = N
    /\ \A i \in 1 .. N : order[i] \in 1 .. N
    /\ \A i, j \in 1 .. N : order[i] = order[j] => i = j
    /\ \A i \in 1 .. N : \E j \in 1 .. N : order[j] = i
    /\ \A k \in 1 .. N : \A d \in tasks[order[k]].deps : \E j \in 1 .. k - 1 : d = order[j]

(* The order of a flow that can be scheduled has every task once. *)
LEMMA OrderCovers ==
    ASSUME NEW N \in Nat, NEW tasks, Len(tasks) = N, Schedulable(tasks)
    PROVE  GoodOrder(Order(DepsOf(tasks)), tasks, N)
<1>1. PICK deps : deps = DepsOf(tasks)
  OBVIOUS
<1>2. deps = [i \in 1 .. N |-> tasks[i].deps]
  BY <1>1 DEF DepsOf
<1>3. \A i \in 1 .. N : deps[i] = tasks[i].deps /\ deps[i] \subseteq 1 .. N
  BY <1>2 DEF Schedulable
<1>4. Len(deps) = N
  <2>1. deps = [i \in 1 .. N |-> deps[i]]
    BY <1>2
  <2>2. \A i \in 1 .. N : deps[i] \in SUBSET (1 .. N)
    BY <1>3
  <2> QED BY <2>1, <2>2, SeqIntro
<1>5. DepsWithin(deps)
  BY <1>3, <1>4 DEF DepsWithin
<1>6. PICK order : order = Order(deps)
  OBVIOUS
<1>7. /\ Len(order) = N /\ Members(order) = 1 .. N
      /\ Topological(order, deps)
  BY <1>1, <1>4, <1>5, <1>6, OrderIsTopological DEF Schedulable
<1>8. order \in Seq(1 .. N)
  BY <1>4, <1>7 DEF Topological
<1>9. \A i \in 1 .. N : order[i] \in 1 .. N
  BY <1>7, <1>8
<1>10. \A i, j \in 1 .. N : order[i] = order[j] => i = j
  BY <1>7 DEF Topological, InjectiveSeq
<1>11. \A i \in 1 .. N : \E j \in 1 .. N : order[j] = i
  BY <1>7 DEF Members
<1>12. \A k \in 1 .. N : \A d \in tasks[order[k]].deps : \E j \in 1 .. k - 1 : d = order[j]
  <2> SUFFICES ASSUME NEW k \in 1 .. N, NEW d \in tasks[order[k]].deps
               PROVE  \E j \in 1 .. k - 1 : d = order[j]
    OBVIOUS
  <2>1. d \in deps[order[k]]
    BY <1>3, <1>9
  <2> QED BY <1>7, <2>1 DEF Topological
<1> QED BY <1>1, <1>6, <1>7, <1>9, <1>10, <1>11, <1>12 DEF GoodOrder

(* Every task is estimated. *)
LEMMA EstimatesDomain ==
    ASSUME NEW N \in Nat, NEW tasks, Len(tasks) = N, Schedulable(tasks),
           NEW cs, NEW clock, NEW how, NEW order, order = Order(DepsOf(tasks))
    PROVE  \E f : /\ EstimateLoop(f, order, tasks, cs, clock, how, N)
                  /\ Estimates(tasks, cs, clock, how) = f[N]
                  /\ \A n \in 0 .. N : Kept(f, order, n)
                  /\ DOMAIN f[N].est = 1 .. N
<1>0. GoodOrder(order, tasks, N)
  BY OrderCovers
<1>1. /\ Len(order) = N
      /\ \A i \in 1 .. N : order[i] \in 1 .. N
      /\ \A i, j \in 1 .. N : order[i] = order[j] => i = j
      /\ \A i \in 1 .. N : \E j \in 1 .. N : order[j] = i
  BY <1>0 DEF GoodOrder
<1>2. PICK f : EstimateLoop(f, order, tasks, cs, clock, how, N) /\ Estimates(tasks, cs, clock, how) = f[N]
  BY <1>1, EstimatesAreTheLoop
<1>3. \A n \in 0 .. N : Kept(f, order, n)
  BY <1>1, <1>2, EntriesAreKept
<1>4. DOMAIN f[N].est = {order[j] : j \in 1 .. N}
  BY <1>3 DEF Kept
<1>5. DOMAIN f[N].est = 1 .. N
  BY <1>1, <1>4
<1> QED BY <1>2, <1>3, <1>5

(* If no date is the error, every estimate and every path is good. *)
LEMMA EstimatesAreGood ==
    ASSUME NEW N \in Nat, NEW tasks, Len(tasks) = N, Schedulable(tasks),
           \A i \in 1 .. N : TaskOk(tasks[i]),
           NEW cs, CalendarsOk(cs), NEW clock \in Nat, NEW how,
           NEW e, e = Estimates(tasks, cs, clock, how), Feasible(e.est)
    PROVE  /\ DOMAIN e.est = 1 .. N
           /\ \A i \in 1 .. N : /\ GoodEstimate(i, e, tasks, cs, how)
                                /\ GoodPath(e.path[i], i, e.est, tasks)
<1>6. PICK order : order = Order(DepsOf(tasks))
  OBVIOUS
<1>8. GoodOrder(order, tasks, N)
  BY <1>6, OrderCovers
<1>9. \A i \in 1 .. N : order[i] \in 1 .. N
  BY <1>8 DEF GoodOrder
<1>11. \A i \in 1 .. N : \E j \in 1 .. N : order[j] = i
  BY <1>8 DEF GoodOrder
<1>12. \A k \in 1 .. N : \A d \in tasks[order[k]].deps : \E j \in 1 .. k - 1 : d = order[j]
  BY <1>8 DEF GoodOrder
<1>13. PICK f : /\ EstimateLoop(f, order, tasks, cs, clock, how, N) /\ e = f[N]
                /\ \A n \in 0 .. N : Kept(f, order, n)
                /\ DOMAIN f[N].est = 1 .. N
  BY <1>6, EstimatesDomain
<1>14. \A n \in 0 .. N : Kept(f, order, n)
  BY <1>13
<1>15. DOMAIN e.est = 1 .. N
  BY <1>13
<1>16. \A j \in 1 .. N : e.est[order[j]] = f[j].est[order[j]] /\ e.path[order[j]] = f[j].path[order[j]]
  BY <1>13, <1>14 DEF Kept
<1>17. ASSUME NEW n \in 0 .. N, NEW j \in 1 .. n
       PROVE  f[n].est[order[j]] = e.est[order[j]] /\ f[n].path[order[j]] = e.path[order[j]]
  <2>1. j \in 1 .. N
    OBVIOUS
  <2>2. Kept(f, order, n)
    BY <1>14
  <2> QED BY <1>16, <2>1, <2>2 DEF Kept
<1>18. PICK T : T = {j \in 0 .. N : GoodUpTo(j, e, order, tasks, cs, how)}
  OBVIOUS
<1>19. 0 \in T
  BY <1>18 DEF GoodUpTo
<1>20. \A n \in 0 .. N - 1 : n \in T => n + 1 \in T
  <2> SUFFICES ASSUME NEW n \in 0 .. N - 1, n \in T
               PROVE  n + 1 \in T
    OBVIOUS
  <2>1. n \in 0 .. N /\ n + 1 \in 0 .. N /\ n + 1 \in 1 .. N /\ n + 1 # 0 /\ (n + 1) - 1 = n
    OBVIOUS
  <2>2. GoodUpTo(n, e, order, tasks, cs, how)
    BY <1>18
  <2>3. PICK key \in 1 .. N : key = order[n + 1]
    BY <1>9, <2>1
  <2>4. PICK t : t = tasks[key]
    OBVIOUS
  <2>5. PICK last : last = f[n]
    OBVIOUS
  <2>6. f[n + 1] = EstimateTurn(last, key, tasks, cs, clock, how)
    BY <1>13, <2>1, <2>3, <2>5 DEF EstimateLoop
  <2>7. PICK v : v = EstimateOf(t, last.est, cs, clock, how)
    OBVIOUS
  <2>8. PICK w : w = Append(PathFrom(last, t), key)
    OBVIOUS
  <2>9. f[n + 1].est = AddEntry(last.est, key, v) /\ f[n + 1].path = AddEntry(last.path, key, w)
    BY <2>4, <2>6, <2>7, <2>8 DEF EstimateTurn
  <2>10. AddEntry(last.est, key, v)[key] = v /\ AddEntry(last.path, key, w)[key] = w
    BY DEF AddEntry
  <2>11. e.est[key] = v /\ e.path[key] = w
    BY <1>16, <2>1, <2>3, <2>9, <2>10
  <2>12. TaskOk(t) /\ t.deps \subseteq 1 .. N
    BY <2>4 DEF Schedulable
  <2>13. \A d \in t.deps : \E j \in 1 .. n : d = order[j]
    BY <1>12, <2>1, <2>3, <2>4
  <2>14. \A d \in t.deps : /\ last.est[d] = e.est[d] /\ last.path[d] = e.path[d]
                           /\ e.est[d].p80 \in Nat
                           /\ GoodPath(e.path[d], d, e.est, tasks)
    <3> SUFFICES ASSUME NEW d \in t.deps
                 PROVE  /\ last.est[d] = e.est[d] /\ last.path[d] = e.path[d]
                        /\ e.est[d].p80 \in Nat
                        /\ GoodPath(e.path[d], d, e.est, tasks)
      OBVIOUS
    <3>1. PICK j \in 1 .. n : d = order[j]
      BY <2>13
    <3>2. GoodEstimate(d, e, tasks, cs, how) /\ GoodPath(e.path[d], d, e.est, tasks)
      BY <2>2, <3>1 DEF GoodUpTo
    <3>3. f[n].est[order[j]] = e.est[order[j]] /\ f[n].path[order[j]] = e.path[order[j]]
      BY <1>17, <2>1
    <3> QED BY <2>5, <3>1, <3>2, <3>3 DEF GoodEstimate
  <2>15. Answers(v)
    BY <1>15, <2>11 DEF Feasible, Answers
  <2>16. \A d \in t.deps : last.est[d].p80 \in Nat
    BY <2>14
  <2>17. /\ v.start \in Nat /\ v.p50 \in Nat /\ v.p80 \in Nat
         /\ IF Terminal(t) THEN v.how = "actual"
            ELSE /\ v.how = how
                 /\ \A d \in t.deps : v.start >= last.est[d].p80
                 /\ ~ IsTeam(t.owner) => Available(cs[t.owner], v.start)
    BY <2>7, <2>12, <2>15, <2>16, EstimateFacts
  <2>18. GoodEstimate(key, e, tasks, cs, how)
    BY <2>4, <2>11, <2>14, <2>17 DEF GoodEstimate
  <2>19. GoodPath(w, key, e.est, tasks)
    <3>1. CASE t.deps = {}
      <4>1. w = Append(<<>>, key)
        BY <2>8, <3>1 DEF PathFrom
      <4>2. w \in Seq(1 .. N) /\ Len(w) = 1 /\ w[1] = key
        BY <4>1
      <4>3. 2 .. Len(w) = {}
        BY <4>2
      <4> QED BY <2>4, <3>1, <4>2, <4>3 DEF GoodPath
    <3>2. CASE t.deps # {}
      <4>1. PICK d : d = LastOf(t.deps, last.est)
        OBVIOUS
      <4>2. d \in t.deps /\ \A o \in t.deps : last.est[d].p80 >= last.est[o].p80
        BY <2>12, <2>16, <3>2, <4>1, LastOfFacts
      <4>3. w = Append(e.path[d], key)
        BY <2>8, <2>14, <3>2, <4>1, <4>2 DEF PathFrom
      <4>4. \A o \in t.deps : e.est[d].p80 >= e.est[o].p80
        BY <2>14, <4>2
      <4>5. d \in 1 .. N /\ GoodPath(e.path[d], d, e.est, tasks)
        BY <2>12, <2>14, <4>2
      <4> QED BY <2>4, <4>2, <4>3, <4>4, <4>5, PathGrows
    <3> QED BY <3>1, <3>2
  <2>20. \A l \in 1 .. n + 1 : l \in 1 .. n \/ l = n + 1
    OBVIOUS
  <2>21. GoodUpTo(n + 1, e, order, tasks, cs, how)
    BY <2>2, <2>3, <2>11, <2>18, <2>19, <2>20 DEF GoodUpTo
  <2> QED BY <1>18, <2>1, <2>21
<1>21. 0 .. N \subseteq T
  BY <1>19, <1>20, SetInduction
<1>22. GoodUpTo(N, e, order, tasks, cs, how)
  BY <1>18, <1>21
<1>23. \A i \in 1 .. N : /\ GoodEstimate(i, e, tasks, cs, how)
                         /\ GoodPath(e.path[i], i, e.est, tasks)
  <2> SUFFICES ASSUME NEW i \in 1 .. N
               PROVE  /\ GoodEstimate(i, e, tasks, cs, how)
                      /\ GoodPath(e.path[i], i, e.est, tasks)
    OBVIOUS
  <2>1. PICK j \in 1 .. N : order[j] = i
    BY <1>11
  <2> QED BY <1>22, <2>1 DEF GoodUpTo
<1> QED BY <1>15, <1>23

-----------------------------------------------------------------------------
(***************************************************************************)
(* The plan that schedule and reschedule make of a flow.                   *)
(***************************************************************************)

(* A value that is a sequence, whatever its elements are. *)
IsSeq(s) == Len(s) \in Nat /\ s = [i \in 1 .. Len(s) |-> s[i]]

(* Such a value is a sequence of its own elements. *)
LEMMA SeqOfItsOwn ==
    ASSUME NEW s, IsSeq(s)
    PROVE  /\ s \in Seq({s[i] : i \in 1 .. Len(s)})
           /\ s # <<>> <=> Len(s) # 0
<1>1. PICK n \in Nat : n = Len(s)
  BY DEF IsSeq
<1>2. PICK E : E = {s[i] : i \in 1 .. n}
  OBVIOUS
<1>3. s = [i \in 1 .. n |-> s[i]] /\ \A i \in 1 .. n : s[i] \in E
  BY <1>1, <1>2 DEF IsSeq
<1>4. s \in Seq(E)
  BY <1>3, SeqIntro
<1>5. s # <<>> => Len(s) # 0
  BY <1>4, EmptySeq
<1>6. Len(s) # 0 => s # <<>>
  BY EmptySeq
<1> QED BY <1>1, <1>2, <1>4, <1>5, <1>6

(* A function on 1 .. n is such a value. *)
LEMMA IsSeqIntro ==
    ASSUME NEW n \in Nat, NEW f, f = [i \in 1 .. n |-> f[i]]
    PROVE  IsSeq(f) /\ Len(f) = n
<1>1. PICK E : E = {f[i] : i \in 1 .. n}
  OBVIOUS
<1>2. \A i \in 1 .. n : f[i] \in E
  BY <1>1
<1>3. Len(f) = n
  BY <1>2, SeqIntro
<1> QED BY <1>3 DEF IsSeq

(* A record with the fields of a Task. *)
IsTask(t) ==
    t = [deps |-> t.deps, effort |-> t.effort, human |-> t.human,
         caps |-> t.caps, owner |-> t.owner, copilots |-> t.copilots,
         status |-> t.status, heartbeat |-> t.heartbeat, est |-> t.est]

(* A list of tasks as the scheduler takes it. *)
TasksOk(tasks) ==
    /\ IsSeq(tasks)
    /\ \A i \in 1 .. Len(tasks) : IsTask(tasks[i]) /\ TaskOk(tasks[i])

(* Whether a flow can be scheduled depends on its dependencies alone. *)
LEMMA SchedulableByDeps ==
    ASSUME NEW a, IsSeq(a), NEW b, IsSeq(b), Len(a) = Len(b),
           \A i \in 1 .. Len(a) : a[i].deps = b[i].deps, Schedulable(a)
    PROVE  Schedulable(b)
<1>1. DepsOf(a) = DepsOf(b)
  BY DEF DepsOf
<1>2. b # <<>>
  BY SeqOfItsOwn DEF Schedulable
<1> QED BY <1>1, <1>2 DEF Schedulable

(* What a plan in time promises: every unfinished task begins once all it    *)
(* waits for has reached its P80, and when its owner works by calendars cs;   *)
(* the path is a chain of dependencies that ends in the finish date.         *)
Starts(tasks) ==
    \A i \in 1 .. Len(tasks) : tasks[i].est.how # "actual" =>
        \A d \in tasks[i].deps : tasks[i].est.start >= tasks[d].est.p80

Attended(tasks, cs) ==
    \A i \in 1 .. Len(tasks) :
        ~ Terminal(tasks[i]) /\ ~ IsTeam(tasks[i].owner) =>
            Available(cs[tasks[i].owner], tasks[i].est.start)

Ests(tasks) == [i \in 1 .. Len(tasks) |-> tasks[i].est]

PathExplains(path, tasks, p80) ==
    path # <<>> => \E i \in 1 .. Len(tasks) :
        GoodPath(path, i, Ests(tasks), tasks) /\ tasks[i].est.p80 = p80

(* No date of a plan is the error. *)
DatesOk(tasks) ==
    \A i \in 1 .. Len(tasks) : Never \notin {tasks[i].est.start, tasks[i].est.p50, tasks[i].est.p80}

(* Path and finish date are those of one task. *)
OfOne(s, e, N) == \E i \in 1 .. N : s.path = e.path[i] /\ s.p80 = e.est[i].p80

(* The finish date and the critical path are those of the task that ends   *)
(* last.                                                                   *)
LEMMA SummaryIsGood ==
    ASSUME NEW N \in Nat, NEW e, NEW open, open \subseteq 1 .. N, NEW clock,
           \A i \in 1 .. N : e.est[i].p80 \in Nat,
           Summary(e, open, clock).path # <<>>
    PROVE  OfOne(Summary(e, open, clock), e, N)
<1>0. PICK s : s = Summary(e, open, clock)
  OBVIOUS
<1>1. open # {}
  BY <1>0 DEF Summary
<1>2. PICK i : i = LastOf(open, e.est)
  OBVIOUS
<1>3. i \in open /\ \A o \in open : e.est[i].p80 >= e.est[o].p80
  <2>1. PICK est : est = e.est
    OBVIOUS
  <2>2. \A d \in open : est[d].p80 \in Int
    BY <2>1
  <2>3. LastOf(open, est) \in open /\ \A o \in open : est[LastOf(open, est)].p80 >= est[o].p80
    BY <1>1, <2>2, LastOfFacts
  <2> QED BY <1>2, <2>1, <2>3
<1>4. s.path = e.path[i]
  BY <1>0, <1>1, <1>2 DEF Summary
<1>5. PICK P : P = {e.est[j].p80 : j \in open}
  OBVIOUS
<1>6. s.p80 = Max(P)
  BY <1>0, <1>1, <1>5 DEF Summary
<1>7. PICK x \in Nat : x = e.est[i].p80
  BY <1>3
<1>8. x \in P /\ \A y \in P : x >= y
  BY <1>3, <1>5, <1>7
<1>9. P \subseteq Nat
  BY <1>5
<1>10. Max(P) = x
  <2>1. Max(P) \in P /\ \A y \in P : Max(P) >= y
    BY <1>8 DEF Max
  <2>2. PICK m \in P : m = Max(P)
    BY <2>1
  <2>3. m \in Nat /\ x >= m /\ m >= x
    BY <1>8, <1>9, <2>1, <2>2
  <2> QED BY <2>2, <2>3
<1> QED BY <1>0, <1>3, <1>4, <1>6, <1>7, <1>10 DEF OfOne

(* The plan after schedule or reschedule. *)
LEMMA ScheduledIsGood ==
    ASSUME NEW tasks, TasksOk(tasks), Schedulable(tasks), NEW cs, CalendarsOk(cs),
           NEW clock \in Nat, NEW how, NEW open, open \subseteq 1 .. Len(tasks),
           NEW s, s = Summary(Estimates(tasks, cs, clock, how), open, clock),
           Feasible(s.est),
           NEW status, NEW fl, fl = Scheduled(status, tasks, s)
    PROVE  /\ fl = [status |-> status, tasks |-> fl.tasks, p50 |-> fl.p50, p80 |-> fl.p80, path |-> fl.path]
           /\ Len(fl.tasks) = Len(tasks)
           /\ \A i \in 1 .. Len(tasks) : fl.tasks[i] = [tasks[i] EXCEPT !.est = s.est[i]]
           /\ TasksOk(fl.tasks) /\ Schedulable(fl.tasks)
           /\ Starts(fl.tasks) /\ Attended(fl.tasks, cs)
           /\ PathExplains(fl.path, fl.tasks, fl.p80)
           /\ DatesOk(fl.tasks)
           /\ \A i \in 1 .. Len(tasks) : ~ Terminal(tasks[i]) => fl.tasks[i].est.how = how
<1>1. PICK N \in Nat : N = Len(tasks)
  BY DEF TasksOk, IsSeq
<1>2. PICK e : e = Estimates(tasks, cs, clock, how)
  OBVIOUS
<1>3. s.est = e.est
  BY <1>2 DEF Summary
<1>4. \A i \in 1 .. N : IsTask(tasks[i]) /\ TaskOk(tasks[i])
  BY <1>1 DEF TasksOk
<1>5. \A i \in 1 .. N : GoodEstimate(i, e, tasks, cs, how) /\ GoodPath(e.path[i], i, e.est, tasks)
  BY <1>1, <1>2, <1>3, <1>4, EstimatesAreGood
<1>6. PICK ts : ts = [i \in 1 .. N |-> [tasks[i] EXCEPT !.est = s.est[i]]]
  OBVIOUS
<1>7. fl = [status |-> status, tasks |-> ts, p50 |-> s.p50, p80 |-> s.p80, path |-> s.path]
  BY <1>1, <1>6 DEF Scheduled
<1>8. fl.tasks = ts /\ fl.p80 = s.p80 /\ fl.path = s.path
  BY <1>7
<1>9. IsSeq(ts) /\ Len(ts) = N
  BY <1>6, IsSeqIntro
<1>10. \A i \in 1 .. N : ts[i] = [tasks[i] EXCEPT !.est = e.est[i]]
  BY <1>3, <1>6
<1>11. ASSUME NEW i \in 1 .. N
       PROVE  /\ IsTask(ts[i]) /\ ts[i].deps = tasks[i].deps /\ ts[i].effort = tasks[i].effort
              /\ ts[i].owner = tasks[i].owner /\ ts[i].heartbeat = tasks[i].heartbeat
              /\ ts[i].status = tasks[i].status /\ ts[i].est = e.est[i]
  <2>1. PICK t : t = tasks[i]
    OBVIOUS
  <2>2. PICK x : x = e.est[i]
    OBVIOUS
  <2>3. PICK u : u = [t EXCEPT !.est = x]
    OBVIOUS
  <2>4. t = [deps |-> t.deps, effort |-> t.effort, human |-> t.human,
             caps |-> t.caps, owner |-> t.owner, copilots |-> t.copilots,
             status |-> t.status, heartbeat |-> t.heartbeat, est |-> t.est]
    BY <1>4, <2>1 DEF IsTask
  <2>5. u = [deps |-> t.deps, effort |-> t.effort, human |-> t.human,
             caps |-> t.caps, owner |-> t.owner, copilots |-> t.copilots,
             status |-> t.status, heartbeat |-> t.heartbeat, est |-> x]
    BY <2>3, <2>4
  <2>6. IsTask(u) /\ u.deps = t.deps /\ u.effort = t.effort /\ u.owner = t.owner
        /\ u.heartbeat = t.heartbeat /\ u.status = t.status /\ u.est = x
    BY <2>5 DEF IsTask
  <2>7. ts[i] = u
    BY <1>10, <2>1, <2>2, <2>3
  <2> QED BY <2>1, <2>2, <2>6, <2>7
<1>12. TasksOk(ts)
  BY <1>4, <1>9, <1>11 DEF TasksOk, TaskOk
<1>13. Schedulable(ts)
  <2>1. IsSeq(tasks) /\ \A i \in 1 .. N : ts[i].deps = tasks[i].deps
    BY <1>11 DEF TasksOk
  <2> QED BY <1>1, <1>9, <2>1, SchedulableByDeps
<1>14. \A i \in 1 .. N : tasks[i].deps \subseteq 1 .. N
  BY <1>1 DEF Schedulable
<1>15. Starts(ts)
  <2> SUFFICES ASSUME NEW i \in 1 .. N, ts[i].est.how # "actual", NEW d \in ts[i].deps
               PROVE  ts[i].est.start >= ts[d].est.p80
    BY <1>9 DEF Starts
  <2>1. d \in tasks[i].deps /\ d \in 1 .. N
    BY <1>11, <1>14
  <2>2. ~ Terminal(tasks[i])
    BY <1>5, <1>11 DEF GoodEstimate
  <2>3. e.est[i].start >= e.est[d].p80
    BY <1>5, <2>1, <2>2 DEF GoodEstimate
  <2> QED BY <1>11, <2>1, <2>3
<1>16. Attended(ts, cs)
  <2> SUFFICES ASSUME NEW i \in 1 .. N, ~ Terminal(ts[i]), ~ IsTeam(ts[i].owner)
               PROVE  Available(cs[ts[i].owner], ts[i].est.start)
    BY <1>9 DEF Attended
  <2>1. ~ Terminal(tasks[i])
    BY <1>11 DEF Terminal
  <2> QED BY <1>5, <1>11, <2>1 DEF GoodEstimate
<1>17. DatesOk(ts)
  BY <1>5, <1>9, <1>11 DEF DatesOk, GoodEstimate, Never
<1>18. PathExplains(s.path, ts, s.p80)
  <2> SUFFICES ASSUME s.path # <<>>
               PROVE  \E i \in 1 .. N : GoodPath(s.path, i, Ests(ts), ts) /\ ts[i].est.p80 = s.p80
    BY <1>9 DEF PathExplains
  <2>1. \A i \in 1 .. N : e.est[i].p80 \in Nat
    BY <1>5 DEF GoodEstimate
  <2>2. PICK i \in 1 .. N : s.path = e.path[i] /\ s.p80 = e.est[i].p80
    <3>1. open \subseteq 1 .. N /\ s = Summary(e, open, clock)
      BY <1>1, <1>2
    <3>2. Summary(e, open, clock).path # <<>>
      BY <3>1
    <3>3. OfOne(Summary(e, open, clock), e, N)
      BY <2>1, <3>1, <3>2, SummaryIsGood
    <3> QED BY <3>1, <3>3 DEF OfOne
  <2>3. PICK p : p = e.path[i]
    OBVIOUS
  <2>4. GoodPath(p, i, e.est, tasks)
    BY <1>5, <2>3
  <2>5. \A j \in 1 .. N : Ests(ts)[j] = e.est[j]
    BY <1>9, <1>11 DEF Ests
  <2>6. p \in Seq(1 .. N) /\ Len(p) \in Nat /\ Len(p) >= 1 /\ p[Len(p)] = i
    BY <1>1, <2>4 DEF GoodPath
  <2>7. \A k \in 1 .. Len(p) : p[k] \in 1 .. N
    BY <2>6
  <2>8. ts[p[1]].deps = {}
    <3>1. p[1] \in 1 .. N
      BY <2>6, <2>7
    <3> QED BY <1>11, <2>4, <3>1 DEF GoodPath
  <2>9. ASSUME NEW k \in 2 .. Len(p)
        PROVE  /\ p[k - 1] \in ts[p[k]].deps
               /\ \A d \in ts[p[k]].deps : Ests(ts)[p[k - 1]].p80 >= Ests(ts)[d].p80
    <3>1. p[k] \in 1 .. N /\ p[k - 1] \in 1 .. N
      <4>1. k \in 1 .. Len(p) /\ k - 1 \in 1 .. Len(p)
        BY <2>6
      <4> QED BY <2>7, <4>1
    <3>2. ts[p[k]].deps = tasks[p[k]].deps /\ tasks[p[k]].deps \subseteq 1 .. N
      BY <1>11, <1>14, <3>1
    <3>3. p[k - 1] \in tasks[p[k]].deps /\ \A d \in tasks[p[k]].deps : e.est[p[k - 1]].p80 >= e.est[d].p80
      BY <2>4 DEF GoodPath
    <3> QED BY <2>5, <3>1, <3>2, <3>3
  <2>10. GoodPath(p, i, Ests(ts), ts)
    BY <1>9, <2>6, <2>8, <2>9 DEF GoodPath
  <2> QED BY <1>11, <2>2, <2>3, <2>10
<1>19. \A i \in 1 .. N : ~ Terminal(tasks[i]) => ts[i].est.how = how
  BY <1>5, <1>11 DEF GoodEstimate
<1>20. fl = [status |-> status, tasks |-> fl.tasks, p50 |-> fl.p50, p80 |-> fl.p80, path |-> fl.path]
  BY <1>7
<1> QED BY <1>1, <1>3, <1>8, <1>9, <1>10, <1>12, <1>13, <1>15, <1>16, <1>17, <1>18, <1>19, <1>20

-----------------------------------------------------------------------------
(***************************************************************************)
(* Who is matched (application/matcher.rs).                                *)
(***************************************************************************)

(* A candidate with the best score, the first by name among equals. *)
IsBest(p, U, score) ==
    p \in U /\ \A q \in U : score[p] > score[q] \/ (score[p] = score[q] /\ p <= q)

HasBest(n, D, score) ==
    \A U \in SUBSET D : Cardinality(U) = n /\ U # {} => \E p : IsBest(p, U, score)

(* There is one among finitely many. *)
LEMMA BestExists ==
    ASSUME NEW D, D \subseteq Nat, IsFiniteSet(D), D # {},
           NEW score, \A p \in D : score[p] \in Int
    PROVE  \E p : IsBest(p, D, score)
<1>1. PICK N \in Nat : N = Cardinality(D)
  BY FS_CardinalityType
<1>2. PICK T : T = {n \in 0 .. N : HasBest(n, D, score)}
  OBVIOUS
<1>3. 0 \in T
  <2>1. ASSUME NEW U \in SUBSET D, Cardinality(U) = 0
        PROVE  U = {}
    <3>1. IsFiniteSet(U)
      BY FS_Subset
    <3> QED BY <2>1, <3>1, FS_EmptySet
  <2>2. HasBest(0, D, score)
    BY <2>1 DEF HasBest
  <2> QED BY <1>2, <2>2
<1>4. \A n \in 0 .. N - 1 : n \in T => n + 1 \in T
  <2> SUFFICES ASSUME NEW n \in 0 .. N - 1, n \in T
               PROVE  HasBest(n + 1, D, score)
    BY <1>2
  <2>1. HasBest(n, D, score)
    BY <1>2
  <2> SUFFICES ASSUME NEW U \in SUBSET D, Cardinality(U) = n + 1, U # {}
               PROVE  \E p : IsBest(p, U, score)
    BY DEF HasBest
  <2>2. PICK x \in U : TRUE
    OBVIOUS
  <2>3. PICK V : V = U \ {x}
    OBVIOUS
  <2>4. IsFiniteSet(U)
    BY FS_Subset
  <2>5. Cardinality(V) = n /\ V \in SUBSET D
    <3>1. Cardinality(U \ {x}) = Cardinality(U) - 1
      BY <2>4, FS_RemoveElement
    <3> QED BY <2>3, <3>1
  <2>6. CASE V = {}
    <3>1. U = {x}
      BY <2>3, <2>6
    <3>2. IsBest(x, U, score)
      BY <3>1 DEF IsBest
    <3> QED BY <3>2
  <2>7. CASE V # {}
    <3>1. PICK v : IsBest(v, V, score)
      BY <2>1, <2>5, <2>7 DEF HasBest
    <3>2. v \in V /\ v \in D /\ v \in Nat /\ x \in Nat
      BY <2>5, <3>1 DEF IsBest
    <3>3. PICK a \in Int : a = score[v]
      BY <3>2
    <3>4. PICK b \in Int : b = score[x]
      OBVIOUS
    <3>5. \A q \in V : score[q] \in Int /\ q \in Nat /\ (a > score[q] \/ (a = score[q] /\ v <= q))
      BY <2>5, <3>1, <3>3 DEF IsBest
    <3>6. \A q \in U : q \in V \/ q = x
      BY <2>3
    <3>7. CASE b > a \/ (b = a /\ x <= v)
      <4>1. \A q \in U : b > score[q] \/ (b = score[q] /\ x <= q)
        BY <3>2, <3>4, <3>5, <3>6, <3>7
      <4>2. IsBest(x, U, score)
        BY <3>4, <4>1 DEF IsBest
      <4> QED BY <4>2
    <3>8. CASE ~ (b > a \/ (b = a /\ x <= v))
      <4>1. \A q \in U : a > score[q] \/ (a = score[q] /\ v <= q)
        BY <3>2, <3>4, <3>5, <3>6, <3>8
      <4>2. IsBest(v, U, score)
        BY <2>3, <3>2, <3>3, <4>1 DEF IsBest
      <4> QED BY <4>2
    <3> QED BY <3>7, <3>8
  <2> QED BY <2>6, <2>7
<1>5. 0 .. N \subseteq T
  BY <1>3, <1>4, SetInduction
<1>6. HasBest(N, D, score)
  BY <1>2, <1>5
<1>7. D \in SUBSET D
  OBVIOUS
<1> QED BY <1>1, <1>6, <1>7 DEF HasBest

-----------------------------------------------------------------------------
(* The score in the terms that differ between people of one profile. *)
Merit(p, calendar, clock) ==
    DayLength * (7000 + 30 * People[p].capacity + (IF People[p].executor THEN 300 ELSE 0))
    - Min({500 * Delay(calendar, clock), 2500 * DayLength})

Burden(load) == Min({750 * load, 3000})

ScoreSplits(p, load, calendar, clock) ==
    /\ Score(p, load, calendar, clock) \in Int
    /\ Merit(p, calendar, clock) \in Int
    /\ Score(p, load, calendar, clock) = Merit(p, calendar, clock) - DayLength * Burden(load)

(* The score is the merit without the burden of the load. *)
LEMMA ScoreFacts ==
    ASSUME NEW p \in Principal, NEW load \in Nat, NEW calendar, WellFormed(calendar),
           NEW clock \in Nat
    PROVE  ScoreSplits(p, load, calendar, clock)
<1>1. PICK cap \in Nat : cap = People[p].capacity
  BY PeopleAssumption
<1>2. PICK d \in Nat : d = DayLength
  BY CalendarAssumption
<1>3. PICK x \in Nat : x = IF People[p].executor THEN 300 ELSE 0
  OBVIOUS
<1>4. PICK delay \in Int : delay = Delay(calendar, clock)
  <2>1. CASE NextAvailable(calendar, clock) = Never
    BY <2>1 DEF Delay
  <2>2. CASE NextAvailable(calendar, clock) # Never
    <3>1. NextAvailable(calendar, clock) \in Nat
      BY <2>2, NextAvailableIsEarliest
    <3> QED BY <2>2, <3>1 DEF Delay
  <2> QED BY <2>1, <2>2
<1>5. PICK late \in Int : late = Min({500 * delay, 2500 * d})
  BY MinOfTwo
<1>6. PICK l \in Int : l = Min({750 * load, 3000})
  BY MinOfTwo
<1>7. Score(p, load, calendar, clock) = d * (7000 + 30 * cap + x - l) - late
  BY <1>1, <1>2, <1>3, <1>4, <1>5, <1>6 DEF Score
<1>8. Merit(p, calendar, clock) = d * (7000 + 30 * cap + x) - late
  BY <1>1, <1>2, <1>3, <1>4, <1>5 DEF Merit
<1>9. PICK y \in Nat : y = 7000 + 30 * cap + x
  OBVIOUS
<1>10. PICK a \in Int : a = d * y
  OBVIOUS
<1>11. PICK b \in Int : b = d * l
  OBVIOUS
<1>12. d * (y - l) = a - b
  BY <1>10, <1>11
<1>13. 7000 + 30 * cap + x - l = y - l
  BY <1>9
<1>14. Score(p, load, calendar, clock) = (a - b) - late /\ Merit(p, calendar, clock) = a - late
  BY <1>7, <1>8, <1>9, <1>10, <1>12, <1>13
<1> QED BY <1>2, <1>6, <1>11, <1>14 DEF ScoreSplits, Burden

(* The score is an integer. *)
LEMMA ScoreType ==
    ASSUME NEW p \in Principal, NEW load \in Nat, NEW calendar, WellFormed(calendar),
           NEW clock \in Nat
    PROVE  Score(p, load, calendar, clock) \in Int
BY ScoreFacts DEF ScoreSplits

(* Loads are natural numbers. *)
LoadOk(load) == \A p \in Principal : load[p] \in Nat

Owned(p, draft) == [owner |-> p, copilots |-> Copilots(p, draft)]

Scores(draft, load, cs, clock) ==
    [p \in Candidates(draft) |-> Score(p, load[p], cs[p], clock)]

(* Who is matched: a best candidate, or a team, or nobody. *)
LEMMA MatchFacts ==
    ASSUME NEW draft, NEW load, LoadOk(load), NEW cs, CalendarsOk(cs), NEW clock \in Nat,
           NEW m, m = Match(draft, load, cs, clock)
    PROVE  /\ m.owner \in Principal \cup DOMAIN Teams \cup {Nobody}
           /\ Candidates(draft) # {} =>
                 IsBest(m.owner, Candidates(draft), Scores(draft, load, cs, clock))
           /\ m.owner \in Principal /\ m.owner \notin DOMAIN Teams => Candidates(draft) # {}
<1>1. PICK C : C = Candidates(draft)
  OBVIOUS
<1>2. C \subseteq Principal
  BY <1>1 DEF Candidates
<1>3. PICK score : score = Scores(draft, load, cs, clock)
  OBVIOUS
<1>4. \A p \in C : score[p] \in Int
  <2> SUFFICES ASSUME NEW p \in C PROVE score[p] \in Int
    OBVIOUS
  <2>1. p \in Principal /\ load[p] \in Nat /\ WellFormed(cs[p])
    BY <1>2 DEF LoadOk, CalendarsOk
  <2>2. score[p] = Score(p, load[p], cs[p], clock)
    BY <1>1, <1>3 DEF Scores
  <2>3. PICK l \in Nat : l = load[p]
    BY <2>1
  <2>4. PICK k : k = cs[p]
    OBVIOUS
  <2>5. WellFormed(k)
    BY <2>1, <2>4
  <2>6. Score(p, l, k, clock) \in Int
    <3>1. p \in Principal
      BY <2>1
    <3> QED BY <2>5, <3>1, ScoreType
  <2> QED BY <2>2, <2>3, <2>4, <2>6
<1>5. CASE C # {}
  <2>1. C \subseteq Nat /\ IsFiniteSet(C)
    BY <1>2, PeopleAssumption, FS_Subset
  <2>2. \E p : IsBest(p, C, score)
    BY <1>4, <1>5, <2>1, BestExists
  <2>3. PICK p : p = CHOOSE x \in DOMAIN score : \A q \in DOMAIN score :
                        score[x] > score[q] \/ (score[x] = score[q] /\ x <= q)
    OBVIOUS
  <2>4. DOMAIN score = C
    BY <1>1, <1>3 DEF Scores
  <2>5. IsBest(p, C, score)
    BY <2>2, <2>3, <2>4 DEF IsBest
  <2>6. m = [owner |-> p, copilots |-> Copilots(p, draft)]
    BY <1>1, <1>3, <1>5, <2>3 DEF Match, Scores
  <2>7. m.owner = p /\ p \in C
    BY <2>5, <2>6 DEF IsBest
  <2> QED BY <1>1, <1>2, <1>3, <1>5, <2>5, <2>7
<1>6. CASE C = {} /\ CandidateTeams(draft) # {}
  <2>1. PICK S : S = CandidateTeams(draft)
    OBVIOUS
  <2>2. S \subseteq DOMAIN Teams
    BY <2>1 DEF CandidateTeams
  <2>3. S \subseteq Int /\ S # {} /\ \A x \in S : 0 <= x
    <3>1. S \subseteq Nat /\ S # {}
      BY <1>6, <2>1, <2>2, PeopleAssumption
    <3> QED BY <3>1
  <2>4. Min(S) \in S
    <3>1. 0 \in Int
      OBVIOUS
    <3> QED BY <2>3, <3>1, LeastFrom, Zenon
  <2>5. m = [owner |-> Min(S), copilots |-> {}]
    BY <1>1, <1>6, <2>1 DEF Match
  <2>6. m.owner \in DOMAIN Teams
    BY <2>2, <2>4, <2>5
  <2> QED BY <1>1, <1>6, <2>6
<1>7. CASE C = {} /\ CandidateTeams(draft) = {}
  <2>1. m = [owner |-> Nobody, copilots |-> {}]
    BY <1>1, <1>7 DEF Match
  <2>2. m.owner = Nobody /\ Nobody \notin Principal
    BY <2>1, PeopleAssumption
  <2> QED BY <1>1, <1>7, <2>2
<1> QED BY <1>5, <1>6, <1>7

-----------------------------------------------------------------------------
(***************************************************************************)
(* The tasks of a plan, matched one after the other.                       *)
(***************************************************************************)

(* The turns of the loop of land_plan. *)
MatchTurn(last, draft, cs, clock) ==
    LET m == Match(draft, last.load, cs, clock)
    IN  [load   |-> [p \in Principal |-> last.load[p] + (IF p = m.owner THEN 1 ELSE 0)],
         chosen |-> Append(last.chosen, m)]

MatchLoop(f, drafts, load, cs, clock, N) ==
    f = [n \in 0 .. N |->
            IF n = 0 THEN [load |-> load, chosen |-> <<>>]
            ELSE MatchTurn(f[n - 1], drafts[n], cs, clock)]

(* The loop is defined. *)
LEMMA MatchLoopExists ==
    ASSUME NEW drafts, NEW load, NEW cs, NEW clock, NEW N \in Nat
    PROVE  \E f : MatchLoop(f, drafts, load, cs, clock, N)
<1>1. PICK T : T = {k \in 0 .. N : \E f : MatchLoop(f, drafts, load, cs, clock, k)}
  OBVIOUS
<1>2. 0 \in T
  <2>1. PICK f : f = [n \in 0 .. 0 |-> [load |-> load, chosen |-> <<>>]]
    OBVIOUS
  <2>2. MatchLoop(f, drafts, load, cs, clock, 0)
    BY <2>1 DEF MatchLoop
  <2> QED BY <1>1, <2>2
<1>3. \A k \in 0 .. N - 1 : k \in T => k + 1 \in T
  <2> SUFFICES ASSUME NEW k \in 0 .. N - 1, k \in T
               PROVE  k + 1 \in T
    OBVIOUS
  <2>1. PICK f : MatchLoop(f, drafts, load, cs, clock, k)
    BY <1>1
  <2>2. PICK g : g = [n \in 0 .. k + 1 |->
                        IF n = k + 1 THEN MatchTurn(f[k], drafts[n], cs, clock)
                        ELSE f[n]]
    OBVIOUS
  <2>3. MatchLoop(g, drafts, load, cs, clock, k + 1)
    BY <2>1, <2>2 DEF MatchLoop
  <2> QED BY <1>1, <2>3
<1>4. 0 .. N \subseteq T
  BY <1>2, <1>3, SetInduction
<1> QED BY <1>1, <1>4

(* MatchAll is what its last state has chosen. *)
LEMMA MatchAllIsTheLoop ==
    ASSUME NEW drafts, NEW load, NEW cs, NEW clock, Len(drafts) \in Nat
    PROVE  \E f : /\ MatchLoop(f, drafts, load, cs, clock, Len(drafts))
                  /\ MatchAll(drafts, load, cs, clock) = f[Len(drafts)].chosen
<1>1. \E f : MatchLoop(f, drafts, load, cs, clock, Len(drafts))
  BY MatchLoopExists
<1>2. PICK f : f = CHOOSE g : MatchLoop(g, drafts, load, cs, clock, Len(drafts))
  OBVIOUS
<1>3. MatchLoop(f, drafts, load, cs, clock, Len(drafts))
  BY <1>1, <1>2
<1>4. MatchAll(drafts, load, cs, clock) = f[Len(drafts)].chosen
  BY <1>2 DEF MatchAll, MatchLoop, MatchTurn
<1> QED BY <1>3, <1>4

(* The tasks among the first n that p has got. *)
Got(chosen, p, n) == {i \in 1 .. n : chosen[i].owner = p}

(* After n turns: as many choices, each of them a match under the load of its *)
(* turn, and a load that counts them.                                        *)
Matched(f, drafts, cs, clock, n) ==
    /\ IsSeq(f[n].chosen) /\ Len(f[n].chosen) = n
    /\ \A i \in 1 .. n : f[n].chosen[i] = Match(drafts[i], f[i - 1].load, cs, clock)
    /\ \A p \in Principal : /\ f[n].load[p] = Cardinality(Got(f[n].chosen, p, n))
                            /\ f[n].load[p] \in Nat

NoLoad == [p \in Principal |-> 0]

(* Every state of the loop is such. *)
LEMMA MatchesCount ==
    ASSUME NEW N \in Nat, NEW drafts, NEW cs, NEW clock,
           NEW f, MatchLoop(f, drafts, NoLoad, cs, clock, N)
    PROVE  \A n \in 0 .. N : Matched(f, drafts, cs, clock, n)
<1>1. PICK T : T = {n \in 0 .. N : Matched(f, drafts, cs, clock, n)}
  OBVIOUS
<1>2. 0 \in T
  <2>1. f[0].load = NoLoad /\ f[0].chosen = <<>>
    BY DEF MatchLoop
  <2>2. Len(<<>>) = 0 /\ IsSeq(<<>>)
    BY EmptySeq DEF IsSeq
  <2>3. \A p \in Principal : Got(f[0].chosen, p, 0) = {}
    BY DEF Got
  <2>4. Cardinality({}) = 0
    BY FS_EmptySet
  <2>5. \A p \in Principal : f[0].load[p] = 0
    BY <2>1 DEF NoLoad
  <2>6. \A p \in Principal : f[0].load[p] = Cardinality(Got(f[0].chosen, p, 0)) /\ f[0].load[p] \in Nat
    BY <2>3, <2>4, <2>5
  <2>7. Matched(f, drafts, cs, clock, 0)
    BY <2>1, <2>2, <2>6 DEF Matched
  <2> QED BY <1>1, <2>7
<1>3. \A n \in 0 .. N - 1 : n \in T => n + 1 \in T
  <2> SUFFICES ASSUME NEW n \in 0 .. N - 1, n \in T
               PROVE  n + 1 \in T
    OBVIOUS
  <2>0. Matched(f, drafts, cs, clock, n)
    BY <1>1
  <2>1. n \in 0 .. N /\ n + 1 \in 0 .. N /\ n + 1 # 0 /\ (n + 1) - 1 = n /\ n \in Nat
    OBVIOUS
  <2>2. f[n + 1] = MatchTurn(f[n], drafts[n + 1], cs, clock)
    BY <2>1 DEF MatchLoop
  <2>3. PICK m : m = Match(drafts[n + 1], f[n].load, cs, clock)
    OBVIOUS
  <2>4. PICK old : old = f[n].chosen
    OBVIOUS
  <2>5. PICK new : new = f[n + 1].chosen
    OBVIOUS
  <2>6. new = Append(old, m)
    BY <2>2, <2>3, <2>4, <2>5 DEF MatchTurn
  <2>7. \A p \in Principal : f[n + 1].load[p] = f[n].load[p] + (IF p = m.owner THEN 1 ELSE 0)
    BY <2>2, <2>3 DEF MatchTurn
  <2>8. IsSeq(old) /\ Len(old) = n
    BY <2>0, <2>4 DEF Matched
  <2>9. IsSeq(new) /\ Len(new) = n + 1 /\ new[n + 1] = m /\ \A i \in 1 .. n : new[i] = old[i]
    <3>1. PICK E : E = {old[i] : i \in 1 .. n} \cup {m}
      OBVIOUS
    <3>2. old = [i \in 1 .. n |-> old[i]] /\ \A i \in 1 .. n : old[i] \in E
      BY <2>8, <3>1 DEF IsSeq
    <3>3. old \in Seq(E) /\ m \in E
      BY <2>1, <3>1, <3>2, SeqIntro
    <3>4. /\ new \in Seq(E) /\ Len(new) = n + 1
          /\ \A i \in 1 .. n : new[i] = old[i]
          /\ new[n + 1] = m
      <4>1. PICK len \in Nat : len = Len(old) /\ len = n
        BY <2>1, <2>8
      <4>2. /\ Append(old, m) \in Seq(E) /\ Len(Append(old, m)) = Len(old) + 1
            /\ \A i \in 1 .. Len(old) : Append(old, m)[i] = old[i]
            /\ Append(old, m)[Len(old) + 1] = m
        BY <3>3, AppendProperties
      <4> QED BY <2>6, <4>1, <4>2
    <3>5. new = [i \in 1 .. n + 1 |-> new[i]]
      BY <3>4
    <3>6. PICK k \in Nat : k = n + 1
      BY <2>1
    <3>7. IsSeq(new)
      BY <3>5, <3>6, IsSeqIntro
    <3> QED BY <3>4, <3>7
  <2>10. \A i \in 1 .. n + 1 : new[i] = Match(drafts[i], f[i - 1].load, cs, clock)
    <3> SUFFICES ASSUME NEW i \in 1 .. n + 1
                 PROVE  new[i] = Match(drafts[i], f[i - 1].load, cs, clock)
      OBVIOUS
    <3>1. CASE i = n + 1
      BY <2>1, <2>3, <2>9, <3>1
    <3>2. CASE i # n + 1
      <4>1. i \in 1 .. n
        BY <2>1, <3>2
      <4> QED BY <2>0, <2>4, <2>9, <4>1 DEF Matched
    <3> QED BY <3>1, <3>2
  <2>11. ASSUME NEW p \in Principal
         PROVE  f[n + 1].load[p] = Cardinality(Got(new, p, n + 1)) /\ f[n + 1].load[p] \in Nat
    <3>1. PICK A : A = Got(old, p, n)
      OBVIOUS
    <3>2. PICK B : B = Got(new, p, n + 1)
      OBVIOUS
    <3>3. PICK l \in Nat : l = f[n].load[p] /\ l = Cardinality(A)
      BY <2>0, <2>4, <3>1 DEF Matched
    <3>4. \A i : i \in 1 .. n + 1 <=> i \in 1 .. n \/ i = n + 1
      BY <2>1
    <3>5. IsFiniteSet(A) /\ n + 1 \notin A
      <4>1. A \subseteq 1 .. n
        BY <3>1 DEF Got
      <4>2. IsFiniteSet(1 .. n)
        <5>1. 1 \in Int /\ n \in Int
          BY <2>1
        <5> QED BY <5>1, FS_Interval
      <4>3. IsFiniteSet(A)
        BY <4>1, <4>2, FS_Subset
      <4> QED BY <2>1, <4>1, <4>3
    <3>5a. \A i : i \in B <=> (i \in 1 .. n /\ new[i].owner = p) \/ (i = n + 1 /\ m.owner = p)
      BY <2>9, <3>2, <3>4 DEF Got
    <3>5b. \A i : i \in A <=> i \in 1 .. n /\ new[i].owner = p
      BY <2>9, <3>1 DEF Got
    <3>6. CASE m.owner = p
      <4>0. \A i : i \in B <=> i \in A \/ i = n + 1
        BY <3>5a, <3>5b, <3>6
      <4>1. B = A \cup {n + 1}
        BY <4>0
      <4>2. Cardinality(B) = l + 1
        BY <3>3, <3>5, <4>1, FS_AddElement
      <4>3. f[n + 1].load[p] = l + 1
        BY <2>7, <3>3, <3>6
      <4> QED BY <3>2, <4>2, <4>3
    <3>7. CASE m.owner # p
      <4>0. \A i : i \in B <=> i \in A
        BY <3>5a, <3>5b, <3>7
      <4>1. B = A
        BY <4>0
      <4>2. f[n + 1].load[p] = l
        <5>1. f[n + 1].load[p] = f[n].load[p] + 0
          BY <2>7, <3>7
        <5>2. l + 0 = l
          OBVIOUS
        <5> QED BY <3>3, <5>1, <5>2, Zenon
      <4> QED BY <3>2, <3>3, <4>1, <4>2
    <3> QED BY <3>6, <3>7
  <2>12. Matched(f, drafts, cs, clock, n + 1)
    BY <2>5, <2>9, <2>10, <2>11 DEF Matched
  <2> QED BY <1>1, <2>1, <2>12
<1>4. 0 .. N \subseteq T
  BY <1>2, <1>3, SetInduction
<1> QED BY <1>1, <1>4

(* The smaller burden makes the better score. *)
LEMMA ScaledOrder ==
    ASSUME NEW d \in Nat, d > 0, NEW a \in Int, NEW b \in Int, NEW m \in Int,
           m - d * a >= m - d * b
    PROVE  a <= b
<1>1. SUFFICES ASSUME a > b PROVE FALSE
  OBVIOUS
<1>2. PICK c \in Nat : c = a - b /\ c >= 1
  BY <1>1
<1>3. d * a = d * b + d * c
  <2>1. a = b + c
    BY <1>2
  <2> QED BY <2>1
<1>4. d * c > 0
  BY <1>2, Z3T(60)
<1>5. PICK x \in Int : x = d * a
  OBVIOUS
<1>6. PICK y \in Int : y = d * b
  OBVIOUS
<1>7. PICK z \in Int : z = d * c
  BY <1>2
<1> QED BY <1>3, <1>4, <1>5, <1>6, <1>7

(* Below four tasks the burden tells loads apart. *)
LEMMA BurdenOrder ==
    ASSUME NEW k \in Nat, NEW l \in Nat, l < 4, Burden(k) <= Burden(l)
    PROVE  k <= l
<1>1. Burden(k) = IF 750 * k <= 3000 THEN 750 * k ELSE 3000
  BY MinOfTwo DEF Burden
<1>2. Burden(l) = IF 750 * l <= 3000 THEN 750 * l ELSE 3000
  BY MinOfTwo DEF Burden
<1> QED BY <1>1, <1>2

(* Of two alike, the one who is chosen has no heavier load, or the other's is *)
(* past counting.                                                           *)
LEMMA LighterIsChosen ==
    ASSUME NEW draft, NEW load, LoadOk(load), NEW cs, CalendarsOk(cs), NEW clock \in Nat,
           NEW p \in Principal, NEW q \in Principal, People[p] = People[q], cs[p] = cs[q],
           Match(draft, load, cs, clock).owner = p, load[q] < 4
    PROVE  load[p] <= load[q]
<1>1. PICK m : m = Match(draft, load, cs, clock)
  OBVIOUS
<1>2. PICK C : C = Candidates(draft)
  OBVIOUS
<1>3. PICK score : score = Scores(draft, load, cs, clock)
  OBVIOUS
<1>4. p \notin DOMAIN Teams
  BY PeopleAssumption
<1>5. IsBest(p, C, score)
  <2>1. m.owner = p
    BY <1>1
  <2>2. m.owner \in Principal /\ m.owner \notin DOMAIN Teams => Candidates(draft) # {}
    BY <1>1, MatchFacts
  <2>3. Candidates(draft) # {} => IsBest(m.owner, Candidates(draft), Scores(draft, load, cs, clock))
    BY <1>1, MatchFacts
  <2> QED BY <1>2, <1>3, <1>4, <2>1, <2>2, <2>3
<1>6. p \in C /\ q \in C
  BY <1>2, <1>5 DEF IsBest, Candidates
<1>7. PICK k \in Nat : k = load[p]
  BY DEF LoadOk
<1>8. PICK l \in Nat : l = load[q]
  BY DEF LoadOk
<1>9. PICK c : c = cs[p] /\ c = cs[q]
  OBVIOUS
<1>10. WellFormed(c)
  BY <1>9 DEF CalendarsOk
<1>11. score[p] = Score(p, k, c, clock) /\ score[q] = Score(q, l, c, clock)
  BY <1>2, <1>3, <1>6, <1>7, <1>8, <1>9 DEF Scores
<1>12. ScoreSplits(p, k, c, clock) /\ ScoreSplits(q, l, c, clock)
  BY <1>10, ScoreFacts
<1>13. Merit(p, c, clock) = Merit(q, c, clock)
  BY DEF Merit
<1>14. PICK a \in Int : a = Score(p, k, c, clock)
  BY <1>12 DEF ScoreSplits
<1>15. PICK b \in Int : b = Score(q, l, c, clock)
  BY <1>12 DEF ScoreSplits
<1>16. PICK x \in Int : x = Merit(p, c, clock)
  BY <1>12 DEF ScoreSplits
<1>17. a >= b
  BY <1>5, <1>6, <1>11, <1>14, <1>15 DEF IsBest
<1>18. PICK d \in Nat : d = DayLength /\ d > 0
  BY CalendarAssumption
<1>19. PICK u \in Int : u = Burden(k)
  BY MinOfTwo DEF Burden
<1>20. PICK v \in Int : v = Burden(l)
  BY MinOfTwo DEF Burden
<1>21. a = x - d * u /\ b = x - d * v
  BY <1>12, <1>13, <1>14, <1>15, <1>16, <1>18, <1>19, <1>20 DEF ScoreSplits
<1>22. u <= v
  <2>1. x - d * u >= x - d * v
    BY <1>17, <1>21
  <2> QED BY <1>18, <2>1, ScaledOrder
<1>23. k <= l
  <2>1. Burden(k) <= Burden(l) /\ l < 4
    BY <1>8, <1>19, <1>20, <1>22
  <2> QED BY <2>1, BurdenOrder
<1> QED BY <1>7, <1>8, <1>23

(* Two alike share a plan equally, give or take one. *)
LEMMA AlikeShareAlike ==
    ASSUME NEW plan, NEW N \in Nat, N = Len(plan), NEW cs, CalendarsOk(cs), NEW clock \in Nat,
           NEW chosen, chosen = MatchAll(plan, NoLoad, cs, clock),
           NEW p \in Principal, NEW q \in Principal, People[p] = People[q], cs[p] = cs[q],
           Cardinality(Got(chosen, q, N)) < 4
    PROVE  Cardinality(Got(chosen, p, N)) <= Cardinality(Got(chosen, q, N)) + 1
<1>1. PICK f : MatchLoop(f, plan, NoLoad, cs, clock, N) /\ chosen = f[N].chosen
  BY MatchAllIsTheLoop
<1>2. \A n \in 0 .. N : Matched(f, plan, cs, clock, n)
  BY <1>1, MatchesCount
<1>3. \A i \in 1 .. N : chosen[i] = Match(plan[i], f[i - 1].load, cs, clock)
  BY <1>1, <1>2 DEF Matched
<1>4. PICK P : P = Got(chosen, p, N)
  OBVIOUS
<1>5. PICK Q : Q = Got(chosen, q, N)
  OBVIOUS
<1>6. P \subseteq 1 .. N /\ Q \subseteq 1 .. N
  BY <1>4, <1>5 DEF Got
<1>7. IsFiniteSet(P) /\ IsFiniteSet(Q)
  <2>1. 1 \in Int /\ N \in Int
    OBVIOUS
  <2>2. IsFiniteSet(1 .. N)
    BY <2>1, FS_Interval
  <2> QED BY <1>6, <2>2, FS_Subset
<1>8. PICK a \in Nat : a = Cardinality(P)
  BY <1>7, FS_CardinalityType
<1>9. PICK b \in Nat : b = Cardinality(Q)
  BY <1>7, FS_CardinalityType
<1>9a. b < 4
  BY <1>5, <1>9
<1>10. CASE P = {}
  <2>1. a = 0
    BY <1>8, <1>10, FS_EmptySet
  <2>2. a <= b + 1
    BY <2>1
  <2> QED BY <1>4, <1>5, <1>8, <1>9, <2>2
<1>11. CASE P # {}
  <2>1. PICK i : i \in P /\ \A j \in P : j <= i
    <3>1. PICK score : score = [j \in P |-> j]
      OBVIOUS
    <3>2. P \subseteq Nat /\ \A j \in P : score[j] \in Int
      BY <1>6, <3>1
    <3>3. PICK i : IsBest(i, P, score)
      BY <1>7, <1>11, <3>2, BestExists
    <3> QED BY <3>1, <3>2, <3>3 DEF IsBest
  <2>2. i \in 1 .. N /\ i \in Nat /\ i - 1 \in 0 .. N /\ chosen[i].owner = p
    BY <1>4, <1>6, <2>1 DEF Got
  <2>3. PICK n \in Nat : n = i - 1
    BY <2>2
  <2>4. Matched(f, plan, cs, clock, n)
    BY <1>2, <2>2, <2>3
  <2>5. PICK load : load = f[n].load
    OBVIOUS
  <2>6. PICK old : old = f[n].chosen
    OBVIOUS
  <2>7. \A j \in 1 .. n : j \in 1 .. N /\ old[j] = chosen[j]
    <3>1. \A j \in 1 .. n : j \in 1 .. N
      BY <2>2, <2>3
    <3> QED BY <1>3, <2>4, <2>6, <3>1 DEF Matched
  <2>8. LoadOk(load) /\ load[p] = Cardinality(Got(old, p, n)) /\ load[q] = Cardinality(Got(old, q, n))
    BY <2>4, <2>5, <2>6 DEF Matched, LoadOk
  <2>9. load[p] = a - 1
    <3>1. \A j : j \in Got(old, p, n) <=> j \in 1 .. n /\ chosen[j].owner = p
      BY <2>7 DEF Got
    <3>2. \A j : j \in P \ {i} <=> j \in 1 .. n /\ chosen[j].owner = p
      <4>1. \A j : j \in P \ {i} => j \in 1 .. n /\ chosen[j].owner = p
        <5>1. ASSUME NEW j, j \in P, j # i PROVE j \in 1 .. n
          <6>1. j \in 1 .. N /\ j <= i
            BY <1>6, <2>1, <5>1
          <6> QED BY <2>2, <2>3, <5>1, <6>1
        <5> QED BY <1>4, <5>1 DEF Got
      <4>2. \A j : j \in 1 .. n /\ chosen[j].owner = p => j \in P \ {i}
        <5>1. \A j \in 1 .. n : j # i
          BY <2>2, <2>3
        <5> QED BY <1>4, <2>7, <5>1 DEF Got
      <4> QED BY <4>1, <4>2
    <3>3. Got(old, p, n) = P \ {i}
      BY <3>1, <3>2
    <3>4. Cardinality(P \ {i}) = Cardinality(P) - 1
      BY <1>7, <2>1, FS_RemoveElement
    <3> QED BY <1>8, <2>8, <3>3, <3>4
  <2>10. load[q] \in Nat /\ load[q] <= b
    <3>1. Got(old, q, n) \subseteq Q
      BY <1>5, <2>7 DEF Got
    <3>2. Cardinality(Got(old, q, n)) <= Cardinality(Q)
      BY <1>7, <3>1, FS_Subset
    <3>3. load[q] \in Nat
      BY <2>8 DEF LoadOk
    <3> QED BY <1>9, <2>8, <3>2, <3>3
  <2>11. PICK l \in Nat : l = load[q]
    BY <2>10
  <2>12. l <= b /\ l < 4
    BY <1>9a, <2>10, <2>11
  <2>13. load[p] <= load[q]
    <3>1. Match(plan[i], load, cs, clock).owner = p
      BY <1>3, <2>2, <2>3, <2>5
    <3>2. load[q] < 4
      BY <2>11, <2>12
    <3>3. LoadOk(load)
      BY <2>8
    <3>4. PICK draft : draft = plan[i]
      OBVIOUS
    <3>5. Match(draft, load, cs, clock).owner = p
      BY <3>1, <3>4
    <3> QED BY <3>2, <3>3, <3>5, LighterIsChosen
  <2>14. a <= b + 1
    BY <2>9, <2>11, <2>12, <2>13
  <2> QED BY <1>4, <1>5, <1>8, <1>9, <2>14
<1> QED BY <1>10, <1>11

-----------------------------------------------------------------------------
(***************************************************************************)
(* The invariant of Scheduling, and its parts under the edits of a flow.   *)
(***************************************************************************)

(* A configured calendar: a record of its fields that validate accepts. *)
IsCalendar(c) ==
    /\ c = [offset |-> c.offset, days |-> c.days, from |-> c.from, to |-> c.to, off |-> c.off]
    /\ WellFormed(c)

(* A plan that can be carried out: tasks the scheduler can order, none before *)
(* what it waits for, and a path that explains the finish date.              *)
PlanOk(fl) ==
    /\ Schedulable(fl.tasks)
    /\ Starts(fl.tasks)
    /\ PathExplains(fl.path, fl.tasks, fl.p80)

(* A flow under way. *)
InProgress(fl) == fl.status \in {"Approved", "Active"}

(* A flow: a plan that can be carried out from the draft on, in which      *)
(* nothing has begun before it is approved and something is left to do     *)
(* until it is completed.                                                  *)
FlowOk(fl) ==
    /\ fl = [status |-> fl.status, tasks |-> fl.tasks, p50 |-> fl.p50, p80 |-> fl.p80, path |-> fl.path]
    /\ fl.status \in {"None", "Draft", "Approved", "Active", "Completed"}
    /\ TasksOk(fl.tasks)
    /\ fl.status = "None" => fl = NoFlow
    /\ fl.status # "None" => PlanOk(fl)
    /\ fl.status = "Draft" => \A i \in 1 .. Len(fl.tasks) :
          fl.tasks[i].status = "Proposed" /\ fl.tasks[i].est.how = "medium"
    /\ InProgress(fl) => \E i \in 1 .. Len(fl.tasks) : fl.tasks[i].status # "Completed"
    /\ fl.status = "Completed" => \A i \in 1 .. Len(fl.tasks) : fl.tasks[i].status = "Completed"

(* What was rescheduled begins when its owner works. *)
Attends(fl, cs) ==
    InProgress(fl) => \A i \in 1 .. Len(fl.tasks) :
        /\ fl.tasks[i].est.how = "rescheduled"
        /\ ~ Terminal(fl.tasks[i]) /\ ~ IsTeam(fl.tasks[i].owner)
        => Available(cs[fl.tasks[i].owner], fl.tasks[i].est.start)

(* A change on offer: a task that the flow can take, proposed when         *)
(* something was left to do.                                               *)
ChangeOk(ch, fl) ==
    ch = NoChange \/
    /\ ch = [task |-> <<ch.task[1]>>, statuses |-> ch.statuses, p80 |-> ch.p80]
    /\ IsTask(ch.task[1]) /\ TaskOk(ch.task[1])
    /\ fl.status \in {"Approved", "Active", "Completed"}
    /\ Schedulable(Append(fl.tasks, ch.task[1]))
    /\ \E i \in 1 .. Len(fl.tasks) : ch.statuses[i] # "Completed"

(* The inductive invariant. *)
TimeInv ==
    /\ now \in Nat
    /\ calendars = [p \in Principal |-> calendars[p]]
    /\ \A p \in Principal : IsCalendar(calendars[p])
    /\ FlowOk(flow)
    /\ Attends(flow, calendars)
    /\ ChangeOk(change, flow)

-----------------------------------------------------------------------------
(* A task with the fields that negotiation and execution change. *)
Edited(t, effort, owner, copilots, status, heartbeat) ==
    [deps |-> t.deps, effort |-> effort, human |-> t.human,
     caps |-> t.caps, owner |-> owner, copilots |-> copilots,
     status |-> status, heartbeat |-> heartbeat, est |-> t.est]

(* It is a task still, with the dependencies and dates it had. *)
LEMMA EditedFacts ==
    ASSUME NEW t, NEW e \in Nat, NEW o \in Principal \cup DOMAIN Teams, NEW c, NEW s,
           NEW h \in Nat \cup {NoHeartbeat}, NEW u, u = Edited(t, e, o, c, s, h)
    PROVE  /\ IsTask(u) /\ TaskOk(u) /\ u.deps = t.deps /\ u.est = t.est
           /\ u.status = s /\ u.owner = o
BY DEF Edited, IsTask, TaskOk

(* us is ts with task i replaced by t. *)
Replaced(us, ts, i, t) ==
    /\ Len(us) = Len(ts) /\ us[i] = t
    /\ \A j \in 1 .. Len(ts) : j # i => us[j] = ts[j]

(* The list is one the scheduler takes still. *)
LEMMA ReplaceFacts ==
    ASSUME NEW ts, TasksOk(ts), NEW i \in 1 .. Len(ts), NEW t, IsTask(t), TaskOk(t),
           NEW us, us = [ts EXCEPT ![i] = t]
    PROVE  TasksOk(us) /\ Replaced(us, ts, i, t)
<1>1. PICK N \in Nat : N = Len(ts)
  BY DEF TasksOk, IsSeq
<1>2. ts = [j \in 1 .. N |-> ts[j]] /\ i \in 1 .. N
  BY <1>1 DEF TasksOk, IsSeq
<1>3. us = [j \in 1 .. N |-> IF j = i THEN t ELSE ts[j]]
  BY <1>2
<1>4. us = [j \in 1 .. N |-> us[j]] /\ us[i] = t /\ \A j \in 1 .. N : j # i => us[j] = ts[j]
  BY <1>2, <1>3
<1>5. IsSeq(us) /\ Len(us) = N
  BY <1>4, IsSeqIntro
<1>6. \A j \in 1 .. N : IsTask(us[j]) /\ TaskOk(us[j])
  BY <1>1, <1>4 DEF TasksOk
<1> QED BY <1>1, <1>4, <1>5, <1>6 DEF TasksOk, Replaced

(* us is ts and one task more. *)
Longer(us, ts, t) ==
    /\ Len(us) = Len(ts) + 1 /\ us[Len(ts) + 1] = t
    /\ \A j \in 1 .. Len(ts) : us[j] = ts[j]

(* So is the longer list. *)
LEMMA OneMore ==
    ASSUME NEW ts, TasksOk(ts), NEW t, IsTask(t), TaskOk(t)
    PROVE  TasksOk(Append(ts, t)) /\ Longer(Append(ts, t), ts, t)
<1>0. PICK us : us = Append(ts, t)
  OBVIOUS
<1>1. PICK n \in Nat : n = Len(ts)
  BY DEF TasksOk, IsSeq
<1>2. PICK E : E = {ts[i] : i \in 1 .. n} \cup {t}
  OBVIOUS
<1>3. ts = [i \in 1 .. n |-> ts[i]] /\ \A i \in 1 .. n : ts[i] \in E
  BY <1>1, <1>2 DEF TasksOk, IsSeq
<1>4. ts \in Seq(E) /\ t \in E
  BY <1>2, <1>3, SeqIntro
<1>5. /\ us \in Seq(E) /\ Len(us) = Len(ts) + 1
      /\ \A i \in 1 .. Len(ts) : us[i] = ts[i]
      /\ us[Len(ts) + 1] = t
  <2>1. /\ Append(ts, t) \in Seq(E) /\ Len(Append(ts, t)) = Len(ts) + 1
        /\ \A i \in 1 .. Len(ts) : Append(ts, t)[i] = ts[i]
        /\ Append(ts, t)[Len(ts) + 1] = t
    BY <1>4, AppendProperties
  <2> QED BY <1>0, <2>1, Zenon
<1>6. us \in Seq(E) /\ Len(us) = n + 1 /\ us[n + 1] = t /\ \A i \in 1 .. n : us[i] = ts[i]
  BY <1>1, <1>5
<1>7. PICK k \in Nat : k = n + 1
  BY <1>1
<1>8. us = [i \in 1 .. k |-> us[i]]
  <2>1. PICK vs : vs = us
    OBVIOUS
  <2>2. vs \in Seq(E) /\ Len(vs) = k
    BY <1>6, <1>7, <2>1
  <2>3. vs = [i \in 1 .. k |-> vs[i]]
    BY <2>2
  <2> QED BY <2>1, <2>3, Zenon
<1>9. IsSeq(us)
  BY <1>7, <1>8, IsSeqIntro
<1>10. \A i \in 1 .. k : i \in 1 .. n \/ i = n + 1
  BY <1>7
<1>11. \A i \in 1 .. k : IsTask(us[i]) /\ TaskOk(us[i])
  BY <1>1, <1>6, <1>10 DEF TasksOk
<1>12. TasksOk(us)
  BY <1>6, <1>7, <1>9, <1>11 DEF TasksOk
<1>13. Longer(us, ts, t)
  BY <1>1, <1>6 DEF Longer
<1> QED BY <1>0, <1>12, <1>13

(* The plan stays as good when neither dependencies nor dates change. *)
LEMMA SamePlan ==
    ASSUME NEW fl, TasksOk(fl.tasks), PlanOk(fl), NEW gl, TasksOk(gl.tasks),
           Len(gl.tasks) = Len(fl.tasks), gl.path = fl.path, gl.p80 = fl.p80,
           \A i \in 1 .. Len(fl.tasks) : /\ gl.tasks[i].deps = fl.tasks[i].deps
                                         /\ gl.tasks[i].est = fl.tasks[i].est
    PROVE  PlanOk(gl)
<1>1. PICK N \in Nat : N = Len(fl.tasks) /\ N = Len(gl.tasks)
  BY DEF TasksOk, IsSeq
<1>2. PICK ts : ts = fl.tasks
  OBVIOUS
<1>3. PICK us : us = gl.tasks
  OBVIOUS
<1>4. IsSeq(ts) /\ IsSeq(us) /\ Len(ts) = Len(us) /\ Len(ts) = N
  BY <1>1, <1>2, <1>3 DEF TasksOk
<1>5. \A i \in 1 .. N : ts[i].deps = us[i].deps /\ ts[i].est = us[i].est
  BY <1>1, <1>2, <1>3
<1>6. Schedulable(ts)
  BY <1>2 DEF PlanOk
<1>7. Schedulable(us)
  <2>1. \A i \in 1 .. Len(ts) : ts[i].deps = us[i].deps
    BY <1>4, <1>5
  <2> QED BY <1>4, <1>6, <2>1, SchedulableByDeps
<1>8. \A i \in 1 .. N : ts[i].deps \subseteq 1 .. N
  BY <1>4, <1>6 DEF Schedulable
<1>9. Starts(us)
  <2> SUFFICES ASSUME NEW i \in 1 .. N, us[i].est.how # "actual", NEW d \in us[i].deps
               PROVE  us[i].est.start >= us[d].est.p80
    BY <1>4 DEF Starts
  <2>1. d \in ts[i].deps /\ d \in 1 .. N
    BY <1>5, <1>8
  <2>2. ts[i].est.how # "actual" /\ Starts(ts)
    BY <1>2, <1>5 DEF PlanOk
  <2>3. ts[i].est.start >= ts[d].est.p80
    BY <1>4, <2>1, <2>2 DEF Starts
  <2> QED BY <1>5, <2>1, <2>3
<1>10. PathExplains(gl.path, us, gl.p80)
  <2>1. PathExplains(fl.path, ts, fl.p80)
    BY <1>2 DEF PlanOk
  <2> SUFFICES ASSUME gl.path # <<>>
               PROVE  \E i \in 1 .. N : GoodPath(gl.path, i, Ests(us), us) /\ us[i].est.p80 = gl.p80
    BY <1>4 DEF PathExplains
  <2>2. PICK p : p = gl.path /\ p = fl.path
    OBVIOUS
  <2>3. PICK i \in 1 .. N : GoodPath(p, i, Ests(ts), ts) /\ ts[i].est.p80 = fl.p80
    BY <1>4, <2>1, <2>2 DEF PathExplains
  <2>4. Ests(us) = Ests(ts)
    BY <1>4, <1>5 DEF Ests
  <2>5. p \in Seq(1 .. N) /\ Len(p) \in Nat /\ Len(p) >= 1 /\ p[Len(p)] = i
    BY <1>4, <2>3 DEF GoodPath
  <2>6. \A k \in 1 .. Len(p) : p[k] \in 1 .. N
    BY <2>5
  <2>7. us[p[1]].deps = {}
    <3>1. p[1] \in 1 .. N
      BY <2>5, <2>6
    <3> QED BY <1>5, <2>3, <3>1 DEF GoodPath
  <2>8. ASSUME NEW k \in 2 .. Len(p)
        PROVE  /\ p[k - 1] \in us[p[k]].deps
               /\ \A d \in us[p[k]].deps : Ests(us)[p[k - 1]].p80 >= Ests(us)[d].p80
    <3>1. p[k] \in 1 .. N
      <4>1. k \in 1 .. Len(p)
        BY <2>5
      <4> QED BY <2>6, <4>1
    <3>2. us[p[k]].deps = ts[p[k]].deps
      BY <1>5, <3>1
    <3>3. p[k - 1] \in ts[p[k]].deps /\ \A d \in ts[p[k]].deps : Ests(ts)[p[k - 1]].p80 >= Ests(ts)[d].p80
      BY <2>3 DEF GoodPath
    <3> QED BY <2>4, <3>2, <3>3
  <2>9. GoodPath(p, i, Ests(us), us)
    BY <1>4, <2>5, <2>7, <2>8 DEF GoodPath
  <2> QED BY <1>5, <2>2, <2>3, <2>9
<1> QED BY <1>3, <1>7, <1>9, <1>10 DEF PlanOk

(* A task with another estimate is the same task. *)
LEMMA OtherEstimate ==
    ASSUME NEW t, IsTask(t), NEW x, NEW u, u = [t EXCEPT !.est = x]
    PROVE  /\ IsTask(u) /\ u.est = x /\ u.deps = t.deps /\ u.effort = t.effort
           /\ u.owner = t.owner /\ u.status = t.status /\ u.heartbeat = t.heartbeat
<1>1. t = [deps |-> t.deps, effort |-> t.effort, human |-> t.human,
           caps |-> t.caps, owner |-> t.owner, copilots |-> t.copilots,
           status |-> t.status, heartbeat |-> t.heartbeat, est |-> t.est]
  BY DEF IsTask
<1>2. u = [deps |-> t.deps, effort |-> t.effort, human |-> t.human,
           caps |-> t.caps, owner |-> t.owner, copilots |-> t.copilots,
           status |-> t.status, heartbeat |-> t.heartbeat, est |-> x]
  BY <1>1
<1> QED BY <1>2 DEF IsTask

(* reschedule, for a flow under way. *)
LEMMA Rescheduled ==
    ASSUME NEW ts, TasksOk(ts), Schedulable(ts), NEW cs, CalendarsOk(cs), NEW clock \in Nat,
           NEW s, s = Reschedule(ts, cs, clock), Feasible(s.est),
           NEW status, status \in {"Approved", "Active"},
           NEW j \in 1 .. Len(ts), ts[j].status # "Completed",
           NEW fl, fl = Scheduled(status, ts, s)
    PROVE  /\ FlowOk(fl) /\ Attends(fl, cs) /\ fl.status = status
           /\ Len(fl.tasks) = Len(ts)
           /\ \A i \in 1 .. Len(ts) : fl.tasks[i].deps = ts[i].deps
<1>1. PICK open : open = {i \in 1 .. Len(ts) : ~ Terminal(ts[i])}
  OBVIOUS
<1>2. PICK how : how = "rescheduled"
  OBVIOUS
<1>3. s = Summary(Estimates(ts, cs, clock, how), open, clock) /\ open \subseteq 1 .. Len(ts)
  BY <1>1, <1>2 DEF Reschedule
<1>4. /\ fl = [status |-> status, tasks |-> fl.tasks, p50 |-> fl.p50, p80 |-> fl.p80, path |-> fl.path]
      /\ Len(fl.tasks) = Len(ts)
      /\ \A i \in 1 .. Len(ts) : fl.tasks[i] = [ts[i] EXCEPT !.est = s.est[i]]
      /\ TasksOk(fl.tasks) /\ Schedulable(fl.tasks)
      /\ Starts(fl.tasks) /\ Attended(fl.tasks, cs)
      /\ PathExplains(fl.path, fl.tasks, fl.p80)
  BY <1>3, ScheduledIsGood
<1>5. \A i \in 1 .. Len(ts) : fl.tasks[i].deps = ts[i].deps /\ fl.tasks[i].status = ts[i].status
  <2> SUFFICES ASSUME NEW i \in 1 .. Len(ts)
               PROVE  fl.tasks[i].deps = ts[i].deps /\ fl.tasks[i].status = ts[i].status
    OBVIOUS
  <2>1. PICK t : t = ts[i]
    OBVIOUS
  <2>2. PICK x : x = s.est[i]
    OBVIOUS
  <2>3. PICK u : u = [t EXCEPT !.est = x]
    OBVIOUS
  <2>4. IsTask(t)
    BY <2>1 DEF TasksOk
  <2>5. u.deps = t.deps /\ u.status = t.status
    BY <2>3, <2>4, OtherEstimate
  <2>6. fl.tasks[i] = u
    BY <1>4, <2>1, <2>2, <2>3
  <2> QED BY <2>1, <2>5, <2>6
<1>6. fl.status = status
  BY <1>4
<1>7. PlanOk(fl)
  BY <1>4 DEF PlanOk
<1>8. \E i \in 1 .. Len(fl.tasks) : fl.tasks[i].status # "Completed"
  BY <1>4, <1>5
<1>9. FlowOk(fl)
  <2>1. fl.status \notin {"None", "Draft", "Completed"}
    BY <1>6
  <2>2. fl = [status |-> fl.status, tasks |-> fl.tasks, p50 |-> fl.p50, p80 |-> fl.p80, path |-> fl.path]
    BY <1>4, <1>6, Zenon
  <2> QED BY <1>4, <1>6, <1>7, <1>8, <2>1, <2>2 DEF FlowOk
<1>10. Attends(fl, cs)
  BY <1>4 DEF Attends, Attended
<1> QED BY <1>4, <1>5, <1>6, <1>9, <1>10

(* The change on offer stays possible while the flow keeps its dependencies. *)
LEMMA ChangeKept ==
    ASSUME NEW ch, NEW fl, ChangeOk(ch, fl), TasksOk(fl.tasks), NEW gl, TasksOk(gl.tasks),
           Len(gl.tasks) = Len(fl.tasks),
           \A i \in 1 .. Len(fl.tasks) : gl.tasks[i].deps = fl.tasks[i].deps,
           fl.status \in {"Approved", "Active", "Completed"}
              => gl.status \in {"Approved", "Active", "Completed"}
    PROVE  ChangeOk(ch, gl)
<1>1. SUFFICES ASSUME ch # NoChange PROVE ChangeOk(ch, gl)
  BY DEF ChangeOk
<1>2. PICK t : t = ch.task[1]
  OBVIOUS
<1>3. IsTask(t) /\ TaskOk(t) /\ Schedulable(Append(fl.tasks, t))
  BY <1>1, <1>2 DEF ChangeOk
<1>4. PICK ts : ts = fl.tasks
  OBVIOUS
<1>5. PICK us : us = gl.tasks
  OBVIOUS
<1>6. PICK as : as = Append(ts, t)
  OBVIOUS
<1>7. PICK bs : bs = Append(us, t)
  OBVIOUS
<1>8. PICK n \in Nat : n = Len(ts) /\ n = Len(us)
  BY <1>4, <1>5 DEF TasksOk, IsSeq
<1>9. TasksOk(ts) /\ TasksOk(us)
  BY <1>4, <1>5
<1>10. TasksOk(as) /\ Len(as) = n + 1 /\ as[n + 1] = t /\ \A i \in 1 .. n : as[i] = ts[i]
  <2>1. TasksOk(as) /\ Longer(as, ts, t)
    BY <1>3, <1>6, <1>9, OneMore
  <2> QED BY <1>8, <2>1 DEF Longer
<1>11. TasksOk(bs) /\ Len(bs) = n + 1 /\ bs[n + 1] = t /\ \A i \in 1 .. n : bs[i] = us[i]
  <2>1. TasksOk(bs) /\ Longer(bs, us, t)
    BY <1>3, <1>7, <1>9, OneMore
  <2> QED BY <1>8, <2>1 DEF Longer
<1>12. \A i \in 1 .. n + 1 : as[i].deps = bs[i].deps
  <2>1. \A i \in 1 .. n + 1 : i \in 1 .. n \/ i = n + 1
    BY <1>8
  <2>2. \A i \in 1 .. n : us[i].deps = ts[i].deps
    BY <1>4, <1>5, <1>8
  <2> QED BY <1>10, <1>11, <2>1, <2>2
<1>13. Schedulable(bs)
  <2>1. IsSeq(as) /\ IsSeq(bs) /\ Len(as) = Len(bs) /\ \A i \in 1 .. Len(as) : as[i].deps = bs[i].deps
    BY <1>10, <1>11, <1>12 DEF TasksOk
  <2>2. Schedulable(as)
    BY <1>3, <1>4, <1>6
  <2> QED BY <2>1, <2>2, SchedulableByDeps
<1>14. Schedulable(Append(gl.tasks, t))
  BY <1>5, <1>7, <1>13
<1>15. fl.status \in {"Approved", "Active", "Completed"} /\ \E i \in 1 .. Len(fl.tasks) : ch.statuses[i] # "Completed"
  BY <1>1 DEF ChangeOk
<1>16. ch = [task |-> <<ch.task[1]>>, statuses |-> ch.statuses, p80 |-> ch.p80]
  BY <1>1 DEF ChangeOk
<1> QED BY <1>2, <1>3, <1>14, <1>15, <1>16 DEF ChangeOk

(* The calendar of somebody who never configured one. *)
LEMMA AlwaysIsCalendar == IsCalendar(Always)
<1>1. PICK d \in Nat : d = DayLength /\ d >= 1
  BY CalendarAssumption
<1>2. PICK w \in Nat : w = WeekLength /\ w >= 1
  BY CalendarAssumption
<1>3. PICK days : days = 0 .. w - 1
  OBVIOUS
<1>4. days # {}
  <2>1. 0 \in 0 .. w - 1
    BY <1>2
  <2> QED BY <1>3, <2>1
<1>5. Always = [offset |-> 0, days |-> days, from |-> 0, to |-> d, off |-> {}]
  BY <1>1, <1>2, <1>3 DEF Always
<1>6. PICK c : c = Always
  OBVIOUS
<1>7. c.offset = 0 /\ c.days = days /\ c.from = 0 /\ c.to = d /\ c.off = {}
  BY <1>5, <1>6
<1>8. 0 \in -(d - 1) .. d - 1
  BY <1>1
<1>9. Valid(c)
  BY <1>1, <1>2, <1>3, <1>4, <1>7, <1>8 DEF Valid
<1>10. WellFormed(c)
  BY <1>7, <1>9 DEF WellFormed
<1>11. c = [offset |-> c.offset, days |-> c.days, from |-> c.from, to |-> c.to, off |-> c.off]
  BY <1>5, <1>6, <1>7
<1> QED BY <1>6, <1>10, <1>11 DEF IsCalendar

(* The invariant holds at first. *)
LEMMA InitTime == SchedulingInit => TimeInv
<1> SUFFICES ASSUME SchedulingInit PROVE TimeInv
  OBVIOUS
<1>1. now \in Nat
  <2>1. Moments \subseteq Int /\ Moments # {} /\ (\A x \in Moments : 0 <= x) /\ 0 \in Int
    <3>1. Moments \subseteq Nat /\ Moments # {}
      BY SchedulingAssumption
    <3> QED BY <3>1
  <2>2. Min(Moments) \in Moments
    BY <2>1, LeastFrom, Zenon
  <2> QED BY <2>2, SchedulingAssumption DEF SchedulingInit
<1>2. calendars = [p \in Principal |-> calendars[p]] /\ \A p \in Principal : IsCalendar(calendars[p])
  BY AlwaysIsCalendar DEF SchedulingInit
<1>3. flow = NoFlow /\ flow.status = "None" /\ flow.tasks = <<>>
      /\ flow = [status |-> flow.status, tasks |-> flow.tasks, p50 |-> flow.p50, p80 |-> flow.p80, path |-> flow.path]
  BY DEF SchedulingInit, NoFlow
<1>4. TasksOk(<<>>)
  BY EmptySeq DEF TasksOk, IsSeq
<1>5. FlowOk(flow)
  BY <1>3, <1>4 DEF FlowOk, InProgress
<1>6. Attends(flow, calendars)
  BY <1>3 DEF Attends, InProgress
<1>7. ChangeOk(change, flow)
  BY DEF ChangeOk, SchedulingInit
<1> QED BY <1>1, <1>2, <1>5, <1>6, <1>7 DEF TimeInv

-----------------------------------------------------------------------------
(***************************************************************************)
(* The steps of the machine.                                               *)
(***************************************************************************)

(* Steps that leave the clock and the calendars alone. *)
LEMMA TimeFrame ==
    ASSUME TimeInv, now' = now, calendars' = calendars,
           FlowOk(flow'), Attends(flow', calendars), ChangeOk(change', flow')
    PROVE  TimeInv'
BY DEF TimeInv

(* A flow in which a task is assigned is under way. *)
LEMMA AssignedInProgress ==
    ASSUME NEW fl, FlowOk(fl), NEW i \in 1 .. Len(fl.tasks), fl.tasks[i].status = "Assigned"
    PROVE  InProgress(fl)
<1>1. fl.status # "None"
  <2>1. SUFFICES ASSUME fl.status = "None" PROVE FALSE
    OBVIOUS
  <2>2. fl.tasks = <<>>
    BY <2>1 DEF FlowOk, NoFlow
  <2> QED BY <2>2
<1>2. fl.status # "Draft" /\ fl.status # "Completed"
  BY DEF FlowOk
<1> QED BY <1>1, <1>2 DEF FlowOk, InProgress

(* A task with another status. *)
LEMMA WithStatus ==
    ASSUME NEW t, IsTask(t), NEW s, NEW u, u = [t EXCEPT !.status = s]
    PROVE  u = Edited(t, t.effort, t.owner, t.copilots, s, t.heartbeat)
<1>1. t = [deps |-> t.deps, effort |-> t.effort, human |-> t.human,
           caps |-> t.caps, owner |-> t.owner, copilots |-> t.copilots,
           status |-> t.status, heartbeat |-> t.heartbeat, est |-> t.est]
  BY DEF IsTask
<1> QED BY <1>1 DEF Edited

(* It keeps its dependencies and dates. *)
LEMMA WithStatusFacts ==
    ASSUME NEW t, IsTask(t), TaskOk(t), NEW s, NEW u, u = [t EXCEPT !.status = s]
    PROVE  /\ IsTask(u) /\ TaskOk(u) /\ u.deps = t.deps /\ u.est = t.est
           /\ u.status = s /\ u.owner = t.owner /\ u.heartbeat = t.heartbeat
<1>1. u = Edited(t, t.effort, t.owner, t.copilots, s, t.heartbeat)
  BY WithStatus
<1> QED BY <1>1 DEF Edited, IsTask, TaskOk

(* A task of a flow under way comes to its end. *)
LEMMA TaskEnds ==
    ASSUME NEW fl, FlowOk(fl), NEW cs, Attends(fl, cs), InProgress(fl),
           NEW i \in 1 .. Len(fl.tasks), NEW t, IsTask(t), TaskOk(t), Terminal(t),
           t.deps = fl.tasks[i].deps, t.est = fl.tasks[i].est,
           NEW status, NEW gl,
           gl = [status |-> status, tasks |-> [fl.tasks EXCEPT ![i] = t],
                 p50 |-> fl.p50, p80 |-> fl.p80, path |-> fl.path],
           \/ /\ status \in {"Approved", "Active"}
              /\ \E j \in 1 .. Len(fl.tasks) : gl.tasks[j].status # "Completed"
           \/ /\ status = "Completed"
              /\ \A j \in 1 .. Len(fl.tasks) : gl.tasks[j].status = "Completed"
    PROVE  /\ FlowOk(gl) /\ Attends(gl, cs)
           /\ gl.status \in {"Approved", "Active", "Completed"}
           /\ Len(gl.tasks) = Len(fl.tasks)
           /\ \A j \in 1 .. Len(fl.tasks) : gl.tasks[j].deps = fl.tasks[j].deps
<1>1. PICK ts : ts = fl.tasks
  OBVIOUS
<1>2. PICK us : us = [ts EXCEPT ![i] = t]
  OBVIOUS
<1>3. gl.tasks = us /\ gl.status = status /\ gl.path = fl.path /\ gl.p80 = fl.p80
  BY <1>1, <1>2
<1>4. TasksOk(ts) /\ i \in 1 .. Len(ts)
  BY <1>1 DEF FlowOk
<1>5. /\ TasksOk(us) /\ Len(us) = Len(ts) /\ us[i] = t
      /\ \A j \in 1 .. Len(ts) : j # i => us[j] = ts[j]
  <2>1. TasksOk(us) /\ Replaced(us, ts, i, t)
    BY <1>2, <1>4, ReplaceFacts
  <2> QED BY <2>1 DEF Replaced
<1>6. \A j \in 1 .. Len(ts) : us[j].deps = ts[j].deps /\ us[j].est = ts[j].est
  BY <1>1, <1>5
<1>7. PlanOk(gl)
  <2>1. PlanOk(fl) /\ TasksOk(fl.tasks)
    BY DEF FlowOk, InProgress
  <2>2. \A j \in 1 .. Len(fl.tasks) : gl.tasks[j].deps = fl.tasks[j].deps /\ gl.tasks[j].est = fl.tasks[j].est
    BY <1>1, <1>3, <1>6
  <2>3. TasksOk(gl.tasks) /\ Len(gl.tasks) = Len(fl.tasks)
    BY <1>1, <1>3, <1>5
  <2> QED BY <1>3, <2>1, <2>2, <2>3, SamePlan
<1>8. gl = [status |-> gl.status, tasks |-> gl.tasks, p50 |-> gl.p50, p80 |-> gl.p80, path |-> gl.path]
  OBVIOUS
<1>9. FlowOk(gl)
  <2>1. CASE status \in {"Approved", "Active"}
    <3>1. \E j \in 1 .. Len(gl.tasks) : gl.tasks[j].status # "Completed"
      BY <1>1, <1>3, <1>5, <2>1
    <3>2. status \notin {"None", "Draft", "Completed"}
      BY <2>1
    <3> QED BY <1>3, <1>5, <1>7, <1>8, <2>1, <3>1, <3>2 DEF FlowOk
  <2>2. CASE status = "Completed"
    <3>1. \A j \in 1 .. Len(gl.tasks) : gl.tasks[j].status = "Completed"
      BY <1>1, <1>3, <1>5, <2>2
    <3> QED BY <1>3, <1>5, <1>7, <1>8, <2>2, <3>1 DEF FlowOk, InProgress
  <2> QED BY <2>1, <2>2
<1>10. Attends(gl, cs)
  <2> SUFFICES ASSUME NEW j \in 1 .. Len(ts), us[j].est.how = "rescheduled",
                      ~ Terminal(us[j]), ~ IsTeam(us[j].owner)
               PROVE  Available(cs[us[j].owner], us[j].est.start)
    BY <1>3, <1>5 DEF Attends
  <2>1. j # i
    BY <1>5
  <2>2. us[j] = ts[j]
    BY <1>5, <2>1
  <2> QED BY <1>1, <2>2 DEF Attends
<1> QED BY <1>1, <1>3, <1>5, <1>6, <1>9, <1>10

(* approve_flow. *)
LEMMA TimeApprove == ASSUME TimeInv, ApproveFlow PROVE TimeInv'
<1>1. PICK fl : fl = flow
  OBVIOUS
<1>2. PICK ts : ts = fl.tasks
  OBVIOUS
<1>3. FlowOk(fl) /\ fl.status = "Draft" /\ TasksOk(ts)
  BY <1>1, <1>2 DEF TimeInv, ApproveFlow, FlowOk
<1>4. PICK n \in Nat : n = Len(ts)
  BY <1>3 DEF TasksOk, IsSeq
<1>5. PICK us : us = [i \in 1 .. n |-> [ts[i] EXCEPT !.status = "Assigned"]]
  OBVIOUS
<1>6. fl = [status |-> fl.status, tasks |-> fl.tasks, p50 |-> fl.p50, p80 |-> fl.p80, path |-> fl.path]
  BY <1>3 DEF FlowOk
<1>7. flow' = [fl EXCEPT !.status = "Approved", !.tasks = us]
  BY <1>1, <1>2, <1>4, <1>5, <1>6 DEF ApproveFlow
<1>8. PICK gl : gl = flow'
  OBVIOUS
<1>9. gl = [status |-> "Approved", tasks |-> us, p50 |-> fl.p50, p80 |-> fl.p80, path |-> fl.path]
  BY <1>6, <1>7, <1>8
<1>10. gl.status = "Approved" /\ gl.tasks = us /\ gl.path = fl.path /\ gl.p80 = fl.p80
  BY <1>9
<1>11. ASSUME NEW i \in 1 .. n
       PROVE  /\ IsTask(us[i]) /\ TaskOk(us[i]) /\ us[i].deps = ts[i].deps /\ us[i].est = ts[i].est
              /\ us[i].status = "Assigned"
  <2>1. PICK t : t = ts[i]
    OBVIOUS
  <2>2. PICK u : u = [t EXCEPT !.status = "Assigned"]
    OBVIOUS
  <2>3. us[i] = u
    BY <1>5, <2>1, <2>2
  <2>4. IsTask(t) /\ TaskOk(t)
    BY <1>3, <1>4, <2>1 DEF TasksOk
  <2>5. IsTask(u) /\ TaskOk(u) /\ u.deps = t.deps /\ u.est = t.est /\ u.status = "Assigned"
    BY <2>2, <2>4, WithStatusFacts
  <2> QED BY <2>1, <2>3, <2>5
<1>12. IsSeq(us) /\ Len(us) = n
  <2>1. us = [i \in 1 .. n |-> us[i]]
    BY <1>5
  <2> QED BY <2>1, IsSeqIntro
<1>13. TasksOk(us)
  BY <1>11, <1>12 DEF TasksOk
<1>14. PlanOk(fl)
  BY <1>3 DEF FlowOk
<1>15. PlanOk(gl)
  <2>1. TasksOk(fl.tasks) /\ TasksOk(gl.tasks) /\ Len(gl.tasks) = Len(fl.tasks)
    BY <1>2, <1>3, <1>4, <1>10, <1>12, <1>13
  <2>2. \A i \in 1 .. Len(fl.tasks) : gl.tasks[i].deps = fl.tasks[i].deps /\ gl.tasks[i].est = fl.tasks[i].est
    BY <1>2, <1>4, <1>10, <1>11
  <2> QED BY <1>10, <1>14, <2>1, <2>2, SamePlan
<1>16. n >= 1
  <2>1. ts # <<>> /\ IsSeq(ts)
    BY <1>2, <1>3, <1>14 DEF PlanOk, Schedulable, TasksOk
  <2>2. Len(ts) # 0
    BY <2>1, SeqOfItsOwn
  <2> QED BY <1>4, <2>2
<1>17. \E i \in 1 .. Len(gl.tasks) : gl.tasks[i].status # "Completed"
  <2>1. 1 \in 1 .. n
    BY <1>16
  <2> QED BY <1>10, <1>11, <1>12, <2>1
<1>18. FlowOk(gl)
  <2>1. gl = [status |-> gl.status, tasks |-> gl.tasks, p50 |-> gl.p50, p80 |-> gl.p80, path |-> gl.path]
    BY <1>9
  <2> QED BY <1>10, <1>13, <1>15, <1>17, <2>1 DEF FlowOk
<1>19. Attends(gl, calendars)
  <2>1. \A i \in 1 .. n : us[i].est.how = "medium"
    BY <1>2, <1>3, <1>4, <1>11 DEF FlowOk
  <2> QED BY <1>10, <1>12, <2>1 DEF Attends
<1>20. ChangeOk(change', gl)
  <2>1. ChangeOk(change, fl) /\ change' = change
    BY <1>1 DEF TimeInv, ApproveFlow
  <2>2. change = NoChange
    BY <1>3, <2>1 DEF ChangeOk
  <2> QED BY <2>1, <2>2 DEF ChangeOk
<1> QED
  <2>1. now' = now /\ calendars' = calendars
    BY DEF ApproveFlow
  <2> QED BY <1>8, <1>18, <1>19, <1>20, <2>1, TimeFrame

(* reject_task. *)
LEMMA TimeReject == ASSUME TimeInv, NEW i \in 1 .. Len(flow.tasks), RejectTask(i) PROVE TimeInv'
<1>1. PICK fl : fl = flow
  OBVIOUS
<1>2. PICK k \in 1 .. Len(fl.tasks) : k = i
  BY <1>1
<1>3. PICK t : t = fl.tasks[k]
  OBVIOUS
<1>4. FlowOk(fl) /\ t.status = "Assigned" /\ Attends(fl, calendars)
  BY <1>1, <1>2, <1>3 DEF TimeInv, RejectTask
<1>5. InProgress(fl)
  BY <1>3, <1>4, AssignedInProgress
<1>6. PICK u : u = [t EXCEPT !.status = "Rejected"]
  OBVIOUS
<1>7. IsTask(t) /\ TaskOk(t)
  BY <1>3, <1>4 DEF FlowOk, TasksOk
<1>8. IsTask(u) /\ TaskOk(u) /\ u.deps = t.deps /\ u.est = t.est /\ u.status = "Rejected"
  BY <1>6, <1>7, WithStatusFacts
<1>9. Terminal(u)
  BY <1>8 DEF Terminal
<1>10. PICK us : us = [fl.tasks EXCEPT ![k] = u]
  OBVIOUS
<1>11. fl = [status |-> fl.status, tasks |-> fl.tasks, p50 |-> fl.p50, p80 |-> fl.p80, path |-> fl.path]
  BY <1>4 DEF FlowOk
<1>12. flow' = [fl EXCEPT !.tasks = us]
  BY <1>1, <1>2, <1>3, <1>6, <1>10, <1>11 DEF RejectTask
<1>13. PICK gl : gl = flow'
  OBVIOUS
<1>14. gl = [status |-> fl.status, tasks |-> us, p50 |-> fl.p50, p80 |-> fl.p80, path |-> fl.path]
  BY <1>11, <1>12, <1>13
<1>15. gl.tasks[k].status # "Completed"
  <2>1. gl.tasks = us /\ us[k] = u
    <3>1. TasksOk(fl.tasks)
      BY <1>4 DEF FlowOk
    <3>2. us[k] = u
      BY <1>8, <1>10, <3>1, ReplaceFacts DEF Replaced
    <3> QED BY <1>14, <3>2
  <2> QED BY <1>8, <2>1
<1>16. PICK status : status = fl.status
  OBVIOUS
<1>17. /\ FlowOk(gl) /\ Attends(gl, calendars)
       /\ gl.status \in {"Approved", "Active", "Completed"}
       /\ Len(gl.tasks) = Len(fl.tasks)
       /\ \A j \in 1 .. Len(fl.tasks) : gl.tasks[j].deps = fl.tasks[j].deps
  <2>1. status \in {"Approved", "Active"} /\ \E j \in 1 .. Len(fl.tasks) : gl.tasks[j].status # "Completed"
    BY <1>5, <1>15, <1>16 DEF InProgress
  <2>2. gl = [status |-> status, tasks |-> [fl.tasks EXCEPT ![k] = u],
              p50 |-> fl.p50, p80 |-> fl.p80, path |-> fl.path]
    BY <1>10, <1>14, <1>16
  <2>3. u.deps = fl.tasks[k].deps /\ u.est = fl.tasks[k].est
    BY <1>3, <1>8
  <2> QED BY <1>4, <1>5, <1>8, <1>9, <2>1, <2>2, <2>3, TaskEnds, SMTT(60)
<1>18. ChangeOk(change', gl)
  <2>1. ChangeOk(change, fl) /\ change' = change
    BY <1>1 DEF TimeInv, RejectTask
  <2>2. TasksOk(fl.tasks) /\ TasksOk(gl.tasks)
    BY <1>4, <1>17 DEF FlowOk
  <2>3. ChangeOk(change, gl)
    BY <1>17, <2>1, <2>2, ChangeKept
  <2> QED BY <2>1, <2>3
<1> QED
  <2>1. now' = now /\ calendars' = calendars
    BY DEF RejectTask
  <2> QED BY <1>13, <1>17, <1>18, <2>1, TimeFrame

(* accept_task ... complete_task. *)
LEMMA TimeFinish == ASSUME TimeInv, NEW i \in 1 .. Len(flow.tasks), FinishTask(i) PROVE TimeInv'
<1>1. PICK fl : fl = flow
  OBVIOUS
<1>2. PICK k \in 1 .. Len(fl.tasks) : k = i
  BY <1>1
<1>3. PICK t : t = fl.tasks[k]
  OBVIOUS
<1>3a. PICK ts : ts = fl.tasks
  OBVIOUS
<1>4. FlowOk(fl) /\ t.status = "Assigned" /\ Attends(fl, calendars) /\ now \in Nat
  BY <1>1, <1>2, <1>3 DEF TimeInv, FinishTask
<1>5. InProgress(fl)
  BY <1>3, <1>4, AssignedInProgress
<1>6. PICK v : v = [t EXCEPT !.status = "Completed"]
  OBVIOUS
<1>6a. PICK u : u = [v EXCEPT !.heartbeat = now]
  OBVIOUS
<1>7. IsTask(t) /\ TaskOk(t) /\ TasksOk(ts)
  BY <1>3, <1>3a, <1>4 DEF FlowOk, TasksOk
<1>8. IsTask(u) /\ TaskOk(u) /\ u.deps = t.deps /\ u.est = t.est /\ u.status = "Completed"
  <2>1. v = Edited(t, t.effort, t.owner, t.copilots, "Completed", t.heartbeat)
    BY <1>6, <1>7, WithStatus
  <2>2. u = Edited(t, t.effort, t.owner, t.copilots, "Completed", now)
    BY <1>6a, <2>1 DEF Edited
  <2> QED BY <1>4, <1>7, <2>2 DEF Edited, IsTask, TaskOk
<1>9. Terminal(u)
  BY <1>8 DEF Terminal
<1>10. PICK us : us = [ts EXCEPT ![k] = u]
  OBVIOUS
<1>11. fl = [status |-> fl.status, tasks |-> ts, p50 |-> fl.p50, p80 |-> fl.p80, path |-> fl.path]
  BY <1>3a, <1>4 DEF FlowOk
<1>12. PICK status : status = IF \A j \in 1 .. Len(ts) : j # k => ts[j].status = "Completed"
                              THEN "Completed" ELSE "Active"
  OBVIOUS
<1>13. PICK gl : gl = flow'
  OBVIOUS
<1>14. gl = [status |-> status, tasks |-> us, p50 |-> fl.p50, p80 |-> fl.p80, path |-> fl.path]
  <2>1. gl = [fl EXCEPT !.tasks[k].status = "Completed", !.tasks[k].heartbeat = now, !.status = status]
    BY <1>1, <1>2, <1>3a, <1>12, <1>13 DEF FinishTask
  <2>2. PICK vs : vs = [ts EXCEPT ![k] = v]
    OBVIOUS
  <2>3. PICK f1 : f1 = [fl EXCEPT !.tasks = vs]
    OBVIOUS
  <2>4. ts = [j \in 1 .. Len(ts) |-> ts[j]] /\ k \in 1 .. Len(ts)
    BY <1>3a, <1>7 DEF TasksOk, IsSeq
  <2>5. vs[k] = v /\ [vs EXCEPT ![k] = u] = us
    BY <1>10, <2>2, <2>4
  <2>6. f1 = [status |-> fl.status, tasks |-> vs, p50 |-> fl.p50, p80 |-> fl.p80, path |-> fl.path]
    BY <1>11, <2>3
  <2>7. [f1 EXCEPT !.tasks[k].heartbeat = now, !.status = status]
        = [status |-> status, tasks |-> us, p50 |-> fl.p50, p80 |-> fl.p80, path |-> fl.path]
    <3>1. f1.tasks = vs
      BY <2>6
    <3>2. [f1 EXCEPT !.tasks[k].heartbeat = now, !.status = status]
          = [f1 EXCEPT !.tasks = us, !.status = status]
      BY <1>6a, <2>5, <3>1
    <3>3. PICK g : g = [f1 EXCEPT !.tasks = us, !.status = status]
      OBVIOUS
    <3>4. g = [status |-> status, tasks |-> us, p50 |-> fl.p50, p80 |-> fl.p80, path |-> fl.path]
      BY <2>6, <3>3
    <3> QED BY <3>2, <3>3, <3>4, Zenon
  <2>8. f1 = [fl EXCEPT !.tasks[k].status = "Completed"]
    BY <1>3, <1>3a, <1>6, <2>2, <2>3
  <2> QED BY <2>1, <2>7, <2>8
<1>15. gl.tasks = us /\ us[k] = u /\ \A j \in 1 .. Len(ts) : j # k => us[j] = ts[j]
  <2>1. Replaced(us, ts, k, u)
    BY <1>3a, <1>7, <1>8, <1>10, ReplaceFacts
  <2> QED BY <1>14, <2>1 DEF Replaced
<1>17. /\ FlowOk(gl) /\ Attends(gl, calendars)
       /\ gl.status \in {"Approved", "Active", "Completed"}
       /\ Len(gl.tasks) = Len(fl.tasks)
       /\ \A j \in 1 .. Len(fl.tasks) : gl.tasks[j].deps = fl.tasks[j].deps
  <2>1. \/ /\ status \in {"Approved", "Active"}
           /\ \E j \in 1 .. Len(fl.tasks) : gl.tasks[j].status # "Completed"
        \/ /\ status = "Completed"
           /\ \A j \in 1 .. Len(fl.tasks) : gl.tasks[j].status = "Completed"
    <3>1. CASE \A j \in 1 .. Len(ts) : j # k => ts[j].status = "Completed"
      BY <1>3a, <1>8, <1>12, <1>15, <3>1
    <3>2. CASE ~ \A j \in 1 .. Len(ts) : j # k => ts[j].status = "Completed"
      BY <1>3a, <1>12, <1>15, <3>2
    <3> QED BY <3>1, <3>2
  <2>2. gl = [status |-> status, tasks |-> [fl.tasks EXCEPT ![k] = u],
              p50 |-> fl.p50, p80 |-> fl.p80, path |-> fl.path]
    BY <1>3a, <1>10, <1>14
  <2>3. u.deps = fl.tasks[k].deps /\ u.est = fl.tasks[k].est
    BY <1>3, <1>8
  <2> QED BY <1>4, <1>5, <1>8, <1>9, <2>1, <2>2, <2>3, TaskEnds, SMTT(60)
<1>18. ChangeOk(change', gl)
  <2>1. ChangeOk(change, fl) /\ change' = change
    BY <1>1 DEF TimeInv, FinishTask
  <2>2. TasksOk(fl.tasks) /\ TasksOk(gl.tasks)
    BY <1>4, <1>17 DEF FlowOk
  <2>3. ChangeOk(change, gl)
    BY <1>17, <2>1, <2>2, ChangeKept
  <2> QED BY <2>1, <2>3
<1> QED
  <2>1. now' = now /\ calendars' = calendars
    BY DEF FinishTask
  <2> QED BY <1>13, <1>17, <1>18, <2>1, TimeFrame

(* negotiate_task and reassign_task end in this. *)
LEMMA TimeRevise ==
    ASSUME TimeInv, InProgress(flow), NEW i \in 1 .. Len(flow.tasks), NEW t, IsTask(t), TaskOk(t),
           t.deps = flow.tasks[i].deps, t.status = "Assigned", Revise(i, t)
    PROVE  TimeInv'
<1>1. PICK fl : fl = flow
  OBVIOUS
<1>2. PICK ts : ts = fl.tasks
  OBVIOUS
<1>3. PICK k \in 1 .. Len(ts) : k = i
  BY <1>1, <1>2
<1>4. PICK us : us = [ts EXCEPT ![k] = t]
  OBVIOUS
<1>5. PICK s : s = Reschedule(us, calendars, now) /\ Feasible(s.est) /\ flow' = Scheduled(fl.status, us, s)
  BY <1>1, <1>2, <1>3, <1>4 DEF Revise
<1>6. FlowOk(fl) /\ TasksOk(ts) /\ PlanOk(fl) /\ InProgress(fl)
  BY <1>1, <1>2 DEF TimeInv, FlowOk, InProgress
<1>7. TasksOk(us) /\ Len(us) = Len(ts) /\ us[k] = t /\ \A j \in 1 .. Len(ts) : j # k => us[j] = ts[j]
  <2>1. TasksOk(us) /\ Replaced(us, ts, k, t)
    BY <1>4, <1>6, ReplaceFacts
  <2> QED BY <2>1 DEF Replaced
<1>8. \A j \in 1 .. Len(ts) : us[j].deps = ts[j].deps
  BY <1>1, <1>2, <1>3, <1>7
<1>9. Schedulable(us)
  <2>1. IsSeq(ts) /\ IsSeq(us) /\ Schedulable(ts) /\ \A j \in 1 .. Len(ts) : ts[j].deps = us[j].deps
    BY <1>2, <1>6, <1>7, <1>8 DEF TasksOk, PlanOk
  <2> QED BY <1>7, <2>1, SchedulableByDeps
<1>10. PICK cs : cs = calendars
  OBVIOUS
<1>11. CalendarsOk(cs) /\ now \in Nat
  BY <1>10 DEF TimeInv, CalendarsOk, IsCalendar
<1>12. PICK clock \in Nat : clock = now
  BY <1>11
<1>13. PICK gl : gl = flow'
  OBVIOUS
<1>14. PICK status : status = fl.status
  OBVIOUS
<1>15. /\ FlowOk(gl) /\ Attends(gl, cs) /\ gl.status = status
       /\ Len(gl.tasks) = Len(us)
       /\ \A j \in 1 .. Len(us) : gl.tasks[j].deps = us[j].deps
  <2>1. s = Reschedule(us, cs, clock) /\ Feasible(s.est) /\ gl = Scheduled(status, us, s)
    BY <1>5, <1>10, <1>12, <1>13, <1>14
  <2>2. status \in {"Approved", "Active"}
    BY <1>6, <1>14 DEF InProgress
  <2>3. k \in 1 .. Len(us) /\ us[k].status # "Completed"
    BY <1>7
  <2> QED BY <1>7, <1>9, <1>11, <2>1, <2>2, <2>3, Rescheduled
<1>16. ChangeOk(change', gl)
  <2>1. ChangeOk(change, fl) /\ change' = change
    BY <1>1 DEF TimeInv, Revise
  <2>2. TasksOk(fl.tasks) /\ TasksOk(gl.tasks) /\ gl.status = fl.status
    BY <1>6, <1>14, <1>15 DEF FlowOk
  <2>3. Len(gl.tasks) = Len(fl.tasks) /\ \A j \in 1 .. Len(fl.tasks) : gl.tasks[j].deps = fl.tasks[j].deps
    BY <1>2, <1>7, <1>8, <1>15
  <2>4. ChangeOk(change, gl)
    BY <2>1, <2>2, <2>3, ChangeKept
  <2> QED BY <2>1, <2>4
<1> QED
  <2>1. now' = now /\ calendars' = calendars
    BY DEF Revise
  <2> QED BY <1>10, <1>13, <1>15, <1>16, <2>1, TimeFrame

(* negotiate_task. *)
LEMMA TimeNegotiate ==
    ASSUME TimeInv, NEW i \in 1 .. Len(flow.tasks), NEW effort \in Efforts, NegotiateTask(i, effort)
    PROVE  TimeInv'
<1>1. PICK t : t = flow.tasks[i]
  OBVIOUS
<1>2. PICK fl : fl = flow
  OBVIOUS
<1>3. FlowOk(fl) /\ t = fl.tasks[i] /\ i \in 1 .. Len(fl.tasks) /\ t.status = "Assigned"
  BY <1>1, <1>2 DEF TimeInv, NegotiateTask
<1>4. InProgress(flow)
  BY <1>2, <1>3, AssignedInProgress
<1>5. IsTask(t) /\ TaskOk(t)
  BY <1>3 DEF FlowOk, TasksOk
<1>6. PICK e \in Nat : e = effort
  BY SchedulingAssumption
<1>7. PICK u : u = [t EXCEPT !.effort = e]
  OBVIOUS
<1>8. u = Edited(t, e, t.owner, t.copilots, t.status, t.heartbeat)
  <2>1. t = [deps |-> t.deps, effort |-> t.effort, human |-> t.human,
             caps |-> t.caps, owner |-> t.owner, copilots |-> t.copilots,
             status |-> t.status, heartbeat |-> t.heartbeat, est |-> t.est]
    BY <1>5 DEF IsTask
  <2> QED BY <1>7, <2>1 DEF Edited
<1>9. IsTask(u) /\ TaskOk(u) /\ u.deps = t.deps /\ u.status = "Assigned"
  BY <1>3, <1>5, <1>8 DEF Edited, IsTask, TaskOk
<1>10. Revise(i, u)
  BY <1>1, <1>6, <1>7 DEF NegotiateTask
<1> QED BY <1>1, <1>4, <1>9, <1>10, TimeRevise

(* reassign_task. *)
LEMMA TimeReassign ==
    ASSUME TimeInv, NEW i \in 1 .. Len(flow.tasks), NEW owner \in Principal \cup DOMAIN Teams,
           ReassignTask(i, owner)
    PROVE  TimeInv'
<1>1. PICK t : t = flow.tasks[i]
  OBVIOUS
<1>2. InProgress(flow)
  BY DEF ReassignTask, UnderWay, InProgress
<1>3. IsTask(t) /\ TaskOk(t)
  BY <1>1 DEF TimeInv, FlowOk, TasksOk
<1>4. PICK c : c = DefaultCopilots(owner)
  OBVIOUS
<1>5. PICK u : u = [t EXCEPT !.owner = owner, !.copilots = c, !.status = "Assigned",
                             !.heartbeat = NoHeartbeat]
  OBVIOUS
<1>6. u = Edited(t, t.effort, owner, c, "Assigned", NoHeartbeat)
  <2>1. t = [deps |-> t.deps, effort |-> t.effort, human |-> t.human,
             caps |-> t.caps, owner |-> t.owner, copilots |-> t.copilots,
             status |-> t.status, heartbeat |-> t.heartbeat, est |-> t.est]
    BY <1>3 DEF IsTask
  <2> QED BY <1>5, <2>1 DEF Edited
<1>7. IsTask(u) /\ TaskOk(u) /\ u.deps = t.deps /\ u.status = "Assigned"
  BY <1>3, <1>6 DEF Edited, IsTask, TaskOk
<1>8. Revise(i, u)
  BY <1>1, <1>4, <1>5 DEF ReassignTask
<1> QED BY <1>1, <1>2, <1>7, <1>8, TimeRevise

(* Estimates are made for every task. *)
LEMMA EveryTaskEstimated ==
    ASSUME NEW ts, TasksOk(ts), Schedulable(ts), NEW cs, NEW clock,
           NEW s, s = Reschedule(ts, cs, clock)
    PROVE  DOMAIN s.est = 1 .. Len(ts)
<1>1. PICK N \in Nat : N = Len(ts)
  BY DEF TasksOk, IsSeq
<1>2. PICK how : how = "rescheduled"
  OBVIOUS
<1>3. PICK order : order = Order(DepsOf(ts))
  OBVIOUS
<1>4. PICK f : Estimates(ts, cs, clock, how) = f[N] /\ DOMAIN f[N].est = 1 .. N
  BY <1>1, <1>3, EstimatesDomain
<1>5. s.est = f[N].est
  BY <1>2, <1>4 DEF Reschedule, Summary
<1> QED BY <1>1, <1>4, <1>5

(* A calendar and the flows rescheduled for it, committed together. *)
LEMMA TimeCommit ==
    ASSUME TimeInv, NEW p \in Principal, NEW c, IsCalendar(c), CommitCalendar(p, c)
    PROVE  TimeInv'
<1>1. PICK fl : fl = flow
  OBVIOUS
<1>2. PICK cs : cs = calendars'
  OBVIOUS
<1>3. cs = [calendars EXCEPT ![p] = c] /\ calendars = [q \in Principal |-> calendars[q]]
  BY <1>2 DEF CommitCalendar, TimeInv
<1>4. /\ cs = [q \in Principal |-> cs[q]] /\ cs[p] = c
      /\ \A q \in Principal : q # p => cs[q] = calendars[q]
  BY <1>3
<1>5. \A q \in Principal : IsCalendar(cs[q])
  BY <1>4 DEF TimeInv
<1>6. FlowOk(fl) /\ Attends(fl, calendars) /\ now \in Nat
  BY <1>1 DEF TimeInv
<1>7. PICK ts : ts = fl.tasks
  OBVIOUS
<1>8. PICK gl : gl = flow'
  OBVIOUS
<1>9. /\ gl = RescheduledFor(p, cs) /\ now' = now /\ change' = change
      /\ Feasible([i \in 1 .. Len(gl.tasks) |-> gl.tasks[i].est])
  BY <1>2, <1>8 DEF CommitCalendar
<1>10. FlowOk(gl) /\ Attends(gl, cs) /\ ChangeOk(change, gl)
  <2>0. ChangeOk(change, fl)
    BY <1>1 DEF TimeInv
  <2>1. CASE InProgress(fl) /\ \E i \in 1 .. Len(ts) : ~ Terminal(ts[i]) /\ ts[i].owner = p
    <3>1. PICK s : s = Reschedule(ts, cs, now)
      OBVIOUS
    <3>2. gl = Scheduled(fl.status, ts, s)
      BY <1>1, <1>7, <1>9, <2>1, <3>1 DEF RescheduledFor, UnderWay, InProgress
    <3>3. TasksOk(ts) /\ Schedulable(ts)
      BY <1>6, <1>7, <2>1 DEF FlowOk, PlanOk, InProgress
    <3>4. CalendarsOk(cs)
      BY <1>5 DEF CalendarsOk, IsCalendar
    <3>5. PICK N \in Nat : N = Len(ts)
      BY <3>3 DEF TasksOk, IsSeq
    <3>6. DOMAIN s.est = 1 .. N
      BY <3>1, <3>3, <3>5, EveryTaskEstimated
    <3>7. PICK us : us = [i \in 1 .. N |-> [ts[i] EXCEPT !.est = s.est[i]]]
      OBVIOUS
    <3>8. gl.tasks = us
      BY <3>2, <3>5, <3>7 DEF Scheduled
    <3>9. Len(us) = N
      <4>1. us = [i \in 1 .. N |-> us[i]]
        BY <3>7
      <4> QED BY <4>1, IsSeqIntro
    <3>10. \A i \in 1 .. N : us[i].est = s.est[i]
      <4> SUFFICES ASSUME NEW i \in 1 .. N PROVE us[i].est = s.est[i]
        OBVIOUS
      <4>1. PICK t : t = ts[i]
        OBVIOUS
      <4>2. PICK x : x = s.est[i]
        OBVIOUS
      <4>3. PICK u : u = [t EXCEPT !.est = x]
        OBVIOUS
      <4>4. IsTask(t)
        BY <3>3, <3>5, <4>1 DEF TasksOk
      <4>5. u.est = x
        BY <4>3, <4>4, OtherEstimate
      <4> QED BY <3>7, <4>1, <4>2, <4>3, <4>5
    <3>11. Feasible(s.est)
      <4>1. PICK e : e = [i \in 1 .. N |-> us[i].est]
        OBVIOUS
      <4>2. Feasible(e)
        BY <1>9, <3>8, <3>9, <4>1
      <4>3. DOMAIN e = 1 .. N /\ \A i \in 1 .. N : e[i] = s.est[i]
        BY <3>10, <4>1
      <4> QED BY <3>6, <4>2, <4>3 DEF Feasible
    <3>12. PICK clock \in Nat : clock = now
      BY <1>6
    <3>13. PICK status : status = fl.status
      OBVIOUS
    <3>14. PICK j \in 1 .. Len(ts) : ts[j].status # "Completed"
      BY <1>6, <1>7, <2>1 DEF FlowOk
    <3>15. /\ FlowOk(gl) /\ Attends(gl, cs) /\ gl.status = status
           /\ Len(gl.tasks) = Len(ts)
           /\ \A i \in 1 .. Len(ts) : gl.tasks[i].deps = ts[i].deps
      <4>1. s = Reschedule(ts, cs, clock) /\ gl = Scheduled(status, ts, s)
        BY <3>1, <3>2, <3>12, <3>13
      <4>2. status \in {"Approved", "Active"}
        BY <2>1, <3>13 DEF InProgress
      <4> QED BY <3>3, <3>4, <3>11, <3>14, <4>1, <4>2, Rescheduled
    <3>16. ChangeOk(change, gl)
      <4>1. TasksOk(fl.tasks) /\ TasksOk(gl.tasks) /\ gl.status = fl.status
        BY <1>6, <3>13, <3>15 DEF FlowOk
      <4>2. Len(gl.tasks) = Len(fl.tasks) /\ \A i \in 1 .. Len(fl.tasks) : gl.tasks[i].deps = fl.tasks[i].deps
        BY <1>7, <3>15
      <4> QED BY <2>0, <4>1, <4>2, ChangeKept
    <3> QED BY <3>15, <3>16
  <2>2. CASE ~ (InProgress(fl) /\ \E i \in 1 .. Len(ts) : ~ Terminal(ts[i]) /\ ts[i].owner = p)
    <3>1. gl = fl
      BY <1>1, <1>7, <1>9, <2>2 DEF RescheduledFor, UnderWay, InProgress
    <3>2. Attends(fl, cs)
      <4> SUFFICES ASSUME InProgress(fl), NEW i \in 1 .. Len(ts), ts[i].est.how = "rescheduled",
                          ~ Terminal(ts[i]), ~ IsTeam(ts[i].owner)
                   PROVE  Available(cs[ts[i].owner], ts[i].est.start)
        BY <1>7 DEF Attends
      <4>1. ts[i].owner # p
        BY <2>2
      <4>2. ts[i].owner \in Principal
        BY <1>6, <1>7 DEF FlowOk, TasksOk, TaskOk, IsTeam
      <4>3. cs[ts[i].owner] = calendars[ts[i].owner]
        BY <1>4, <4>1, <4>2
      <4> QED BY <1>6, <1>7, <4>3 DEF Attends
    <3> QED BY <1>6, <2>0, <3>1, <3>2
  <2> QED BY <2>1, <2>2
<1> QED BY <1>2, <1>4, <1>5, <1>6, <1>8, <1>9, <1>10 DEF TimeInv

(* configure_work_calendar. *)
LEMMA TimeConfigure ==
    ASSUME TimeInv, NEW p \in Principal, NEW shape \in Shapes, ConfigureWorkCalendar(p, shape)
    PROVE  TimeInv'
<1>1. PICK d : d = calendars[p]
  OBVIOUS
<1>2. PICK c : c = [shape EXCEPT !.off = d.off]
  OBVIOUS
<1>3. Valid(c) /\ CommitCalendar(p, c)
  BY <1>1, <1>2 DEF ConfigureWorkCalendar
<1>4. /\ shape = [offset |-> shape.offset, days |-> shape.days, from |-> shape.from,
                  to |-> shape.to, off |-> {}]
      /\ shape.offset \in Int /\ shape.from \in Nat /\ shape.to \in Nat
  BY SchedulingAssumption
<1>5. c = [offset |-> shape.offset, days |-> shape.days, from |-> shape.from,
           to |-> shape.to, off |-> d.off]
  BY <1>2, <1>4
<1>6. d.off \subseteq Block /\ \A b \in d.off : b.starts < b.ends
  BY <1>1 DEF TimeInv, IsCalendar, WellFormed
<1>7. c.offset = shape.offset /\ c.from = shape.from /\ c.to = shape.to /\ c.off = d.off /\ c.days = shape.days
  BY <1>5
<1>8. WellFormed(c)
  BY <1>3, <1>4, <1>6, <1>7 DEF WellFormed
<1>9. c = [offset |-> c.offset, days |-> c.days, from |-> c.from, to |-> c.to, off |-> c.off]
  BY <1>5, <1>7
<1>10. IsCalendar(c)
  BY <1>8, <1>9 DEF IsCalendar
<1> QED BY <1>3, <1>10, TimeCommit

(* A calendar with other time off. *)
LEMMA OtherTimeOff ==
    ASSUME NEW d, IsCalendar(d), NEW off, off \subseteq Block, \A b \in off : b.starts < b.ends,
           NEW c, c = [d EXCEPT !.off = off]
    PROVE  IsCalendar(c)
<1>1. d = [offset |-> d.offset, days |-> d.days, from |-> d.from, to |-> d.to, off |-> d.off]
  BY DEF IsCalendar
<1>2. c = [offset |-> d.offset, days |-> d.days, from |-> d.from, to |-> d.to, off |-> off]
  BY <1>1
<1>3. c.offset = d.offset /\ c.days = d.days /\ c.from = d.from /\ c.to = d.to /\ c.off = off
  BY <1>2
<1>4. WellFormed(d)
  BY DEF IsCalendar
<1>5. WellFormed(c)
  BY <1>3, <1>4 DEF WellFormed, Valid
<1>6. c = [offset |-> c.offset, days |-> c.days, from |-> c.from, to |-> c.to, off |-> c.off]
  BY <1>2, <1>3
<1> QED BY <1>5, <1>6 DEF IsCalendar

(* Time off is taken. *)
LEMMA TimeAddOff ==
    ASSUME TimeInv, NEW p \in Principal, NEW span \in Spans, AddTimeOff(p, span)
    PROVE  TimeInv'
<1>1. PICK d : d = calendars[p]
  OBVIOUS
<1>2. IsCalendar(d) /\ d.off \subseteq Block /\ \A b \in d.off : b.starts < b.ends
  BY <1>1 DEF TimeInv, IsCalendar, WellFormed
<1>3. PICK block : block = [starts |-> span.starts, ends |-> span.ends, cancelled |-> FALSE]
  OBVIOUS
<1>4. span.starts \in Nat /\ span.ends \in Nat /\ span.starts < span.ends
  BY SchedulingAssumption DEF AddTimeOff
<1>5. block \in Block /\ block.starts < block.ends
  BY <1>3, <1>4 DEF Block
<1>6. PICK off : off = d.off \cup {block}
  OBVIOUS
<1>7. off \subseteq Block /\ \A b \in off : b.starts < b.ends
  BY <1>2, <1>5, <1>6
<1>8. PICK c : c = [d EXCEPT !.off = off]
  OBVIOUS
<1>9. IsCalendar(c)
  BY <1>2, <1>7, <1>8, OtherTimeOff
<1>10. CommitCalendar(p, c)
  BY <1>1, <1>3, <1>6, <1>8 DEF AddTimeOff
<1> QED BY <1>9, <1>10, TimeCommit

(* Time off is cancelled. *)
LEMMA TimeCancelOff ==
    ASSUME TimeInv, NEW p \in Principal, NEW block \in calendars[p].off, CancelTimeOff(p, block)
    PROVE  TimeInv'
<1>1. PICK d : d = calendars[p]
  OBVIOUS
<1>2. IsCalendar(d) /\ d.off \subseteq Block /\ \A b \in d.off : b.starts < b.ends
  BY <1>1 DEF TimeInv, IsCalendar, WellFormed
<1>3. PICK b : b = [block EXCEPT !.cancelled = TRUE]
  OBVIOUS
<1>4. block \in Block /\ block.starts < block.ends
  BY <1>1, <1>2
<1>5. b \in Block /\ b.starts = block.starts /\ b.ends = block.ends
  BY <1>3, <1>4 DEF Block
<1>6. PICK off : off = (d.off \ {block}) \cup {b}
  OBVIOUS
<1>7. off \subseteq Block /\ \A x \in off : x.starts < x.ends
  BY <1>2, <1>4, <1>5, <1>6
<1>8. PICK c : c = [d EXCEPT !.off = off]
  OBVIOUS
<1>9. IsCalendar(c)
  BY <1>2, <1>7, <1>8, OtherTimeOff
<1>10. CommitCalendar(p, c)
  BY <1>1, <1>3, <1>6, <1>8 DEF CancelTimeOff
<1> QED BY <1>9, <1>10, TimeCommit

(* A plan as a planner returns it. *)
IsPlan(plan) == IsSeq(plan) /\ \A i \in 1 .. Len(plan) : plan[i].effort \in Nat

(* The plan of local_plan. *)
LEMMA LocalPlanIsPlan == IsPlan(LocalPlan)
<1>1. PICK a : a = [deps |-> {},  effort |-> 4,  human |-> TRUE,  caps |-> {"product"}]
  OBVIOUS
<1>2. PICK b : b = [deps |-> {1}, effort |-> 16, human |-> FALSE, caps |-> {}]
  OBVIOUS
<1>3. PICK c : c = [deps |-> {2}, effort |-> 3,  human |-> TRUE,  caps |-> {"product"}]
  OBVIOUS
<1>4. PICK plan : plan = <<a, b, c>>
  OBVIOUS
<1>5. LocalPlan = plan
  BY <1>1, <1>2, <1>3, <1>4 DEF LocalPlan
<1>6. Len(plan) = 3 /\ plan = [i \in 1 .. 3 |-> plan[i]]
  BY <1>4
<1>7. a.effort \in Nat /\ b.effort \in Nat /\ c.effort \in Nat
  BY <1>1, <1>2, <1>3
<1>8. \A i \in 1 .. 3 : plan[i].effort \in Nat
  BY <1>4, <1>7
<1> QED BY <1>5, <1>6, <1>8 DEF IsPlan, IsSeq

(* Every plan that generate_plan may return. *)
LEMMA GeneratedArePlans == \A plan \in GeneratedPlans : IsPlan(plan)
BY LocalPlanIsPlan, SchedulingAssumption DEF GeneratedPlans, IsPlan, IsSeq

(* Whoever gets a task of a plan. *)
LEMMA ChosenOwners ==
    ASSUME NEW plan, NEW N \in Nat, N = Len(plan), NEW cs, CalendarsOk(cs), NEW clock \in Nat,
           NEW chosen, chosen = MatchAll(plan, NoLoad, cs, clock), NEW i \in 1 .. N
    PROVE  chosen[i].owner \in Principal \cup DOMAIN Teams \cup {Nobody}
<1>1. PICK f : MatchLoop(f, plan, NoLoad, cs, clock, N) /\ chosen = f[N].chosen
  BY MatchAllIsTheLoop
<1>2. \A n \in 0 .. N : Matched(f, plan, cs, clock, n)
  BY <1>1, MatchesCount
<1>3. chosen[i] = Match(plan[i], f[i - 1].load, cs, clock)
  BY <1>1, <1>2 DEF Matched
<1>4. PICK n \in 0 .. N : n = i - 1
  OBVIOUS
<1>5. PICK load : load = f[n].load
  OBVIOUS
<1>6. LoadOk(load)
  BY <1>2, <1>4, <1>5 DEF Matched, LoadOk
<1>7. PICK draft : draft = plan[i]
  OBVIOUS
<1>8. PICK m : m = Match(draft, load, cs, clock)
  OBVIOUS
<1>9. m.owner \in Principal \cup DOMAIN Teams \cup {Nobody}
  BY <1>6, <1>8, MatchFacts
<1> QED BY <1>3, <1>4, <1>5, <1>7, <1>8, <1>9

(* A draft with its assignment is a task the scheduler takes. *)
LEMMA NewTaskFacts ==
    ASSUME NEW draft, draft.effort \in Nat, NEW m, m.owner \in Principal \cup DOMAIN Teams,
           NEW t, t = NewTask(draft, m)
    PROVE  /\ IsTask(t) /\ TaskOk(t) /\ t.status = "Proposed" /\ t.deps = draft.deps
           /\ t.owner = m.owner
BY DEF NewTask, IsTask, TaskOk

(* schedule, for a plan of new tasks. *)
LEMMA NewlyScheduled ==
    ASSUME NEW ts, TasksOk(ts), Schedulable(ts), NEW cs, CalendarsOk(cs), NEW clock \in Nat,
           NEW s, s = Schedule(ts, cs, clock), Feasible(s.est),
           \A i \in 1 .. Len(ts) : ts[i].status = "Proposed",
           NEW fl, fl = Scheduled("Draft", ts, s)
    PROVE  FlowOk(fl) /\ fl.status = "Draft"
<1>1. PICK open : open = 1 .. Len(ts)
  OBVIOUS
<1>2. PICK how : how = "medium"
  OBVIOUS
<1>2a. PICK status : status = "Draft"
  OBVIOUS
<1>3. s = Summary(Estimates(ts, cs, clock, how), open, clock) /\ open \subseteq 1 .. Len(ts)
      /\ fl = Scheduled(status, ts, s)
  BY <1>1, <1>2, <1>2a DEF Schedule
<1>4. /\ fl = [status |-> status, tasks |-> fl.tasks, p50 |-> fl.p50, p80 |-> fl.p80, path |-> fl.path]
      /\ Len(fl.tasks) = Len(ts)
      /\ \A i \in 1 .. Len(ts) : fl.tasks[i] = [ts[i] EXCEPT !.est = s.est[i]]
      /\ TasksOk(fl.tasks) /\ Schedulable(fl.tasks)
      /\ Starts(fl.tasks)
      /\ PathExplains(fl.path, fl.tasks, fl.p80)
      /\ \A i \in 1 .. Len(ts) : ~ Terminal(ts[i]) => fl.tasks[i].est.how = how
  BY <1>3, ScheduledIsGood
<1>5. \A i \in 1 .. Len(ts) : fl.tasks[i].status = "Proposed" /\ fl.tasks[i].est.how = "medium"
  <2> SUFFICES ASSUME NEW i \in 1 .. Len(ts)
               PROVE  fl.tasks[i].status = "Proposed" /\ fl.tasks[i].est.how = "medium"
    OBVIOUS
  <2>1. PICK t : t = ts[i]
    OBVIOUS
  <2>2. PICK x : x = s.est[i]
    OBVIOUS
  <2>3. PICK u : u = [t EXCEPT !.est = x]
    OBVIOUS
  <2>4. IsTask(t) /\ t.status = "Proposed"
    BY <2>1 DEF TasksOk
  <2>5. u.status = t.status
    BY <2>3, <2>4, OtherEstimate
  <2>6. fl.tasks[i] = u
    BY <1>4, <2>1, <2>2, <2>3
  <2>7. ~ Terminal(ts[i])
    BY DEF Terminal
  <2> QED BY <1>2, <1>4, <2>4, <2>5, <2>6, <2>7
<1>6. fl.status = "Draft"
  BY <1>2a, <1>4
<1>7. PlanOk(fl)
  BY <1>4 DEF PlanOk
<1>8. fl = [status |-> fl.status, tasks |-> fl.tasks, p50 |-> fl.p50, p80 |-> fl.p80, path |-> fl.path]
  BY <1>2a, <1>4, <1>6, Zenon
<1>9. FlowOk(fl)
  BY <1>4, <1>5, <1>6, <1>7, <1>8 DEF FlowOk, InProgress
<1> QED BY <1>6, <1>9

(* land_plan. *)
LEMMA TimeLand == ASSUME TimeInv, NEW plan \in GeneratedPlans, LandPlan(plan) PROVE TimeInv'
<1>1. PICK cs : cs = calendars
  OBVIOUS
<1>2. PICK clock \in Nat : clock = now
  BY DEF TimeInv
<1>3. CalendarsOk(cs)
  BY <1>1 DEF TimeInv, CalendarsOk, IsCalendar
<1>4. IsPlan(plan)
  BY GeneratedArePlans
<1>5. PICK n \in Nat : n = Len(plan)
  BY <1>4 DEF IsPlan, IsSeq
<1>6. PICK chosen : chosen = MatchAll(plan, NoLoad, cs, clock)
  OBVIOUS
<1>7. PICK ts : ts = [i \in 1 .. n |-> NewTask(plan[i], chosen[i])]
  OBVIOUS
<1>8. PICK s : s = Schedule(ts, cs, clock)
  OBVIOUS
<1>9. /\ flow.status = "None"
      /\ \A i \in 1 .. n : chosen[i].owner # Nobody
      /\ Schedulable(ts) /\ Feasible(s.est)
      /\ flow' = Scheduled("Draft", ts, s)
      /\ now' = now /\ calendars' = calendars /\ change' = change
  BY <1>1, <1>2, <1>5, <1>6, <1>7, <1>8 DEF LandPlan, NoLoad
<1>10. ASSUME NEW i \in 1 .. n
       PROVE  IsTask(ts[i]) /\ TaskOk(ts[i]) /\ ts[i].status = "Proposed"
  <2>1. chosen[i].owner \in Principal \cup DOMAIN Teams \cup {Nobody}
    BY <1>3, <1>5, <1>6, ChosenOwners
  <2>2. PICK m : m = chosen[i]
    OBVIOUS
  <2>3. PICK draft : draft = plan[i]
    OBVIOUS
  <2>4. m.owner \in Principal \cup DOMAIN Teams
    BY <1>9, <2>1, <2>2
  <2>5. draft.effort \in Nat
    BY <1>4, <1>5, <2>3 DEF IsPlan
  <2>6. PICK t : t = NewTask(draft, m)
    OBVIOUS
  <2>7. IsTask(t) /\ TaskOk(t) /\ t.status = "Proposed"
    BY <2>4, <2>5, <2>6, NewTaskFacts
  <2> QED BY <1>7, <2>2, <2>3, <2>6, <2>7
<1>11. IsSeq(ts) /\ Len(ts) = n
  <2>1. ts = [i \in 1 .. n |-> ts[i]]
    BY <1>7
  <2> QED BY <2>1, IsSeqIntro
<1>12. TasksOk(ts)
  BY <1>10, <1>11 DEF TasksOk
<1>13. PICK gl : gl = flow'
  OBVIOUS
<1>14. FlowOk(gl) /\ gl.status = "Draft"
  <2>1. \A i \in 1 .. Len(ts) : ts[i].status = "Proposed"
    BY <1>10, <1>11
  <2>2. gl = Scheduled("Draft", ts, s) /\ Schedulable(ts) /\ Feasible(s.est)
    BY <1>9, <1>13
  <2> QED BY <1>3, <1>8, <1>12, <2>1, <2>2, NewlyScheduled
<1>15. Attends(gl, calendars)
  BY <1>14 DEF Attends, InProgress
<1>16. ChangeOk(change', gl)
  <2>1. change = NoChange
    BY <1>9 DEF TimeInv, ChangeOk
  <2> QED BY <1>9, <2>1 DEF ChangeOk
<1> QED BY <1>9, <1>13, <1>14, <1>15, <1>16, TimeFrame

(* The load of Matcher::new. *)
LEMMA ActiveLoadOk == ASSUME TimeInv PROVE LoadOk(ActiveLoad)
<1> SUFFICES ASSUME NEW p \in Principal PROVE ActiveLoad[p] \in Nat
  BY DEF LoadOk
<1>1. PICK n \in Nat : n = Len(flow.tasks)
  BY DEF TimeInv, FlowOk, TasksOk, IsSeq
<1>2. PICK S : S = {i \in 1 .. n : ~ Terminal(flow.tasks[i]) /\ flow.tasks[i].owner = p}
  OBVIOUS
<1>3. S \subseteq 1 .. n
  BY <1>2
<1>4. IsFiniteSet(1 .. n)
  <2>1. 1 \in Int /\ n \in Int
    OBVIOUS
  <2> QED BY <2>1, FS_Interval
<1>5. Cardinality(S) \in Nat
  BY <1>3, <1>4, FS_Subset, FS_CardinalityType
<1> QED BY <1>1, <1>2, <1>5 DEF ActiveLoad

(* A change request is turned down. *)
LEMMA TimeRejectChange == ASSUME TimeInv, RejectFlowChange PROVE TimeInv'
BY DEF TimeInv, RejectFlowChange, ChangeOk

(* Time passes. *)
LEMMA TimeTick == ASSUME TimeInv, Tick PROVE TimeInv'
<1>1. now' \in Nat /\ calendars' = calendars /\ flow' = flow /\ change' = change
  BY SchedulingAssumption DEF Tick
<1> QED BY <1>1 DEF TimeInv

(* A sequence with one entry replaced. *)
LEMMA EntryReplaced ==
    ASSUME NEW n \in Nat, NEW f, f = [i \in 1 .. n |-> f[i]], NEW k \in 1 .. n, NEW x,
           NEW g, g = [f EXCEPT ![k] = x]
    PROVE  Len(g) = n /\ g[k] = x /\ \A i \in 1 .. n : i # k => g[i] = f[i]
<1>1. g = [i \in 1 .. n |-> IF i = k THEN x ELSE f[i]]
  OBVIOUS
<1>2. g = [i \in 1 .. n |-> g[i]]
  BY <1>1
<1> QED BY <1>1, <1>2, IsSeqIntro

(* The last task of a revision, whichever it is, has an effort. *)
LEMMA RevisionEffort ==
    ASSUME TimeInv, InProgress(flow), NEW plan \in RevisionPlans
    PROVE  Last(plan).effort \in Nat
<1>1. PICK n \in Nat : n = Len(flow.tasks) /\ n >= 1
  <2>1. TasksOk(flow.tasks) /\ \E i \in 1 .. Len(flow.tasks) : flow.tasks[i].status # "Completed"
    BY DEF TimeInv, FlowOk
  <2>2. Len(flow.tasks) \in Nat
    BY <2>1 DEF TasksOk, IsSeq
  <2> QED BY <2>1, <2>2
<1>2. PICK leaves : leaves = {i \in 1 .. n : \A j \in 1 .. n : i \notin flow.tasks[j].deps}
  OBVIOUS
<1>3. PICK r : r = [deps |-> leaves, effort |-> 8, human |-> FALSE, caps |-> {"security"}]
  OBVIOUS
<1>4. PICK old : old = FlowToPlan
  OBVIOUS
<1>5. PICK base : base = Append(old, r)
  OBVIOUS
<1>6. LocalRevision = base
  BY <1>1, <1>2, <1>3, <1>4, <1>5 DEF LocalRevision
<1>7. PICK m \in Nat : m = n + 1 /\ m # 1
  BY <1>1
<1>8. old = [i \in 1 .. n |-> old[i]]
  BY <1>1, <1>4 DEF FlowToPlan
<1>9. Len(base) = m /\ base = [i \in 1 .. m |-> base[i]] /\ base[m] = r
  <2>1. PICK E : E = {old[i] : i \in 1 .. n} \cup {r}
    OBVIOUS
  <2>2. \A i \in 1 .. n : old[i] \in E
    BY <2>1
  <2>3. old \in Seq(E) /\ Len(old) = n /\ r \in E
    BY <1>8, <2>1, <2>2, SeqIntro
  <2>4. /\ Append(old, r) \in Seq(E) /\ Len(Append(old, r)) = Len(old) + 1
        /\ Append(old, r)[Len(old) + 1] = r
    BY <2>3, AppendProperties
  <2>5. base \in Seq(E) /\ Len(base) = m /\ base[m] = r
    BY <1>5, <1>7, <2>3, <2>4
  <2> QED BY <2>5
<1>10. r.effort = 8 /\ 1 \in 1 .. m /\ m \in 1 .. m
  BY <1>3, <1>7
<1>11. CASE plan = base
  BY <1>9, <1>10, <1>11 DEF Last
<1>12. CASE plan = [base EXCEPT ![1].effort = @ + 1]
  <2>1. PICK x : x = [base[1] EXCEPT !.effort = @ + 1]
    OBVIOUS
  <2>2. plan = [base EXCEPT ![1] = x]
    BY <1>12, <2>1
  <2>3. Len(plan) = m /\ \A i \in 1 .. m : i # 1 => plan[i] = base[i]
    BY <1>9, <1>10, <2>2, EntryReplaced
  <2>4. plan[m] = r
    BY <1>7, <1>9, <1>10, <2>3
  <2> QED BY <1>10, <2>3, <2>4 DEF Last
<1>13. ASSUME NEW v, plan = [base EXCEPT ![m].deps = v] \/ plan = [base EXCEPT ![m].caps = v]
       PROVE  Last(plan).effort \in Nat
  <2>1. CASE plan = [base EXCEPT ![m].deps = v]
    <3>1. PICK x : x = [r EXCEPT !.deps = v]
      OBVIOUS
    <3>2. plan = [base EXCEPT ![m] = x]
      BY <1>9, <2>1, <3>1
    <3>3. Len(plan) = m /\ plan[m] = x
      BY <1>9, <1>10, <3>2, EntryReplaced
    <3>4. x.effort = 8
      BY <1>3, <3>1
    <3> QED BY <3>3, <3>4 DEF Last
  <2>2. CASE plan = [base EXCEPT ![m].caps = v]
    <3>1. PICK x : x = [r EXCEPT !.caps = v]
      OBVIOUS
    <3>2. plan = [base EXCEPT ![m] = x]
      BY <1>9, <2>2, <3>1
    <3>3. Len(plan) = m /\ plan[m] = x
      BY <1>9, <1>10, <3>2, EntryReplaced
    <3>4. x.effort = 8
      BY <1>3, <3>1
    <3> QED BY <3>3, <3>4 DEF Last
  <2> QED BY <1>13, <2>1, <2>2
<1>14. \/ plan = base
       \/ plan = [base EXCEPT ![1].effort = @ + 1]
       \/ plan = [base EXCEPT ![m].deps = {m}]
       \/ plan = [base EXCEPT ![m].caps = {"code"}]
  BY <1>1, <1>6, <1>7 DEF RevisionPlans
<1> QED BY <1>11, <1>12, <1>13, <1>14

(* propose_flow_change. *)
LEMMA TimePropose ==
    ASSUME TimeInv, UnderWay, NEW plan \in RevisionPlans, ProposeFlowChange(plan)
    PROVE  TimeInv'
<1>1. InProgress(flow)
  BY DEF UnderWay, InProgress
<1>2. PICK cs : cs = calendars
  OBVIOUS
<1>3. PICK clock \in Nat : clock = now
  BY DEF TimeInv
<1>4. CalendarsOk(cs)
  BY <1>2 DEF TimeInv, CalendarsOk, IsCalendar
<1>5. PICK draft : draft = Last(plan)
  OBVIOUS
<1>6. draft.effort \in Nat
  BY <1>1, <1>5, RevisionEffort
<1>7. PICK load : load = ActiveLoad
  OBVIOUS
<1>8. LoadOk(load)
  BY <1>7, ActiveLoadOk
<1>9. PICK m : m = Match(draft, load, cs, clock)
  OBVIOUS
<1>10. m.owner \in Principal \cup DOMAIN Teams \cup {Nobody}
  BY <1>4, <1>8, <1>9, MatchFacts
<1>11. PICK t : t = NewTask(draft, m)
  OBVIOUS
<1>12. PICK ts : ts = flow.tasks
  OBVIOUS
<1>13. PICK us : us = Append(ts, t)
  OBVIOUS
<1>14. PICK s : s = Reschedule(us, cs, clock)
  OBVIOUS
<1>15. PICK x : x = s.est[Len(us)]
  OBVIOUS
<1>16. PICK u : u = [t EXCEPT !.est = x]
  OBVIOUS
<1>17. /\ t.owner # Nobody /\ Schedulable(us)
       /\ change' = [task |-> <<u>>, statuses |-> Statuses, p80 |-> flow.p80]
       /\ now' = now /\ calendars' = calendars /\ flow' = flow
  BY <1>2, <1>3, <1>5, <1>7, <1>9, <1>11, <1>12, <1>13, <1>14, <1>15, <1>16 DEF ProposeFlowChange
<1>18. m.owner \in Principal \cup DOMAIN Teams
  <2>1. t.owner = m.owner
    BY <1>11 DEF NewTask
  <2> QED BY <1>10, <1>17, <2>1
<1>19. IsTask(t) /\ TaskOk(t)
  BY <1>6, <1>11, <1>18, NewTaskFacts
<1>20. IsTask(u) /\ TaskOk(u) /\ u.deps = t.deps
  <2>1. /\ IsTask(u) /\ u.deps = t.deps /\ u.effort = t.effort
        /\ u.owner = t.owner /\ u.heartbeat = t.heartbeat
    BY <1>16, <1>19, OtherEstimate
  <2> QED BY <1>19, <2>1 DEF TaskOk
<1>21. TasksOk(ts)
  BY <1>12 DEF TimeInv, FlowOk
<1>22. PICK n \in Nat : n = Len(ts)
  BY <1>21 DEF TasksOk, IsSeq
<1>23. PICK vs : vs = Append(ts, u)
  OBVIOUS
<1>24. Schedulable(vs)
  <2>1. TasksOk(us) /\ Longer(us, ts, t)
    BY <1>13, <1>19, <1>21, OneMore
  <2>2. TasksOk(vs) /\ Longer(vs, ts, u)
    BY <1>20, <1>21, <1>23, OneMore
  <2>3. Len(us) = n + 1 /\ Len(vs) = n + 1 /\ us[n + 1] = t /\ vs[n + 1] = u
        /\ \A i \in 1 .. n : us[i] = vs[i]
    BY <1>22, <2>1, <2>2 DEF Longer
  <2>4. \A i \in 1 .. n + 1 : i \in 1 .. n \/ i = n + 1
    OBVIOUS
  <2>5. \A i \in 1 .. Len(us) : us[i].deps = vs[i].deps
    BY <1>20, <2>3, <2>4
  <2>6. IsSeq(us) /\ IsSeq(vs) /\ Len(us) = Len(vs)
    BY <2>1, <2>2, <2>3 DEF TasksOk
  <2> QED BY <1>17, <2>5, <2>6, SchedulableByDeps
<1>25. PICK ch : ch = change'
  OBVIOUS
<1>26. PICK st : st = Statuses
  OBVIOUS
<1>27. ch = [task |-> <<u>>, statuses |-> st, p80 |-> flow.p80] /\ ch.task = <<u>> /\ ch.statuses = st
  BY <1>17, <1>25, <1>26
<1>28. ch.task[1] = u
  <2>1. PICK w : w = ch.task
    OBVIOUS
  <2>2. w = <<u>>
    BY <1>27, <2>1
  <2>3. w[1] = u
    BY <2>2
  <2> QED BY <2>1, <2>3
<1>29. PICK i \in 1 .. n : ts[i].status # "Completed"
  BY <1>1, <1>12, <1>22 DEF TimeInv, FlowOk
<1>30. st[i] # "Completed"
  BY <1>12, <1>22, <1>26, <1>29 DEF Statuses
<1>31. ChangeOk(ch, flow)
  <2>1. ch = [task |-> <<ch.task[1]>>, statuses |-> ch.statuses, p80 |-> ch.p80]
    BY <1>27, <1>28
  <2>2. IsTask(ch.task[1]) /\ TaskOk(ch.task[1]) /\ Schedulable(Append(flow.tasks, ch.task[1]))
    BY <1>12, <1>20, <1>23, <1>24, <1>28
  <2>3. flow.status \in {"Approved", "Active", "Completed"}
    BY <1>1 DEF InProgress
  <2>4. \E j \in 1 .. Len(flow.tasks) : ch.statuses[j] # "Completed"
    BY <1>12, <1>22, <1>27, <1>30
  <2> QED BY <2>1, <2>2, <2>3, <2>4 DEF ChangeOk
<1>32. FlowOk(flow') /\ Attends(flow', calendars)
  BY <1>17 DEF TimeInv
<1>33. ChangeOk(change', flow')
  BY <1>17, <1>25, <1>31
<1> QED BY <1>17, <1>32, <1>33, TimeFrame

(* approve_flow_change: the flow cannot have been completed meanwhile. *)
LEMMA TimeApproveChange == ASSUME TimeInv, ApproveFlowChange PROVE TimeInv'
<1>1. PICK fl : fl = flow
  OBVIOUS
<1>2. PICK cs : cs = calendars
  OBVIOUS
<1>3. PICK clock \in Nat : clock = now
  BY DEF TimeInv
<1>4. CalendarsOk(cs) /\ FlowOk(fl)
  BY <1>1, <1>2 DEF TimeInv, CalendarsOk, IsCalendar
<1>5. PICK ch : ch = change
  OBVIOUS
<1>6. ch # NoChange /\ ChangeOk(ch, fl)
  BY <1>1, <1>5 DEF TimeInv, ApproveFlowChange
<1>7. PICK t : t = ch.task[1]
  OBVIOUS
<1>8. IsTask(t) /\ TaskOk(t) /\ Schedulable(Append(fl.tasks, t))
      /\ fl.status \in {"Approved", "Active", "Completed"}
  BY <1>6, <1>7 DEF ChangeOk
<1>9. PICK u : u = [t EXCEPT !.status = "Assigned"]
  OBVIOUS
<1>10. IsTask(u) /\ TaskOk(u) /\ u.deps = t.deps /\ u.status = "Assigned"
  BY <1>8, <1>9, WithStatusFacts
<1>11. PICK ts : ts = fl.tasks
  OBVIOUS
<1>12. TasksOk(ts)
  BY <1>4, <1>11 DEF FlowOk
<1>13. PICK n \in Nat : n = Len(ts)
  BY <1>12 DEF TasksOk, IsSeq
<1>14. PICK vs : vs = Append(ts, u)
  OBVIOUS
<1>15. PICK s : s = Reschedule(vs, cs, clock) /\ Feasible(s.est) /\ flow' = Scheduled(fl.status, vs, s)
  BY <1>1, <1>2, <1>3, <1>5, <1>7, <1>9, <1>11, <1>14 DEF ApproveFlowChange
<1>16. TasksOk(vs) /\ Len(vs) = n + 1 /\ vs[n + 1] = u /\ \A i \in 1 .. n : vs[i] = ts[i]
  <2>1. TasksOk(vs) /\ Longer(vs, ts, u)
    BY <1>10, <1>12, <1>14, OneMore
  <2> QED BY <1>13, <2>1 DEF Longer
<1>17. Schedulable(vs)
  <2>0. PICK us : us = Append(ts, t)
    OBVIOUS
  <2>1. TasksOk(us) /\ Longer(us, ts, t)
    BY <1>8, <1>12, <2>0, OneMore
  <2>2. Len(us) = n + 1 /\ us[n + 1] = t /\ \A i \in 1 .. n : us[i] = ts[i]
    BY <1>13, <2>1 DEF Longer
  <2>4. \A i \in 1 .. n + 1 : i \in 1 .. n \/ i = n + 1
    OBVIOUS
  <2>5. \A i \in 1 .. Len(us) : us[i].deps = vs[i].deps
    BY <1>10, <1>16, <2>2, <2>4
  <2>6. IsSeq(us) /\ IsSeq(vs) /\ Len(us) = Len(vs) /\ Schedulable(us)
    BY <1>8, <1>11, <1>16, <2>0, <2>1, <2>2 DEF TasksOk
  <2> QED BY <2>5, <2>6, SchedulableByDeps
<1>18. fl.status # "Completed"
  <2>1. PICK i \in 1 .. n : ch.statuses[i] # "Completed"
    BY <1>6, <1>11, <1>13 DEF ChangeOk
  <2>2. Statuses = ch.statuses
    BY <1>5 DEF ApproveFlowChange
  <2>3. ts[i].status # "Completed"
    BY <1>1, <1>11, <1>13, <2>1, <2>2 DEF Statuses
  <2> QED BY <1>4, <1>11, <1>13, <2>3 DEF FlowOk
<1>19. PICK status : status = fl.status
  OBVIOUS
<1>20. PICK gl : gl = flow'
  OBVIOUS
<1>21. FlowOk(gl) /\ Attends(gl, cs)
  <2>1. status \in {"Approved", "Active"}
    BY <1>8, <1>18, <1>19
  <2>2. PICK j \in 1 .. Len(vs) : j = n + 1
    BY <1>16
  <2>3. vs[j].status # "Completed"
    BY <1>10, <1>16, <2>2
  <2>4. s = Reschedule(vs, cs, clock) /\ Feasible(s.est) /\ gl = Scheduled(status, vs, s)
    BY <1>15, <1>19, <1>20
  <2> QED BY <1>4, <1>16, <1>17, <2>1, <2>3, <2>4, Rescheduled
<1>22. change' = NoChange /\ now' = now /\ calendars' = calendars
  BY DEF ApproveFlowChange
<1>23. ChangeOk(change', flow')
  BY <1>22 DEF ChangeOk
<1> QED BY <1>2, <1>20, <1>21, <1>22, <1>23, TimeFrame

(* Every step keeps the invariant. *)
LEMMA NextTime == ASSUME TimeInv, [SchedulingNext]_vars PROVE TimeInv'
<1>1. CASE UNCHANGED vars
  BY <1>1 DEF TimeInv, vars
<1>2. CASE Tick
  BY <1>2, TimeTick
<1>3. CASE \E plan \in GeneratedPlans : LandPlan(plan)
  BY <1>3, TimeLand
<1>4. CASE ApproveFlow
  BY <1>4, TimeApprove
<1>5. ASSUME NEW i \in 1 .. Len(flow.tasks),
             \/ RejectTask(i)
             \/ FinishTask(i)
             \/ \E effort \in Efforts : NegotiateTask(i, effort)
             \/ \E owner \in Principal \cup DOMAIN Teams : ReassignTask(i, owner)
      PROVE  TimeInv'
  BY <1>5, TimeReject, TimeFinish, TimeNegotiate, TimeReassign
<1>6. ASSUME NEW p \in Principal,
             \/ \E shape \in Shapes : ConfigureWorkCalendar(p, shape)
             \/ \E span \in Spans : AddTimeOff(p, span)
             \/ \E block \in calendars[p].off : CancelTimeOff(p, block)
      PROVE  TimeInv'
  BY <1>6, TimeConfigure, TimeAddOff, TimeCancelOff
<1>7. CASE UnderWay /\ \E plan \in RevisionPlans : ProposeFlowChange(plan)
  BY <1>7, TimePropose
<1>8. CASE ApproveFlowChange
  BY <1>8, TimeApproveChange
<1>9. CASE RejectFlowChange
  BY <1>9, TimeRejectChange
<1> QED BY <1>1, <1>2, <1>3, <1>4, <1>5, <1>6, <1>7, <1>8, <1>9 DEF SchedulingNext

-----------------------------------------------------------------------------
(***************************************************************************)
(* What follows.                                                           *)
(***************************************************************************)

(* Through every plan, approval, negotiation, reassignment, change         *)
(* request and change of calendar, the flow has a plan that can be         *)
(* carried out and the change on offer is one the flow can take.           *)
THEOREM TimeInvariant == SchedulingSpec => []TimeInv
<1>1. SchedulingInit => TimeInv
  BY InitTime
<1>2. TimeInv /\ [SchedulingNext]_vars => TimeInv'
  BY NextTime
<1> QED BY <1>1, <1>2, PTL DEF SchedulingSpec

(* reschedule never plans a task before all it depends on has reached its  *)
(* P80, nor at an instant at which its owner does not work by the          *)
(* calendar of today: for any people, calendars, time off, plans and       *)
(* clock.                                                                  *)
THEOREM FeasibleSchedules == SchedulingSpec => []ScheduleIsFeasible
<1>1. TimeInv => ScheduleIsFeasible
  <2> SUFFICES ASSUME TimeInv PROVE ScheduleIsFeasible
    OBVIOUS
  <2>1. PICK fl : fl = flow
    OBVIOUS
  <2>2. FlowOk(fl) /\ Attends(fl, calendars)
    BY <2>1 DEF TimeInv
  <2>3. Starts(fl.tasks)
    <3>1. CASE fl.status = "None"
      <4>1. fl.tasks = <<>>
        BY <2>2, <3>1 DEF FlowOk, NoFlow
      <4> QED BY <4>1 DEF Starts
    <3>2. CASE fl.status # "None"
      BY <2>2, <3>2 DEF FlowOk, PlanOk
    <3> QED BY <3>1, <3>2
  <2> QED BY <2>1, <2>2, <2>3 DEF ScheduleIsFeasible, Starts, Attends, Planned, UnderWay, InProgress
<1> QED BY <1>1, TimeInvariant, PTL

(* The critical path of a flow is a chain of dependencies, each the one    *)
(* that holds up the next most, and ends in the task the P80 date is       *)
(* taken from.                                                             *)
THEOREM PathsExplainFinish == SchedulingSpec => []CriticalPathExplainsFinish
<1>1. TimeInv => CriticalPathExplainsFinish
  <2> SUFFICES ASSUME TimeInv, flow.path # <<>>
               PROVE  LET path == flow.path
                      IN  /\ Planned(Last(path)).p80 = flow.p80
                          /\ flow.tasks[Head(path)].deps = {}
                          /\ \A k \in 2 .. Len(path) :
                                /\ path[k - 1] \in flow.tasks[path[k]].deps
                                /\ \A d \in flow.tasks[path[k]].deps :
                                      Planned(path[k - 1]).p80 >= Planned(d).p80
    BY DEF CriticalPathExplainsFinish
  <2>1. PICK fl : fl = flow
    OBVIOUS
  <2>2. FlowOk(fl)
    BY <2>1 DEF TimeInv
  <2>3. fl.status # "None"
    <3>1. SUFFICES ASSUME fl.status = "None" PROVE FALSE
      OBVIOUS
    <3>2. fl.path = <<>>
      BY <2>2, <3>1 DEF FlowOk, NoFlow
    <3> QED BY <2>1, <3>2
  <2>4. PlanOk(fl) /\ TasksOk(fl.tasks)
    BY <2>2, <2>3 DEF FlowOk
  <2>5. PICK ts : ts = fl.tasks
    OBVIOUS
  <2>6. PICK n \in Nat : n = Len(ts)
    BY <2>4, <2>5 DEF TasksOk, IsSeq
  <2>7. PICK path : path = fl.path
    OBVIOUS
  <2>8. PICK i \in 1 .. n : GoodPath(path, i, Ests(ts), ts) /\ ts[i].est.p80 = fl.p80
    BY <2>1, <2>4, <2>5, <2>6, <2>7 DEF PlanOk, PathExplains
  <2>9. path \in Seq(1 .. n) /\ Len(path) \in Nat /\ Len(path) >= 1 /\ path[Len(path)] = i
    BY <2>6, <2>8 DEF GoodPath
  <2>10. \A j \in 1 .. n : Ests(ts)[j] = ts[j].est
    BY <2>6 DEF Ests
  <2>11. Last(path) = i
    BY <2>9 DEF Last
  <2>12. Head(path) = path[1]
    <3>1. path # <<>>
      BY <2>1, <2>7
    <3> QED BY <2>9, <3>1, HeadTailProperties
  <2>13. ts[Head(path)].deps = {}
    BY <2>8, <2>12 DEF GoodPath
  <2>14. ASSUME NEW k \in 2 .. Len(path)
         PROVE  /\ path[k - 1] \in ts[path[k]].deps
                /\ \A d \in ts[path[k]].deps : ts[path[k - 1]].est.p80 >= ts[d].est.p80
    <3>1. /\ path[k - 1] \in ts[path[k]].deps
          /\ \A d \in ts[path[k]].deps : Ests(ts)[path[k - 1]].p80 >= Ests(ts)[d].p80
      BY <2>8 DEF GoodPath
    <3>2. path[k] \in 1 .. n /\ path[k - 1] \in 1 .. n
      <4>1. \A j \in 1 .. Len(path) : path[j] \in 1 .. n
        BY <2>9
      <4>2. k \in 1 .. Len(path) /\ k - 1 \in 1 .. Len(path)
        BY <2>9
      <4> QED BY <4>1, <4>2
    <3>3. \A d \in ts[path[k]].deps : d \in 1 .. n
      BY <2>4, <2>5, <2>6, <3>2 DEF PlanOk, Schedulable
    <3> QED BY <2>10, <3>1, <3>2, <3>3
  <2> QED BY <2>1, <2>5, <2>7, <2>8, <2>11, <2>13, <2>14 DEF Planned
<1> QED BY <1>1, TimeInvariant, PTL

(* match_task, which adds to the load of whoever it chooses, shares a      *)
(* plan between people of one profile and calendar as long as the load     *)
(* still counts.                                                           *)
THEOREM EqualsShare == SchedulingSpec => []EqualsShareThePlan
<1>1. TimeInv => EqualsShareThePlan
  <2> SUFFICES ASSUME TimeInv, NEW plan \in GeneratedPlans, NEW p \in Principal, NEW q \in Principal
               PROVE  LET chosen  == MatchAll(plan, [r \in Principal |-> 0], calendars, now)
                          Owns(r) == Cardinality({i \in 1 .. Len(plan) : chosen[i].owner = r})
                      IN  /\ People[p] = People[q] /\ calendars[p] = calendars[q]
                          /\ Owns(q) < 4
                          => Owns(p) <= Owns(q) + 1
    BY DEF EqualsShareThePlan
  <2>1. PICK cs : cs = calendars
    OBVIOUS
  <2>2. PICK clock \in Nat : clock = now
    BY DEF TimeInv
  <2>3. CalendarsOk(cs)
    BY <2>1 DEF TimeInv, CalendarsOk, IsCalendar
  <2>4. PICK n \in Nat : n = Len(plan)
    BY GeneratedArePlans DEF IsPlan, IsSeq
  <2>5. PICK chosen : chosen = MatchAll(plan, NoLoad, cs, clock)
    OBVIOUS
  <2>6. PICK a : a = Cardinality(Got(chosen, p, n))
    OBVIOUS
  <2>7. PICK b : b = Cardinality(Got(chosen, q, n))
    OBVIOUS
  <2>8. People[p] = People[q] /\ cs[p] = cs[q] /\ b < 4 => a <= b + 1
    <3> SUFFICES ASSUME People[p] = People[q], cs[p] = cs[q], b < 4 PROVE a <= b + 1
      OBVIOUS
    <3>1. Cardinality(Got(chosen, q, n)) < 4
      BY <2>7
    <3>2. Cardinality(Got(chosen, p, n)) <= Cardinality(Got(chosen, q, n)) + 1
      BY <2>3, <2>4, <2>5, <3>1, AlikeShareAlike
    <3> QED BY <2>6, <2>7, <3>2
  <2> QED BY <2>1, <2>2, <2>4, <2>5, <2>6, <2>7, <2>8 DEF Got, NoLoad
<1> QED BY <1>1, TimeInvariant, PTL

(* next_available and add_working_hours are exact, or answer the error. *)
ExactOrRefused ==
    \A p \in Principal, start \in Nat :
        /\ NextAvailable(calendars[p], start) = Never \/ EarliestFrom(calendars[p], start)
        /\ \A units \in Nat : \/ AddWorkingHours(calendars[p], start, units) = Never
                              \/ Worked(calendars[p], start, units)

(* On every calendar that people can come to have, from every instant on   *)
(* and for any number of hours, next_available and add_working_hours are   *)
(* exact unless they give up at MAX_SEARCH_DAYS.                           *)
THEOREM ExactWorkingTime == SchedulingSpec => []ExactOrRefused
<1>1. TimeInv => ExactOrRefused
  <2> SUFFICES ASSUME TimeInv, NEW p \in Principal, NEW start \in Nat
               PROVE  /\ NextAvailable(calendars[p], start) = Never \/ EarliestFrom(calendars[p], start)
                      /\ \A units \in Nat : \/ AddWorkingHours(calendars[p], start, units) = Never
                                            \/ Worked(calendars[p], start, units)
    BY DEF ExactOrRefused
  <2>1. PICK c : c = calendars[p]
    OBVIOUS
  <2>2. WellFormed(c)
    BY <2>1 DEF TimeInv, IsCalendar
  <2>3. NextAvailable(c, start) = Never \/ EarliestFrom(c, start)
    BY <2>2, NextAvailableIsEarliest
  <2>4. \A units \in Nat : AddWorkingHours(c, start, units) = Never \/ Worked(c, start, units)
    BY <2>2, AddWorkingHoursIsExact
  <2> QED BY <2>1, <2>3, <2>4
<1> QED BY <1>1, TimeInvariant, PTL

(* No search of the week that the property speaks of gives up. *)
SearchesSucceed ==
    \A p \in Principal, i \in 0 .. WeekLength * DayLength :
        /\ NextAvailable(calendars[p], i) # Never
        /\ \A units \in {1, 3, 7} : AddWorkingHours(calendars[p], i, units) # Never

(* What the model checker finds of WorkingTimeIsExact holds for any        *)
(* length of day and week, search limit, calendars and time off, unless a  *)
(* search gives up at its limit.                                           *)
THEOREM WorkingTime == SchedulingSpec => [](SearchesSucceed => WorkingTimeIsExact)
<1>1. ExactOrRefused => (SearchesSucceed => WorkingTimeIsExact)
  <2> SUFFICES ASSUME ExactOrRefused, SearchesSucceed, NEW p \in Principal,
                      NEW i \in 0 .. WeekLength * DayLength
               PROVE  /\ EarliestFrom(calendars[p], i)
                      /\ \A units \in {1, 3, 7} : Worked(calendars[p], i, units)
    BY DEF WorkingTimeIsExact
  <2>1. i \in Nat
    <3>1. WeekLength \in Nat /\ DayLength \in Nat
      BY CalendarAssumption
    <3>2. PICK w \in Nat : w = WeekLength * DayLength
      BY <3>1
    <3> QED BY <3>2
  <2>2. {1, 3, 7} \subseteq Nat
    OBVIOUS
  <2> QED BY <2>1, <2>2 DEF ExactOrRefused, SearchesSucceed
<1> QED BY <1>1, ExactWorkingTime, PTL
=============================================================================
