------------------------- MODULE IntegrationsProofs -------------------------
(***************************************************************************)
(* What the parts of the system that talk to other systems promise, proved  *)
(* for any number of requests, endpoints, merge requests and processes: the *)
(* gates of GitLab writes and Office releases, the notification outbox, and *)
(* the record of GitLab's merge requests and pipelines.                     *)
(***************************************************************************)
EXTENDS WriteGates, Notifications, Sync, FiniteSetTheorems, TLAPS

-----------------------------------------------------------------------------
(***************************************************************************)
(* The gates.  The two invariants of WriteGates.tla are not inductive.      *)
(* They rest on four facts about the dispatch ids: each is issued to one    *)
(* loop, its request is sent once, the answer a loop carries says what the  *)
(* provider did, and without retry_safe no more ids are issued than there   *)
(* were approvals.                                                         *)
(***************************************************************************)

(* An item is dispatched after an approval, and one that is not retry_safe    *)
(* once per approval; Approved stands for the dispatch still to come.        *)
IssuedWithinApprovals ==
    \A i \in Items :
        /\ issued[i] > 0 \/ status[i] = "Approved" => approvals[i] > 0
        /\ status[i] = "Dispatching" => issued[i] > 0
        /\ ~ RetrySafe(i) => issued[i] <= approvals[i]
        /\ ~ RetrySafe(i) /\ status[i] = "Approved" => issued[i] < approvals[i]

(* No loop and no request has a dispatch id that was not issued.            *)
IdsAreIssued ==
    /\ \A d \in Dispatchers : loop[d] # Idle => loop[d].id <= issued[loop[d].item]
    /\ \A q \in inflight \cup applied : q[2] <= issued[q[1]]

(* A dispatch belongs to one loop.                                          *)
OneLoopPerDispatch ==
    \A d, e \in Dispatchers :
        loop[d] # Idle /\ loop[e] # Idle /\ Call(d) = Call(e) => d = e

(* A request is sent once and takes effect once.                            *)
SentOnce ==
    /\ \A d \in Dispatchers : loop[d].at = "claimed" => Call(d) \notin inflight \cup applied
    /\ inflight \cap applied = {}

(* What the provider shows of dispatch n of item i.                          *)
Shown(i, n) == IF RetrySafe(i) THEN \E q \in applied : q[1] = i ELSE <<i, n>> \in applied

(* The answer that a loop is about to record is true.                       *)
AnswersAreTrue ==
    \A d \in Dispatchers : loop[d].at = "answered" =>
        /\ loop[d].outcome = "ok" => Shown(loop[d].item, loop[d].id)
        /\ loop[d].outcome = "failed" /\ ~ RetrySafe(loop[d].item) =>
               Call(d) \notin inflight \cup applied

(* What is recorded is true; a dispatch recorded as failed has no loop left.  *)
TrueRecord(i) ==
    /\ status[i] = "Done" => Shown(i, dispatchId[i])
    /\ (status[i] = "Done" /\ order[i].provider = "gitlab") <=> artifact[i]
    /\ status[i] = "Failed" =>
           \A d \in Dispatchers : loop[d] # Idle => Call(d) # <<i, dispatchId[i]>>
    /\ status[i] = "Failed" /\ ~ RetrySafe(i) =>
           <<i, dispatchId[i]>> \notin inflight \cup applied

RecordIsTrue == \A i \in Items : TrueRecord(i)

DispatchFacts == IdsAreIssued /\ OneLoopPerDispatch /\ SentOnce /\ AnswersAreTrue

Inv == TypeOK /\ IssuedWithinApprovals /\ DispatchFacts /\ RecordIsTrue

-----------------------------------------------------------------------------

(* Where the events of an item lead, for both gates.                         *)
LEMMA Events ==
    ASSUME order \in Orders, NEW i \in Items
    PROVE  /\ EventOf(i, "Approved").from = {"Requested"}
           /\ EventOf(i, "Approved").to = "Approved"
           /\ EventOf(i, "Rejected").from = {"Requested"}
           /\ EventOf(i, "Rejected").to = "Rejected"
           /\ EventOf(i, "RetryApproved").from \subseteq {"Failed", "Indeterminate"}
           /\ EventOf(i, "RetryApproved").to = "Approved"
           /\ EventOf(i, "DispatchClaimed").to = "Dispatching"
           /\ EventOf(i, "Succeeded").to = "Done"
           /\ EventOf(i, "Failed").to = "Failed"
           /\ EventOf(i, "Indeterminate").to = "Indeterminate"
           /\ EventOf(i, "DispatchExpired").to =
                  IF RetrySafe(i) THEN "Approved" ELSE "Indeterminate"
<1>1. CASE order[i].provider = "gitlab"
  <2>1. ~ RetrySafe(i)
    BY <1>1, WriteGatesAssumption DEF RetrySafe, GitLabOrders, OfficeOrders
  <2> QED
    BY <1>1, <2>1 DEF EventOf, GitLabWriteEvents
<1>2. CASE order[i].provider # "gitlab"
  BY <1>2 DEF EventOf, OfficeReleaseEvents, GitLabWriteEvents
<1> QED
  BY <1>1, <1>2

(* OfficeBridge::dispatch and the GitLab adapter repeat nothing but what      *)
(* retry_safe names, and that with a key of the item.                       *)
LEMMA EffectOf ==
    ASSUME order \in Orders, NEW i \in Items, NEW n \in Nat
    PROVE  Effect(<<i, n>>) = IF RetrySafe(i) THEN <<i, 0>> ELSE <<i, n>>
<1>1. \/ order[i] \in GitLabOrders
      \/ order[i] \in OfficeOrders
  BY WriteGatesAssumption
<1>2. CASE order[i] \in GitLabOrders
  BY <1>2 DEF GitLabOrders, Effect, RetrySafe, GitLabWrite, Anew
<1>3. CASE order[i] \in OfficeOrders
  BY <1>3 DEF OfficeOrders, Effect, RetrySafe, Anew, OncePerItem, MicrosoftDrive,
              MicrosoftMail, MicrosoftCalendar, GoogleDrive, GoogleMail, GoogleCalendar
<1> QED
  BY <1>1, <1>2, <1>3

(* The record of a loop that is at work.                                     *)
LEMMA LoopType ==
    ASSUME TypeOK, NEW d \in Dispatchers
    PROVE  /\ loop[d] # Idle => /\ loop[d].item \in Items
                                /\ loop[d].id \in 1 .. MaxDispatches
                                /\ Call(d) \in Items \X (1 .. MaxDispatches)
           /\ loop[d].at \in {"claimed", "sent", "answered"} => loop[d] # Idle
           /\ loop[d].at = "answered" => loop[d].outcome \in Outcome
           /\ loop[d].at \in {"claimed", "sent"} =>
                  loop[d] = [at |-> loop[d].at, item |-> loop[d].item, id |-> loop[d].id]
<1>1. CASE loop[d] = Idle
  BY <1>1 DEF Idle
<1>2. CASE loop[d] \in [at : {"claimed", "sent"}, item : Items, id : 1 .. MaxDispatches]
  BY <1>2 DEF Idle, Call
<1>3. CASE loop[d] \in [at : {"answered"}, item : Items, id : 1 .. MaxDispatches,
                        outcome : Outcome]
  BY <1>3 DEF Idle, Call
<1> QED
  BY <1>1, <1>2, <1>3 DEF TypeOK

(* reviewed_at is a number.                                                  *)
LEMMA RankType == NextRank \in Nat
<1> DEFINE S == {p \in Items \X (1 .. MaxApprovals) : p[2] <= approvals[p[1]]}
<1>1. IsFiniteSet(Items \X (1 .. MaxApprovals))
  <2>1. IsFiniteSet(1 .. MaxApprovals)
    BY WriteGatesAssumption, FS_Interval
  <2>2. IsFiniteSet(Items)
    BY WriteGatesAssumption
  <2> QED
    BY <2>1, <2>2, FS_Product
<1>2. IsFiniteSet(S)
  BY <1>1, FS_Subset
<1>3. Cardinality(S) \in Nat
  BY <1>2, FS_CardinalityType
<1> QED
  BY <1>3 DEF NextRank

(* There are n dispatch ids up to n.                                         *)
LEMMA IdsUpTo ==
    ASSUME NEW n \in Nat
    PROVE  IsFiniteSet(1 .. n) /\ Cardinality(1 .. n) = n
<1>1. 1 \in Int /\ n \in Int
  OBVIOUS
<1>2. IsFiniteSet(1 .. n) /\ Cardinality(1 .. n) = IF 1 > n THEN 0 ELSE n - 1 + 1
  BY ONLY <1>1, FS_Interval, Zenon
<1>3. CASE n = 0
  BY <1>2, <1>3
<1>4. CASE n > 0
  BY <1>2, <1>4
<1> QED
  BY <1>3, <1>4

(* Init satisfies the invariant.                                            *)
LEMMA InitInv == Init => Inv
<1> SUFFICES ASSUME Init PROVE Inv
  OBVIOUS
<1>1. TypeOK
  BY WriteGatesAssumption DEF Init, TypeOK, Status
<1>2. IssuedWithinApprovals
  BY DEF Init, IssuedWithinApprovals
<1>3. DispatchFacts
  BY DEF Init, DispatchFacts, IdsAreIssued, OneLoopPerDispatch, SentOnce, AnswersAreTrue, Idle
<1>4. RecordIsTrue
  BY DEF Init, RecordIsTrue, TrueRecord
<1> QED
  BY <1>1, <1>2, <1>3, <1>4 DEF Inv

-----------------------------------------------------------------------------

(* An item that is neither done nor failed has no record to be wrong.        *)
LEMMA OpenRecord ==
    ASSUME Inv, NEW i \in Items, status[i] # "Done", status'[i] \notin {"Done", "Failed"},
           artifact'[i] = artifact[i]
    PROVE  TrueRecord(i)'
  BY DEF Inv, TypeOK, RecordIsTrue, TrueRecord

(* Steps that leave the loops, the ids and the provider alone.               *)
LEMMA QuietDispatches ==
    ASSUME Inv, order' = order, UNCHANGED <<issued, loop, inflight, applied>>
    PROVE  DispatchFacts'
  BY DEF Inv, DispatchFacts, IdsAreIssued, OneLoopPerDispatch, SentOnce, AnswersAreTrue,
         Shown, RetrySafe, Call

(* A request asks for a decision and no more.                                *)
LEMMA RequestInv ==
    ASSUME Inv, order' = order, NEW i \in Items, Request(i)
    PROVE  Inv'
<1>1. TypeOK'
  BY DEF Inv, TypeOK, Request, Status
<1>2. IssuedWithinApprovals'
  BY DEF Inv, TypeOK, IssuedWithinApprovals, Request, RetrySafe
<1>3. DispatchFacts'
  BY QuietDispatches DEF Request
<1>4. RecordIsTrue'
  BY DEF Inv, TypeOK, RecordIsTrue, TrueRecord, Request, MayRequest, RetrySafe, Shown, Call
<1> QED
  BY <1>1, <1>2, <1>3, <1>4 DEF Inv

(* An approval or a retry is what pays for one more dispatch.                 *)
LEMMA LetThroughInv ==
    ASSUME Inv, order' = order, NEW i \in Items, Approve(i) \/ Retry(i)
    PROVE  Inv'
<1>1. PICK name \in {"Approved", "RetryApproved"} : LetThrough(i, name)
  BY DEF Approve, Retry
<1>2. /\ status[i] \in {"Requested", "Failed", "Indeterminate"}
      /\ status' = [status EXCEPT ![i] = "Approved"]
  <2>1. order \in Orders
    BY DEF Inv, TypeOK
  <2>2. /\ EventOf(i, name).from \subseteq {"Requested", "Failed", "Indeterminate"}
        /\ EventOf(i, name).to = "Approved"
    BY <2>1, Events
  <2> QED
    BY <1>1, <2>2 DEF LetThrough
<1>3. TypeOK'
  BY <1>1, <1>2, RankType, WriteGatesAssumption DEF Inv, TypeOK, LetThrough, Status
<1>4. IssuedWithinApprovals'
  BY <1>1, <1>2, WriteGatesAssumption DEF Inv, TypeOK, IssuedWithinApprovals, LetThrough, RetrySafe
<1>5. DispatchFacts'
  BY <1>1, QuietDispatches DEF LetThrough
<1>6. RecordIsTrue'
  <2>1. TrueRecord(i)'
    BY <1>1, <1>2, OpenRecord DEF LetThrough, Inv, TypeOK
  <2>2. UNCHANGED <<artifact, loop, inflight, applied>>
    BY <1>1 DEF LetThrough
  <2>3. /\ status'[i] = "Approved"
        /\ \A j \in Items \ {i} : status'[j] = status[j] /\ dispatchId'[j] = dispatchId[j]
    BY <1>1, <1>2 DEF LetThrough, Inv, TypeOK
  <2> QED
    BY <2>1, <2>2, <2>3 DEF Inv, RecordIsTrue, TrueRecord, RetrySafe, Shown, Call
<1> QED
  BY <1>3, <1>4, <1>5, <1>6 DEF Inv

(* What is rejected was not dispatched.                                      *)
LEMMA RejectInv ==
    ASSUME Inv, order' = order, NEW i \in Items, Reject(i)
    PROVE  Inv'
<1>1. /\ status[i] = "Requested"
      /\ status' = [status EXCEPT ![i] = "Rejected"]
  <2>1. order \in Orders
    BY DEF Inv, TypeOK
  <2>2. /\ EventOf(i, "Rejected").from = {"Requested"}
        /\ EventOf(i, "Rejected").to = "Rejected"
    BY <2>1, Events
  <2> QED
    BY <2>2 DEF Reject
<1>2. TypeOK'
  BY <1>1 DEF Inv, TypeOK, Reject, Status
<1>3. IssuedWithinApprovals'
  BY <1>1 DEF Inv, TypeOK, IssuedWithinApprovals, Reject, RetrySafe
<1>4. DispatchFacts'
  BY QuietDispatches DEF Reject
<1>5. RecordIsTrue'
  BY <1>1 DEF Inv, TypeOK, RecordIsTrue, TrueRecord, Reject, RetrySafe, Shown, Call
<1> QED
  BY <1>2, <1>3, <1>4, <1>5 DEF Inv

(* Time passes.                                                              *)
LEMMA TickInv ==
    ASSUME Inv, order' = order, Tick
    PROVE  Inv'
<1>1. TypeOK'
  BY WriteGatesAssumption DEF Inv, TypeOK, Tick
<1>2. IssuedWithinApprovals'
  BY DEF Inv, TypeOK, IssuedWithinApprovals, Tick, RetrySafe
<1>3. DispatchFacts'
  BY QuietDispatches DEF Tick
<1>4. RecordIsTrue'
  BY DEF Inv, TypeOK, RecordIsTrue, TrueRecord, Tick, RetrySafe, Shown, Call
<1> QED
  BY <1>1, <1>2, <1>3, <1>4 DEF Inv

-----------------------------------------------------------------------------

(* What the recovery of stale dispatches does to one item.                   *)
LEMMA Recovered ==
    ASSUME TypeOK, NEW i \in Items
    PROVE  \/ /\ RecoveredStatus[i] = status[i]
              /\ RecoveredDispatchId[i] = dispatchId[i]
           \/ /\ status[i] = "Dispatching"
              /\ RecoveredStatus[i] = IF RetrySafe(i) THEN "Approved" ELSE "Indeterminate"
              /\ RecoveredDispatchId[i] \in 0 .. MaxDispatches
<1>1. EventOf(i, "DispatchExpired").to = IF RetrySafe(i) THEN "Approved" ELSE "Indeterminate"
  BY Events DEF TypeOK
<1> QED
  BY <1>1, WriteGatesAssumption DEF RecoveredStatus, RecoveredDispatchId, Stale, TypeOK

(* Recovery takes an item to Approved when it may be repeated, and otherwise   *)
(* to a state that only a human leaves.                                     *)
LEMMA RecoverInv ==
    ASSUME Inv, order' = order, NEW d \in Dispatchers, Recover(d)
    PROVE  Inv'
<1>1. /\ status' = RecoveredStatus
      /\ dispatchId' = RecoveredDispatchId
      /\ UNCHANGED <<age, reviewed, approvals, issued, artifact, loop, inflight, applied>>
  BY DEF Recover
<1>2. \A i \in Items :
          \/ status'[i] = status[i] /\ dispatchId'[i] = dispatchId[i]
          \/ /\ status[i] = "Dispatching"
             /\ status'[i] = IF RetrySafe(i) THEN "Approved" ELSE "Indeterminate"
             /\ dispatchId'[i] \in 0 .. MaxDispatches
  BY <1>1, Recovered DEF Inv
<1>3. TypeOK'
  <2>1. status' \in [Items -> Status]
    BY <1>1, <1>2 DEF Inv, TypeOK, Status, RecoveredStatus
  <2>2. dispatchId' \in [Items -> 0 .. MaxDispatches]
    BY <1>1, <1>2 DEF Inv, TypeOK, RecoveredDispatchId
  <2> QED
    BY <1>1, <2>1, <2>2 DEF Inv, TypeOK
<1>4. IssuedWithinApprovals'
  BY <1>1, <1>2 DEF Inv, TypeOK, IssuedWithinApprovals, RetrySafe
<1>5. DispatchFacts'
  BY <1>1, QuietDispatches
<1>6. RecordIsTrue'
  <2> SUFFICES ASSUME NEW i \in Items PROVE TrueRecord(i)'
    BY DEF RecordIsTrue
  <2>1. CASE status'[i] = status[i] /\ dispatchId'[i] = dispatchId[i]
    BY <1>1, <2>1 DEF Inv, RecordIsTrue, TrueRecord, RetrySafe, Shown, Call
  <2>2. CASE status[i] = "Dispatching" /\ status'[i] \in {"Approved", "Indeterminate"}
    BY <1>1, <2>2, OpenRecord
  <2> QED
    BY <1>2, <2>1, <2>2
<1> QED
  BY <1>3, <1>4, <1>5, <1>6 DEF Inv

(* A claim issues an id that no loop and no request has.                      *)
LEMMA ClaimInv ==
    ASSUME Inv, order' = order, NEW d \in Dispatchers, NEW i \in Items, Claim(d, i)
    PROVE  Inv'
<1>1. /\ loop[d] = Idle
      /\ RecoveredStatus[i] = "Approved"
      /\ issued[i] < MaxDispatches
      /\ issued' = [issued EXCEPT ![i] = issued[i] + 1]
      /\ age' = [age EXCEPT ![i] = 0]
      /\ loop' = [loop EXCEPT ![d] = [at |-> "claimed", item |-> i, id |-> issued[i] + 1]]
      /\ UNCHANGED <<reviewed, approvals, artifact, inflight, applied>>
  BY DEF Claim, Waiting
<1>2. /\ status' = [RecoveredStatus EXCEPT ![i] = "Dispatching"]
      /\ dispatchId' = [RecoveredDispatchId EXCEPT ![i] = issued[i] + 1]
  <2>1. EventOf(i, "DispatchClaimed").to = "Dispatching"
    BY Events DEF Inv, TypeOK
  <2> QED
    BY <2>1 DEF Claim
<1>3. \A j \in Items \ {i} :
          \/ status'[j] = status[j] /\ dispatchId'[j] = dispatchId[j]
          \/ /\ status[j] = "Dispatching"
             /\ status'[j] = IF RetrySafe(j) THEN "Approved" ELSE "Indeterminate"
             /\ dispatchId'[j] \in 0 .. MaxDispatches
  <2> SUFFICES ASSUME NEW j \in Items \ {i}
               PROVE  \/ status'[j] = status[j] /\ dispatchId'[j] = dispatchId[j]
                      \/ /\ status[j] = "Dispatching"
                         /\ status'[j] = IF RetrySafe(j) THEN "Approved" ELSE "Indeterminate"
                         /\ dispatchId'[j] \in 0 .. MaxDispatches
    OBVIOUS
  <2>1. status'[j] = RecoveredStatus[j] /\ dispatchId'[j] = RecoveredDispatchId[j]
    BY <1>2 DEF RecoveredStatus, RecoveredDispatchId
  <2> QED
    BY <2>1, Recovered DEF Inv
<1>4. status'[i] = "Dispatching" /\ dispatchId'[i] = issued[i] + 1
  BY <1>2 DEF RecoveredStatus, RecoveredDispatchId
<1>5. status[i] = "Approved" \/ (status[i] = "Dispatching" /\ RetrySafe(i))
  BY <1>1, Recovered DEF Inv
<1>6. issued[i] + 1 \in 1 .. MaxDispatches
  BY <1>1, WriteGatesAssumption DEF Inv, TypeOK
<1>7. TypeOK'
  <2>1. status' \in [Items -> Status]
    BY <1>2, <1>3, <1>4 DEF Inv, TypeOK, Status, RecoveredStatus
  <2>2. dispatchId' \in [Items -> 0 .. MaxDispatches]
    BY <1>2, <1>3, <1>4, <1>6 DEF Inv, TypeOK, RecoveredDispatchId
  <2>3. loop' \in [Dispatchers -> {Idle}
           \cup [at : {"claimed", "sent"}, item : Items, id : 1 .. MaxDispatches]
           \cup [at : {"answered"}, item : Items, id : 1 .. MaxDispatches,
                 outcome : Outcome]]
    BY <1>1, <1>6 DEF Inv, TypeOK
  <2>4. issued' \in [Items -> 0 .. MaxDispatches] /\ age' \in [Items -> 0 .. StaleAfter]
    BY <1>1, <1>6, WriteGatesAssumption DEF Inv, TypeOK
  <2> QED
    BY <1>1, <2>1, <2>2, <2>3, <2>4 DEF Inv, TypeOK
<1>8. IssuedWithinApprovals'
  <2>1. issued'[i] = issued[i] + 1 /\ \A j \in Items \ {i} : issued'[j] = issued[j]
    BY <1>1 DEF Inv, TypeOK
  <2> QED
    BY <1>1, <1>3, <1>4, <1>5, <2>1, WriteGatesAssumption
    DEF Inv, TypeOK, IssuedWithinApprovals, RetrySafe
<1>9. DispatchFacts'
  <2>1. /\ loop'[d] = [at |-> "claimed", item |-> i, id |-> issued[i] + 1]
        /\ \A e \in Dispatchers \ {d} : loop'[e] = loop[e]
    BY <1>1 DEF Inv, TypeOK
  <2>2. \A e \in Dispatchers : loop[e] # Idle => Call(e) # <<i, issued[i] + 1>>
    BY LoopType DEF Inv, TypeOK, DispatchFacts, IdsAreIssued, Call
  <2>3. <<i, issued[i] + 1>> \notin inflight \cup applied
    BY DEF Inv, TypeOK, DispatchFacts, IdsAreIssued
  <2>4. \A j \in Items : issued[j] <= issued'[j]
    BY <1>1 DEF Inv, TypeOK
  <2>5. IdsAreIssued'
    BY <1>1, <2>1, <2>4, LoopType DEF Inv, TypeOK, DispatchFacts, IdsAreIssued
  <2>6. OneLoopPerDispatch'
    BY <2>1, <2>2 DEF Inv, DispatchFacts, OneLoopPerDispatch, Call
  <2>7. SentOnce'
    BY <1>1, <2>1, <2>3 DEF Inv, DispatchFacts, SentOnce, Call
  <2>8. AnswersAreTrue'
    BY <1>1, <2>1 DEF Inv, DispatchFacts, AnswersAreTrue, Shown, RetrySafe, Call
  <2> QED
    BY <2>5, <2>6, <2>7, <2>8 DEF DispatchFacts
<1>10. RecordIsTrue'
  <2>1. /\ loop'[d] = [at |-> "claimed", item |-> i, id |-> issued[i] + 1]
        /\ \A e \in Dispatchers \ {d} : loop'[e] = loop[e]
    BY <1>1 DEF Inv, TypeOK
  <2> SUFFICES ASSUME NEW j \in Items PROVE TrueRecord(j)'
    BY DEF RecordIsTrue
  <2>2. CASE j = i
    BY <1>1, <1>4, <1>5, <2>2, OpenRecord
  <2>3. CASE j # i /\ status'[j] = status[j] /\ dispatchId'[j] = dispatchId[j]
    BY <1>1, <2>1, <2>3 DEF Inv, RecordIsTrue, TrueRecord, RetrySafe, Shown, Call
  <2>4. CASE status[j] = "Dispatching" /\ status'[j] \in {"Approved", "Indeterminate"}
    BY <1>1, <2>4, OpenRecord
  <2> QED
    BY <1>3, <2>2, <2>3, <2>4
<1> QED
  BY <1>7, <1>8, <1>9, <1>10 DEF Inv

-----------------------------------------------------------------------------

(* Steps of a loop between the claim and the record leave the gate alone.      *)
LEMMA QuietGate ==
    ASSUME Inv, order' = order, UNCHANGED gate
    PROVE  IssuedWithinApprovals'
  BY DEF Inv, IssuedWithinApprovals, RetrySafe, gate

(* A loop sends the request of its dispatch, which nobody sent before.        *)
LEMMA SendInv ==
    ASSUME Inv, order' = order, NEW d \in Dispatchers, Send(d)
    PROVE  Inv'
<1>1. /\ loop[d] # Idle
      /\ Call(d) \in Items \X (1 .. MaxDispatches)
      /\ loop[d].id <= issued[loop[d].item]
      /\ Call(d) \notin inflight \cup applied
  BY LoopType DEF Inv, Send, DispatchFacts, IdsAreIssued, SentOnce
<1>2. /\ loop'[d] = [at |-> "sent", item |-> loop[d].item, id |-> loop[d].id]
      /\ \A e \in Dispatchers \ {d} : loop'[e] = loop[e]
      /\ inflight' = inflight \cup {Call(d)}
      /\ UNCHANGED <<gate, applied>>
  BY LoopType DEF Inv, TypeOK, Send
<1>3. \A e \in Dispatchers :
          /\ loop'[e] # Idle <=> loop[e] # Idle
          /\ loop'[e].item = loop[e].item /\ loop'[e].id = loop[e].id
          /\ Call(e)' = Call(e)
  BY <1>1, <1>2 DEF Call, Idle
<1>4. TypeOK'
  <2>1. loop' \in [Dispatchers -> {Idle}
           \cup [at : {"claimed", "sent"}, item : Items, id : 1 .. MaxDispatches]
           \cup [at : {"answered"}, item : Items, id : 1 .. MaxDispatches,
                 outcome : Outcome]]
    BY <1>1, LoopType DEF Send, Inv, TypeOK
  <2> QED
    BY <1>1, <1>2, <2>1 DEF Inv, TypeOK, gate
<1>5. DispatchFacts'
  <2>1. IdsAreIssued'
    BY <1>1, <1>2, <1>3 DEF Inv, DispatchFacts, IdsAreIssued, Call, gate
  <2>2. OneLoopPerDispatch'
    BY <1>3 DEF Inv, DispatchFacts, OneLoopPerDispatch
  <2>3. \A e \in Dispatchers \ {d} : loop[e] # Idle => Call(e) # Call(d)
    BY <1>1 DEF Inv, DispatchFacts, OneLoopPerDispatch
  <2>4. \A e \in Dispatchers : loop'[e].at \in {"claimed", "answered"} =>
            /\ loop'[e] = loop[e] /\ Call(e)' = Call(e)
            /\ Call(e) \in inflight' \cup applied' <=> Call(e) \in inflight \cup applied
    <3>1. \A e \in Dispatchers : loop'[e].at \in {"claimed", "answered"} => e # d
      BY <1>2
    <3>2. \A e \in Dispatchers : loop[e].at \in {"claimed", "answered"} => loop[e] # Idle
      BY LoopType DEF Inv
    <3> QED
      BY <1>2, <1>3, <2>3, <3>1, <3>2
  <2>5. SentOnce'
    BY <1>1, <1>2, <2>4 DEF Inv, DispatchFacts, SentOnce
  <2>6. AnswersAreTrue'
    BY <1>2, <2>4 DEF Inv, DispatchFacts, AnswersAreTrue, Shown, RetrySafe
  <2> QED
    BY <2>1, <2>2, <2>5, <2>6 DEF DispatchFacts
<1>6. RecordIsTrue'
  BY <1>1, <1>2, <1>3 DEF Inv, RecordIsTrue, TrueRecord, Shown, RetrySafe, gate
<1> QED
  BY <1>4, <1>5, <1>6, QuietGate, <1>2 DEF Inv

(* A request takes effect at the provider, whoever still waits for it.        *)
LEMMA ExecuteInv ==
    ASSUME Inv, order' = order, NEW q \in inflight, Execute(q)
    PROVE  Inv'
<1>1. /\ inflight' = inflight \ {q}
      /\ applied' = applied \cup {q}
      /\ UNCHANGED <<gate, loop>>
  BY DEF Execute
<1>2. TypeOK'
  BY <1>1 DEF Inv, TypeOK, gate
<1>3. inflight' \cup applied' = inflight \cup applied
  BY <1>1
<1>4. DispatchFacts'
  <2>1. IdsAreIssued' /\ OneLoopPerDispatch'
    BY <1>1, <1>3 DEF Inv, DispatchFacts, IdsAreIssued, OneLoopPerDispatch, Call, gate
  <2>2. SentOnce'
    BY <1>1, <1>3 DEF Inv, DispatchFacts, SentOnce, Call
  <2>3. AnswersAreTrue'
    BY <1>1, <1>3 DEF Inv, DispatchFacts, AnswersAreTrue, Shown, RetrySafe, Call
  <2> QED
    BY <2>1, <2>2, <2>3 DEF DispatchFacts
<1>5. RecordIsTrue'
  BY <1>1, <1>3 DEF Inv, RecordIsTrue, TrueRecord, Shown, RetrySafe, Call, gate
<1> QED
  BY <1>1, <1>2, <1>4, <1>5, QuietGate DEF Inv

(* A loop learns an outcome: what it has to know for the outcome to be true.   *)
LEMMA LearnInv ==
    ASSUME Inv, order' = order, UNCHANGED <<gate, applied>>,
           NEW d \in Dispatchers, loop[d] # Idle,
           NEW outcome \in Outcome, Learn(d, outcome),
           inflight' \subseteq inflight,
           outcome = "ok" => Shown(loop[d].item, loop[d].id),
           outcome = "failed" /\ ~ RetrySafe(loop[d].item) =>
               Call(d) \notin inflight' \cup applied
    PROVE  Inv'
<1>1. /\ loop[d].item \in Items
      /\ loop[d].id \in 1 .. MaxDispatches
  BY LoopType DEF Inv
<1>2. /\ loop'[d] = [at |-> "answered", item |-> loop[d].item, id |-> loop[d].id,
                     outcome |-> outcome]
      /\ \A e \in Dispatchers \ {d} : loop'[e] = loop[e]
  BY DEF Inv, TypeOK, Learn
<1>3. \A e \in Dispatchers :
          /\ loop'[e] # Idle <=> loop[e] # Idle
          /\ loop'[e].item = loop[e].item /\ loop'[e].id = loop[e].id
          /\ Call(e)' = Call(e)
  BY <1>2 DEF Call, Idle
<1>4. TypeOK'
  <2>1. loop' \in [Dispatchers -> {Idle}
           \cup [at : {"claimed", "sent"}, item : Items, id : 1 .. MaxDispatches]
           \cup [at : {"answered"}, item : Items, id : 1 .. MaxDispatches,
                 outcome : Outcome]]
    BY <1>1 DEF Learn, Inv, TypeOK
  <2> QED
    BY <2>1 DEF Inv, TypeOK, gate
<1>5. DispatchFacts'
  <2>1. IdsAreIssued'
    BY <1>3 DEF Inv, DispatchFacts, IdsAreIssued, gate
  <2>2. OneLoopPerDispatch'
    BY <1>3 DEF Inv, DispatchFacts, OneLoopPerDispatch
  <2>3. SentOnce'
    BY <1>2, <1>3 DEF Inv, DispatchFacts, SentOnce
  <2>4. AnswersAreTrue'
    <3> SUFFICES ASSUME NEW e \in Dispatchers, loop'[e].at = "answered"
                 PROVE  (/\ loop[e].outcome = "ok" => Shown(loop[e].item, loop[e].id)
                         /\ loop[e].outcome = "failed" /\ ~ RetrySafe(loop[e].item) =>
                                Call(e) \notin inflight \cup applied)'
      BY DEF AnswersAreTrue
    <3>1. CASE e = d
      BY <1>2, <1>3, <3>1 DEF Shown, RetrySafe
    <3>2. CASE e # d
      BY <1>2, <1>3, <3>2 DEF Inv, DispatchFacts, AnswersAreTrue, Shown, RetrySafe
    <3> QED
      BY <3>1, <3>2
  <2> QED
    BY <2>1, <2>2, <2>3, <2>4 DEF DispatchFacts
<1>6. RecordIsTrue'
  BY <1>3 DEF Inv, RecordIsTrue, TrueRecord, Shown, RetrySafe, gate
<1> QED
  BY <1>4, <1>5, <1>6, QuietGate DEF Inv

(* The answers of the adapters, and the failure to call them, are true.       *)
LEMMA AnswerInv ==
    ASSUME Inv, order' = order, NEW d \in Dispatchers,
           \/ NotSent(d) \/ AnswerOk(d) \/ AnswerConflict(d)
           \/ AnswerRefused(d) \/ AnswerUnclear(d)
    PROVE  Inv'
<1>1. /\ loop[d] # Idle
      /\ loop[d].item \in Items
      /\ loop[d].id \in 1 .. MaxDispatches
      /\ Call(d) = <<loop[d].item, loop[d].id>>
  BY LoopType DEF Inv, NotSent, AnswerOk, AnswerConflict, AnswerRefused, AnswerUnclear, Call
<1>2. CASE NotSent(d)
  <2>1. Call(d) \notin inflight' \cup applied
    BY <1>2 DEF NotSent, Inv, DispatchFacts, SentOnce
  <2> QED
    BY <1>1, <1>2, <2>1, LearnInv DEF NotSent, Outcome
<1>3. CASE AnswerOk(d)
  <2>1. Shown(loop[d].item, loop[d].id)
    BY <1>1, <1>3 DEF AnswerOk, Shown
  <2> QED
    BY <1>1, <1>3, <2>1, LearnInv DEF AnswerOk, Outcome
<1>4. CASE AnswerConflict(d)
  <2>1. RetrySafe(loop[d].item)
    BY <1>4 DEF AnswerConflict, RetrySafe
  <2>2. PICK q \in applied : Effect(q) = Effect(Call(d))
    BY <1>4 DEF AnswerConflict
  <2>3. q = <<q[1], q[2]>> /\ q[1] \in Items /\ q[2] \in Nat
    BY WriteGatesAssumption DEF Inv, TypeOK
  <2>4. q[1] = loop[d].item
    <3>1. order \in Orders
      BY DEF Inv, TypeOK
    <3>2. Effect(q) = IF RetrySafe(q[1]) THEN <<q[1], 0>> ELSE q
      BY <2>3, <3>1, EffectOf
    <3>3. Effect(Call(d)) = <<loop[d].item, 0>>
      <4>1. loop[d].id \in Nat
        BY <1>1, WriteGatesAssumption
      <4> QED
        BY <1>1, <2>1, <3>1, <4>1, EffectOf
    <3>4. Effect(q)[1] = q[1]
      BY <2>3, <3>2
    <3> QED
      BY <2>2, <3>3, <3>4
  <2>5. Shown(loop[d].item, loop[d].id)
    BY <2>1, <2>4 DEF Shown
  <2>6. inflight' \subseteq inflight /\ Learn(d, "ok") /\ UNCHANGED <<gate, applied>>
    BY <1>4 DEF AnswerConflict
  <2> QED
    BY <1>1, <2>5, <2>6, LearnInv DEF Outcome
<1>5. CASE AnswerRefused(d)
  <2>1. Call(d) \notin inflight' \cup applied
    BY <1>5 DEF AnswerRefused, Inv, DispatchFacts, SentOnce
  <2>2. inflight' \subseteq inflight /\ Learn(d, "failed") /\ UNCHANGED <<gate, applied>>
    BY <1>5 DEF AnswerRefused
  <2> QED
    BY <1>1, <2>1, <2>2, LearnInv DEF Outcome
<1>6. CASE AnswerUnclear(d)
  <2>1. Unclear(loop[d].item) = IF RetrySafe(loop[d].item) THEN "failed" ELSE "indeterminate"
    BY DEF Unclear
  <2>2. UNCHANGED <<gate, inflight, applied>> /\ Learn(d, Unclear(loop[d].item))
    BY <1>6 DEF AnswerUnclear
  <2>3. CASE RetrySafe(loop[d].item)
    BY <1>1, <2>1, <2>2, <2>3, LearnInv DEF Outcome
  <2>4. CASE ~ RetrySafe(loop[d].item)
    BY <1>1, <2>1, <2>2, <2>4, LearnInv DEF Outcome
  <2> QED
    BY <2>3, <2>4
<1> QED
  BY <1>2, <1>3, <1>4, <1>5, <1>6

(* A loop that ends is one caller less.                                     *)
LEMMA IdleDispatches ==
    ASSUME Inv, order' = order, NEW d \in Dispatchers, loop' = [loop EXCEPT ![d] = Idle],
           UNCHANGED <<issued, inflight, applied>>
    PROVE  DispatchFacts'
<1>1. loop'[d] = Idle /\ \A e \in Dispatchers \ {d} : loop'[e] = loop[e]
  BY DEF Inv, TypeOK
<1>2. loop'[d].at = "idle"
  BY <1>1 DEF Idle
<1> QED
  BY <1>1, <1>2
  DEF Inv, DispatchFacts, IdsAreIssued, OneLoopPerDispatch, SentOnce, AnswersAreTrue,
      Shown, RetrySafe, Call

(* An outcome that is not recorded changes nothing else.                     *)
LEMMA ForgetInv ==
    ASSUME Inv, order' = order, NEW d \in Dispatchers, Forget(d)
    PROVE  Inv'
<1>1. /\ loop' = [loop EXCEPT ![d] = Idle]
      /\ UNCHANGED <<gate, inflight, applied>>
  BY DEF Forget
<1>2. TypeOK'
  BY <1>1 DEF Inv, TypeOK, gate
<1>3. DispatchFacts'
  BY <1>1, IdleDispatches DEF gate
<1>4. RecordIsTrue'
  <2>1. loop'[d] = Idle /\ \A e \in Dispatchers \ {d} : loop'[e] = loop[e]
    BY <1>1 DEF Inv, TypeOK
  <2> QED
    BY <1>1, <2>1 DEF Inv, RecordIsTrue, TrueRecord, Shown, RetrySafe, Call, gate
<1> QED
  BY <1>1, <1>2, <1>3, <1>4, QuietGate DEF Inv

(* The outcome of the dispatch that the item still waits for is recorded.     *)
LEMMA FinishInv ==
    ASSUME Inv, order' = order, NEW d \in Dispatchers, Finish(d)
    PROVE  Inv'
<1> DEFINE i == loop[d].item
<1>1. /\ loop[d].at = "answered" /\ loop[d] # Idle
      /\ i \in Items
      /\ loop[d].outcome \in Outcome
      /\ Call(d) = <<i, dispatchId[i]>>
      /\ loop[d].id = dispatchId[i]
      /\ status[i] = "Dispatching"
  BY LoopType DEF Inv, Finish, OwnsDispatch, Call
<1>2. status' = [status EXCEPT ![i] = CASE loop[d].outcome = "ok" -> "Done"
                                       [] loop[d].outcome = "failed" -> "Failed"
                                       [] loop[d].outcome = "indeterminate" -> "Indeterminate"]
  <2>1. order \in Orders
    BY DEF Inv, TypeOK
  <2>2. /\ EventOf(i, "Succeeded").to = "Done"
        /\ EventOf(i, "Failed").to = "Failed"
        /\ EventOf(i, "Indeterminate").to = "Indeterminate"
    BY <1>1, <2>1, Events
  <2>3. status' = [status EXCEPT ![i] = EventOf(i, FinishedBy(loop[d].outcome)).to]
    BY DEF Finish
  <2> QED
    BY <1>1, <2>2, <2>3 DEF FinishedBy, Outcome
<1>3. /\ loop' = [loop EXCEPT ![d] = Idle]
      /\ artifact' = [artifact EXCEPT ![i] =
                         @ \/ (order[i].provider = "gitlab" /\ loop[d].outcome = "ok")]
      /\ UNCHANGED <<dispatchId, age, reviewed, approvals, issued, inflight, applied>>
  BY DEF Finish
<1>4. TypeOK'
  <2>1. artifact' \in [Items -> BOOLEAN]
    BY <1>3 DEF Inv, TypeOK
  <2>2. status' \in [Items -> Status]
    BY <1>1, <1>2 DEF Inv, TypeOK, Status, Outcome
  <2> QED
    BY <1>3, <2>1, <2>2 DEF Inv, TypeOK
<1>5. IssuedWithinApprovals'
  BY <1>1, <1>2, <1>3 DEF Inv, TypeOK, IssuedWithinApprovals, RetrySafe, Outcome
<1>6. DispatchFacts'
  BY <1>3, IdleDispatches
<1>7. RecordIsTrue'
  <2> SUFFICES ASSUME NEW j \in Items PROVE TrueRecord(j)'
    BY DEF RecordIsTrue
  <2>1. loop'[d] = Idle /\ \A e \in Dispatchers \ {d} : loop'[e] = loop[e]
    BY <1>3 DEF Inv, TypeOK
  <2>2. CASE j # i
    <3>1. status'[j] = status[j] /\ artifact'[j] = artifact[j]
      BY <1>2, <1>3, <2>2 DEF Inv, TypeOK
    <3> QED
      BY <1>3, <2>1, <3>1 DEF Inv, RecordIsTrue, TrueRecord, Shown, RetrySafe, Call
  <2>3. CASE j = i
    <3>1. ~ artifact[i]
      BY <1>1 DEF Inv, RecordIsTrue, TrueRecord
    <3>2. artifact'[i] <=> order[i].provider = "gitlab" /\ loop[d].outcome = "ok"
      BY <1>1, <1>3, <3>1 DEF Inv, TypeOK
    <3>3. \A e \in Dispatchers : loop'[e] # Idle => Call(e)' # <<i, dispatchId[i]>>
      BY <1>1, <2>1 DEF Inv, DispatchFacts, OneLoopPerDispatch, Call
    <3>4. CASE loop[d].outcome = "ok"
      <4>1. status'[i] = "Done"
        BY <1>1, <1>2, <3>4 DEF Inv, TypeOK
      <4>2. Shown(i, dispatchId[i])
        BY <1>1, <3>4 DEF Inv, DispatchFacts, AnswersAreTrue
      <4> QED
        BY <1>3, <2>3, <3>2, <3>4, <4>1, <4>2 DEF TrueRecord, Shown, RetrySafe
    <3>5. CASE loop[d].outcome = "failed"
      <4>1. status'[i] = "Failed"
        BY <1>1, <1>2, <3>5 DEF Inv, TypeOK
      <4>2. ~ RetrySafe(i) => <<i, dispatchId[i]>> \notin inflight \cup applied
        BY <1>1, <3>5 DEF Inv, DispatchFacts, AnswersAreTrue
      <4> QED
        BY <1>3, <2>3, <3>2, <3>3, <3>5, <4>1, <4>2 DEF TrueRecord, RetrySafe
    <3>6. CASE loop[d].outcome = "indeterminate"
      <4>1. status'[i] = "Indeterminate"
        BY <1>1, <1>2, <3>6 DEF Inv, TypeOK
      <4> QED
        BY <2>3, <3>2, <3>6, <4>1 DEF TrueRecord
    <3> QED
      BY <1>1, <3>4, <3>5, <3>6 DEF Outcome
  <2> QED
    BY <2>2, <2>3
<1> QED
  BY <1>4, <1>5, <1>6, <1>7 DEF Inv

(* Nothing changes.                                                          *)
LEMMA StutterInv ==
    ASSUME Inv, UNCHANGED vars
    PROVE  Inv'
<1>1. order' = order /\ UNCHANGED <<gate, loop, inflight, applied>>
  BY DEF vars, gate
<1>2. TypeOK' /\ RecordIsTrue'
  BY <1>1 DEF Inv, TypeOK, RecordIsTrue, TrueRecord, Shown, RetrySafe, Call, gate
<1>3. DispatchFacts'
  BY <1>1, QuietDispatches DEF gate
<1> QED
  BY <1>1, <1>2, <1>3, QuietGate DEF Inv

-----------------------------------------------------------------------------

(* The gates keep the inductive invariant.                                   *)
THEOREM GateInvariant == Spec => []Inv
<1>1. ASSUME Inv, Next
      PROVE  Inv'
  <2>1. order' = order
    BY <1>1 DEF Next
  <2> QED
    BY <1>1, <2>1, RequestInv, LetThroughInv, RejectInv, ClaimInv, RecoverInv, SendInv,
       AnswerInv, FinishInv, ForgetInv, ExecuteInv, TickInv
    DEF Next, Step, DispatchStep
<1> QED
  BY InitInv, <1>1, StutterInv, PTL DEF Spec

(* retry_safe, the claim under a fresh dispatch_id and the recovery of stale    *)
(* dispatches together let an item take effect at most once per approval.    *)
THEOREM EffectsAreApproved == Spec => []EffectsWithinApprovals
<1>1. Inv => EffectsWithinApprovals
  <2> SUFFICES ASSUME Inv, NEW i \in Items
               PROVE  Cardinality({Effect(q) : q \in Applied(i)}) <= approvals[i]
    BY DEF EffectsWithinApprovals
  <2> DEFINE effects == {Effect(q) : q \in Applied(i)}
  <2>1. order \in Orders /\ issued[i] \in Nat /\ approvals[i] \in Nat
    BY WriteGatesAssumption DEF Inv, TypeOK
  <2>2. \A q \in Applied(i) : q = <<i, q[2]>> /\ q[2] \in 1 .. issued[i]
    BY WriteGatesAssumption DEF Inv, TypeOK, DispatchFacts, IdsAreIssued, Applied
  <2>3. \A q \in Applied(i) : Effect(q) = IF RetrySafe(i) THEN <<i, 0>> ELSE q
    <3> SUFFICES ASSUME NEW q \in Applied(i)
                 PROVE  Effect(q) = IF RetrySafe(i) THEN <<i, 0>> ELSE q
      OBVIOUS
    <3>1. q = <<i, q[2]>> /\ q[2] \in Nat
      BY <2>1, <2>2
    <3>2. Effect(<<i, q[2]>>) = IF RetrySafe(i) THEN <<i, 0>> ELSE <<i, q[2]>>
      BY <2>1, <3>1, EffectOf
    <3> QED
      BY <3>1, <3>2
  <2>4. CASE Applied(i) = {}
    <3>1. effects = {}
      BY <2>4
    <3>2. Cardinality(effects) = 0
      BY <3>1, FS_EmptySet
    <3> QED
      BY <2>1, <3>2
  <2>5. CASE RetrySafe(i) /\ Applied(i) # {}
    <3>1. effects = {<<i, 0>>}
      BY <2>3, <2>5
    <3>2. Cardinality(effects) = 1
      BY <3>1, FS_Singleton
    <3>3. approvals[i] > 0
      BY <2>1, <2>2, <2>5 DEF Inv, IssuedWithinApprovals
    <3> QED
      BY <2>1, <3>2, <3>3
  <2>6. CASE ~ RetrySafe(i)
    <3>1. effects \subseteq {i} \X (1 .. issued[i])
      BY <2>2, <2>3, <2>6
    <3>2. IsFiniteSet({i}) /\ Cardinality({i}) = 1
      BY FS_Singleton
    <3>3. IsFiniteSet(1 .. issued[i]) /\ Cardinality(1 .. issued[i]) = issued[i]
      BY <2>1, IdsUpTo
    <3>4. /\ IsFiniteSet({i} \X (1 .. issued[i]))
          /\ Cardinality({i} \X (1 .. issued[i])) = 1 * issued[i]
      BY <3>2, <3>3, FS_Product, ZenonT(30)
    <3>5. /\ Cardinality(effects) \in Nat
          /\ Cardinality(effects) <= Cardinality({i} \X (1 .. issued[i]))
      BY <3>1, <3>4, FS_Subset, FS_CardinalityType
    <3>6. issued[i] <= approvals[i]
      BY <2>6 DEF Inv, IssuedWithinApprovals
    <3> QED
      BY <2>1, <3>4, <3>5, <3>6
  <2> QED
    BY <2>4, <2>5, <2>6
<1> QED
  BY GateInvariant, <1>1, PTL

(* finish_gitlab_write and finish_office_release record what the provider did,   *)
(* even when dispatches expire under them and requests take effect late.     *)
THEOREM RecordsMatchTheProvider == Spec => []RecordMatchesProvider
<1>1. Inv => RecordMatchesProvider
  <2> SUFFICES ASSUME Inv, NEW i \in Items, status[i] = "Done"
               PROVE  \E q \in Applied(i) : Effect(q) = Effect(<<i, dispatchId[i]>>)
    BY DEF Inv, RecordIsTrue, TrueRecord, RecordMatchesProvider
  <2>1. order \in Orders /\ dispatchId[i] \in Nat
    BY WriteGatesAssumption DEF Inv, TypeOK
  <2>2. Shown(i, dispatchId[i])
    BY DEF Inv, RecordIsTrue, TrueRecord
  <2>3. CASE RetrySafe(i)
    <3>1. PICK q \in applied : q[1] = i
      BY <2>2, <2>3 DEF Shown
    <3>2. q = <<i, q[2]>> /\ q[2] \in Nat
      BY <3>1, WriteGatesAssumption DEF Inv, TypeOK
    <3>3. Effect(<<i, q[2]>>) = <<i, 0>> /\ Effect(<<i, dispatchId[i]>>) = <<i, 0>>
      BY <2>1, <2>3, <3>2, EffectOf
    <3> QED
      BY <3>1, <3>2, <3>3 DEF Applied
  <2>4. CASE ~ RetrySafe(i)
    BY <2>2, <2>4 DEF Shown, Applied
  <2> QED
    BY <2>3, <2>4
<1> QED
  BY GateInvariant, <1>1, PTL

-----------------------------------------------------------------------------
(***************************************************************************)
(* The notification outbox, for any number of endpoints, senders and        *)
(* deliveries.                                                             *)
(***************************************************************************)

Deliveries ==
    [endpoint : Endpoints, attempts : Nat, idle : Nat,
     status : {"Pending", "Failed", "Delivered", "Cancelled"}]

OutboxTypes ==
    /\ outbox \in Seq(Deliveries)
    /\ batch = [s \in Senders |-> batch[s]]
    /\ answer \in [Senders -> {"none", "ok", "failed"}]

(* A sender has an answer only for the first delivery of a batch, and a       *)
(* success only for one that the endpoint has received.                      *)
SuccessWasReceived ==
    \A s \in Senders :
        /\ answer[s] # "none" => batch[s] # <<>>
        /\ answer[s] = "ok" => Head(batch[s]) \in received

OutboxInv == OutboxTypes /\ SuccessWasReceived /\ DeliveredWasReceived

(* A new delivery is pending.                                               *)
LEMMA QueuedDelivery ==
    ASSUME NEW e \in Endpoints
    PROVE  Queued(e) \in Deliveries /\ Queued(e).status = "Pending"
BY DEF Queued, Deliveries

(* What an attempt makes of a delivery: only a success makes it delivered.   *)
LEMMA AttemptedDelivery ==
    ASSUME NEW d \in Deliveries, NEW a \in {"none", "ok", "failed"}
    PROVE  /\ Attempted(d, a) \in Deliveries
           /\ Attempted(d, a).status = "Delivered" => a = "ok"
<1>1. MostAttempts \in Nat
  BY NotificationsAssumption DEF MostAttempts
<1>2. CASE a = "ok"
  BY <1>2 DEF Attempted, Settle, Deliveries
<1>3. CASE a # "ok"
  <2>1. PICK n : n = IF d.attempts < MostAttempts THEN d.attempts + 1 ELSE d.attempts
    OBVIOUS
  <2>2. d.attempts \in Nat
    BY DEF Deliveries
  <2>3. n \in Nat
    BY <1>1, <2>1, <2>2
  <2>4. Attempted(d, a) = [d EXCEPT !.status = "Failed", !.idle = 0, !.attempts = n]
    BY <1>3, <2>1 DEF Attempted, Deliveries
  <2>5. PICK r : r = [d EXCEPT !.status = "Failed", !.idle = 0, !.attempts = n]
    OBVIOUS
  <2>6. r \in Deliveries
    BY <2>3, <2>5 DEF Deliveries
  <2>7. r.status = "Failed"
    BY <2>5 DEF Deliveries
  <2> QED BY <2>4, <2>5, <2>6, <2>7
<1> QED BY <1>2, <1>3

(* The outbox with other deliveries at the same places.                      *)
LEMMA OutboxRewritten ==
    ASSUME NEW old \in Seq(Deliveries), NEW new, new = [i \in DOMAIN old |-> new[i]],
           \A i \in DOMAIN old : new[i] \in Deliveries
    PROVE  new \in Seq(Deliveries) /\ DOMAIN new = DOMAIN old
<1>1. DOMAIN old = 1 .. Len(old) /\ Len(old) \in Nat
  OBVIOUS
<1>2. new \in [1 .. Len(old) -> Deliveries]
  BY <1>1
<1> QED BY <1>1, <1>2

(* A cancelled delivery is not delivered.                                   *)
LEMMA CancelledDelivery ==
    ASSUME NEW d \in Deliveries
    PROVE  Settle(d, "Cancelled") \in Deliveries /\ Settle(d, "Cancelled").status = "Cancelled"
BY DEF Settle, Deliveries

(* Nothing that was not delivered becomes so, and no answer changes.         *)
LEMMA OutboxKept ==
    ASSUME OutboxInv, outbox' \in Seq(Deliveries), UNCHANGED <<batch, answer, received>>,
           \A i \in DOMAIN outbox' : outbox'[i].status = "Delivered" =>
              i \in DOMAIN outbox /\ outbox[i].status = "Delivered"
    PROVE  OutboxInv'
BY DEF OutboxInv, OutboxTypes, SuccessWasReceived, DeliveredWasReceived

(* A sender without an answer takes another batch.                           *)
LEMMA BatchTaken ==
    ASSUME OutboxInv, NEW s \in Senders, answer[s] = "none", NEW ids,
           batch' = [batch EXCEPT ![s] = ids], UNCHANGED <<outbox, answer, received>>
    PROVE  OutboxInv'
BY DEF OutboxInv, OutboxTypes, SuccessWasReceived, DeliveredWasReceived

(* A sender drops its answer, with the delivery or the batch it was for.      *)
LEMMA AnswerDropped ==
    ASSUME OutboxInv, NEW s \in Senders, NEW ids,
           batch' = [batch EXCEPT ![s] = ids], answer' = [answer EXCEPT ![s] = "none"],
           UNCHANGED received,
           outbox' \in Seq(Deliveries),
           \A i \in DOMAIN outbox' : outbox'[i].status = "Delivered" => i \in received
    PROVE  OutboxInv'
<1>1. OutboxTypes'
  BY DEF OutboxInv, OutboxTypes
<1>2. SuccessWasReceived'
  BY DEF OutboxInv, OutboxTypes, SuccessWasReceived
<1> QED BY <1>1, <1>2 DEF OutboxInv, DeliveredWasReceived

(* The endpoint may have received the first delivery of the batch; when the   *)
(* answer says so, it has.                                                  *)
LEMMA Answered ==
    ASSUME OutboxInv, NEW s \in Senders, Calling(s), NEW a \in {"ok", "failed"},
           answer' = [answer EXCEPT ![s] = a], received \subseteq received',
           a = "ok" => Head(batch[s]) \in received',
           UNCHANGED <<outbox, batch>>
    PROVE  OutboxInv'
<1>1. OutboxTypes'
  BY DEF OutboxInv, OutboxTypes
<1>2. SuccessWasReceived'
  BY DEF OutboxInv, OutboxTypes, SuccessWasReceived, Calling
<1> QED BY <1>1, <1>2 DEF OutboxInv, DeliveredWasReceived

(* register_notification_endpoint, disable_notification_endpoint,             *)
(* queue_events and the passing of time.                                     *)
LEMMA OutboxCommits ==
    ASSUME OutboxInv,
           \/ \E e \in Endpoints : Register(e) \/ Disable(e)
           \/ \E k \in Kinds : Occur(k)
           \/ NextRound
    PROVE  OutboxInv'
<1>1. outbox \in Seq(Deliveries)
  BY DEF OutboxInv, OutboxTypes
<1>2. \A i \in DOMAIN outbox : outbox[i] \in Deliveries
  BY <1>1
<1>3. ASSUME NEW e \in Endpoints, Register(e)
      PROVE  OutboxInv'
  BY <1>1, <1>3, OutboxKept DEF Register
<1>4. ASSUME NEW e \in Endpoints, Disable(e)
      PROVE  OutboxInv'
  <2>1. \A i \in DOMAIN outbox :
           /\ outbox'[i] \in Deliveries
           /\ outbox'[i].status = "Delivered" => outbox[i].status = "Delivered"
    BY <1>2, <1>4, CancelledDelivery DEF Disable
  <2>2. outbox' \in Seq(Deliveries) /\ DOMAIN outbox' = DOMAIN outbox
    BY <1>1, <1>4, <2>1 DEF Disable
  <2> QED BY <1>4, <2>1, <2>2, OutboxKept DEF Disable
<1>5. ASSUME NEW k \in Kinds, Occur(k)
      PROVE  OutboxInv'
  <2>1. PICK S : S = {e \in Endpoints : endpoint[e] = "active" /\ k \in Wants[e]}
    OBVIOUS
  <2>2. PICK listed \in SetToSeqs(S) : outbox' = outbox \o [i \in DOMAIN listed |-> Queued(listed[i])]
    BY <1>5, <2>1 DEF Occur
  <2>3. Cardinality(S) \in Nat
    BY <2>1, NotificationsAssumption, FS_Subset, FS_CardinalityType
  <2>4. listed \in [1 .. Cardinality(S) -> Endpoints]
    BY <2>1, <2>2 DEF SetToSeqs
  <2>5. PICK new : new = [i \in DOMAIN listed |-> Queued(listed[i])]
    OBVIOUS
  <2>6. new \in Seq(Deliveries) /\ \A i \in DOMAIN new : new[i].status = "Pending"
    BY <2>3, <2>4, <2>5, QueuedDelivery
  <2>7. outbox' \in Seq(Deliveries)
    BY <1>1, <2>2, <2>5, <2>6
  <2>8. \A i \in DOMAIN outbox' : outbox'[i].status = "Delivered" =>
              i \in DOMAIN outbox /\ outbox[i].status = "Delivered"
    BY <1>1, <2>2, <2>5, <2>6
  <2> QED BY <1>5, <2>7, <2>8, OutboxKept DEF Occur
<1>6. CASE NextRound
  <2>1. LongestDelay \in Nat
    BY NotificationsAssumption DEF LongestDelay
  <2>2. \A i \in DOMAIN outbox :
           /\ outbox'[i] \in Deliveries
           /\ outbox'[i].status = outbox[i].status
    <3> SUFFICES ASSUME NEW i \in DOMAIN outbox
                 PROVE  outbox'[i] \in Deliveries /\ outbox'[i].status = outbox[i].status
      OBVIOUS
    <3>1. PICK d \in Deliveries : d = outbox[i]
      BY <1>2
    <3>2. PICK n : n = IF d.status = "Failed" /\ d.idle < LongestDelay THEN d.idle + 1 ELSE d.idle
      OBVIOUS
    <3>3. n \in Nat
      <4>1. d.idle \in Nat
        BY DEF Deliveries
      <4> QED BY <3>2, <4>1
    <3>4. outbox'[i] = [d EXCEPT !.idle = n]
      BY <1>6, <3>1, <3>2 DEF NextRound, Deliveries
    <3> QED BY <3>1, <3>3, <3>4 DEF Deliveries
  <2>3. outbox' \in Seq(Deliveries) /\ DOMAIN outbox' = DOMAIN outbox
    <3>1. outbox' = [i \in DOMAIN outbox |-> outbox'[i]]
      BY <1>6 DEF NextRound
    <3> QED BY <1>1, <2>2, <3>1, OutboxRewritten
  <2> QED BY <1>6, <2>2, <2>3, OutboxKept DEF NextRound
<1> QED BY <1>3, <1>4, <1>5, <1>6

(* A sender takes a batch: test_notification_endpoint, the dispatcher loop,   *)
(* dispatch_notifications.                                                  *)
LEMMA OutboxBatches ==
    ASSUME OutboxInv, NEW s \in Senders,
           \/ \E e \in Endpoints : Test(s, e)
           \/ Scan(s)
           \/ \E force \in BOOLEAN : Dispatch(s, force)
    PROVE  OutboxInv'
<1>1. batch[s] = <<>> => answer[s] = "none"
  BY DEF OutboxInv, SuccessWasReceived
<1>2. ASSUME NEW e \in Endpoints, Test(s, e)
      PROVE  OutboxInv'
  <2>1. outbox \in Seq(Deliveries) /\ outbox' = Append(outbox, Queued(e))
    BY <1>2 DEF OutboxInv, OutboxTypes, Test
  <2>2. outbox' \in Seq(Deliveries)
    BY <2>1, QueuedDelivery
  <2>3. \A i \in DOMAIN outbox' : outbox'[i].status = "Delivered" =>
              i \in DOMAIN outbox /\ outbox[i].status = "Delivered"
    BY <2>1, QueuedDelivery
  <2>4. /\ answer[s] = "none" /\ UNCHANGED <<answer, received>>
        /\ \E ids : batch' = [batch EXCEPT ![s] = ids]
    BY <1>1, <1>2 DEF Test, ByHand
  <2>5. DeliveredWasReceived'
    BY <2>3, <2>4 DEF OutboxInv, DeliveredWasReceived
  <2>6. OutboxTypes' /\ SuccessWasReceived'
    BY <2>2, <2>4 DEF OutboxInv, OutboxTypes, SuccessWasReceived
  <2> QED BY <2>5, <2>6 DEF OutboxInv
<1>3. CASE Scan(s)
  BY <1>1, <1>3, BatchTaken DEF Scan
<1>4. ASSUME NEW force \in BOOLEAN, Dispatch(s, force)
      PROVE  OutboxInv'
  BY <1>1, <1>4, BatchTaken DEF Dispatch, ByHand
<1> QED BY <1>2, <1>3, <1>4

(* The call of an endpoint, and what becomes of the answer.                  *)
LEMMA OutboxAttempts ==
    ASSUME OutboxInv, NEW s \in Senders, Attempt(s) \/ Refresh(s)
    PROVE  OutboxInv'
<1>1. outbox \in Seq(Deliveries) /\ answer[s] \in {"none", "ok", "failed"}
  BY DEF OutboxInv, OutboxTypes
<1>2. CASE CallOk(s)
  BY <1>2, Answered DEF CallOk
<1>3. CASE CallFailed(s)
  BY <1>3, Answered DEF CallFailed
<1>4. CASE Record(s)
  <2>1. PICK n : n = Head(batch[s])
    OBVIOUS
  <2>2. outbox' = [outbox EXCEPT ![n] = Attempted(outbox[n], answer[s])]
    BY <1>4, <2>1 DEF Record
  <2>3. answer[s] = "ok" => n \in received
    BY <2>1 DEF OutboxInv, SuccessWasReceived
  <2>4. ASSUME n \in DOMAIN outbox
        PROVE  /\ Attempted(outbox[n], answer[s]) \in Deliveries
               /\ Attempted(outbox[n], answer[s]).status = "Delivered" => answer[s] = "ok"
    BY <1>1, <2>4, AttemptedDelivery
  <2>5. outbox' \in Seq(Deliveries) /\ DOMAIN outbox' = DOMAIN outbox
    <3>1. \A i \in DOMAIN outbox : outbox'[i] \in Deliveries
      BY <1>1, <2>2, <2>4
    <3>2. outbox' = [i \in DOMAIN outbox |-> outbox'[i]]
      BY <2>2
    <3> QED BY <1>1, <3>1, <3>2, OutboxRewritten
  <2>6. \A i \in DOMAIN outbox' : outbox'[i].status = "Delivered" => i \in received
    BY <2>2, <2>3, <2>4, <2>5 DEF OutboxInv, DeliveredWasReceived
  <2> QED BY <1>4, <2>5, <2>6, AnswerDropped DEF Record
<1>5. CASE Refused(s)
  BY <1>1, <1>5, AnswerDropped DEF Refused, OutboxInv, DeliveredWasReceived
<1>6. CASE Abort(s)
  BY <1>1, <1>6, AnswerDropped DEF Abort, OutboxInv, DeliveredWasReceived
<1>7. CASE Refresh(s)
  BY <1>1, <1>7, OutboxKept DEF Refresh
<1> QED BY <1>2, <1>3, <1>4, <1>5, <1>6, <1>7 DEF Attempt

(* The outbox, its batches and its answers stay as the invariant says.       *)
THEOREM OutboxInvariant == OutboxSpec => []OutboxInv
<1>1. OutboxInit => OutboxInv
  BY DEF OutboxInit, OutboxInv, OutboxTypes, SuccessWasReceived, DeliveredWasReceived
<1>2. OutboxInv /\ [OutboxNext]_outboxVars => OutboxInv'
  <2> SUFFICES ASSUME OutboxInv, [OutboxNext]_outboxVars
               PROVE  OutboxInv'
    OBVIOUS
  <2>1. CASE UNCHANGED outboxVars
    BY <2>1 DEF outboxVars, OutboxInv, OutboxTypes, SuccessWasReceived, DeliveredWasReceived
  <2> QED BY <2>1, OutboxCommits, OutboxBatches, OutboxAttempts DEF OutboxNext
<1> QED BY <1>1, <1>2, PTL DEF OutboxSpec

(* A delivery that the outbox shows as delivered was received by its          *)
(* endpoint, whichever sender attempted it.                                 *)
THEOREM DeliveredWereReceived == OutboxSpec => []DeliveredWasReceived
<1>1. OutboxInv => DeliveredWasReceived
  BY DEF OutboxInv
<1> QED BY <1>1, OutboxInvariant, PTL

-----------------------------------------------------------------------------
(***************************************************************************)
(* GitLab's merge requests and pipelines in the tasks.  A stamp is not older *)
(* than the change it stands for, to the second, so what passes for newer    *)
(* is; a synchronisation that nobody has overtaken has read each item after  *)
(* its task last recorded it.                                               *)
(***************************************************************************)

States == [status : MRStatus \cup PipelineStatus \cup {"absent"}, changed : Nat]

WrittenItems == {Written(m) : m \in MRs}

Artifacts ==
    [id : GitLabItems \cup WrittenItems, kind : {"merge_request", "pipeline"},
     mr : MRs, parent : MRs \cup {NoOne},
     status : MRStatus \cup PipelineStatus \cup {"absent"}, verified : BOOLEAN,
     synced : Nat, changed : Nat]

Syncs ==
    [step : {"merge_request", "pipelines", "commit"}, mr : MRs, current : BOOLEAN,
     found : SUBSET Artifacts]

SyncTypes ==
    /\ now \in Nat
    /\ gitlab \in [GitLabItems -> States]
    /\ artifacts \in [Tasks -> SUBSET Artifacts]
    /\ sync = [t \in Tasks |-> sync[t]]
    /\ \A t \in Tasks : sync[t] # NoOne => sync[t] \in Syncs

(* What is told of an item is not newer than the item in GitLab.             *)
NotAhead(a) ==
    /\ a.id \in GitLabItems => a.changed <= gitlab[a.id].changed
    /\ \A m \in MRs : a.id = Written(m) => gitlab[MergeRequest(m)] # Absent

(* Time passes, and GitLab does not change anything in the future.           *)
GitLabOK == \A i \in GitLabItems : gitlab[i].changed <= now

(* A webhook is stamped with the second of the change that it tells of.      *)
HooksOK ==
    \A h \in hooks :
        /\ h.artifact \in Artifacts /\ h.artifact.id \in GitLabItems
        /\ NotAhead(h.artifact)
        /\ h.artifact.synced = Seconds(h.artifact.changed)

OneEach(S) == \A a, b \in S : a.id = b.id => a = b

(* Of each item a task has one artifact; its stamp is not older than the     *)
(* change it tells of, to the second.                                       *)
ArtifactsOK ==
    \A t \in Tasks :
        /\ OneEach(artifacts[t])
        /\ \A a \in artifacts[t] : NotAhead(a) /\ Seconds(a.changed) <= a.synced

(* A synchronisation that nobody has overtaken knows every item that it has  *)
(* found at least as well as its task.                                      *)
SyncsOK ==
    \A t \in Tasks : sync[t] # NoOne =>
        /\ OneEach(sync[t].found)
        /\ \A a \in sync[t].found :
              /\ a.id \in GitLabItems /\ NotAhead(a)
              /\ sync[t].step # "commit" => a.id = MergeRequest(sync[t].mr)
              /\ sync[t].step = "commit" => a.changed <= a.synced
              /\ sync[t].current =>
                    \A x \in artifacts[t] : x.id = a.id => x.changed <= a.changed

SyncInv == SyncTypes /\ GitLabOK /\ HooksOK /\ ArtifactsOK /\ SyncsOK

(* What RecordNeverGoesBack says of a step.                                  *)
Forward ==
    \A t \in Tasks : \A a \in artifacts[t], b \in artifacts'[t] :
        a.id = b.id => Seconds(b.changed) >= Seconds(a.changed)

(* The second of a moment is not after the moment.                           *)
LEMMA SecondsOfTime ==
    ASSUME NEW x \in Nat
    PROVE  Seconds(x) \in Nat /\ Seconds(x) <= x
<1>1. Second \in Nat /\ Second > 0
  BY SyncAssumption
<1>2. x \div Second \in Nat
  BY <1>1
<1> QED BY <1>1, <1>2 DEF Seconds

(* The second of a moment is not after that of a later one.                  *)
LEMMA SecondsInOrder ==
    ASSUME NEW x \in Nat, NEW y \in Nat, x <= y
    PROVE  Seconds(x) <= Seconds(y)
<1>1. Second \in Nat /\ Second > 0
  BY SyncAssumption
<1>2. PICK i \in Nat, j \in Nat : i = x \div Second /\ j = y \div Second
  BY <1>1
<1>3. i <= j
  BY <1>1, <1>2
<1>4. i * Second <= j * Second
  BY <1>1, <1>3
<1> QED BY <1>2, <1>4 DEF Seconds

(* The identities of merge requests, pipelines and written ones differ.      *)
LEMMA Identities ==
    /\ \A m \in MRs : MergeRequest(m) \in GitLabItems /\ Written(m) \notin GitLabItems
    /\ \A p \in Pipelines : Pipeline(p) \in GitLabItems
    /\ \A m \in MRs, p \in Pipelines : MergeRequest(m) # Pipeline(p)
    /\ \A p, q \in Pipelines : Pipeline(p) = Pipeline(q) => p = q
    /\ \A m, n \in MRs : Written(m) = Written(n) => m = n
BY DEF MergeRequest, Pipeline, Written, GitLabItems

(* The artifact of a merge request, of a pipeline.                           *)
LEMMA ArtifactsOf ==
    ASSUME NEW state \in States, NEW at \in Nat
    PROVE  /\ \A m \in MRs :
                 /\ MRArtifact(m, state, at) \in Artifacts
                 /\ MRArtifact(m, state, at).id = MergeRequest(m)
                 /\ MRArtifact(m, state, at).synced = at
                 /\ MRArtifact(m, state, at).changed = state.changed
           /\ \A p \in Pipelines :
                 /\ PipelineArtifact(p, state, at) \in Artifacts
                 /\ PipelineArtifact(p, state, at).id = Pipeline(p)
                 /\ PipelineArtifact(p, state, at).synced = at
                 /\ PipelineArtifact(p, state, at).changed = state.changed
<1>1. state.changed \in Nat /\ state.status \in MRStatus \cup PipelineStatus \cup {"absent"}
  BY DEF States
<1>2. (state.status = "merged") \in BOOLEAN /\ (state.status = "success") \in BOOLEAN
  OBVIOUS
<1>3. \A p \in Pipelines : ParentOf[p] \in MRs
  BY SyncAssumption
<1> QED BY <1>1, <1>2, <1>3, Identities DEF MRArtifact, PipelineArtifact, Artifacts

(* Recording: each identity is there once, and what is new is told of a later *)
(* change than what it takes the place of.                                  *)
LEMMA Recording ==
    ASSUME NEW S \in SUBSET Artifacts, NEW new \in SUBSET Artifacts, OneEach(S), OneEach(new),
           \A x \in S, a \in new : x.id = a.id => Seconds(x.changed) <= Seconds(a.changed)
    PROVE  /\ ExternalArtifactsSynced(S, new) \subseteq S \cup new
           /\ OneEach(ExternalArtifactsSynced(S, new))
           /\ \A a \in S, b \in ExternalArtifactsSynced(S, new) :
                 a.id = b.id => Seconds(b.changed) >= Seconds(a.changed)
<1>1. ExternalArtifactsSynced(S, new) \subseteq S \cup new
  BY DEF ExternalArtifactsSynced
<1>2. \A x \in ExternalArtifactsSynced(S, new) :
         x \in new \/ (x \in S /\ \A a \in new : x.id # a.id)
  BY DEF ExternalArtifactsSynced, Replaces
<1>3. OneEach(ExternalArtifactsSynced(S, new))
  BY <1>2 DEF OneEach
<1>4. ASSUME NEW a \in S, NEW b \in ExternalArtifactsSynced(S, new), a.id = b.id
      PROVE  Seconds(b.changed) >= Seconds(a.changed)
  <2>1. a \in Artifacts /\ b \in Artifacts
    BY <1>1
  <2>2. Seconds(a.changed) \in Nat /\ Seconds(b.changed) \in Nat
    BY <2>1, SecondsOfTime DEF Artifacts
  <2>3. CASE b \in new
    BY <1>4, <2>2, <2>3
  <2>4. CASE b \in S
    <3>1. a = b
      BY <1>4, <2>4 DEF OneEach
    <3> QED BY <2>2, <3>1
  <2> QED BY <1>1, <2>3, <2>4
<1> QED BY <1>1, <1>3, <1>4

(* Nothing recorded, nothing changed.                                        *)
LEMMA NothingNew ==
    ASSUME SyncInv, NEW t \in Tasks
    PROVE  \A a, b \in artifacts[t] : a.id = b.id => Seconds(b.changed) >= Seconds(a.changed)
<1> SUFFICES ASSUME NEW a \in artifacts[t], NEW b \in artifacts[t], a.id = b.id
             PROVE  Seconds(b.changed) >= Seconds(a.changed)
  OBVIOUS
<1>1. a = b
  BY DEF SyncInv, ArtifactsOK, OneEach
<1>2. a \in Artifacts
  BY DEF SyncInv, SyncTypes
<1>3. Seconds(a.changed) \in Nat
  BY <1>2, SecondsOfTime DEF Artifacts
<1> QED BY <1>1, <1>3

(* GitLab changes an item.                                                   *)
LEMMA GitLabMoves ==
    ASSUME SyncInv, NEW item \in GitLabItems, NEW state \in States,
           state.status # "absent", state.changed = now, now' = now,
           gitlab' = [gitlab EXCEPT ![item] = state]
    PROVE  /\ gitlab' \in [GitLabItems -> States] /\ GitLabOK'
           /\ gitlab'[item] = state /\ state # Absent
           /\ \A a \in Artifacts : NotAhead(a) => NotAhead(a)'
<1>1. gitlab \in [GitLabItems -> States] /\ now \in Nat
  BY DEF SyncInv, SyncTypes
<1>2. gitlab' \in [GitLabItems -> States] /\ gitlab'[item] = state
  BY <1>1
<1>3. state # Absent
  BY DEF Absent
<1>4. \A i \in GitLabItems : gitlab'[i] = gitlab[i] \/ (i = item /\ gitlab'[i] = state)
  BY <1>1
<1>5. \A i \in GitLabItems : gitlab[i].changed \in Nat /\ gitlab[i].changed <= now
  BY <1>1 DEF SyncInv, GitLabOK, States
<1>6. GitLabOK'
  BY <1>1, <1>4, <1>5 DEF GitLabOK
<1>7. ASSUME NEW a \in Artifacts, NotAhead(a)
      PROVE  NotAhead(a)'
  <2>1. a.id \in GitLabItems => a.changed <= gitlab'[a.id].changed
    <3> SUFFICES ASSUME a.id \in GitLabItems
                 PROVE  a.changed <= gitlab'[a.id].changed
      OBVIOUS
    <3>1. a.changed \in Nat /\ a.changed <= gitlab[a.id].changed
      BY <1>7 DEF NotAhead, Artifacts
    <3> QED BY <1>1, <1>4, <1>5, <3>1
  <2>2. \A m \in MRs : a.id = Written(m) => gitlab'[MergeRequest(m)] # Absent
    BY <1>3, <1>4, <1>7, Identities DEF NotAhead
  <2> QED BY <2>1, <2>2 DEF NotAhead
<1> QED BY <1>2, <1>3, <1>6, <1>7

(* What a webhook carries.                                                   *)
LEMMA HookOf ==
    ASSUME NEW item \in GitLabItems, NEW state \in States, now \in Nat
    PROVE  /\ Hook(item, state) \in Artifacts
           /\ Hook(item, state).id = item
           /\ Hook(item, state).synced = Seconds(now)
           /\ Hook(item, state).changed = state.changed
<1>1. Seconds(now) \in Nat
  BY SecondsOfTime
<1>2. ASSUME NEW m \in MRs, item = MergeRequest(m)
      PROVE  Hook(item, state) = MRArtifact(m, state, Seconds(now))
  BY <1>2 DEF Hook, MergeRequest
<1>3. ASSUME NEW p \in Pipelines, item = Pipeline(p)
      PROVE  Hook(item, state) = PipelineArtifact(p, state, Seconds(now))
  BY <1>3 DEF Hook, Pipeline
<1>4. (\E m \in MRs : item = MergeRequest(m)) \/ (\E p \in Pipelines : item = Pipeline(p))
  BY DEF GitLabItems
<1> QED BY <1>1, <1>2, <1>3, <1>4, ArtifactsOf

(* A change in GitLab and its webhook.                                       *)
LEMMA HookSent ==
    ASSUME SyncInv, NEW item \in GitLabItems, NEW state \in States,
           state.status # "absent", state.changed = now, now' = now,
           gitlab' = [gitlab EXCEPT ![item] = state],
           hooks' = hooks \cup {[artifact |-> Hook(item, state), at |-> Seconds(now)]}
    PROVE  HooksOK'
<1>1. now \in Nat
  BY DEF SyncInv, SyncTypes
<1>2. PICK a : a = Hook(item, state)
  OBVIOUS
<1>3. a \in Artifacts /\ a.id = item /\ a.synced = Seconds(now) /\ a.changed = now
  BY <1>1, <1>2, HookOf
<1>4. NotAhead(a)'
  <2>1. gitlab'[item] = state
    BY GitLabMoves
  <2>2. a.changed <= gitlab'[a.id].changed
    BY <1>1, <1>3, <2>1
  <2>3. \A m \in MRs : a.id # Written(m)
    BY <1>3, Identities
  <2> QED BY <2>2, <2>3 DEF NotAhead
<1>5. \A h \in hooks' : h \in hooks \/ h.artifact = a
  BY <1>2
<1>6. ASSUME NEW h \in hooks'
      PROVE  /\ h.artifact \in Artifacts /\ h.artifact.id \in GitLabItems
             /\ NotAhead(h.artifact)'
             /\ h.artifact.synced = Seconds(h.artifact.changed)
  <2>1. CASE h.artifact = a
    BY <1>3, <1>4, <2>1
  <2>2. CASE h \in hooks
    BY <2>2, GitLabMoves DEF SyncInv, HooksOK
  <2> QED BY <1>5, <1>6, <2>1, <2>2
<1> QED BY <1>6 DEF HooksOK, NotAhead, Seconds

(* What a task records.                                                      *)
LEMMA TaskRecords ==
    ASSUME SyncInv, NEW t \in Tasks, NEW new \in SUBSET Artifacts, OneEach(new),
           \A x \in artifacts[t], a \in new :
              x.id = a.id => Seconds(x.changed) <= Seconds(a.changed),
           \A a \in new : NotAhead(a)' /\ Seconds(a.changed) <= a.synced,
           \A a \in Artifacts : NotAhead(a) => NotAhead(a)',
           artifacts'[t] = ExternalArtifactsSynced(artifacts[t], new)
    PROVE  /\ artifacts'[t] \in SUBSET Artifacts /\ OneEach(artifacts'[t])
           /\ \A a \in artifacts'[t] : NotAhead(a)' /\ Seconds(a.changed) <= a.synced
           /\ \A a \in artifacts[t], b \in artifacts'[t] :
                 a.id = b.id => Seconds(b.changed) >= Seconds(a.changed)
<1>1. artifacts[t] \in SUBSET Artifacts /\ OneEach(artifacts[t])
      /\ \A a \in artifacts[t] : NotAhead(a) /\ Seconds(a.changed) <= a.synced
  BY DEF SyncInv, SyncTypes, ArtifactsOK
<1>2. /\ artifacts'[t] \subseteq artifacts[t] \cup new /\ OneEach(artifacts'[t])
      /\ \A a \in artifacts[t], b \in artifacts'[t] :
            a.id = b.id => Seconds(b.changed) >= Seconds(a.changed)
  BY <1>1, Recording
<1> QED BY <1>1, <1>2

(* What a task keeps.                                                        *)
LEMMA TaskKeeps ==
    ASSUME SyncInv, NEW t \in Tasks,
           \A a \in Artifacts : NotAhead(a) => NotAhead(a)',
           artifacts'[t] = artifacts[t]
    PROVE  /\ artifacts'[t] \in SUBSET Artifacts /\ OneEach(artifacts'[t])
           /\ \A a \in artifacts'[t] : NotAhead(a)' /\ Seconds(a.changed) <= a.synced
           /\ \A a \in artifacts[t], b \in artifacts'[t] :
                 a.id = b.id => Seconds(b.changed) >= Seconds(a.changed)
<1>1. artifacts[t] \in SUBSET Artifacts /\ OneEach(artifacts[t])
      /\ \A a \in artifacts[t] : NotAhead(a) /\ Seconds(a.changed) <= a.synced
  BY DEF SyncInv, SyncTypes, ArtifactsOK
<1> QED BY <1>1, NothingNew

(* The synchronisations under way when somebody else commits, or nobody does. *)
LEMMA OthersSync ==
    ASSUME SyncInv, NEW t \in Tasks,
           \A a \in Artifacts : NotAhead(a) => NotAhead(a)',
           sync'[t] # NoOne,
           \/ sync'[t] = Overtaken[t]
           \/ sync'[t] = sync[t] /\ artifacts'[t] = artifacts[t]
    PROVE  /\ sync'[t] \in Syncs
           /\ OneEach(sync'[t].found)
           /\ \A a \in sync'[t].found :
                 /\ a.id \in GitLabItems /\ NotAhead(a)'
                 /\ sync'[t].step # "commit" => a.id = MergeRequest(sync'[t].mr)
                 /\ sync'[t].step = "commit" => a.changed <= a.synced
                 /\ sync'[t].current =>
                       \A x \in artifacts'[t] : x.id = a.id => x.changed <= a.changed
<1>1. sync[t] # NoOne
  BY DEF Overtaken
<1>2. sync[t] \in Syncs
  BY <1>1 DEF SyncInv, SyncTypes
<1>3. CASE sync'[t] = Overtaken[t]
  <2>1. sync'[t] = [sync[t] EXCEPT !.current = FALSE]
    BY <1>1, <1>3 DEF Overtaken
  <2>2. /\ sync'[t] \in Syncs /\ sync'[t].found = sync[t].found /\ sync'[t].current = FALSE
        /\ sync'[t].step = sync[t].step /\ sync'[t].mr = sync[t].mr
        /\ sync[t].found \subseteq Artifacts
    BY <1>2, <2>1 DEF Syncs
  <2> QED BY <1>1, <2>2 DEF SyncInv, SyncsOK
<1>4. CASE sync'[t] = sync[t] /\ artifacts'[t] = artifacts[t]
  <2>1. sync[t].found \subseteq Artifacts
    BY <1>2 DEF Syncs
  <2> QED BY <1>1, <1>2, <1>4, <2>1 DEF SyncInv, SyncsOK
<1> QED BY <1>3, <1>4

(* The parts of the invariant, task by task.                                 *)
LEMMA ByTask ==
    ASSUME now' \in Nat, gitlab' \in [GitLabItems -> States], GitLabOK', HooksOK',
           artifacts' = [t \in Tasks |-> artifacts'[t]], sync' = [t \in Tasks |-> sync'[t]],
           \A t \in Tasks :
              /\ artifacts'[t] \in SUBSET Artifacts /\ OneEach(artifacts'[t])
              /\ \A a \in artifacts'[t] : NotAhead(a)' /\ Seconds(a.changed) <= a.synced
              /\ \A a \in artifacts[t], b \in artifacts'[t] :
                    a.id = b.id => Seconds(b.changed) >= Seconds(a.changed),
           \A t \in Tasks : sync'[t] # NoOne =>
              /\ sync'[t] \in Syncs
              /\ OneEach(sync'[t].found)
              /\ \A a \in sync'[t].found :
                    /\ a.id \in GitLabItems /\ NotAhead(a)'
                    /\ sync'[t].step # "commit" => a.id = MergeRequest(sync'[t].mr)
                    /\ sync'[t].step = "commit" => a.changed <= a.synced
                    /\ sync'[t].current =>
                          \A x \in artifacts'[t] : x.id = a.id => x.changed <= a.changed
    PROVE  SyncInv' /\ Forward
<1>1. SyncTypes'
  BY DEF SyncTypes
<1>2. ArtifactsOK' /\ Forward
  BY DEF ArtifactsOK, Forward, OneEach, Seconds
<1>3. SyncsOK'
  BY DEF SyncsOK, OneEach, MergeRequest
<1> QED BY <1>1, <1>2, <1>3 DEF SyncInv

(* GitLab changes a merge request or a pipeline.                             *)
LEMMA GitLabStep ==
    ASSUME SyncInv, NEW item \in GitLabItems, NEW st \in MRStatus \cup PipelineStatus,
           GitLabChanges(item, st)
    PROVE  SyncInv' /\ Forward
<1>1. now \in Nat /\ artifacts \in [Tasks -> SUBSET Artifacts] /\ sync = [t \in Tasks |-> sync[t]]
  BY DEF SyncInv, SyncTypes
<1>2. PICK state : state = [status |-> st, changed |-> now]
  OBVIOUS
<1>3. state \in States /\ state.status # "absent" /\ state.changed = now
  BY <1>1, <1>2, SyncAssumption DEF States
<1>4. /\ gitlab' = [gitlab EXCEPT ![item] = state] /\ UNCHANGED <<now, artifacts, sync>>
      /\ hooks' = hooks \cup {[artifact |-> Hook(item, state), at |-> Seconds(now)]}
  BY <1>2 DEF GitLabChanges, Changed
<1>5. /\ gitlab' \in [GitLabItems -> States] /\ GitLabOK'
      /\ \A a \in Artifacts : NotAhead(a) => NotAhead(a)'
  BY <1>3, <1>4, GitLabMoves
<1>6. HooksOK'
  BY <1>3, <1>4, HookSent
<1> QED BY <1>1, <1>4, <1>5, <1>6, TaskKeeps, OthersSync, ByTask

(* The write gate records the merge request it has created.                  *)
LEMMA WriteStep ==
    ASSUME SyncInv, NEW t \in Tasks, NEW m \in MRs, WriteMergeRequest(t, m)
    PROVE  SyncInv' /\ Forward
<1>1. now \in Nat /\ artifacts \in [Tasks -> SUBSET Artifacts]
  BY DEF SyncInv, SyncTypes
<1>2. PICK state : state = [status |-> "opened", changed |-> now]
  OBVIOUS
<1>3. state \in States /\ state.status # "absent" /\ state.changed = now
  BY <1>1, <1>2, SyncAssumption DEF States
<1>4. PICK item : item = MergeRequest(m)
  OBVIOUS
<1>5. PICK w : w = [MRArtifact(m, state, now) EXCEPT !.id = Written(m)]
  OBVIOUS
<1>6. /\ gitlab' = [gitlab EXCEPT ![item] = state] /\ now' = now /\ gitlab[item] = Absent
      /\ hooks' = hooks \cup {[artifact |-> Hook(item, state), at |-> Seconds(now)]}
      /\ artifacts' = [artifacts EXCEPT ![t] = ExternalArtifactsSynced(artifacts[t], {w})]
      /\ sync' = Overtaken
  BY <1>2, <1>4, <1>5 DEF WriteMergeRequest, Changed
<1>7. item \in GitLabItems
  BY <1>4, Identities
<1>8. /\ gitlab' \in [GitLabItems -> States] /\ GitLabOK' /\ gitlab'[item] # Absent
      /\ \A a \in Artifacts : NotAhead(a) => NotAhead(a)'
  BY <1>3, <1>6, <1>7, GitLabMoves
<1>9. HooksOK'
  BY <1>3, <1>6, <1>7, HookSent
<1>10. w \in Artifacts /\ w.id = Written(m) /\ w.synced = now /\ w.changed = now
  <2>1. PICK a : a = MRArtifact(m, state, now)
    OBVIOUS
  <2>2. a \in Artifacts /\ a.synced = now /\ a.changed = now
    BY <1>1, <1>3, <2>1, ArtifactsOf
  <2>3. Written(m) \in WrittenItems
    BY DEF WrittenItems
  <2> QED BY <1>5, <2>1, <2>2, <2>3 DEF Artifacts
<1>11. NotAhead(w)' /\ Seconds(w.changed) <= w.synced
  BY <1>1, <1>4, <1>8, <1>10, Identities, SecondsOfTime DEF NotAhead
<1>12. \A x \in artifacts[t] : x.id # w.id
  <2>1. \A x \in artifacts[t] : NotAhead(x)
    BY DEF SyncInv, ArtifactsOK
  <2> QED BY <1>4, <1>6, <1>10, <2>1 DEF NotAhead
<1>13. ASSUME NEW u \in Tasks
       PROVE  /\ artifacts'[u] \in SUBSET Artifacts /\ OneEach(artifacts'[u])
              /\ \A a \in artifacts'[u] : NotAhead(a)' /\ Seconds(a.changed) <= a.synced
              /\ \A a \in artifacts[u], b \in artifacts'[u] :
                    a.id = b.id => Seconds(b.changed) >= Seconds(a.changed)
  <2>1. CASE u = t
    <3>1. artifacts'[u] = ExternalArtifactsSynced(artifacts[u], {w})
      BY <1>1, <1>6, <2>1
    <3>2. OneEach({w}) /\ {w} \in SUBSET Artifacts
      BY <1>10 DEF OneEach
    <3>3. \A a \in {w} : NotAhead(a)' /\ Seconds(a.changed) <= a.synced
      BY <1>11
    <3>4. \A x \in artifacts[u], a \in {w} :
             x.id = a.id => Seconds(x.changed) <= Seconds(a.changed)
      BY <1>12, <2>1
    <3> QED BY <1>8, <3>1, <3>2, <3>3, <3>4, TaskRecords
  <2>2. CASE u # t
    <3>1. artifacts'[u] = artifacts[u]
      BY <1>1, <1>6, <2>2
    <3> QED BY <1>8, <3>1, TaskKeeps
  <2> QED BY <2>1, <2>2
<1>14. sync' = [u \in Tasks |-> sync'[u]] /\ artifacts' = [u \in Tasks |-> artifacts'[u]]
  BY <1>1, <1>6 DEF Overtaken
<1>15. \A u \in Tasks : sync'[u] = Overtaken[u]
  BY <1>6
<1> QED BY <1>1, <1>6, <1>8, <1>9, <1>13, <1>14, <1>15, OthersSync, ByTask

(* A webhook is delivered.                                                   *)
LEMMA DeliverStep ==
    ASSUME SyncInv, NEW h \in hooks, Deliver(h)
    PROVE  SyncInv' /\ Forward
<1>1. now \in Nat /\ gitlab \in [GitLabItems -> States] /\ artifacts \in [Tasks -> SUBSET Artifacts]
  BY DEF SyncInv, SyncTypes
<1>2. UNCHANGED <<now, gitlab, hooks>> /\ sync' = Overtaken
  BY DEF Deliver
<1>3. \A t \in Tasks :
         \/ artifacts'[t] = artifacts[t]
         \/ Fresh(t, h) /\ artifacts'[t] = ExternalArtifactsSynced(artifacts[t], {h.artifact})
  BY DEF Deliver
<1>4. /\ artifacts' = [t \in Tasks |-> artifacts'[t]] /\ sync' = [t \in Tasks |-> sync'[t]]
      /\ \A t \in Tasks : sync'[t] = Overtaken[t]
  BY <1>2 DEF Deliver, Overtaken
<1>5. GitLabOK' /\ HooksOK' /\ \A a \in Artifacts : NotAhead(a) => NotAhead(a)'
  BY <1>2 DEF SyncInv, GitLabOK, HooksOK, NotAhead, Seconds
<1>6. PICK a : a = h.artifact
  OBVIOUS
<1>7. a \in Artifacts /\ NotAhead(a) /\ a.synced = Seconds(a.changed)
  BY <1>6 DEF SyncInv, HooksOK
<1>8. Seconds(a.changed) <= a.synced
  <2>1. Seconds(a.changed) \in Nat
    BY <1>7, SecondsOfTime DEF Artifacts
  <2> QED BY <1>7, <2>1
<1>9. ASSUME NEW t \in Tasks
      PROVE  /\ artifacts'[t] \in SUBSET Artifacts /\ OneEach(artifacts'[t])
             /\ \A x \in artifacts'[t] : NotAhead(x)' /\ Seconds(x.changed) <= x.synced
             /\ \A x \in artifacts[t], b \in artifacts'[t] :
                   x.id = b.id => Seconds(b.changed) >= Seconds(x.changed)
  <2>1. CASE artifacts'[t] = artifacts[t]
    BY <1>5, <2>1, TaskKeeps
  <2>2. CASE Fresh(t, h) /\ artifacts'[t] = ExternalArtifactsSynced(artifacts[t], {a})
    <3>1. OneEach({a}) /\ {a} \in SUBSET Artifacts
      BY <1>7 DEF OneEach
    <3>2. \A y \in {a} : NotAhead(y)' /\ Seconds(y.changed) <= y.synced
      BY <1>5, <1>7, <1>8
    <3>3. ASSUME NEW x \in artifacts[t], x.id = a.id
          PROVE  Seconds(x.changed) <= Seconds(a.changed)
      <4>1. x.synced <= a.synced
        BY <1>6, <2>2, <3>3 DEF Fresh
      <4>2. x \in Artifacts /\ Seconds(x.changed) <= x.synced
        BY <1>1 DEF SyncInv, ArtifactsOK
      <4>3. x.synced \in Nat /\ a.synced \in Nat /\ Seconds(x.changed) \in Nat
        BY <1>7, <4>2, SecondsOfTime DEF Artifacts
      <4> QED BY <1>7, <4>1, <4>2, <4>3
    <3>4. \A x \in artifacts[t], y \in {a} :
             x.id = y.id => Seconds(x.changed) <= Seconds(y.changed)
      BY <3>3
    <3> QED BY <1>5, <2>2, <3>1, <3>2, <3>4, TaskRecords
  <2> QED BY <1>3, <1>6, <2>1, <2>2
<1> QED BY <1>1, <1>2, <1>4, <1>5, <1>9, OthersSync, ByTask

(* A step of one synchronisation before its commit.                          *)
LEMMA OneSync ==
    ASSUME SyncInv, NEW t \in Tasks, NEW r, UNCHANGED <<now, gitlab, hooks, artifacts>>,
           sync' = [sync EXCEPT ![t] = r],
           r # NoOne =>
              /\ r \in Syncs /\ OneEach(r.found)
              /\ \A a \in r.found :
                    /\ a.id \in GitLabItems /\ NotAhead(a)
                    /\ r.step # "commit" => a.id = MergeRequest(r.mr)
                    /\ r.step = "commit" => a.changed <= a.synced
                    /\ r.current =>
                          \A x \in artifacts[t] : x.id = a.id => x.changed <= a.changed
    PROVE  SyncInv' /\ Forward
<1>1. /\ now \in Nat /\ gitlab \in [GitLabItems -> States]
      /\ artifacts \in [Tasks -> SUBSET Artifacts] /\ sync = [u \in Tasks |-> sync[u]]
  BY DEF SyncInv, SyncTypes
<1>2. GitLabOK' /\ HooksOK' /\ \A a : NotAhead(a)' <=> NotAhead(a)
  BY DEF SyncInv, GitLabOK, HooksOK, NotAhead, Seconds
<1>3. sync'[t] = r /\ sync' = [u \in Tasks |-> sync'[u]] /\ \A u \in Tasks \ {t} : sync'[u] = sync[u]
  BY <1>1
<1>4. artifacts' = [u \in Tasks |-> artifacts'[u]]
  BY <1>1
<1>5. ASSUME NEW u \in Tasks, sync'[u] # NoOne
      PROVE  /\ sync'[u] \in Syncs
             /\ OneEach(sync'[u].found)
             /\ \A a \in sync'[u].found :
                   /\ a.id \in GitLabItems /\ NotAhead(a)'
                   /\ sync'[u].step # "commit" => a.id = MergeRequest(sync'[u].mr)
                   /\ sync'[u].step = "commit" => a.changed <= a.synced
                   /\ sync'[u].current =>
                         \A x \in artifacts'[u] : x.id = a.id => x.changed <= a.changed
  <2>1. CASE u = t
    BY <1>2, <1>3, <1>5, <2>1
  <2>2. CASE u # t
    BY <1>2, <1>3, <1>5, <2>2, OthersSync
  <2> QED BY <2>1, <2>2
<1> QED BY <1>1, <1>2, <1>3, <1>4, <1>5, TaskKeeps, ByTask

(* `relay gitlab sync` begins, reads the merge request, then its pipelines,   *)
(* or fails.                                                                *)
LEMMA ReadingStep ==
    ASSUME SyncInv, NEW t \in Tasks,
           \/ \E m \in MRs : SyncStart(t, m)
           \/ ReadMergeRequest(t) \/ ReadPipelines(t) \/ SyncFails(t)
    PROVE  SyncInv' /\ Forward
<1>1. /\ now \in Nat /\ gitlab \in [GitLabItems -> States]
      /\ artifacts \in [Tasks -> SUBSET Artifacts]
  BY DEF SyncInv, SyncTypes
<1>2. \A x \in artifacts[t] : x.id \in GitLabItems => x.changed <= gitlab[x.id].changed
  BY DEF SyncInv, ArtifactsOK, NotAhead
<1>3. ASSUME NEW m \in MRs, SyncStart(t, m)
      PROVE  SyncInv' /\ Forward
  <2>1. PICK r : r = [step |-> "merge_request", mr |-> m, current |-> TRUE, found |-> {}]
    OBVIOUS
  <2>2. r \in Syncs /\ r.found = {}
    BY <2>1 DEF Syncs
  <2>3. sync' = [sync EXCEPT ![t] = r] /\ UNCHANGED <<now, gitlab, hooks, artifacts>>
    BY <1>3, <2>1 DEF SyncStart
  <2>4. OneEach(r.found)
    BY <2>2 DEF OneEach
  <2> QED BY <2>2, <2>3, <2>4, OneSync
<1>4. ASSUME ReadMergeRequest(t)
      PROVE  SyncInv' /\ Forward
  <2>1. sync[t] # NoOne /\ sync[t] \in Syncs
    BY <1>4 DEF SyncInv, SyncTypes, ReadMergeRequest
  <2>2. PICK m \in MRs : m = sync[t].mr
    BY <2>1 DEF Syncs
  <2>3. PICK a : a = MRArtifact(m, gitlab[MergeRequest(m)], 0)
    OBVIOUS
  <2>4. MergeRequest(m) \in GitLabItems /\ gitlab[MergeRequest(m)] \in States
    BY <1>1, Identities
  <2>5. a \in Artifacts /\ a.id = MergeRequest(m) /\ a.changed = gitlab[a.id].changed
    BY <2>3, <2>4, ArtifactsOf
  <2>6. PICK r : r = [sync[t] EXCEPT !.step = "pipelines", !.found = {a}]
    OBVIOUS
  <2>7. r \in Syncs /\ r.found = {a} /\ r.step = "pipelines" /\ r.mr = m
    BY <2>1, <2>2, <2>5, <2>6 DEF Syncs
  <2>8. sync' = [sync EXCEPT ![t] = r] /\ UNCHANGED <<now, gitlab, hooks, artifacts>>
    BY <1>4, <2>2, <2>3, <2>6 DEF ReadMergeRequest
  <2>9. NotAhead(a)
    <3>1. a.changed \in Nat
      BY <2>5 DEF Artifacts
    <3> QED BY <2>4, <2>5, <3>1, Identities DEF NotAhead
  <2>10. \A x \in artifacts[t] : x.id = a.id => x.changed <= a.changed
    BY <1>2, <2>4, <2>5
  <2>11. OneEach(r.found)
    BY <2>7 DEF OneEach
  <2> QED BY <2>4, <2>5, <2>7, <2>8, <2>9, <2>10, <2>11, OneSync
<1>5. ASSUME ReadPipelines(t)
      PROVE  SyncInv' /\ Forward
  <2>1. sync[t] # NoOne /\ sync[t] \in Syncs /\ sync[t].step = "pipelines"
    BY <1>5 DEF SyncInv, SyncTypes, ReadPipelines
  <2>2. PICK F \in SUBSET Artifacts : F = sync[t].found
    BY <2>1 DEF Syncs
  <2>3. /\ OneEach(F)
        /\ \A a \in F : /\ a.id = MergeRequest(sync[t].mr) /\ a.id \in GitLabItems
                        /\ NotAhead(a)
                        /\ sync[t].current =>
                              \A x \in artifacts[t] : x.id = a.id => x.changed <= a.changed
    BY <2>1, <2>2 DEF SyncInv, SyncsOK
  <2>4. sync[t].mr \in MRs
    BY <2>1 DEF Syncs
  <2>5. PICK N : N = {p \in {q \in Pipelines : ParentOf[q] = sync[t].mr /\ gitlab[Pipeline(q)] # Absent} :
                         \A q \in {o \in Pipelines : ParentOf[o] = sync[t].mr
                                                      /\ gitlab[Pipeline(o)] # Absent} : q <= p}
    OBVIOUS
  <2>6. N \subseteq Pipelines /\ \A p, q \in N : p = q
    <3>1. N \subseteq Pipelines /\ \A p, q \in N : p <= q /\ q <= p
      BY <2>5
    <3>2. Pipelines \subseteq Nat
      BY SyncAssumption
    <3> QED BY <3>1, <3>2
  <2>7. PICK G : G = {[a EXCEPT !.synced = now] : a \in F}
                        \cup {PipelineArtifact(p, gitlab[Pipeline(p)], now) : p \in N}
    OBVIOUS
  <2>8. PICK r : r = [sync[t] EXCEPT !.step = "commit", !.found = G]
    OBVIOUS
  <2>9. sync' = [sync EXCEPT ![t] = r] /\ UNCHANGED <<now, gitlab, hooks, artifacts>>
    BY <1>5, <2>2, <2>5, <2>7, <2>8 DEF ReadPipelines
  <2>10. \A a \in F : /\ [a EXCEPT !.synced = now] \in Artifacts
                      /\ [a EXCEPT !.synced = now].id = a.id
                      /\ [a EXCEPT !.synced = now].changed = a.changed
                      /\ [a EXCEPT !.synced = now].synced = now
    BY <1>1, <2>2 DEF Artifacts
  <2>11. \A p \in N : /\ Pipeline(p) \in GitLabItems /\ gitlab[Pipeline(p)] \in States
                      /\ PipelineArtifact(p, gitlab[Pipeline(p)], now) \in Artifacts
                      /\ PipelineArtifact(p, gitlab[Pipeline(p)], now).id = Pipeline(p)
                      /\ PipelineArtifact(p, gitlab[Pipeline(p)], now).synced = now
                      /\ PipelineArtifact(p, gitlab[Pipeline(p)], now).changed
                            = gitlab[Pipeline(p)].changed
    BY <1>1, <2>6, Identities, ArtifactsOf
  <2>12. \A i \in GitLabItems : gitlab[i].changed \in Nat /\ gitlab[i].changed <= now
    BY <1>1 DEF SyncInv, GitLabOK, States
  <2>13. ASSUME NEW b \in G
         PROVE  /\ b \in Artifacts /\ b.id \in GitLabItems /\ NotAhead(b) /\ b.changed <= b.synced
                /\ sync[t].current =>
                      \A x \in artifacts[t] : x.id = b.id => x.changed <= b.changed
    <3>1. CASE \E a \in F : b = [a EXCEPT !.synced = now]
      <4>1. PICK a \in F : b = [a EXCEPT !.synced = now]
        BY <3>1
      <4>2. b \in Artifacts /\ b.id = a.id /\ b.changed = a.changed /\ b.synced = now
        BY <2>10, <4>1
      <4>3. NotAhead(a) /\ a.id \in GitLabItems /\ a.changed <= gitlab[a.id].changed /\ a.changed \in Nat
        BY <2>2, <2>3 DEF NotAhead, Artifacts
      <4>4. a.changed <= now
        BY <1>1, <2>12, <4>3
      <4>5. NotAhead(b)
        BY <4>2, <4>3 DEF NotAhead
      <4> QED BY <2>3, <4>2, <4>3, <4>4, <4>5
    <3>2. CASE \E p \in N : b = PipelineArtifact(p, gitlab[Pipeline(p)], now)
      <4>1. PICK p \in N : b = PipelineArtifact(p, gitlab[Pipeline(p)], now)
        BY <3>2
      <4>2. /\ b \in Artifacts /\ b.id = Pipeline(p) /\ b.changed = gitlab[b.id].changed
            /\ b.synced = now /\ b.id \in GitLabItems
        BY <2>11, <4>1
      <4>3. b.changed \in Nat /\ b.changed <= now
        BY <2>12, <4>2
      <4>4. \A m \in MRs : b.id # Written(m)
        BY <4>2, Identities
      <4>5. NotAhead(b)
        BY <4>2, <4>3, <4>4 DEF NotAhead
      <4>6. \A x \in artifacts[t] : x.id = b.id => x.changed <= b.changed
        BY <1>2, <4>2
      <4> QED BY <4>2, <4>3, <4>5, <4>6
    <3> QED BY <2>7, <3>1, <3>2
  <2>14. OneEach(G)
    <3> SUFFICES ASSUME NEW b \in G, NEW c \in G, b.id = c.id
                 PROVE  b = c
      BY DEF OneEach
    <3>1. \A e \in G : \/ \E a \in F : e = [a EXCEPT !.synced = now]
                                       /\ e.id = a.id /\ a.id = MergeRequest(sync[t].mr)
                       \/ \E p \in N : e = PipelineArtifact(p, gitlab[Pipeline(p)], now)
                                       /\ e.id = Pipeline(p)
      <4> SUFFICES ASSUME NEW e \in G
                   PROVE  \/ \E a \in F : e = [a EXCEPT !.synced = now]
                                          /\ e.id = a.id /\ a.id = MergeRequest(sync[t].mr)
                          \/ \E p \in N : e = PipelineArtifact(p, gitlab[Pipeline(p)], now)
                                          /\ e.id = Pipeline(p)
        OBVIOUS
      <4>1. CASE \E a \in F : e = [a EXCEPT !.synced = now]
        <5>1. PICK a \in F : e = [a EXCEPT !.synced = now]
          BY <4>1
        <5>2. e.id = a.id /\ a.id = MergeRequest(sync[t].mr)
          BY <2>3, <2>10, <5>1
        <5> QED BY <5>1, <5>2
      <4>2. CASE \E p \in N : e = PipelineArtifact(p, gitlab[Pipeline(p)], now)
        <5>1. PICK p \in N : e = PipelineArtifact(p, gitlab[Pipeline(p)], now)
          BY <4>2
        <5>2. e.id = Pipeline(p)
          BY <2>11, <5>1
        <5> QED BY <5>1, <5>2
      <4> QED BY <2>7, <4>1, <4>2
    <3>2. CASE b.id = MergeRequest(sync[t].mr)
      <4>1. \A p \in N : b.id # Pipeline(p)
        BY <2>4, <2>6, <3>2, Identities
      <4>2. PICK a \in F : b = [a EXCEPT !.synced = now] /\ b.id = a.id
        BY <3>1, <4>1
      <4>3. PICK d \in F : c = [d EXCEPT !.synced = now] /\ c.id = d.id
        BY <3>1, <4>1
      <4>4. a = d
        BY <2>3, <4>2, <4>3 DEF OneEach
      <4> QED BY <4>2, <4>3, <4>4
    <3>3. CASE b.id # MergeRequest(sync[t].mr)
      <4>1. PICK p \in N : b = PipelineArtifact(p, gitlab[Pipeline(p)], now)
        BY <3>1, <3>3
      <4>2. PICK q \in N : c = PipelineArtifact(q, gitlab[Pipeline(q)], now)
        BY <3>1, <3>3
      <4> QED BY <2>6, <4>1, <4>2
    <3> QED BY <3>2, <3>3
  <2>15. r \in Syncs /\ r.found = G /\ r.step = "commit" /\ r.current = sync[t].current
    BY <2>1, <2>8, <2>13 DEF Syncs
  <2> QED BY <2>9, <2>13, <2>14, <2>15, OneSync
<1>6. ASSUME SyncFails(t)
      PROVE  SyncInv' /\ Forward
  BY <1>6, OneSync DEF SyncFails
<1> QED BY <1>3, <1>4, <1>5, <1>6

(* The commit of a synchronisation that nobody has overtaken.                *)
LEMMA CommitStep ==
    ASSUME SyncInv, NEW t \in Tasks, CommitSync(t)
    PROVE  SyncInv' /\ Forward
<1>1. /\ now \in Nat /\ gitlab \in [GitLabItems -> States]
      /\ artifacts \in [Tasks -> SUBSET Artifacts] /\ sync = [u \in Tasks |-> sync[u]]
  BY DEF SyncInv, SyncTypes
<1>2. /\ sync[t] # NoOne /\ sync[t].step = "commit" /\ sync[t].current
      /\ UNCHANGED <<now, gitlab, hooks>>
      /\ artifacts' = [artifacts EXCEPT ![t] = ExternalArtifactsSynced(artifacts[t], News(t))]
  BY DEF CommitSync, Unmoved
<1>3. sync[t] \in Syncs
  BY <1>2 DEF SyncInv, SyncTypes
<1>4. PICK new : new = News(t)
  OBVIOUS
<1>5. new \subseteq sync[t].found /\ new \in SUBSET Artifacts
  BY <1>3, <1>4 DEF News, Syncs
<1>6. GitLabOK' /\ HooksOK' /\ \A a : NotAhead(a)' <=> NotAhead(a)
  BY <1>2 DEF SyncInv, GitLabOK, HooksOK, NotAhead, Seconds
<1>7. OneEach(new) /\ \A a \in new : /\ NotAhead(a) /\ a.changed <= a.synced
                                     /\ \A x \in artifacts[t] : x.id = a.id => x.changed <= a.changed
  BY <1>2, <1>5 DEF SyncInv, SyncsOK, OneEach
<1>8. \A a \in new : NotAhead(a)' /\ Seconds(a.changed) <= a.synced
  <2> SUFFICES ASSUME NEW a \in new
               PROVE  NotAhead(a)' /\ Seconds(a.changed) <= a.synced
    OBVIOUS
  <2>1. a.changed \in Nat /\ a.synced \in Nat
    BY <1>5 DEF Artifacts
  <2>2. Seconds(a.changed) \in Nat /\ Seconds(a.changed) <= a.changed
    BY <2>1, SecondsOfTime
  <2> QED BY <1>6, <1>7, <2>1, <2>2
<1>9. \A x \in artifacts[t], a \in new : x.id = a.id => Seconds(x.changed) <= Seconds(a.changed)
  <2> SUFFICES ASSUME NEW x \in artifacts[t], NEW a \in new, x.id = a.id
               PROVE  Seconds(x.changed) <= Seconds(a.changed)
    OBVIOUS
  <2>1. a.changed \in Nat /\ x.changed \in Nat
    BY <1>1, <1>5 DEF Artifacts
  <2> QED BY <1>7, <2>1, SecondsInOrder
<1>10. ASSUME NEW u \in Tasks
       PROVE  /\ artifacts'[u] \in SUBSET Artifacts /\ OneEach(artifacts'[u])
              /\ \A a \in artifacts'[u] : NotAhead(a)' /\ Seconds(a.changed) <= a.synced
              /\ \A a \in artifacts[u], b \in artifacts'[u] :
                    a.id = b.id => Seconds(b.changed) >= Seconds(a.changed)
  <2>1. CASE u = t
    <3>1. artifacts'[u] = ExternalArtifactsSynced(artifacts[u], new)
      BY <1>1, <1>2, <1>4, <2>1
    <3> QED BY <1>5, <1>6, <1>7, <1>8, <1>9, <2>1, <3>1, TaskRecords
  <2>2. CASE u # t
    <3>1. artifacts'[u] = artifacts[u]
      BY <1>1, <1>2, <2>2
    <3> QED BY <1>6, <3>1, TaskKeeps
  <2> QED BY <2>1, <2>2
<1>11. PICK base : base = IF new = {} THEN sync ELSE Overtaken
  OBVIOUS
<1>12. base = [u \in Tasks |-> base[u]] /\ \A u \in Tasks : base[u] \in {sync[u], Overtaken[u]}
  BY <1>1, <1>11 DEF Overtaken
<1>13. sync' = [base EXCEPT ![t] = NoOne]
  BY <1>4, <1>11 DEF CommitSync
<1>14. /\ sync' = [u \in Tasks |-> sync'[u]] /\ sync'[t] = NoOne
       /\ \A u \in Tasks \ {t} : sync'[u] = base[u]
  BY <1>12, <1>13
<1>15. artifacts' = [u \in Tasks |-> artifacts'[u]]
  BY <1>1, <1>2
<1>16. ASSUME NEW u \in Tasks, sync'[u] # NoOne
       PROVE  /\ sync'[u] \in Syncs
              /\ OneEach(sync'[u].found)
              /\ \A a \in sync'[u].found :
                    /\ a.id \in GitLabItems /\ NotAhead(a)'
                    /\ sync'[u].step # "commit" => a.id = MergeRequest(sync'[u].mr)
                    /\ sync'[u].step = "commit" => a.changed <= a.synced
                    /\ sync'[u].current =>
                          \A x \in artifacts'[u] : x.id = a.id => x.changed <= a.changed
  <2>1. u # t /\ artifacts'[u] = artifacts[u] /\ sync'[u] \in {sync[u], Overtaken[u]}
    BY <1>1, <1>2, <1>12, <1>14, <1>16
  <2> QED BY <1>6, <1>16, <2>1, OthersSync
<1> QED BY <1>1, <1>2, <1>6, <1>10, <1>14, <1>15, <1>16, ByTask

(* Every step keeps the invariant and takes no record back.                   *)
LEMMA SyncStep ==
    ASSUME SyncInv, [SyncNext]_syncVars
    PROVE  SyncInv' /\ [Forward]_syncVars
<1>1. ASSUME NEW m \in MRs, NEW s \in MRStatus, GitLabChanges(MergeRequest(m), s)
      PROVE  SyncInv' /\ Forward
  BY <1>1, GitLabStep, Identities
<1>2. ASSUME NEW p \in Pipelines, NEW s \in PipelineStatus, GitLabChanges(Pipeline(p), s)
      PROVE  SyncInv' /\ Forward
  BY <1>2, GitLabStep, Identities
<1>3. ASSUME SyncTick
      PROVE  SyncInv' /\ Forward
  <2>1. /\ now \in Nat /\ gitlab \in [GitLabItems -> States]
        /\ artifacts \in [Tasks -> SUBSET Artifacts] /\ sync = [t \in Tasks |-> sync[t]]
    BY DEF SyncInv, SyncTypes
  <2>2. now' = now + 1 /\ UNCHANGED <<gitlab, hooks, artifacts, sync>>
    BY <1>3 DEF SyncTick
  <2>3. \A i \in GitLabItems : gitlab[i].changed \in Nat
    BY <2>1 DEF States
  <2>4. GitLabOK'
    BY <2>1, <2>2, <2>3 DEF SyncInv, GitLabOK
  <2>5. HooksOK' /\ \A a : NotAhead(a)' <=> NotAhead(a)
    BY <2>2 DEF SyncInv, HooksOK, NotAhead, Seconds
  <2> QED BY <2>1, <2>2, <2>4, <2>5, TaskKeeps, OthersSync, ByTask
<1>4. CASE UNCHANGED syncVars
  BY <1>4 DEF syncVars, SyncInv, SyncTypes, GitLabOK, HooksOK, ArtifactsOK, SyncsOK, NotAhead,
              OneEach, Seconds, MergeRequest, Written
<1> QED BY <1>1, <1>2, <1>3, <1>4, WriteStep, DeliverStep, ReadingStep, CommitStep DEF SyncNext

(* What tasks record of GitLab, and what is on its way to them, is behind     *)
(* GitLab and carries its time.                                             *)
THEOREM SyncInvariant == SyncSpec => []SyncInv
<1>1. SyncInit => SyncInv
  <2> SUFFICES ASSUME SyncInit
               PROVE  SyncInv
    OBVIOUS
  <2>1. Absent \in States /\ Absent.changed = 0
    BY DEF Absent, States
  <2>2. SyncTypes
    BY <2>1 DEF SyncInit, SyncTypes
  <2>3. GitLabOK /\ HooksOK /\ ArtifactsOK /\ SyncsOK
    BY <2>1 DEF SyncInit, GitLabOK, HooksOK, ArtifactsOK, SyncsOK, OneEach
  <2> QED BY <2>2, <2>3 DEF SyncInv
<1>2. SyncInv /\ [SyncNext]_syncVars => SyncInv'
  BY SyncStep
<1> QED BY <1>1, <1>2, PTL DEF SyncSpec

(* Whatever the order in which webhooks are delivered, repeated and delayed   *)
(* and synchronisations by hand come between them, a task does not go back   *)
(* from what it has recorded of a merge request or a pipeline                *)
(* (sync_bound_external_artifact, sync_external_artifacts).                  *)
THEOREM RecordsNeverGoBack == SyncSpec => RecordNeverGoesBack
<1>1. SyncInv /\ [SyncNext]_syncVars => [Forward]_syncVars
  BY SyncStep
<1> QED BY <1>1, SyncInvariant, PTL DEF SyncSpec, RecordNeverGoesBack, Forward
=============================================================================
