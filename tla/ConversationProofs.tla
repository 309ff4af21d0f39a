------------------------- MODULE ConversationProofs -------------------------
(***************************************************************************)
(* Proofs about Tracking and Conversation, for any tasks, people, clicks    *)
(* and messages and for every bound.                                       *)
(*                                                                         *)
(* A scan rewrites both lists at once: what it keeps active is a part of    *)
(* what was, and what it adds is new (its keys are not among the kept ones, *)
(* its attentions are not escalated yet).  The additions are sets put in an *)
(* order that nobody knows; all that is needed of it is that it repeats     *)
(* nothing (AnyOrder).                                                     *)
(***************************************************************************)
EXTENDS Conversation, FiniteSetTheorems, TLAPS

SignalKinds == {"acceptance_waiting", "stale_heartbeat", "blocked", "review_waiting", "overdue"}

Signal == [task : Tasks, kind : SignalKinds]

Attention == [task : Tasks, kind : SignalKinds, severity : {"critical", "warning"},
              raised : Nat, active : BOOLEAN]

Escalation == [attention : Nat, recipient : Humans, acknowledged : BOOLEAN,
               active : BOOLEAN]

ListsOK ==
    /\ now \in Nat
    /\ bearer \in Humans \cup {NoOne}
    /\ attentions \in Seq(Attention)
    /\ escalations \in Seq(Escalation)

(* A delivery acts in the commit that stores its receipt.                   *)
ClicksOK ==
    /\ effects \in [Clicks -> Nat]
    /\ \A d \in Clicks : effects[d] = IF d \in receipts THEN 1 ELSE 0

Inv ==
    /\ ListsOK
    /\ EscalationsFollowAttentions
    /\ ClicksOK

-----------------------------------------------------------------------------
(* A finite set in some order: every element at most once.                  *)
LEMMA AnyOrder ==
    ASSUME NEW S, IsFiniteSet(S)
    PROVE  /\ SetToSeq(S) \in Seq(S)
           /\ \A i, j \in DOMAIN SetToSeq(S) : SetToSeq(S)[i] = SetToSeq(S)[j] => i = j
<1> DEFINE n == Cardinality(S)
<1>1. n \in Nat /\ ExistsBijection(1 .. n, S)
  BY FS_CardinalityType, Zenon
<1>2. PICK f \in Bijection(1 .. n, S) : TRUE
  BY <1>1 DEF ExistsBijection
<1>3. f \in [1 .. n -> S] /\ IsInjective(f)
  BY <1>2 DEF Bijection, Injection
<1>4. /\ SetToSeq(S) \in [1 .. n -> S]
      /\ IsInjective(SetToSeq(S))
  <2> DEFINE P(g) == g \in [1 .. n -> S] /\ IsInjective(g)
  <2>1. SetToSeq(S) = CHOOSE g \in [1 .. n -> S] : IsInjective(g)
    BY DEF SetToSeq
  <2> QED BY <1>3, <2>1
<1> QED BY <1>1, <1>4 DEF IsInjective

(* The image of a finite set.                                               *)
LEMMA FiniteImage ==
    ASSUME NEW S, IsFiniteSet(S), NEW f, DOMAIN f = S
    PROVE  IsFiniteSet({f[x] : x \in S})
<1> DEFINE T == {f[x] : x \in S}
           g == [x \in S |-> f[x]]
<1>1. g \in Surjection(S, T)
  BY DEF Surjection
<1> HIDE DEF T, g
<1>2. IsFiniteSet(T)
  BY <1>1, FS_Surjection
<1> QED BY <1>2 DEF T

(* tracker::evaluate finds finitely much.                                   *)
LEMMA FindingsFinite == Findings \subseteq Signal /\ IsFiniteSet(Findings)
<1>1. \A t \in Tasks : Waiting(t) \subseteq SignalKinds
  BY DEF Waiting, SignalKinds
<1>2. Findings \subseteq Signal
  BY <1>1 DEF Findings, Signal, SignalKinds
<1>3. IsFiniteSet(Signal)
  <2> DEFINE S == Tasks \X SignalKinds
             f == [x \in S |-> [task |-> x[1], kind |-> x[2]]]
  <2>1. IsFiniteSet(SignalKinds)
    <3>1. /\ IsFiniteSet({}) /\ \A T, x : IsFiniteSet(T) => IsFiniteSet(T \cup {x})
      BY FS_EmptySet, FS_AddElement
    <3>2. SignalKinds = ((((({} \cup {"acceptance_waiting"}) \cup {"stale_heartbeat"})
                             \cup {"blocked"}) \cup {"review_waiting"}) \cup {"overdue"})
      BY DEF SignalKinds
    <3> QED BY <3>1, <3>2, Zenon
  <2>2. IsFiniteSet(S)
    BY <2>1, TrackingAssumption, FS_Product
  <2>3. DOMAIN f = S
    OBVIOUS
  <2>4. {f[x] : x \in S} = Signal
    <3>1. \A x \in S : f[x] \in Signal
      BY DEF Signal
    <3>2. ASSUME NEW y \in Signal PROVE \E x \in S : y = f[x]
      <4>1. y = [task |-> y.task, kind |-> y.kind] /\ y.task \in Tasks /\ y.kind \in SignalKinds
        BY DEF Signal
      <4>2. <<y.task, y.kind>> \in S /\ y = f[<<y.task, y.kind>>]
        BY <4>1
      <4> QED BY <4>2
    <3> HIDE DEF f, S
    <3> QED BY <3>1, <3>2
  <2> HIDE DEF f, S
  <2> QED BY <2>2, <2>3, <2>4, FiniteImage
<1> QED BY <1>2, <1>3, FS_Subset

-----------------------------------------------------------------------------
(* The attentions a scan leaves: no key is active twice.                     *)
LEMMA ScanAttentions ==
    ASSUME Inv
    PROVE  /\ AttentionsAfter \in Seq(Attention)
           /\ \A a, b \in Active(AttentionsAfter) :
                 Key(AttentionsAfter[a]) = Key(AttentionsAfter[b]) => a = b
<1> DEFINE found == {i \in Active(attentions) : Key(attentions[i]) \in Findings}
           raised == Findings \ {Key(attentions[i]) : i \in found}
           rec == [f \in raised |->
                     [task |-> f.task, kind |-> f.kind, severity |-> Severity(f.kind),
                      raised |-> now, active |-> TRUE]]
           R == {rec[f] : f \in raised}
           kept == [i \in DOMAIN attentions |->
                      [attentions[i] EXCEPT !.active = @ /\ i \in found]]
           new == SetToSeq(R)
           n == Len(attentions)
<1>1. AttentionsAfter = kept \o new
  <2>1. R = {[task |-> f.task, kind |-> f.kind, severity |-> Severity(f.kind),
              raised |-> now, active |-> TRUE] : f \in raised}
    OBVIOUS
  <2> QED BY <2>1 DEF AttentionsAfter
<1>2. /\ now \in Nat /\ attentions \in Seq(Attention)
      /\ n \in Nat /\ DOMAIN attentions = 1 .. n
      /\ \A a, b \in Active(attentions) : Key(attentions[a]) = Key(attentions[b]) => a = b
  BY DEF Inv, ListsOK, EscalationsFollowAttentions
<1>3. IsFiniteSet(R)
  <2>1. IsFiniteSet(raised)
    BY FindingsFinite, FS_Subset
  <2>2. DOMAIN rec = raised
    OBVIOUS
  <2> HIDE DEF rec, raised
  <2> QED BY <2>1, <2>2, FiniteImage
<1>4. \A r \in R : /\ r \in Attention /\ r.active
                   /\ Key(r) \in raised
  <2> SUFFICES ASSUME NEW f \in raised
               PROVE  /\ rec[f] \in Attention /\ rec[f].active /\ Key(rec[f]) \in raised
    <3> HIDE DEF rec, raised
    <3> QED OBVIOUS
  <2>1. f \in Signal
    BY FindingsFinite
  <2>2. Severity(f.kind) \in {"critical", "warning"}
    BY DEF Severity
  <2>3. f = [task |-> f.task, kind |-> f.kind] /\ f.task \in Tasks /\ f.kind \in SignalKinds
    BY <2>1 DEF Signal
  <2>4. rec[f] \in Attention /\ rec[f].active
    BY <1>2, <2>2, <2>3 DEF Attention
  <2>5. Key(rec[f]) = f
    BY <2>3 DEF Key
  <2> QED BY <2>4, <2>5
<1>5. \A r, s \in R : Key(r) = Key(s) => r = s
  <2> SUFFICES ASSUME NEW f \in raised, NEW g \in raised, Key(rec[f]) = Key(rec[g])
               PROVE  rec[f] = rec[g]
    <3> HIDE DEF rec, raised
    <3> QED OBVIOUS
  <2>1. f.task = g.task /\ f.kind = g.kind
    BY DEF Key
  <2> QED BY <2>1
<1>6. /\ kept \in Seq(Attention) /\ Len(kept) = n
      /\ \A i \in 1 .. n : /\ kept[i].active => i \in found
                           /\ Key(kept[i]) = Key(attentions[i])
  <2>1. \A i \in 1 .. n : /\ kept[i] \in Attention
                          /\ kept[i].active => i \in found
                          /\ Key(kept[i]) = Key(attentions[i])
    <3> TAKE i \in 1 .. n
    <3>1. attentions[i] \in Attention
      BY <1>2
    <3>2. kept[i] = [attentions[i] EXCEPT !.active = @ /\ i \in found]
      BY <1>2
    <3> HIDE DEF kept, found
    <3>3. (attentions[i].active /\ i \in found) \in BOOLEAN
      OBVIOUS
    <3>4. kept[i] \in Attention /\ kept[i].active = (attentions[i].active /\ i \in found)
      BY <3>1, <3>2, <3>3 DEF Attention
    <3>5. kept[i].task = attentions[i].task /\ kept[i].kind = attentions[i].kind
      BY <3>1, <3>2 DEF Attention
    <3> QED BY <3>4, <3>5 DEF Key
  <2>2. DOMAIN kept = 1 .. n
    BY <1>2
  <2>3. kept = [i \in 1 .. n |-> kept[i]]
    BY <1>2
  <2> HIDE DEF kept, found, n
  <2> QED BY <1>2, <2>1, <2>2, <2>3
<1>7. /\ new \in Seq(Attention)
      /\ \A i \in DOMAIN new : new[i] \in R
      /\ \A i, j \in DOMAIN new : new[i] = new[j] => i = j
  <2> HIDE DEF R
  <2>1. new \in Seq(R) /\ \A i, j \in DOMAIN new : new[i] = new[j] => i = j
    BY <1>3, AnyOrder
  <2> HIDE DEF new
  <2> QED BY <1>4, <2>1
<1> DEFINE after == kept \o new
           m == Len(new)
<1> HIDE DEF kept, new, R, rec
<1>8. /\ after \in Seq(Attention) /\ m \in Nat
      /\ DOMAIN after = 1 .. (n + m) /\ DOMAIN new = 1 .. m
      /\ \A i \in 1 .. n : after[i] = kept[i]
      /\ \A i \in 1 .. m : after[n + i] = new[i]
  <2>1. kept \in Seq(Attention) /\ new \in Seq(Attention)
    BY <1>6, <1>7
  <2>2. /\ kept \o new \in Seq(Attention) /\ Len(new) \in Nat
        /\ DOMAIN (kept \o new) = 1 .. (Len(kept) + Len(new)) /\ DOMAIN new = 1 .. Len(new)
        /\ \A i \in 1 .. Len(kept) : (kept \o new)[i] = kept[i]
        /\ \A i \in 1 .. Len(new) : (kept \o new)[Len(kept) + i] = new[i]
    BY <2>1
  <2>3. Len(kept) = n
    BY <1>6, <1>7
  <2> QED BY <2>2, <2>3, Zenon
<1> HIDE DEF after, n, m
<1>9. \A a \in Active(after) :
         \/ a \in found /\ a \in 1 .. n /\ Key(after[a]) = Key(attentions[a])
         \/ \E i \in 1 .. m : a = n + i /\ new[i] = after[a] /\ new[i] \in R
  <2> TAKE a \in Active(after)
  <2>1. a \in 1 .. (n + m) /\ after[a].active
    BY <1>8 DEF Active
  <2>2. CASE a \in 1 .. n
    BY <1>6, <1>8, <2>1, <2>2
  <2>3. CASE a \notin 1 .. n
    <3>1. a - n \in 1 .. m /\ a = n + (a - n)
      BY <1>2, <1>8, <2>1, <2>3
    <3> QED BY <1>7, <1>8, <3>1
  <2> QED BY <2>2, <2>3
<1>10. \A a, b \in Active(after) : Key(after[a]) = Key(after[b]) => a = b
  <2> SUFFICES ASSUME NEW a \in Active(after), NEW b \in Active(after),
                      Key(after[a]) = Key(after[b])
               PROVE  a = b
    OBVIOUS
  <2>0. found \subseteq Active(attentions)
    OBVIOUS
  <2>1. CASE a \in found /\ Key(after[a]) = Key(attentions[a])
             /\ b \in found /\ Key(after[b]) = Key(attentions[b])
    BY <1>2, <2>0, <2>1
  <2>2. ASSUME NEW c \in found, NEW r \in R PROVE Key(attentions[c]) # Key(r)
    <3>1. Key(r) \in raised
      BY <1>4
    <3> QED BY <3>1
  <2> HIDE DEF found, raised
  <2>3. CASE a \in found /\ Key(after[a]) = Key(attentions[a])
             /\ \E i \in 1 .. m : b = n + i /\ new[i] = after[b] /\ new[i] \in R
    BY <2>2, <2>3
  <2>4. CASE b \in found /\ Key(after[b]) = Key(attentions[b])
             /\ \E i \in 1 .. m : a = n + i /\ new[i] = after[a] /\ new[i] \in R
    BY <2>2, <2>4
  <2>5. ASSUME NEW i \in 1 .. m, a = n + i, new[i] = after[a], new[i] \in R,
               NEW j \in 1 .. m, b = n + j, new[j] = after[b], new[j] \in R
        PROVE  a = b
    <3>1. new[i] = new[j]
      BY <1>5, <2>5
    <3> QED BY <1>7, <1>8, <2>5, <3>1
  <2> QED BY <1>9, <2>1, <2>3, <2>4, <2>5
<1> QED BY <1>1, <1>8, <1>10 DEF after

(* The escalations a scan leaves, for the attentions it leaves.              *)
LEMMA ScanEscalations ==
    ASSUME Inv, NEW after \in Seq(Attention)
    PROVE  /\ EscalationsAfter(after) \in Seq(Escalation)
           /\ \A e \in Active(EscalationsAfter(after)) :
                 EscalationsAfter(after)[e].attention \in Active(after)
           /\ \A e, f \in Active(EscalationsAfter(after)) :
                 EscalationsAfter(after)[e].attention = EscalationsAfter(after)[f].attention
                   => e = f
<1> DEFINE due == ToEscalate(after)
           rec == [i \in due |-> [attention |-> i, recipient |-> bearer,
                                  acknowledged |-> FALSE, active |-> TRUE]]
           R == IF bearer = NoOne THEN {} ELSE {rec[i] : i \in due}
           kept == [i \in DOMAIN escalations |->
                      [escalations[i] EXCEPT !.active =
                         @ /\ escalations[i].attention \in Active(after)]]
           new == SetToSeq(R)
           n == Len(escalations)
           m == Len(new)
           all == kept \o new
<1>1. EscalationsAfter(after) = all
  <2>1. SetToSeq({}) = <<>>
    BY AnyOrder, FS_EmptySet
  <2>2. CASE bearer = NoOne
    BY <2>1, <2>2 DEF EscalationsAfter, Raise, Recipient
  <2>3. CASE bearer # NoOne
    <3>1. R = {[attention |-> i, recipient |-> Recipient,
                acknowledged |-> FALSE, active |-> TRUE] : i \in due}
      BY <2>3 DEF Recipient
    <3> QED BY <2>3, <3>1 DEF EscalationsAfter, Raise, Recipient
  <2> QED BY <2>2, <2>3
<1>2. /\ escalations \in Seq(Escalation)
      /\ n \in Nat /\ DOMAIN escalations = 1 .. n
      /\ \A e, f \in Active(escalations) :
            escalations[e].attention = escalations[f].attention => e = f
  BY DEF Inv, ListsOK, EscalationsFollowAttentions
<1>3. IsFiniteSet(due) /\ due \subseteq Nat /\ due \subseteq Active(after)
  <2>1. Len(after) \in Nat /\ DOMAIN after = 1 .. Len(after)
    OBVIOUS
  <2>2. due \subseteq 1 .. Len(after)
    BY <2>1 DEF Active, ToEscalate
  <2>3. IsFiniteSet(1 .. Len(after))
    BY <2>1, FS_Interval
  <2>4. IsFiniteSet(due)
    BY <2>2, <2>3, FS_Subset
  <2>5. due \subseteq Active(after)
    BY DEF ToEscalate
  <2> QED BY <2>1, <2>2, <2>4, <2>5
<1>4. IsFiniteSet(R)
  <2>1. DOMAIN rec = due
    OBVIOUS
  <2> HIDE DEF rec, due
  <2> QED BY <1>3, <2>1, FiniteImage, FS_EmptySet
<1>5. \A r \in R : /\ r \in Escalation
                   /\ r.attention \in due
  <2>1. bearer # NoOne => \A i \in due : rec[i] \in Escalation /\ rec[i].attention = i
    BY <1>3 DEF Escalation, Inv, ListsOK
  <2> HIDE DEF rec, due
  <2> QED BY <2>1
<1>6. \A r, s \in R : r.attention = s.attention => r = s
  <2>1. \A i \in due : rec[i].attention = i
    OBVIOUS
  <2> HIDE DEF rec, due
  <2> QED BY <2>1
<1>7. /\ kept \in Seq(Escalation) /\ Len(kept) = n
      /\ \A i \in 1 .. n :
            /\ kept[i].active => i \in Active(escalations) /\ kept[i].attention \in Active(after)
            /\ kept[i].attention = escalations[i].attention
  <2>1. \A i \in 1 .. n :
            /\ kept[i] \in Escalation
            /\ kept[i].active => i \in Active(escalations) /\ kept[i].attention \in Active(after)
            /\ kept[i].attention = escalations[i].attention
    <3> TAKE i \in 1 .. n
    <3> DEFINE open == escalations[i].active /\ escalations[i].attention \in Active(after)
    <3>1. escalations[i] \in Escalation
      BY <1>2
    <3>2. kept[i] = [escalations[i] EXCEPT !.active = open]
      BY <1>2, <3>1 DEF Escalation
    <3>3. open \in BOOLEAN
      OBVIOUS
    <3> HIDE DEF kept, open
    <3>4. kept[i] \in Escalation /\ kept[i].active = open
      BY <3>1, <3>2, <3>3 DEF Escalation
    <3>5. kept[i].attention = escalations[i].attention
      BY <3>1, <3>2 DEF Escalation
    <3> QED BY <1>2, <3>4, <3>5 DEF Active, open
  <2>2. kept = [i \in 1 .. n |-> kept[i]]
    BY <1>2
  <2> HIDE DEF kept, n
  <2> QED BY <1>2, <2>1, <2>2
<1>8. /\ new \in Seq(Escalation)
      /\ \A i \in DOMAIN new : new[i] \in R
      /\ \A i, j \in DOMAIN new : new[i] = new[j] => i = j
  <2> HIDE DEF R
  <2>1. new \in Seq(R) /\ \A i, j \in DOMAIN new : new[i] = new[j] => i = j
    BY <1>4, AnyOrder
  <2> HIDE DEF new
  <2> QED BY <1>5, <2>1
<1> HIDE DEF kept, new, R, rec
<1>9. /\ all \in Seq(Escalation) /\ m \in Nat
      /\ DOMAIN all = 1 .. (n + m) /\ DOMAIN new = 1 .. m
      /\ \A i \in 1 .. n : all[i] = kept[i]
      /\ \A i \in 1 .. m : all[n + i] = new[i]
  <2>1. kept \in Seq(Escalation) /\ new \in Seq(Escalation)
    BY <1>7, <1>8
  <2>2. /\ kept \o new \in Seq(Escalation) /\ Len(new) \in Nat
        /\ DOMAIN (kept \o new) = 1 .. (Len(kept) + Len(new)) /\ DOMAIN new = 1 .. Len(new)
        /\ \A i \in 1 .. Len(kept) : (kept \o new)[i] = kept[i]
        /\ \A i \in 1 .. Len(new) : (kept \o new)[Len(kept) + i] = new[i]
    BY <2>1
  <2>3. Len(kept) = n
    BY <1>7, <1>8
  <2> QED BY <2>2, <2>3, Zenon
<1> HIDE DEF all, n, m
<1>10. \A e \in Active(all) :
         \/ /\ e \in Active(escalations) /\ all[e].attention \in Active(after)
            /\ all[e].attention = escalations[e].attention
         \/ \E i \in 1 .. m : e = n + i /\ new[i] = all[e] /\ new[i] \in R
  <2> TAKE e \in Active(all)
  <2>1. e \in 1 .. (n + m) /\ all[e].active
    BY <1>9 DEF Active
  <2>2. CASE e \in 1 .. n
    BY <1>7, <1>9, <2>1, <2>2
  <2>3. CASE e \notin 1 .. n
    <3>1. e - n \in 1 .. m /\ e = n + (e - n)
      BY <1>2, <1>9, <2>1, <2>3
    <3> QED BY <1>8, <1>9, <3>1
  <2> QED BY <2>2, <2>3
<1>11. \A e \in Active(all) : all[e].attention \in Active(after)
  BY <1>3, <1>5, <1>10
<1>12. \A e, f \in Active(all) : all[e].attention = all[f].attention => e = f
  <2> SUFFICES ASSUME NEW e \in Active(all), NEW f \in Active(all),
                      all[e].attention = all[f].attention
               PROVE  e = f
    OBVIOUS
  <2>1. ASSUME NEW c \in Active(escalations), NEW r \in R
        PROVE  escalations[c].attention # r.attention
    <3>1. r.attention \in due
      BY <1>5
    <3> QED BY <3>1 DEF ToEscalate
  <2> HIDE DEF due
  <2>2. ASSUME NEW i \in 1 .. m, e = n + i, new[i] = all[e], new[i] \in R,
               NEW j \in 1 .. m, f = n + j, new[j] = all[f], new[j] \in R
        PROVE  e = f
    <3>1. new[i] = new[j]
      BY <1>6, <2>2
    <3> QED BY <1>8, <1>9, <2>2, <3>1
  <2> QED BY <1>2, <1>10, <2>1, <2>2
<1> QED BY <1>1, <1>9, <1>11, <1>12

-----------------------------------------------------------------------------
(* A step that touches neither the lists nor the clicks' effects.           *)
LEMMA Untouched ==
    ASSUME Inv, now' \in Nat, bearer' \in Humans \cup {NoOne},
           UNCHANGED <<attentions, escalations, receipts, effects>>
    PROVE  Inv'
BY DEF Inv, ListsOK, EscalationsFollowAttentions, Active, Key, ClicksOK

(* An acknowledgement marks one escalation and nothing else.                *)
LEMMA AckKeepsLists ==
    ASSUME Inv, NEW p, NEW e, AckEscalation(p, e), UNCHANGED <<now, bearer, attentions>>
    PROVE  ListsOK' /\ EscalationsFollowAttentions'
<1>1. /\ escalations \in Seq(Escalation) /\ e \in DOMAIN escalations
      /\ now \in Nat /\ bearer \in Humans \cup {NoOne} /\ attentions \in Seq(Attention)
  BY DEF Inv, ListsOK, AckEscalation
<1>2. escalations' = [escalations EXCEPT ![e] = [escalations[e] EXCEPT !.acknowledged = TRUE]]
  BY DEF AckEscalation
<1>3. escalations[e] \in Escalation
  BY <1>1
<1>4. PICK r : r = [escalations[e] EXCEPT !.acknowledged = TRUE]
  OBVIOUS
<1>5. r \in Escalation /\ r.active = escalations[e].active
      /\ r.attention = escalations[e].attention
  BY <1>3, <1>4 DEF Escalation
<1>6. escalations' = [escalations EXCEPT ![e] = r]
  BY <1>2, <1>4
<1>7. /\ escalations' \in Seq(Escalation) /\ DOMAIN escalations' = DOMAIN escalations
      /\ \A i \in DOMAIN escalations : /\ escalations'[i].active = escalations[i].active
                                       /\ escalations'[i].attention = escalations[i].attention
  BY <1>1, <1>5, <1>6
<1>8. Active(escalations)' = Active(escalations)
  BY <1>7 DEF Active
<1>9. Active(escalations) \subseteq DOMAIN escalations
  BY DEF Active
<1>10. EscalationsFollowAttentions'
  <2>1. Active(attentions)' = Active(attentions)
    BY DEF Active
  <2> QED BY <1>7, <1>8, <1>9, <2>1 DEF Inv, EscalationsFollowAttentions, Key
<1> QED BY <1>1, <1>7, <1>10 DEF ListsOK

(* A delivery acts once and has its receipt.                                *)
LEMMA InteractInv ==
    ASSUME Inv, NEW d \in Clicks, Interact(d)
    PROVE  Inv'
<1>1. ClicksOK'
  BY DEF Inv, ClicksOK, Interact, Receipt
<1>2. PICK p \in ActsFor(clicks[d].user) : Effect(p, clicks[d].target)
  BY DEF Interact
<1>3. CASE UNCHANGED <<now, naming, attentions, escalations>>
  BY <1>1, <1>3 DEF naming, Inv, ListsOK, EscalationsFollowAttentions, Active, Key
<1>4. CASE EscalationAckClick(p, clicks[d].target.escalation)
  BY <1>1, <1>4, AckKeepsLists DEF naming, EscalationAckClick, Inv
<1> QED
  BY <1>2, <1>3, <1>4 DEF Effect, TaskAcceptClick, TaskRejectClick, MessageAckClick, trackVars

(* A scan.                                                                  *)
LEMMA ScanInv == Inv /\ TrackerScan => Inv'
<1> SUFFICES ASSUME Inv, TrackerScan PROVE Inv'
  OBVIOUS
<1>1. /\ attentions' = AttentionsAfter /\ escalations' = EscalationsAfter(attentions')
      /\ UNCHANGED <<now, bearer, receipts, effects>>
  BY DEF TrackerScan, Scan, naming, others
<1>2. PICK after : after = AttentionsAfter
  OBVIOUS
<1>3. PICK all : all = EscalationsAfter(after)
  OBVIOUS
<1>4. after \in Seq(Attention)
      /\ \A a, b \in Active(after) : Key(after[a]) = Key(after[b]) => a = b
  BY <1>2, ScanAttentions
<1>5. /\ all \in Seq(Escalation)
      /\ \A e \in Active(all) : all[e].attention \in Active(after)
      /\ \A e, f \in Active(all) : all[e].attention = all[f].attention => e = f
  BY <1>3, <1>4, ScanEscalations
<1>6. attentions' = after /\ escalations' = all
  BY <1>1, <1>2, <1>3
<1>7. ListsOK' /\ EscalationsFollowAttentions'
  BY <1>1, <1>4, <1>5, <1>6 DEF Inv, ListsOK, EscalationsFollowAttentions, Active, Key
<1> QED BY <1>1, <1>7 DEF Inv, ClicksOK

(* What the console, the tasks and the directory do.                        *)
LEMMA ByHandInv == Inv /\ ByHand => Inv'
<1> SUFFICES ASSUME Inv, ByHand PROVE Inv'
  OBVIOUS
<1>1. CASE UNCHANGED <<now, naming, attentions, escalations>>
  BY <1>1, Untouched DEF ByHand, naming, Inv, ListsOK
<1>2. ASSUME NEW p, NEW e, AckEscalation(p, e), UNCHANGED <<now, naming, attentions>>
      PROVE  Inv'
  BY <1>2, AckKeepsLists DEF ByHand, naming, Inv, ClicksOK
<1> QED BY <1>1, <1>2 DEF ByHand, naming

(* The invariant is inductive.                                              *)
LEMMA NextInv == Inv /\ [Next]_vars => Inv'
<1> SUFFICES ASSUME Inv, [Next]_vars PROVE Inv'
  OBVIOUS
<1> USE TrackingAssumption
<1>0. now \in Nat /\ bearer \in Humans \cup {NoOne}
  BY DEF Inv, ListsOK
<1>1. CASE ApproveFlow /\ UNCHANGED others
  BY <1>0, <1>1, Untouched DEF ApproveFlow, naming, others
<1>2. CASE \E t \in Tasks : TaskStep(t) /\ UNCHANGED others
  BY <1>0, <1>2, Untouched DEF TaskStep, naming, others
<1>3. CASE Tick /\ UNCHANGED others
  BY <1>0, <1>3, Untouched DEF Tick, naming, others
<1>4. CASE TrackerScan
  BY <1>4, ScanInv
<1>5. CASE ByHand
  BY <1>5, ByHandInv
<1>6. CASE \E p \in Humans \cup Agents, R \in SUBSET (Humans \cup Agents \cup Teams),
              a \in BOOLEAN : PostMessage(p, R, a)
  BY <1>0, <1>6, Untouched DEF PostMessage, naming, trackVars
<1>7. CASE \E p \in Humans \cup Agents, i \in DOMAIN messages : AckMessage(p, i)
  BY <1>0, <1>7, Untouched DEF AckMessage, naming, trackVars
<1>8. CASE \E d \in Clicks, u \in ChatUsers : \E x \in Targets : Click(d, u, x)
  BY <1>0, <1>8, Untouched DEF Click, naming, trackVars
<1>9. CASE \E d \in Clicks : Interact(d)
  BY <1>9, InteractInv
<1>10. CASE \E u \in ChatUsers, h \in Humans \cup {NoOne} : Rebind(u, h)
  BY <1>0, <1>10, Untouched DEF Rebind, naming
<1>11. ASSUME NEW p \in Humans, Rename(p), UNCHANGED others
       PROVE  Inv'
  BY <1>0, <1>11, Untouched DEF Rename, others
<1>12. CASE UNCHANGED vars
  BY <1>0, <1>12, Untouched DEF vars, naming, trackVars
<1> QED
  BY <1>1, <1>2, <1>3, <1>4, <1>5, <1>6, <1>7, <1>8, <1>9, <1>10, <1>11, <1>12 DEF Next

-----------------------------------------------------------------------------
(* In every reachable state: the lists of the tracker fit each other, and a *)
(* delivery has acted exactly when its receipt is stored.                   *)
THEOREM ConversationInvariant == Spec => []Inv
<1>1. Init => Inv
  BY DirectoryAssumption
  DEF Init, TrackInit, Inv, ListsOK, EscalationsFollowAttentions, Active, ClicksOK
<1> QED BY <1>1, NextInv, PTL DEF Spec

(* However often a chat delivers a button press, it acts at most once       *)
(* (process_external_interaction stores the receipt with the effect).       *)
THEOREM ClicksActOnce == Spec => []EachClickActsOnce
<1>1. Inv => EachClickActsOnce
  BY DEF Inv, ClicksOK, EachClickActsOnce
<1> QED BY <1>1, ConversationInvariant, PTL

(* Whatever the tasks do between scans, an open escalation stands for an    *)
(* open attention, no attention is escalated twice, and no signal is raised *)
(* twice (scan_tracking_with_policy_at).                                    *)
THEOREM EscalationsMatchAttentions == Spec => []EscalationsFollowAttentions
<1>1. Inv => EscalationsFollowAttentions
  BY DEF Inv
<1> QED BY <1>1, ConversationInvariant, PTL

=============================================================================
