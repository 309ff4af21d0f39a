--------------------------- MODULE Notifications ----------------------------
(***************************************************************************)
(* The notification outbox: a commit queues one delivery per subscribed     *)
(* endpoint together with its events; the loops of servers and of the TUI,  *)
(* and people by hand, take batches of due deliveries from their cached     *)
(* state, call the endpoint outside any lock and record the outcome         *)
(* (application/app/notifications.rs, adapters/notification.rs,            *)
(* interfaces/server.rs, interfaces/tui.rs, core/state.rs).                *)
(*                                                                         *)
(* An event is its kind, a delivery its place in the order of queued_at.    *)
(* A tick is the time between two scans of a loop: its interval, or longer  *)
(* when a batch takes longer.  Attempts matter only up to the largest       *)
(* exponent of the back-off and times up to the longest delay, where both   *)
(* counters stop; neither is kept once the delivery is settled, when nothing *)
(* reads it.  Rendering and signing of the payload are left out.            *)
(***************************************************************************)
EXTENDS Naturals, Sequences, FiniteSets, SequencesExt

CONSTANTS
    Endpoints,      \* notification endpoints that may be registered
    Kinds,          \* event kinds
    Wants,          \* NotificationEndpoint.event_kinds
    Loops,          \* servers and TUIs, each with its dispatcher loop
    Hands,          \* callers that dispatch when told to
    Limit,          \* per sender: deliveries in one batch
    Delay,          \* back-off after 1, 2, ... attempts, in ticks
    MaxQueued,      \* bound: deliveries ever queued
    MaxByHand       \* bound: batches that people dispatch by hand

MostAttempts == Len(Delay)
LongestDelay == Delay[Len(Delay)]
Senders == Loops \cup Hands

ASSUME NotificationsAssumption ==
    /\ IsFiniteSet(Endpoints)
    /\ Wants \in [Endpoints -> SUBSET Kinds]
    /\ Loops \cap Hands = {}
    /\ Limit \in [Senders -> Nat \ {0}]
    /\ MaxQueued \in Nat /\ MaxByHand \in Nat
    /\ Delay \in Seq(Nat \ {0}) /\ Delay # <<>>
    /\ \A i, j \in 1 .. Len(Delay) : i <= j => Delay[i] <= Delay[j]

VARIABLES
    endpoint,       \* "none", "active" or "disabled"
    outbox,         \* notification_deliveries in the order of queued_at
    fresh,          \* loops, and hands with a batch, whose cached state is that
                    \* of the log
    batch,          \* per sender: deliveries of its batch not yet recorded
    answer,         \* per sender: outcome of the call for the first of them
    turn,           \* loops that have yet to scan in this interval
    byHand,         \* batches dispatched by hand so far
    received        \* external: deliveries their endpoint has received

outboxVars == <<endpoint, outbox, fresh, batch, answer, turn, byHand, received>>

Settled == {"Delivered", "Cancelled"}

Settle(d, status) == [d EXCEPT !.status = status, !.attempts = 0, !.idle = 0]

Queued(e) == [endpoint |-> e, attempts |-> 0, idle |-> 0, status |-> "Pending"]

OutboxInit ==
    /\ endpoint = [e \in Endpoints |-> "none"]
    /\ outbox = <<>>
    /\ fresh = Loops
    /\ batch = [s \in Senders |-> <<>>]
    /\ answer = [s \in Senders |-> "none"]
    /\ turn = Loops
    /\ byHand = 0
    /\ received = {}

-----------------------------------------------------------------------------
(* register_notification_endpoint, register_notification_connector           *)
Register(e) ==
    /\ endpoint[e] = "none"
    /\ endpoint' = [endpoint EXCEPT ![e] = "active"]
    /\ fresh' = {}
    /\ UNCHANGED <<outbox, batch, answer, turn, byHand, received>>

(* disable_notification_endpoint, with what its event does to the outbox.    *)
Disable(e) ==
    /\ endpoint[e] = "active"
    /\ endpoint' = [endpoint EXCEPT ![e] = "disabled"]
    /\ outbox' = [i \in DOMAIN outbox |->
           IF outbox[i].endpoint = e /\ outbox[i].status # "Delivered"
           THEN Settle(outbox[i], "Cancelled") ELSE outbox[i]]
    /\ fresh' = {}
    /\ UNCHANGED <<batch, answer, turn, byHand, received>>

(* queue_events, called by every commit.                                    *)
Occur(k) ==
    LET subscribed == {e \in Endpoints : endpoint[e] = "active" /\ k \in Wants[e]}
    IN  /\ subscribed # {}
        /\ Len(outbox) + Cardinality(subscribed) <= MaxQueued   \* bound
        /\ \E order \in SetToSeqs(subscribed) :
              outbox' = outbox \o [i \in DOMAIN order |-> Queued(order[i])]
        /\ fresh' = {}
        /\ UNCHANGED <<endpoint, batch, answer, turn, byHand, received>>

ByHand(s) ==
    /\ s \in Hands
    /\ batch[s] = <<>>
    /\ byHand < MaxByHand                                       \* bound
    /\ byHand' = byHand + 1

(* test_notification_endpoint: queues one delivery and attempts it itself.   *)
Test(s, e) ==
    /\ ByHand(s)
    /\ endpoint[e] = "active"
    /\ Len(outbox) < MaxQueued                                  \* bound
    /\ outbox' = Append(outbox, Queued(e))
    /\ fresh' = {s}
    /\ batch' = [batch EXCEPT ![s] = <<Len(outbox')>>]
    /\ UNCHANGED <<endpoint, answer, turn, received>>

-----------------------------------------------------------------------------
(* Mutant of BackOff: the delay does not grow.                               *)
BackOffConstant(attempts) == Delay[1]

(* 15 s shifted by min(attempts, 8) *)
BackOff(attempts) == IF attempts < MostAttempts THEN Delay[attempts] ELSE LongestDelay

(* notification_attempts.  (An endpoint is inactive only when none of its    *)
(* deliveries is open.)                                                     *)
Due(force) ==
    {i \in DOMAIN outbox :
        LET d == outbox[i]
        IN  \/ d.status = "Pending"
            \/ d.status = "Failed" /\ (force \/ BackOff(d.attempts) <= d.idle)}

FirstOf(s, ids) ==
    LET inOrder == SetToSortSeq(ids, LAMBDA i, j : i < j)
    IN  SubSeq(inOrder, 1, IF Len(inOrder) < Limit[s] THEN Len(inOrder) ELSE Limit[s])

(* One round of spawn_notification_dispatcher begins.  To a loop with an old *)
(* cache any delivery may look due.                                         *)
Scan(s) ==
    /\ s \in turn
    /\ batch[s] = <<>>
    /\ turn' = turn \ {s}
    /\ \E ids \in IF s \in fresh THEN {Due(FALSE)} ELSE SUBSET DOMAIN outbox :
          batch' = [batch EXCEPT ![s] = FirstOf(s, ids)]
    /\ UNCHANGED <<endpoint, outbox, fresh, answer, byHand, received>>

(* dispatch_notifications: the CLI, the HTTP route, the TUI's button.  A      *)
(* batch from an old cache is one that was taken earlier.                   *)
Dispatch(s, force) ==
    /\ ByHand(s)
    /\ Due(force) # {}
    /\ batch' = [batch EXCEPT ![s] = FirstOf(s, Due(force))]
    /\ fresh' = fresh \cup {s}
    /\ UNCHANGED <<endpoint, outbox, answer, turn, received>>

(* deliver: the call to the endpoint.  External: what the endpoint does.     *)
Calling(s) == batch[s] # <<>> /\ answer[s] = "none"

(* Mutant of CallOk: a response is taken for a delivery, whatever it says.   *)
AnyResponse(s) ==
    /\ Calling(s)
    /\ answer' = [answer EXCEPT ![s] = "ok"]
    /\ UNCHANGED <<endpoint, outbox, fresh, batch, turn, byHand, received>>

CallOk(s) ==
    /\ Calling(s)
    /\ received' = received \cup {Head(batch[s])}
    /\ answer' = [answer EXCEPT ![s] = "ok"]
    /\ UNCHANGED <<endpoint, outbox, fresh, batch, turn, byHand>>

(* Refused, unreachable, not configured, or received with the answer lost.   *)
CallFailed(s) ==
    /\ Calling(s)
    /\ received' \in {received, received \cup {Head(batch[s])}}
    /\ answer' = [answer EXCEPT ![s] = "failed"]
    /\ UNCHANGED <<endpoint, outbox, fresh, batch, turn, byHand>>

(* NotificationDelivered, NotificationFailed *)
Attempted(d, a) ==
    IF a = "ok" THEN Settle(d, "Delivered")
    ELSE [d EXCEPT !.status = "Failed", !.idle = 0,
                   !.attempts = IF @ < MostAttempts THEN @ + 1 ELSE @]

(* record_notification_attempt commits: the cache is up to date and the      *)
(* delivery is not settled.                                                 *)
Recordable(s) ==
    /\ answer[s] # "none"
    /\ s \in fresh
    /\ outbox[Head(batch[s])].status \notin Settled

Record(s) ==
    /\ Recordable(s)
    /\ outbox' = [outbox EXCEPT ![Head(batch[s])] = Attempted(@, answer[s])]
    /\ fresh' = {s}
    /\ batch' = [batch EXCEPT ![s] = Tail(@)]
    /\ answer' = [answer EXCEPT ![s] = "none"]
    /\ UNCHANGED <<endpoint, turn, byHand, received>>

(* The error of record_notification_attempt ends the batch.                  *)
Refused(s) ==
    /\ answer[s] # "none"
    /\ s \in fresh
    /\ outbox[Head(batch[s])].status \in Settled
    /\ batch' = [batch EXCEPT ![s] = <<>>]
    /\ answer' = [answer EXCEPT ![s] = "none"]
    /\ UNCHANGED <<endpoint, outbox, fresh, turn, byHand, received>>

(* The commit meets a newer head (if only of another flow) and reloads, or   *)
(* the process dies and is restarted: the rest of the batch is forgotten.    *)
(* (Dying before the call is a call that was not received, then this.)       *)
Abort(s) ==
    /\ answer[s] # "none"
    /\ batch' = [batch EXCEPT ![s] = <<>>]
    /\ answer' = [answer EXCEPT ![s] = "none"]
    /\ fresh' = fresh \cup {s}
    /\ UNCHANGED <<endpoint, outbox, turn, byHand, received>>

(* refresh_shared_state, and every commit of the process.                    *)
Refresh(s) ==
    /\ s \notin fresh /\ (s \in Loops \/ batch[s] # <<>>)
    /\ fresh' = fresh \cup {s}
    /\ UNCHANGED <<endpoint, outbox, batch, answer, turn, byHand, received>>

(* Every loop has finished a round.                                          *)
NextRound ==
    /\ turn = {}
    /\ \A s \in Loops : batch[s] = <<>>
    /\ turn' = Loops
    /\ outbox' = [i \in DOMAIN outbox |-> [outbox[i] EXCEPT !.idle =
           IF outbox[i].status = "Failed" /\ @ < LongestDelay THEN @ + 1 ELSE @]]
    /\ UNCHANGED <<endpoint, fresh, batch, answer, byHand, received>>

Attempt(s) ==
    CallOk(s) \/ CallFailed(s) \/ Record(s) \/ Refused(s) \/ Abort(s)

OutboxNext ==
    \/ \E e \in Endpoints : Register(e) \/ Disable(e)
    \/ \E k \in Kinds : Occur(k)
    \/ \E s \in Senders :
          \/ \E e \in Endpoints : Test(s, e)
          \/ Scan(s) \/ Attempt(s) \/ Refresh(s)
          \/ \E force \in BOOLEAN : Dispatch(s, force)
    \/ NextRound

OutboxSpec == OutboxInit /\ [][OutboxNext]_outboxVars

IsNext(s, i) == batch[s] # <<>> /\ Head(batch[s]) = i

(* Time passes, loops scan, calls end (10 s), caches are refreshed, and a    *)
(* delivery that is tried again and again is not stopped by a crash or a     *)
(* newer head every time.                                                   *)
OutboxFairness ==
    /\ WF_outboxVars(NextRound)
    /\ \A s \in Loops :
          /\ WF_outboxVars(Scan(s)) /\ WF_outboxVars(Attempt(s)) /\ WF_outboxVars(Refresh(s))
          /\ \A i \in 1 .. MaxQueued :
                SF_outboxVars(IsNext(s, i) /\ Record(s))

-----------------------------------------------------------------------------
(* What the outbox shows as delivered, the endpoint has received, whatever   *)
(* happened to the other attempts at it: deliver, validate_response,         *)
(* record_notification_attempt.                                             *)
DeliveredWasReceived ==
    \A i \in DOMAIN outbox : outbox[i].status = "Delivered" => i \in received

Unattempted(i) == i \in DOMAIN outbox /\ outbox[i].status = "Pending"

(* Every queued delivery is attempted (or cancelled) in the end, however      *)
(* often older ones of dead endpoints fail before it: the growing back-off   *)
(* makes room in the batches of notification_attempts.                       *)
EveryDeliveryIsAttempted ==
    \A i \in 1 .. MaxQueued :
        Unattempted(i) ~> ~ Unattempted(i)
=============================================================================
