---------------------------- MODULE Conversation ----------------------------
(***************************************************************************)
(* What people say and click: the messages of a flow and their receipts     *)
(* (application/app/messages.rs, policy.rs), and the buttons pressed in a   *)
(* chat (application/app/interactions.rs, adapters/interaction.rs), which   *)
(* act on tasks, messages and escalations for the human bound to the chat   *)
(* user.  A click is delivered late, again, or never.                      *)
(***************************************************************************)
EXTENDS Tracking

CONSTANTS
    ChatUsers, Clicks,         \* the users of a chat; deliveries by their id
    BoundTo,                   \* the human each user is bound to at first
    Window,                    \* MAX_REQUEST_AGE_SECONDS, in hours
    MaxRecipients,             \* 32 in the code
    MaxMessages                \* bound

ASSUME ConversationAssumption ==
    BoundTo \in [ChatUsers -> Humans] /\ {Window, MaxRecipients, MaxMessages} \subseteq Nat

VARIABLES
    messages,     \* sequence of [sender, recipients, receipt, acks]
    bound,        \* external identities: chat user -> human
    clicks,       \* per delivery id: what was sent, and when
    receipts,     \* external_interactions: the deliveries processed
    effects       \* per delivery id: how often it had an effect

vars == <<trackVars, messages, bound, clicks, receipts, effects>>

-----------------------------------------------------------------------------
(* Who takes part in the flow (policy.rs).                                  *)

Actor(p, t) == IsActor(p, [owner |-> task[t].owner, copilots |-> {}])
Participant(p) == p = bearer \/ \E t \in Tasks : Actor(p, t)

(* message_recipient_ids: the recipients a principal stands for.            *)
Represents(p, m) ==
    {r \in m.recipients : \/ r = p
                          \/ r \in Agents /\ p \in Humans /\ OwnerOf[r] = p
                          \/ r \in Teams /\ TeamOf[p] = r}

(* message_target_is_flow_participant                                       *)
TargetTakesPart(r) ==
    IF r \in Teams
    THEN \/ \E t \in Tasks : task[t].owner = r
         \/ bearer # NoOne /\ TeamOf[bearer] = r
    ELSE Participant(r)

(* principal_has_flow_access                                                *)
Access(p) ==
    \/ Participant(p)
    \/ \E i \in DOMAIN messages : messages[i].sender = p \/ Represents(p, messages[i]) # {}

-----------------------------------------------------------------------------
(* FlowMessagePosted, FlowMessageAcknowledged                               *)
Posted(sender, recipients, receipt) ==
    messages' = Append(messages, [sender |-> sender, recipients |-> recipients,
                                  receipt |-> receipt, acks |-> {}])
Acknowledged(i, recipients) ==
    messages' = [messages EXCEPT ![i].acks = @ \cup recipients]

(* post_flow_message: only the requester brings others into the flow; an error *)
(* when nobody has the requester's name.                                    *)
PostMessage(sender, recipients, receipt) ==
    /\ Len(messages) < MaxMessages
    /\ sender \notin Suspended
    /\ Access(sender)
    /\ Cardinality(recipients) \in 1..MaxRecipients /\ recipients \cap Suspended = {}
    /\ bearer # NoOne
    /\ sender = bearer \/ \A r \in recipients : TargetTakesPart(r)
    /\ Posted(sender, recipients, receipt)
    /\ UNCHANGED <<trackVars, bound, clicks, receipts, effects>>

(* prepare_message_ack: for every recipient one stands for; an error when   *)
(* one stands for none, nothing to record when all are acknowledged.        *)
Pending(p, i) == Represents(p, messages[i]) \ messages[i].acks
MayAck(p, i) == i \in DOMAIN messages /\ messages[i].receipt /\ Represents(p, messages[i]) # {}

AckMessage(p, i) ==
    /\ MayAck(p, i)
    /\ Pending(p, i) # {}
    /\ Acknowledged(i, Pending(p, i))
    /\ UNCHANGED <<trackVars, bound, clicks, receipts, effects>>

-----------------------------------------------------------------------------
(* accept_task, reject_task and acknowledge_escalation from the console.    *)
ByHand ==
    /\ \/ \E p \in Humans \cup Agents, t \in Tasks :
             /\ Moves
             /\ Actor(p, t)
             /\ AcceptTask(t) \/ RejectTask(t)
             /\ UNCHANGED <<now, naming, attentions, escalations>>
       \/ \E p \in Humans, e \in DOMAIN escalations :
             /\ AckEscalation(p, e)
             /\ UNCHANGED <<now, moves, naming, flow, task, attentions>>
    /\ UNCHANGED <<messages, bound, clicks, receipts, effects>>

-----------------------------------------------------------------------------
(* A human presses a button: the chat signs the request and sends it.       *)
Targets == [action : {"task.accept", "task.reject"}, task : Tasks]
           \cup [action : {"message.ack"}, message : DOMAIN messages]
           \cup [action : {"escalation.ack"}, escalation : DOMAIN escalations]

Click(d, u, target) ==
    /\ clicks[d] = NoOne
    /\ clicks' = [clicks EXCEPT ![d] = [user |-> u, target |-> target, at |-> now]]
    /\ UNCHANGED <<trackVars, messages, bound, receipts, effects>>

(* verify_fresh_timestamp                                                   *)
FreshClick(d) == clicks[d] # NoOne /\ now - clicks[d].at <= Window

(* The human a chat user is bound to, if any, and active.                   *)
ActsFor(u) == IF bound[u] = NoOne \/ bound[u] \in Suspended THEN {} ELSE {bound[u]}

(* The events of the button, for principal p.                               *)
TaskAcceptClick(p, t) == Moves /\ Actor(p, t) /\ AcceptTask(t)
                         /\ UNCHANGED <<now, naming, attentions, escalations, messages>>
TaskRejectClick(p, t) == Moves /\ Actor(p, t) /\ RejectTask(t)
                         /\ UNCHANGED <<now, naming, attentions, escalations, messages>>
MessageAckClick(p, i) == MayAck(p, i) /\ Acknowledged(i, Pending(p, i))
                         /\ UNCHANGED trackVars
EscalationAckClick(p, e) == AckEscalation(p, e)
                            /\ UNCHANGED <<now, moves, naming, flow, task, attentions, messages>>

Effect(p, target) ==
    \/ target.action = "task.accept" /\ TaskAcceptClick(p, target.task)
    \/ target.action = "task.reject" /\ TaskRejectClick(p, target.task)
    \/ target.action = "message.ack" /\ MessageAckClick(p, target.message)
    \/ target.action = "escalation.ack" /\ EscalationAckClick(p, target.escalation)

(* Mutant of Receipt: the receipt is left to a commit of its own, and lost. *)
ReceiptLost(d) == UNCHANGED receipts

(* ExternalInteractionProcessed, in the commit of the effect.               *)
Receipt(d) == d \notin receipts /\ receipts' = receipts \cup {d}

(* process_external_interaction: a delivery that has its receipt is only    *)
(* answered, as a duplicate.                                                *)
Interact(d) ==
    /\ FreshClick(d)
    /\ d \notin receipts
    /\ \E p \in ActsFor(clicks[d].user) : Effect(p, clicks[d].target)
    /\ Receipt(d)
    /\ effects' = [effects EXCEPT ![d] = @ + 1]
    /\ UNCHANGED <<bound, clicks>>

(* The directory changes under the clicks: bind_external_identity,          *)
(* unbind_external_identity.                                               *)
Rebind(u, h) ==
    /\ Moves
    /\ bound[u] # h /\ (h = NoOne \/ bound[u] = NoOne) /\ h \notin Suspended
    /\ bound' = [bound EXCEPT ![u] = h]
    /\ UNCHANGED <<now, naming, flow, task, attentions, escalations>>
    /\ UNCHANGED <<messages, clicks, receipts, effects>>
-----------------------------------------------------------------------------
others == <<messages, bound, clicks, receipts, effects>>

Init ==
    /\ TrackInit
    /\ messages = <<>>
    /\ bound = BoundTo
    /\ clicks = [d \in Clicks |-> NoOne]
    /\ receipts = {}
    /\ effects = [d \in Clicks |-> 0]

TrackerScan == Scan /\ UNCHANGED others

Next ==
    \/ ApproveFlow /\ UNCHANGED others
    \/ \E t \in Tasks : TaskStep(t) /\ UNCHANGED others
    \/ Tick /\ UNCHANGED others
    \/ \E p \in Humans : Rename(p) /\ UNCHANGED others
    \/ TrackerScan
    \/ ByHand
    \/ \E p \in Humans \cup Agents, R \in SUBSET (Humans \cup Agents \cup Teams), a \in BOOLEAN :
          PostMessage(p, R, a)
    \/ \E p \in Humans \cup Agents, i \in DOMAIN messages : AckMessage(p, i)
    \/ \E d \in Clicks, u \in ChatUsers : \E x \in Targets : Click(d, u, x)
    \/ \E d \in Clicks : Interact(d)
    \/ \E u \in ChatUsers, h \in Humans \cup {NoOne} : Rebind(u, h)

(* The server's tracker scans on a timer.                                   *)
Spec == Init /\ [][Next]_vars /\ WF_vars(TrackerScan)

-----------------------------------------------------------------------------
(* However often a click is delivered, and however the task, the binding    *)
(* and the holder change in between, it acts at most once: a task that was  *)
(* reassigned is not accepted again by an old button.                       *)
EachClickActsOnce == \A d \in Clicks : effects[d] <= 1
=============================================================================
