--------------------------- MODULE MCConversation ---------------------------
(* A requester and the owner of a task, whose due date comes and whose state *)
(* changes between scans; one chat user bound to the owner, one click on a    *)
(* card, and a team that is suspended.  Either cards are clicked and messages  *)
(* posted, or people are renamed: a click is by a person, whatever they are    *)
(* called, and nothing that the run checks is about messages.                *)
EXTENDS Conversation, TLC

CONSTANTS h1, h2, g1, g2, t1

OwnerOfDef == [a \in Agents |-> h2]
TeamOfDef == [p \in Principals |-> IF p = h2 THEN g1 ELSE NoOne]
DependsOnDef == [t \in Tasks |-> {}]
BoundToDef == [u \in ChatUsers |-> h2]
DueDef == [t \in Tasks |-> 1]

VARIABLE mode

MCInit == Init /\ mode \in {"clicks", "renamings"}

MCNext ==
    /\ Next
    /\ IF mode = "clicks" THEN UNCHANGED naming ELSE UNCHANGED <<bound, clicks, messages>>
    /\ UNCHANGED mode

MCSpec == MCInit /\ [][MCNext]_<<mode, vars>> /\ WF_vars(TrackerScan)
=============================================================================
