--------------------------- MODULE MCIntegrations ---------------------------
(* The two sides on which other systems meet the ledger, each by itself:     *)
(* "outbox", the notifications that leave, and "gitlab", the webhooks and     *)
(* snapshots that arrive.                                                   *)
EXTENDS Notifications, Sync, TLC

CONSTANTS e1, e2, k1, tui, cli

VARIABLE subject

mcVars == <<subject, outboxVars, syncVars>>

(* An endpoint that hears of events and one that is only tested; a loop      *)
(* whose batches hold one delivery (the TUI's do) and a CLI process whose    *)
(* batches hold two.  The back-off grows from one scan to two.               *)
MCWants == (e1 :> {k1}) @@ (e2 :> {})
MCLimit == (tui :> 1) @@ (cli :> 2)
MCDelay == <<1, 2>>

(* Both pipelines run for the one merge request.                             *)
MCParentOf == [p \in Pipelines |-> 1]

MCInit == subject \in {"outbox", "gitlab"} /\ OutboxInit /\ SyncInit

MCNext ==
    /\ \/ subject = "outbox" /\ OutboxNext /\ UNCHANGED syncVars
       \/ subject = "gitlab" /\ SyncNext /\ UNCHANGED outboxVars
    /\ UNCHANGED subject

MCSpec ==
    /\ MCInit /\ [][MCNext]_mcVars
    /\ subject = "outbox" => OutboxFairness
=============================================================================
