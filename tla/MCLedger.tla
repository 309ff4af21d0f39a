------------------------------ MODULE MCLedger ------------------------------
(* Instances of Ledger for TLC.  Two instances over one log, the keys of the *)
(* organization and the tenant, which a projection accepts only once, and    *)
(* one that may repeat (a heartbeat, an evidence).                          *)
EXTENDS Ledger, TLC

CONSTANTS r1, r2, org, tenant, beat

MCReplicas == {r1, r2}
MCKeys == {org, tenant, beat}
MCUnique == {org, tenant}
=============================================================================
