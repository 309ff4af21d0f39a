----------------------------- MODULE Directory ------------------------------
(***************************************************************************)
(* Who is who: the humans, the agents they own, the teams, and who may act *)
(* on a task (application/app/policy.rs).  The directory does not change    *)
(* during a behaviour.                                                     *)
(***************************************************************************)
CONSTANTS
    Humans, Agents, Teams,
    OwnerOf,        \* Principal.owner_id: the human an agent belongs to
    TeamOf,         \* Principal.team_id: a team, or any other value
    Requester       \* Demand.requester of the flow

Principals == Humans \cup Agents

ASSUME DirectoryAssumption ==
    /\ Humans \cap Agents = {}
    /\ Teams \cap Principals = {}
    /\ OwnerOf \in [Agents -> Humans]
    /\ DOMAIN TeamOf = Principals
    /\ Requester \in Humans

(* Assignment: an owner (a human, an agent or a team) and copilots.         *)
Assignment == [owner : Principals \cup Teams, copilots : SUBSET Principals]

(* principal_is_task_actor                                                  *)
IsActor(p, assignment) ==
    \/ p = assignment.owner
    \/ assignment.owner \in Teams /\ TeamOf[p] = assignment.owner
    \/ p \in assignment.copilots
    \/ p \in Agents /\ OwnerOf[p] = assignment.owner
    \/ assignment.owner \in Agents /\ OwnerOf[assignment.owner] = p
=============================================================================
