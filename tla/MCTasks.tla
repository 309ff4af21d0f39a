------------------------------- MODULE MCTasks ------------------------------
(* A flow of two dependent tasks and a third that a change request may add; *)
(* alice has a terminal, an agent of hers that a CLI process may start.       *)
EXTENDS LocalRun, TLC

CONSTANTS alice, bob, ann, t1, t2, t3

MCOwnerOf == [a \in {ann} |-> alice]
MCTeamOf == [p \in {alice, bob, ann} |-> "none"]
MCDependsOn == (t1 :> {}) @@ (t2 :> {t1}) @@ (t3 :> {t1})
MCAssignments == {[owner |-> p, copilots |-> {}] : p \in {alice, bob}}
=============================================================================
