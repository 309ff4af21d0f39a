----------------------------- MODULE MCFlights ------------------------------
(* Two people with one agent each and one workspace that flights claim      *)
(* exclusively, by default, or share.                                       *)
EXTENDS Flights, TLC

CONSTANTS alice, bob, ann, ben, t1

MCOwnerOf == (ann :> alice) @@ (ben :> bob)
MCTeamOf == [p \in {alice, bob, ann, ben} |-> "none"]
MCOneDependsOn == t1 :> {}
MCAlice == [owner |-> alice, copilots |-> {bob, ben}]
MCBob == [owner |-> bob, copilots |-> {}]
MCAssignments == {MCAlice, MCBob}
MCDefault == [claims |-> <<>>, duration |-> 0, maxAttempts |-> 2]
MCShared == [claims |-> t1 :> FALSE, duration |-> 1, maxAttempts |-> 1]
MCDrafts == {MCDefault, MCShared}
MCProofs == {Manual} \cup LeaseIds

(* To keep the instance small: the task is Alice's at first (Bob's by a       *)
(* reassignment), time starts with the first clearance, no evidence is        *)
(* attached by hand, which MCTasks does, and nothing more happens when no     *)
(* clearance is left to give and every flight is over.                      *)
Ended == \A l \in LeaseIds : Issued(l) /\ leases[l].status \in Terminal
TimePasses == Issued(1) /\ ~ Ended

MCInit == Init /\ assigned = [t \in TaskIds |-> MCAlice]
MCNext ==
    /\ ~ Ended
    /\ Next
    /\ now' # now => TimePasses
    /\ \A t \in TaskIds : Manual \notin evidence'[t]

(* Time passes, and the tower's reaper task keeps running (server.rs,        *)
(* spawn_tracker).  Nothing is assumed of humans or of workers.             *)
MCSpec == MCInit /\ [][MCNext]_vars /\ WF_vars(TimePasses /\ Tick) /\ WF_vars(Reap)
=============================================================================
