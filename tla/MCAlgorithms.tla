---------------------------- MODULE MCAlgorithms ----------------------------
(* The deterministic parts of the core on inputs that small machines make.   *)
(* "log": replay against its closed form, over every sequence of at most     *)
(* MaxLen envelopes whose sequence numbers may be right, repeated or skipped. *)
(* "plan": calendars, matcher and scheduler in the machine of Scheduling.    *)
EXTENDS Scheduling, EventStream

VARIABLE subject

MCPeople ==
    (1 :> [active |-> TRUE, human |-> TRUE, caps |-> {"product"}, capacity |-> 50,
           executor |-> FALSE, team |-> 9, owner |-> 0])
    @@ [p \in {2, 3} |->
          [active |-> TRUE, human |-> FALSE, caps |-> {"code"}, capacity |-> 100,
           executor |-> TRUE, team |-> 9, owner |-> 1]]

MCTeams == 9 :> [active |-> TRUE, caps |-> {"security"}]

MCShape(offset, days, from, to) ==
    [offset |-> offset, days |-> days, from |-> from, to |-> to, off |-> {}]

(* A day has 6 hours and a week 3 days.  Office hours in a zone to the east, *)
(* and a night shift that ends at midnight, on one day in three.             *)
MCShapes == {MCShape(2, {0, 1}, 1, 4), MCShape(-1, {0}, 3, 6)}

(* Two blocks that overlap. *)
MCSpans == {[starts |-> 1, ends |-> 7], [starts |-> 6, ends |-> 20]}

(* A plan whose last task waits for two, and one with a cycle. *)
MCPlans ==
    {<<[deps |-> {}, effort |-> 2, human |-> FALSE, caps |-> {"code"}],
       [deps |-> {}, effort |-> 3, human |-> FALSE, caps |-> {"code"}],
       [deps |-> {1, 2}, effort |-> 1, human |-> TRUE, caps |-> {"product"}]>>,
     <<[deps |-> {2}, effort |-> 1, human |-> FALSE, caps |-> {"code"}],
       [deps |-> {1}, effort |-> 1, human |-> FALSE, caps |-> {"code"}]>>}

MCInit == SchedulingInit /\ StreamInit /\ subject \in {"log", "plan"}

MCNext == /\ UNCHANGED subject
          /\ \/ /\ subject = "plan"
                /\ SchedulingNext
                /\ UNCHANGED stream
             \/ /\ subject = "log"
                /\ StreamNext
                /\ UNCHANGED vars

MCSpec == MCInit /\ [][MCNext]_<<vars, subject, stream>>
=============================================================================
