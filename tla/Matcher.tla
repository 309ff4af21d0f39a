------------------------------- MODULE Matcher ------------------------------
(***************************************************************************)
(* Who is proposed for a task (application/matcher.rs): among the active   *)
(* principals who have every capability the task asks for, the one with    *)
(* the best score of capacity, executor, present load and next available   *)
(* hour; a team only if there is no such principal.                        *)
(*                                                                         *)
(* Principals and teams are numbered in the order of their names, which    *)
(* breaks ties.  The code's score is a float; multiplied by                *)
(* 100 * DayLength it is the integer of Score.  Coverage is always 1 for a *)
(* candidate, because partial coverage is filtered out.                    *)
(***************************************************************************)
EXTENDS Calendar, Sequences, SequencesExt

CONSTANTS
    People,     \* principal -> [active, human, caps, capacity, executor, team, owner]
    Teams,      \* team -> [active, caps]
    Nobody      \* no principal, no team: NoEligibleAssignee

Principal == DOMAIN People

ASSUME PeopleAssumption ==
    /\ Principal \subseteq Nat /\ IsFiniteSet(Principal)
    /\ DOMAIN Teams \subseteq Nat
    /\ Principal \cap DOMAIN Teams = {} /\ Nobody \notin Principal \cup DOMAIN Teams
    /\ \A p \in Principal : People[p].capacity \in Nat

IsTeam(o) == o \in DOMAIN Teams

(* coverage(required, actual) >= 1.0, and capabilities_cover *)
Covers(caps, draft) == draft.caps \subseteq caps

Candidates(draft) ==
    {p \in Principal : /\ People[p].active
                       /\ draft.human => People[p].human
                       /\ Covers(People[p].caps, draft)
                       /\ People[p].capacity > 0}

(* Team::active, and a human member for a task that needs one. *)
CandidateTeams(draft) ==
    {t \in DOMAIN Teams :
        /\ Teams[t].active
        /\ Covers(Teams[t].caps, draft)
        /\ draft.human => \E p \in Principal : /\ People[p].active /\ People[p].human
                                               /\ People[p].team = t}

(* availability_delay_hours: 0 when the calendar offers nothing at all. *)
Delay(calendar, now) ==
    LET From(next) == IF next = Never THEN 0 ELSE next - now
    IN  From(NextAvailable(calendar, now))

(* score_principal *)
Score(p, load, calendar, now) ==
    DayLength * (7000 + 30 * People[p].capacity
                 + (IF People[p].executor THEN 300 ELSE 0)
                 - Min({750 * load, 3000}))
    - Min({500 * Delay(calendar, now), 2500 * DayLength})

(* copilots_for: the agents of a human owner that have some capability of  *)
(* the task, or the human an agent belongs to; the first two.              *)
Copilots(owner, draft) ==
    LET mine == {p \in Principal \ {owner} :
                    /\ People[p].active
                    /\ IF People[owner].human
                       THEN /\ ~ People[p].human /\ People[p].owner = owner
                            /\ draft.caps = {} \/ draft.caps \cap People[p].caps # {}
                       ELSE People[owner].owner = p}
    IN  {p \in mine : Cardinality({q \in mine : q < p}) < 2}

(* match_task *)
Match(draft, load, calendars, now) ==
    LET Best(score) ==
            CHOOSE p \in DOMAIN score : \A q \in DOMAIN score :
                score[p] > score[q] \/ (score[p] = score[q] /\ p <= q)
        Owned(p) == [owner |-> p, copilots |-> Copilots(p, draft)]
    IN  IF Candidates(draft) # {}
        THEN Owned(Best([p \in Candidates(draft) |->
                            Score(p, load[p], calendars[p], now)]))
        ELSE IF CandidateTeams(draft) # {}
        THEN [owner |-> Min(CandidateTeams(draft)), copilots |-> {}]
        ELSE [owner |-> Nobody, copilots |-> {}]

(* Mutant of MatchAll: every task is matched with the load of before.        *)
MatchAllAtOnce(drafts, load, calendars, now) ==
    [i \in 1 .. Len(drafts) |-> Match(drafts[i], load, calendars, now)]

(* The loop of land_plan and propose_flow_change: the tasks of a plan are  *)
(* matched in order, and an owner's load grows with each.                  *)
MatchAll(drafts, load, calendars, now) ==
    LET upTo[n \in 0 .. Len(drafts)] ==
            IF n = 0 THEN [load |-> load, chosen |-> <<>>]
            ELSE LET last == upTo[n - 1]
                     Take(m) ==
                        [load   |-> [p \in Principal |->
                                       last.load[p] + (IF p = m.owner THEN 1 ELSE 0)],
                         chosen |-> Append(last.chosen, m)]
                 IN  Take(Match(drafts[n], last.load, calendars, now))
    IN  upTo[Len(drafts)].chosen
=============================================================================
