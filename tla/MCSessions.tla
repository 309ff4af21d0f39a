----------------------------- MODULE MCSessions -----------------------------
(* Who is let in: the tokens and sessions of one tenant over its replicas,    *)
(* or the tenants of a fleet and their migration to PostgreSQL.               *)
EXTENDS Sessions, Fleet, TLC

VARIABLE subject

mcVars == <<subject, vars, fleetVars>>

Symmetry == Permutations(Replicas) \cup Permutations(Tokens)

\* The default tenant, the one that `relay org init` makes on PostgreSQL, and
\* another one.
MCListing == <<"t0", "p0", "t1">>
MCSlugOf == [t \in {"t0", "p0", "t1"} |-> IF t = "t1" THEN "apac" ELSE "default"]

MCInit ==
    /\ subject \in {"sessions", "fleet"}
    /\ Init /\ FleetInit
    /\ subject = "sessions" => at["sqlite"].catalog = {Root}

MCNext ==
    /\ \/ subject = "sessions" /\ Next /\ UNCHANGED fleetVars
       \/ subject = "fleet" /\ FleetNext /\ UNCHANGED vars
    /\ UNCHANGED subject

MCSpec == MCInit /\ [][MCNext]_mcVars
=============================================================================
