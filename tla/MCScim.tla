------------------------------- MODULE MCScim -------------------------------
(* Two people besides an agent, and as many requests, whoever makes them, as  *)
(* a story of deletion, repetition and administration by hand needs.        *)
EXTENDS Scim

CONSTANTS MaxRequests       \* bound: requests in a behaviour
VARIABLES requests

MCNames == {<<"admin">>, <<"amy">>}

MCInit == Init /\ requests = 0
MCNext == /\ Next
          /\ Idle => requests < MaxRequests
          /\ requests' = IF Idle THEN requests + 1 ELSE requests
MCSpec == MCInit /\ [][MCNext]_<<vars, requests>>
=============================================================================
