----------------------------- MODULE MCGoalManager -----------------------------
(* GoalManager for TLC. *)
EXTENDS GoalManager, TLC

CONSTANTS gate, nowhere, a1, a2, p1

\* A destination, a name the scene does not have, and two anchors.
MCNames == {gate, nowhere}
MCDestinations == gate :> p1
MCPlaces == {p1}
MCAnchors == {a1, a2}
===============================================================================
