----------------------------- MODULE NavigationTask -----------------------------
(***************************************************************************)
(* What goal_manager_node.py promises: one task at a time, which sends the *)
(* vehicle to the anchor the task began with (if it is not there yet) and  *)
(* then along the route from that anchor to the destination of the task;   *)
(* nothing drives the vehicle between tasks.                               *)
(***************************************************************************)
CONSTANTS
  Anchors,    \* the anchors a route may start at; one of them may be the pose
  Places,     \* the nodes of the route graph
  NoTask, Still

VARIABLES
  task,       \* NoTask, or [anchor, dest] of the task
  drive       \* Still, or what the vehicle is driven to: [anchor], or [anchor, dest]

taskVars == <<task, drive>>

ToAnchor(t) == [anchor |-> t.anchor]

Init == task = NoTask /\ drive = Still

Begin ==
  /\ task = NoTask
  /\ \E a \in Anchors, d \in Places : task' = [anchor |-> a, dest |-> d]
  /\ UNCHANGED drive

DriveToAnchor == task # NoTask /\ drive = Still /\ drive' = ToAnchor(task) /\ UNCHANGED task
FollowRoute   == task # NoTask /\ drive = Still /\ drive' = task /\ UNCHANGED task
Halt          == drive # Still /\ drive' = Still /\ UNCHANGED task
End           == task # NoTask /\ drive = Still /\ task' = NoTask /\ UNCHANGED drive

Next == Begin \/ DriveToAnchor \/ FollowRoute \/ Halt \/ End

Spec == Init /\ [][Next]_taskVars
===============================================================================
