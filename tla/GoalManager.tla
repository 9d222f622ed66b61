------------------------------ MODULE GoalManager ------------------------------
(***************************************************************************)
(* goal_manager_node.py: turns a goto_name request into a ComputeRoute, a  *)
(* NavigateToPose (to the anchor, if need be) and a FollowPath goal, one   *)
(* after the other, through callbacks on futures; a stop may come between  *)
(* any two of them.  The node is one thread, so a callback is one action.  *)
(***************************************************************************)
CONSTANTS
  Names,         \* what goto_name may ask for
  Places,        \* the nodes of the route graph that are destinations
  Anchors,       \* the nodes of the route graph that may be the nearest anchor
  Destinations,  \* destination_names: from the known names to Places
  UsePoseStart,  \* use_route_pose_start
  RequireReady,  \* require_nav_ready
  None

Servers == {"compute", "navigate", "follow"}
Path(a, d) == [anchor |-> a, dest |-> d]

ASSUME ManagerAssumption ==
  /\ DOMAIN Destinations \subseteq Names
  /\ \A n \in DOMAIN Destinations : Destinations[n] \in Places
  /\ UsePoseStart \in BOOLEAN /\ RequireReady \in BOOLEAN
  /\ None \notin Names /\ None \notin Anchors
  /\ \A a \in Anchors \union {None} : /\ None # [anchor |-> a]
                                      /\ \A d \in Places : None # Path(a, d)

VARIABLES
  nav_ready,          \* system_status = "NAV_READY"
  nearest_anchor_id,
  busy, cancel_requested, current_target_name, current_dest_id, current_anchor_id,
  pending_path,       \* None, or [anchor, dest]: where the path leads from and to
  handles,            \* the servers whose goal handle the manager holds
  response_of,        \* the server whose goal response a callback awaits, or "none"
  result_of,          \* the server whose result a callback awaits, or "none"
  server,             \* per server, what became of the goal it was sent last
  goal,               \* per server, that goal
  cancels,            \* the servers whose last goal a cancel request is on its way to
  stopped             \* history: the servers whose result was awaited when a stop came

request == <<busy, cancel_requested, current_target_name, current_dest_id,
             current_anchor_id, pending_path, handles, response_of, result_of, stopped>>
inputs  == <<nav_ready, nearest_anchor_id>>
nav2    == <<server, goal, cancels>>
vars == <<request, inputs, nav2>>

Init ==
  /\ nav_ready = FALSE /\ nearest_anchor_id = None
  /\ busy = FALSE /\ cancel_requested = FALSE
  /\ current_target_name = None /\ current_dest_id = None /\ current_anchor_id = None
  /\ pending_path = None /\ handles = {} /\ response_of = "none" /\ result_of = "none"
  /\ server = [s \in Servers |-> "idle"] /\ goal = [s \in Servers |-> None] /\ cancels = {}
  /\ stopped = {}

-----------------------------------------------------------------------------
(* Sending goals and ending requests. *)

(* send_goal_async and its callback.  A cancel still on its way is for an    *)
(* earlier goal, which has ended: it will not touch this one.                *)
Send(s, g) ==
  /\ server' = [server EXCEPT ![s] = "asked"]
  /\ goal' = [goal EXCEPT ![s] = g]
  /\ cancels' = cancels \ {s}
  /\ response_of' = s /\ result_of' = "none"

\* Mutants: the handles survive the request; a failed request stays busy.
ResetKeepsHandles ==
  /\ busy' = FALSE /\ cancel_requested' = FALSE
  /\ current_target_name' = None /\ current_dest_id' = None /\ current_anchor_id' = None
  /\ pending_path' = None /\ response_of' = "none" /\ result_of' = "none" /\ stopped' = {}
  /\ UNCHANGED handles
ResetKeepsBusy ==
  /\ cancel_requested' = FALSE
  /\ pending_path' = None /\ handles' = {} /\ response_of' = "none" /\ result_of' = "none"
  /\ stopped' = {}
  /\ UNCHANGED <<busy, current_target_name, current_dest_id, current_anchor_id>>

(* _reset_request, called by every _finish_*. *)
Reset ==
  /\ busy' = FALSE /\ cancel_requested' = FALSE
  /\ current_target_name' = None /\ current_dest_id' = None /\ current_anchor_id' = None
  /\ pending_path' = None /\ handles' = {} /\ response_of' = "none" /\ result_of' = "none"
  /\ stopped' = {}

-----------------------------------------------------------------------------
(* The callbacks of the topics. *)

SystemStatus ==
  /\ nav_ready' \in BOOLEAN
  /\ UNCHANGED <<nearest_anchor_id, request, nav2>>

NearestAnchor ==
  /\ nearest_anchor_id' \in Anchors \union {None}
  /\ UNCHANGED <<nav_ready, request, nav2>>

(* _goto_name_callback; a request it rejects changes nothing, nor does one   *)
(* that fails at once for a missing pose or missing servers.  pending_path   *)
(* is already None.                                                          *)
GotoName(n) ==
  /\ ~busy
  /\ RequireReady => nav_ready
  /\ ~UsePoseStart => nearest_anchor_id # None
  /\ n \in DOMAIN Destinations
  /\ busy' = TRUE /\ cancel_requested' = FALSE
  /\ current_target_name' = n /\ current_dest_id' = Destinations[n]
  /\ current_anchor_id' = nearest_anchor_id
  /\ Send("compute", Path(IF UsePoseStart THEN None ELSE nearest_anchor_id, Destinations[n]))
  /\ pending_path' = None
  /\ UNCHANGED <<handles, stopped, inputs>>

\* Mutant: the stop never reaches the FollowPath goal.
HandlesButFollow == handles \ {"follow"}

(* _stop_callback: a cancel request through every handle there is; one for a *)
(* goal that has ended has no effect.                                        *)
HandlesToCancel == handles

Stop ==
  /\ busy /\ cancel_requested' = TRUE
  /\ cancels' = cancels \union HandlesToCancel
  /\ stopped' = stopped \union {s \in Servers : result_of = s}
  /\ UNCHANGED <<busy, current_target_name, current_dest_id, current_anchor_id, pending_path,
                 handles, response_of, result_of, inputs, server, goal>>

-----------------------------------------------------------------------------
(* The callbacks of the futures. *)

(* _on_compute_route_goal_response, _on_navigate_goal_response,              *)
(* _on_follow_path_goal_response.                                            *)
GoalResponse(s) ==
  /\ response_of = s /\ server[s] # "asked"
  /\ IF server[s] = "rejected"
     THEN Reset
     ELSE /\ handles' = handles \union {s}
          /\ response_of' = "none" /\ result_of' = s
          /\ UNCHANGED <<busy, cancel_requested, current_target_name, current_dest_id,
                         current_anchor_id, pending_path, stopped>>
  /\ UNCHANGED <<inputs, nav2>>

(* A result that is not a success ends the request, whichever stage it is    *)
(* of: _finish_cancelled or _finish_failure.                                 *)
StageFails(s) ==
  /\ result_of = s /\ server[s] \in {"canceled", "aborted"}
  /\ Reset /\ UNCHANGED <<inputs, nav2>>

\* Mutant: stage A drives to the anchor that is nearest now.
AnchorNearestNow == nearest_anchor_id

StageAAnchor == current_anchor_id

(* _send_navigate_to_anchor and _send_follow_path. *)
KeepRequest == UNCHANGED <<busy, cancel_requested, current_target_name, current_dest_id,
                           current_anchor_id, handles, stopped, inputs>>

SendNavigateToAnchor ==
  Send("navigate", [anchor |-> StageAAnchor]) /\ KeepRequest

SendFollowPath(path) == Send("follow", path) /\ KeepRequest

(* _on_compute_route_result: an empty path fails; with a start pose, or near *)
(* enough to the anchor (or not: the pose decides), the path is followed.    *)
ComputeRouteResult ==
  /\ result_of = "compute" /\ server["compute"] = "succeeded"
  /\ \/ Reset /\ UNCHANGED <<inputs, nav2>>
     \/ pending_path' = goal["compute"] /\ SendFollowPath(goal["compute"])
     \/ ~UsePoseStart /\ pending_path' = goal["compute"] /\ SendNavigateToAnchor

(* _on_navigate_result, with the path the first stage left. *)
NavigateResult ==
  /\ result_of = "navigate" /\ server["navigate"] = "succeeded"
  /\ IF pending_path = None
     THEN Reset /\ UNCHANGED <<inputs, nav2>>
     ELSE UNCHANGED pending_path /\ SendFollowPath(pending_path)

(* _on_follow_path_result: _finish_success. *)
FollowPathResult ==
  /\ result_of = "follow" /\ server["follow"] = "succeeded"
  /\ Reset /\ UNCHANGED <<inputs, nav2>>

Delivery ==
  \/ \E s \in Servers : GoalResponse(s) \/ StageFails(s)
  \/ ComputeRouteResult \/ NavigateResult \/ FollowPathResult

-----------------------------------------------------------------------------
(* The three action servers of Nav2, as the manager uses them. *)

Becomes(s, states) ==
  /\ \E x \in states : server' = [server EXCEPT ![s] = x]
  /\ UNCHANGED <<goal, request, inputs>>

ServerAnswers(s)  == server[s] = "asked" /\ Becomes(s, {"running", "rejected"}) /\ UNCHANGED cancels
ServerFinishes(s) == server[s] = "running" /\ Becomes(s, {"succeeded", "aborted"}) /\ UNCHANGED cancels
ServerCancels(s)  ==
  /\ s \in cancels /\ cancels' = cancels \ {s}
  /\ Becomes(s, {IF server[s] = "running" THEN "canceled" ELSE server[s]})

Next ==
  \/ SystemStatus \/ NearestAnchor \/ Stop \/ Delivery
  \/ \E n \in Names : GotoName(n)
  \/ \E s \in Servers : ServerAnswers(s) \/ ServerFinishes(s) \/ ServerCancels(s)

\* The executor delivers what has arrived and a server answers every request;
\* but a goal may run for as long as it likes.
ServerFairness(s) == WF_vars(ServerAnswers(s)) /\ WF_vars(ServerCancels(s))
ServersFairness == \A s \in Servers : ServerFairness(s)

Fairness == WF_vars(Delivery) /\ ServersFairness

Spec == Init /\ [][Next]_vars /\ Fairness

-----------------------------------------------------------------------------
(* Properties. *)

ServerStates == {"idle", "asked", "running", "rejected", "succeeded", "canceled", "aborted"}

\* Every variable keeps its type; while it is busy, and only then, the manager
\* awaits exactly one callback, and it holds the handle of what it awaits.
TypeOK ==
  /\ nav_ready \in BOOLEAN /\ nearest_anchor_id \in Anchors \union {None}
  /\ busy \in BOOLEAN /\ cancel_requested \in BOOLEAN /\ (cancel_requested => busy)
  /\ current_target_name \in Names \union {None}
  /\ current_dest_id \in Places \union {None}
  /\ current_anchor_id \in Anchors \union {None}
  /\ response_of \in Servers \union {"none"} /\ result_of \in Servers \union {"none"}
  /\ busy <=> response_of # "none" \/ result_of # "none"
  /\ response_of = "none" \/ result_of = "none"
  /\ handles \subseteq Servers /\ (~busy => handles = {})
  /\ result_of # "none" => result_of \in handles
  /\ server \in [Servers -> ServerStates]
  /\ cancels \subseteq Servers /\ stopped \subseteq handles

TaskOf == IF busy THEN Path(IF UsePoseStart THEN None ELSE current_anchor_id, current_dest_id)
                  ELSE None
Running(s) == server[s] = "running"
DriveOf == IF Running("navigate") THEN goal["navigate"]
           ELSE IF Running("follow") THEN goal["follow"] ELSE None

Task == INSTANCE NavigationTask WITH
  Anchors <- Anchors \union {None}, NoTask <- None, Still <- None,
  task <- TaskOf, drive <- DriveOf

\* The manager keeps the promise: whatever changes between its callbacks, Nav2
\* drives the vehicle for one goal at a time, to the anchor the task began with
\* and along its route, and for no goal at all once the task is over.
ImplementsTask == Task!Spec

\* The manager is never stuck busy: again and again it is idle, or a goal runs.
NeverWedged == []<>(~busy \/ \E s \in Servers : Running(s))

\* A goal may run for ever, but not once a stop came while its handle was held:
\* with the path being followed, that ends the task.
StopEnds(s) == (s \in stopped /\ result_of = s) ~> (result_of # s)
StopEndsHeldGoal == \A s \in Servers : StopEnds(s)

\* commands.md: "Stop current task": after a stop the manager sends the vehicle
\* nowhere for that task.
StopStartsNothing ==
  [][cancel_requested => \A s \in {"navigate", "follow"} :
       server'[s] = "asked" => server[s] = "asked"]_vars
===============================================================================
