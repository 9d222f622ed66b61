---------------------------- MODULE GpsRouteRunner ----------------------------
(***************************************************************************)
(* gps_route_runner_node.py: drives a recorded route of waypoints by       *)
(* sending Nav2 one NavigateToPose subgoal after the other, while the      *)
(* alignment of GPS and map may shift, the pose may jump or go missing and *)
(* Nav2 may refuse, abort or claim success too early.                      *)
(*                                                                         *)
(* The route is a line: waypoint i is the point i * L of it, and a         *)
(* position is an integer along it.  east is where the vehicle is, m the   *)
(* position of its TF pose in the map, alignment the offset that takes a   *)
(* route position to a map position.  The node is one thread; its          *)
(* callbacks run in its spins, that is between the actions below.          *)
(***************************************************************************)
EXTENDS Integers

CONSTANTS
  N,             \* number of waypoints
  L,             \* total_length_m of every segment
  SEG,           \* segment_length_m
  WTOL,          \* waypoint_xy_tolerance_m
  STOL,          \* nav2_success_shortfall_tolerance_m
  DIV,           \* map_gps_divergence_abort_m
  SHIFT,         \* alignment_shift_cancel_threshold_m
  STEP_WARN,     \* odom_watchdog_step_warn_m
  STEP_ABORT,    \* odom_watchdog_step_abort_m
  WARN_COUNT,    \* odom_watchdog_warn_count_abort
  STALE_COUNT,   \* odom_watchdog_tf_stale_abort_count
  Offsets,       \* the alignments the aligner may publish
  Jumps,         \* by how much the TF pose may jump
  MaxRevision,   \* bound on the alignments published
  MaxJumps,      \* bound on the jumps of the pose
  NoFix, NoGoal, NoPose    \* no valid fix; Nav2 is idle; no pose to compare with

ASSUME RouteAssumption ==
  /\ N \in Nat \ {0} /\ L \in Nat \ {0} /\ SEG \in Nat \ {0}
  /\ WTOL \in Nat /\ STOL \in Nat /\ DIV \in Nat /\ SHIFT \in Nat
  /\ STEP_WARN \in Nat /\ STEP_ABORT \in Nat
  /\ WARN_COUNT \in Nat \ {0} /\ STALE_COUNT \in Nat \ {0}
  /\ Offsets \subseteq Int /\ Jumps \subseteq Int
  /\ MaxRevision \in Nat /\ MaxJumps \in Nat
  /\ NoFix \notin Int /\ NoGoal \notin Int /\ NoPose \notin Int

VARIABLES
  pc,             \* where run() is
  wp,             \* index of the waypoint being driven to, 0 .. N - 1
  progress,       \* current_progress_m
  sent,           \* the subgoal sent last, from and to in metres of progress; its
                  \* align is the alignment it, or the start of the route, took
  status,         \* the terminal status published last
  alignment,      \* _latest_alignment, its offset
  revision,       \* how many alignments arrived
  fix,            \* _latest_fix: a position on the route, or NoFix
  unchecked,      \* TRUE once a consistency check was skipped for want of a fix
  last_pose, warning_count, tf_stale_count,    \* the odometry watchdog
  preempted,      \* history: the runner dropped the handle of the goal Nav2 runs
  m, east, jumps, \* the vehicle: its pose, where it is, how often the pose jumped
  nav_goal,       \* Nav2: the map position it drives to, or NoGoal
  result,         \* the result future of the goal sent last
  cancel_pending  \* a cancel request Nav2 has not processed

runner == <<pc, wp, progress, sent, status, unchecked, last_pose, warning_count,
            tf_stale_count, preempted>>
world  == <<alignment, revision, fix, m, east, jumps>>
nav2   == <<nav_goal, result, cancel_pending>>
vars == <<runner, world, nav2>>

NoSent == [from |-> -1, to |-> -1, pose |-> 0, align |-> 0]

Least(a, b) == IF a <= b THEN a ELSE b
Most(a, b)  == IF a >= b THEN a ELSE b
Dist(a, b)  == IF a >= b THEN a - b ELSE b - a

\* Mutant: the projection forgets where the segment starts.
ProjectedFromRouteStart(i) == Most(0, Least(L, m - alignment))

(* _map_to_enu, then _progress_on_segment: the position on segment i. *)
Projected(i) == Most(0, Least(L, m - alignment - i * L))

Init ==
  /\ pc = "waiting" /\ wp = 0 /\ progress = 0 /\ sent = NoSent /\ status = "RUNNING"
  /\ unchecked = FALSE /\ preempted = FALSE
  /\ last_pose = NoPose /\ warning_count = 0 /\ tf_stale_count = 0
  /\ alignment \in Offsets /\ revision = 1
  /\ east = 0 /\ m = alignment /\ fix = 0 /\ jumps = 0
  /\ nav_goal = NoGoal /\ result = "none" /\ cancel_pending = FALSE

-----------------------------------------------------------------------------
(* The runner. *)

End(s) == pc' = "done" /\ status' = s

(* Waiting for a fix, for Nav2, for an alignment or for a pose times out and *)
(* raises; main() reports and exits.  So it does when it is interrupted.     *)
Gone(s) ==
  /\ End(s)
  /\ UNCHANGED <<wp, progress, sent, unchecked, last_pose, warning_count,
                 tf_stale_count, preempted, world, nav2>>

WaitTimesOut == pc \in {"waiting", "startup", "waypoint", "loop", "verify"} /\ Gone("ABORTED")
Interrupt    == pc # "done" /\ Gone("INTERRUPTED")

\* Mutant: the fix is placed with the alignment of the last subgoal.
ConsistentAtSend(align) == fix # NoFix => Dist(m, fix + sent.align) <= DIV

(* _map_gps_consistent: without a valid fix there is nothing to compare.    *)
(* The pose and the fix are compared in the map of the alignment given.     *)
Consistent(align) == fix # NoFix => Dist(m, fix + align) <= DIV
NoteUnchecked == unchecked' = (unchecked \/ fix = NoFix)

Diverged(align) ==
  /\ ~Consistent(align)
  /\ End("MAP_GPS_DIVERGENCE")
  /\ NoteUnchecked
  /\ UNCHANGED <<wp, progress, sent, last_pose, warning_count, tf_stale_count,
                 preempted, world, nav2>>

(* run(): the waits end with an alignment, which the check of the start uses *)
(* even if another one arrives while it waits for the pose.                  *)
AlignmentReady ==
  /\ pc = "waiting" /\ pc' = "startup"
  /\ sent' = [NoSent EXCEPT !.align = alignment]
  /\ UNCHANGED <<wp, progress, status, unchecked, last_pose, warning_count,
                 tf_stale_count, preempted, world, nav2>>

Startup ==
  /\ pc = "startup"
  /\ \/ Diverged(sent.align)
     \/ /\ Consistent(sent.align) /\ NoteUnchecked
        /\ pc' = "waypoint"
        /\ UNCHANGED <<wp, progress, sent, status, last_pose, warning_count,
                       tf_stale_count, preempted, world, nav2>>

\* Mutants: the subgoal may lie beyond the waypoint; the subgoal is the one of
\* the fixed grid that was reached, not the next one.
SubgoalBeyond(here) == here + SEG
SubgoalBehind(here) == Least(L, (here \div SEG) * SEG)

(* One turn of _run_waypoint's loop.  Before the first one it takes the      *)
(* progress _choose_waypoint_alignment measures; a lookup spins only while   *)
(* there is no fresh pose, so both read the same pose and alignment.  With   *)
(* the waypoint, the progress on its segment is gone.                        *)
Subgoal(here) == Least(L, here + SEG)

WaypointReached ==
  /\ progress' = 0 /\ UNCHANGED sent
  /\ IF wp < N - 1 THEN wp' = wp + 1 /\ pc' = "waypoint" /\ UNCHANGED status
                    ELSE UNCHANGED wp /\ End("SUCCEEDED")

SendSubgoal(here) ==
  /\ progress' = here
  /\ sent' = [from |-> here, to |-> Subgoal(here),
              pose |-> wp * L + Subgoal(here) + alignment, align |-> alignment]
  /\ pc' = "sending" /\ UNCHANGED <<wp, status>>

LoopTurn ==
  /\ pc \in {"waypoint", "loop"}
  /\ \/ Diverged(alignment)
     \/ LET here == Most(progress, Projected(wp))
        IN  /\ Consistent(alignment) /\ NoteUnchecked
            /\ IF L - here <= WTOL THEN WaypointReached ELSE SendSubgoal(here)
            /\ UNCHANGED <<last_pose, warning_count, tf_stale_count, preempted, world, nav2>>

(* The body of _send_goal's loop, once per monitor period. *)
Return(where) ==
  /\ pc' = where
  /\ UNCHANGED <<wp, progress, sent, status, unchecked, last_pose, warning_count, tf_stale_count>>

ResultArrived ==
  /\ pc = "monitor" /\ result # "none"
  /\ IF result = "succeeded"
     THEN Return("verify") /\ UNCHANGED preempted
     ELSE /\ End("FAILED_WAYPOINT")
          /\ UNCHANGED <<wp, progress, sent, unchecked, last_pose, warning_count,
                         tf_stale_count, preempted>>
  /\ UNCHANGED <<world, nav2>>

(* The new position of the subgoal is off by more than the threshold, and    *)
(* the cooldown is over (which time decides): the goal is left to Nav2 and   *)
(* the loop computes a new one.                                              *)
AlignmentShift ==
  /\ pc = "monitor" /\ result = "none"
  /\ Dist(sent.align, alignment) > SHIFT
  /\ Return("loop")
  /\ preempted' = TRUE
  /\ UNCHANGED <<world, nav2>>

\* Mutant: the watchdog reports and stops the base, but cancels nothing.
WatchdogOnlyReports == pc' = "cancelling" /\ UNCHANGED nav2

(* _abort_goal_with_watchdog: a cancel request, for which it waits 2 s. *)
WatchdogAborts ==
  /\ pc' = "cancelling" /\ cancel_pending' = TRUE
  /\ UNCHANGED <<nav_goal, result>>

PollWithoutPose ==
  /\ pc = "monitor" /\ result = "none"
  /\ tf_stale_count' = Least(STALE_COUNT, tf_stale_count + 1)   \* capped
  /\ \/ tf_stale_count' >= STALE_COUNT /\ WatchdogAborts   \* and stale long enough
     \/ UNCHANGED <<pc, nav2>>
  /\ UNCHANGED <<wp, progress, sent, status, unchecked, last_pose, warning_count,
                 preempted, world>>

PollWithPose ==
  /\ pc = "monitor" /\ result = "none"
  /\ tf_stale_count' = 0 /\ last_pose' = m
  /\ LET step == IF last_pose = NoPose THEN 0 ELSE Dist(m, last_pose)
     IN  /\ warning_count' = IF last_pose = NoPose \/ step > STEP_ABORT THEN warning_count
                             ELSE IF step > STEP_WARN THEN warning_count + 1 ELSE 0
         /\ IF step > STEP_ABORT \/ (step > STEP_WARN /\ warning_count' >= WARN_COUNT)
            THEN WatchdogAborts
            ELSE UNCHANGED <<pc, nav2>>
  /\ UNCHANGED <<wp, progress, sent, status, unchecked, preempted, world>>

CancelWaitEnds ==
  /\ pc = "cancelling"
  /\ End("FAILED_WAYPOINT")
  /\ UNCHANGED <<wp, progress, sent, unchecked, last_pose, warning_count, tf_stale_count,
                 preempted, world, nav2>>

(* _verify_nav2_success_progress. *)
Verify ==
  /\ pc = "verify"
  /\ \/ Diverged(alignment)
     \/ LET seen == Most(progress, Projected(wp))
        IN  /\ Consistent(alignment) /\ NoteUnchecked
            /\ IF sent.to - seen <= Most(WTOL, STOL)
               THEN progress' = seen /\ pc' = "loop" /\ UNCHANGED status
               ELSE End("NAV2_FALSE_SUCCESS") /\ UNCHANGED progress
            /\ UNCHANGED <<wp, sent, last_pose, warning_count, tf_stale_count,
                           preempted, world, nav2>>

Runner ==
  \/ AlignmentReady \/ WaitTimesOut \/ Startup \/ LoopTurn \/ ResultArrived \/ AlignmentShift
  \/ PollWithoutPose \/ PollWithPose \/ CancelWaitEnds \/ Verify

-----------------------------------------------------------------------------
(* Nav2's NavigateToPose server, as the runner uses it: an accepted goal     *)
(* replaces the one that runs; only an inactive server, which has ended its  *)
(* goal, refuses one.                                                        *)

NavAccepts ==
  /\ pc = "sending" /\ pc' = "monitor"
  /\ nav_goal' = sent.pose /\ result' = "none" /\ preempted' = FALSE
  /\ last_pose' \in {NoPose, m} /\ warning_count' = 0 /\ tf_stale_count' = 0
  /\ UNCHANGED <<wp, progress, sent, status, unchecked, world, cancel_pending>>

NavRejects ==
  /\ pc = "sending" /\ nav_goal = NoGoal /\ End("FAILED_WAYPOINT")
  /\ UNCHANGED <<wp, progress, sent, unchecked, last_pose, warning_count, tf_stale_count,
                 preempted, world, nav2>>

NavDrives ==
  /\ nav_goal # NoGoal /\ m < nav_goal
  /\ m' = m + 1 /\ east' = east + 1
  /\ UNCHANGED <<runner, alignment, revision, fix, jumps, nav2>>

NavFinishes ==
  /\ nav_goal # NoGoal /\ nav_goal' = NoGoal
  /\ result' \in {"succeeded", "aborted"}
  /\ UNCHANGED <<runner, world, cancel_pending>>

NavCancels ==
  /\ cancel_pending /\ cancel_pending' = FALSE
  /\ nav_goal' = NoGoal
  /\ result' = IF nav_goal = NoGoal THEN result ELSE "canceled"
  /\ UNCHANGED <<runner, world>>

(* What the runner reads: fixes, alignments and a pose that may jump. *)
FixArrives ==
  /\ fix' \in {east, NoFix}
  /\ UNCHANGED <<runner, alignment, revision, m, east, jumps, nav2>>

AlignmentArrives ==
  /\ revision < MaxRevision /\ revision' = revision + 1
  /\ alignment' \in Offsets \ {alignment}
  /\ UNCHANGED <<runner, fix, m, east, jumps, nav2>>

PoseJumps ==
  /\ jumps < MaxJumps /\ jumps' = jumps + 1
  /\ \E d \in Jumps : m' = m + d
  /\ UNCHANGED <<runner, alignment, revision, fix, east, nav2>>

Nav2 == NavAccepts \/ NavRejects \/ NavDrives \/ NavFinishes \/ NavCancels
Environment == FixArrives \/ AlignmentArrives \/ PoseJumps \/ Interrupt

Next == Runner \/ Nav2 \/ Environment

\* The runner's loops have no way to block; Nav2 answers and ends every goal
\* (its progress checker aborts one that stands still).
Fairness ==
  /\ WF_vars(Runner)
  /\ WF_vars(NavAccepts \/ NavRejects) /\ WF_vars(NavFinishes) /\ WF_vars(NavCancels)

Spec == Init /\ [][Next]_vars /\ Fairness

-----------------------------------------------------------------------------
(* Properties. *)

Places == {"waiting", "startup", "waypoint", "loop", "sending", "monitor", "cancelling",
           "verify", "done"}
Statuses == {"RUNNING", "ABORTED", "INTERRUPTED", "MAP_GPS_DIVERGENCE", "FAILED_WAYPOINT",
             "NAV2_FALSE_SUCCESS", "SUCCEEDED"}

\* Every variable keeps its type, and the runner is done exactly when it has
\* published a terminal status.
TypeOK ==
  /\ pc \in Places /\ wp \in 0 .. N - 1 /\ progress \in 0 .. L
  /\ sent \in [from : -1 .. L, to : -1 .. L, pose : Int, align : Int]
  /\ status \in Statuses /\ (pc = "done" <=> status # "RUNNING")
  /\ alignment \in Offsets /\ revision \in Nat
  /\ fix \in Int \union {NoFix} /\ unchecked \in BOOLEAN /\ preempted \in BOOLEAN
  /\ last_pose \in Int \union {NoPose}
  /\ warning_count \in 0 .. WARN_COUNT /\ tf_stale_count \in 0 .. STALE_COUNT
  /\ m \in Int /\ east \in Nat /\ jumps \in 0 .. MaxJumps
  /\ nav_goal \in Int \union {NoGoal}
  /\ result \in {"none", "succeeded", "aborted", "canceled"}
  /\ cancel_pending \in BOOLEAN

\* Progress only ever grows, so one wrong reading would stay.  As long as no
\* consistency check was skipped for want of a fix, no shift of the alignment
\* and no jump of the pose ever puts it on the segment more than the divergence
\* limit ahead of the vehicle.
ProgressIsEarned ==
  ~unchecked /\ progress > 0 => wp * L + progress <= east + DIV

\* SUCCEEDED means arrived: the vehicle is within the waypoint tolerance and the
\* divergence limit of the end of the route, whatever Nav2 claimed on the way.
SucceededAtTheEnd ==
  status = "SUCCEEDED" /\ ~unchecked => N * L <= east + WTOL + DIV

\* When the runner is gone, Nav2 still drives to a goal nobody asked it to stop
\* only if the runner was interrupted or let go of that goal to preempt it.
GoalLeftOnlyByPreemption ==
  pc = "done" /\ nav_goal # NoGoal /\ ~cancel_pending =>
    preempted \/ status = "INTERRUPTED"

\* Nav2 says it arrived before the pose is at the goal.
ShortSuccess == NavFinishes /\ result' = "succeeded" /\ m < nav_goal

\* Unless Nav2 keeps claiming success short of its goal, the route comes to an
\* end: no chain of preemptions, tolerances and false successes goes on for ever.
RouteEnds == <>(pc = "done") \/ []<><<ShortSuccess>>_vars

\* architecture.md: "planning or tracking failures are stopped and reported by
\* gps_route_runner": when it has reported one, Nav2 drives nowhere.
TerminalMeansStopped ==
  status \in {"MAP_GPS_DIVERGENCE", "FAILED_WAYPOINT", "NAV2_FALSE_SUCCESS"} =>
    nav_goal = NoGoal \/ cancel_pending

\* gps_planning.md: "if Nav2 reports success without physical progress, publish
\* NAV2_FALSE_SUCCESS_ABORT and stop instead of resending the same subgoal".
NoResendWithoutProgress ==
  [][pc = "loop" /\ pc' = "sending" /\ result = "succeeded" => sent' # sent]_vars
===============================================================================
