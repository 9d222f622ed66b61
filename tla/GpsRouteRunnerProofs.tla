-------------------------- MODULE GpsRouteRunnerProofs --------------------------
(***************************************************************************)
(* What is proved of the route runner for every route, tolerance and       *)
(* threshold, and for any number of alignments and jumps of the pose.      *)
(***************************************************************************)
EXTENDS GpsRouteRunner, TLAPS

\* The fix lags behind the vehicle, which only drives forward.
FixBehind == fix # NoFix => fix <= east

\* At every place of the runner: where the goal that Nav2 runs comes from, and
\* that the watchdog which has warned often enough is no longer monitoring.
PlaceInv ==
  /\ result # "none" => nav_goal = NoGoal
  /\ pc \in {"waiting", "startup"} => nav_goal = NoGoal
  /\ pc \in {"waypoint", "loop", "sending"} => nav_goal = NoGoal \/ preempted
  /\ pc = "verify" => nav_goal = NoGoal
  /\ pc = "cancelling" => nav_goal = NoGoal \/ cancel_pending
  /\ pc = "monitor" => warning_count < WARN_COUNT

\* A waypoint no farther than the tolerance counts as reached from where the
\* vehicle stands, so arriving is only earned on longer segments.
RouteInv ==
  /\ TypeOK
  /\ FixBehind /\ ProgressIsEarned /\ (WTOL < L => SucceededAtTheEnd)
  /\ PlaceInv /\ GoalLeftOnlyByPreemption

-----------------------------------------------------------------------------
(* The arithmetic of the route. *)

\* The end of segment n is the start of the next one.
LEMMA SegmentsJoin == \A n \in Nat : n * L \in Nat /\ (n + 1) * L = n * L + L
BY RouteAssumption

\* A projection, and the best progress so far, are places on the segment.
LEMMA ProjectedInSegment ==
  TypeOK => /\ Projected(wp) \in 0 .. L
            /\ Most(progress, Projected(wp)) \in 0 .. L
<1> SUFFICES ASSUME TypeOK PROVE /\ Projected(wp) \in 0 .. L
                                 /\ Most(progress, Projected(wp)) \in 0 .. L
  OBVIOUS
<1>1. wp * L \in Int /\ m \in Int /\ alignment \in Int /\ L \in Nat
  BY RouteAssumption, SegmentsJoin DEF TypeOK
<1>2. Projected(wp) \in 0 .. L
  <2> DEFINE x == m - alignment - wp * L
  <2>1. x \in Int
    BY <1>1
  <2> HIDE DEF x
  <2>2. Most(0, Least(L, x)) \in 0 .. L
    BY <1>1, <2>1 DEF Most, Least
  <2> QED BY <2>2 DEF Projected, x
<1> QED BY <1>2 DEF TypeOK, Most

\* A subgoal lies on the segment.
LEMMA SubgoalInSegment == ASSUME NEW here \in 0 .. L PROVE Subgoal(here) \in 0 .. L
BY RouteAssumption DEF Subgoal, Least

\* A reading taken with a fix that agrees is at most the divergence limit ahead.
LEMMA ConsistentReading ==
  ASSUME TypeOK, FixBehind, fix # NoFix, Consistent(alignment), Projected(wp) > 0
  PROVE  wp * L + Projected(wp) <= east + DIV
<1>1. /\ wp * L \in Int /\ m \in Int /\ alignment \in Int /\ fix \in Int /\ L \in Nat
      /\ east \in Nat /\ DIV \in Nat
  BY RouteAssumption, SegmentsJoin DEF TypeOK
<1>2. m - alignment <= fix + DIV
  BY <1>1 DEF Consistent, Dist
<1>3. Projected(wp) <= m - alignment - wp * L
  <2> DEFINE x == m - alignment - wp * L
  <2>1. x \in Int
    BY <1>1
  <2> HIDE DEF x
  <2>2. Most(0, Least(L, x)) > 0 => Most(0, Least(L, x)) <= x
    BY <1>1, <2>1 DEF Most, Least
  <2> QED BY <2>2 DEF Projected, x
<1>4. Projected(wp) \in Int
  BY ProjectedInSegment
<1> QED BY <1>1, <1>2, <1>3, <1>4 DEF FixBehind

\* So the best progress so far is earned once the check was passed with a fix.
LEMMA EarnedReading ==
  ASSUME TypeOK, FixBehind, ProgressIsEarned, Consistent(alignment), NoteUnchecked,
         ~unchecked', Most(progress, Projected(wp)) > 0
  PROVE  wp * L + Most(progress, Projected(wp)) <= east + DIV
<1>1. ~unchecked /\ fix # NoFix
  BY DEF NoteUnchecked, TypeOK
<1>2. CASE progress >= Projected(wp)
  BY <1>1, <1>2 DEF Most, ProgressIsEarned
<1>3. CASE ~(progress >= Projected(wp))
  BY <1>1, <1>3, ConsistentReading DEF Most
<1> QED BY <1>2, <1>3

-----------------------------------------------------------------------------
(* The invariant. *)

LEMMA RouteInit == Init => RouteInv
<1> SUFFICES ASSUME Init PROVE RouteInv
  OBVIOUS
<1>1. NoSent \in [from : -1 .. L, to : -1 .. L, pose : Int, align : Int]
  BY RouteAssumption DEF NoSent
<1>2. TypeOK
  <2>1. /\ 0 \in 0 .. N - 1 /\ 0 \in 0 .. L /\ 0 \in 0 .. MaxJumps
        /\ 0 \in 0 .. WARN_COUNT /\ 0 \in 0 .. STALE_COUNT
    BY RouteAssumption
  <2>2. m \in Int /\ east \in Nat /\ revision \in Nat /\ fix \in Int
    BY RouteAssumption DEF Init
  <2> QED BY <1>1, <2>1, <2>2 DEF Init, TypeOK, Places, Statuses
<1>3. FixBehind /\ ProgressIsEarned /\ SucceededAtTheEnd /\ PlaceInv /\ GoalLeftOnlyByPreemption
  BY DEF Init, FixBehind, ProgressIsEarned, SucceededAtTheEnd, PlaceInv, GoalLeftOnlyByPreemption
<1> QED BY <1>2, <1>3 DEF RouteInv

\* An action that neither measures nor moves keeps what is said of progress.
LEMMA EarnedFrame ==
  ASSUME RouteInv, UNCHANGED <<wp, progress, fix, east>>, unchecked => unchecked',
         status' # "SUCCEEDED" \/ status' = status
  PROVE  FixBehind' /\ ProgressIsEarned' /\ (WTOL < L => SucceededAtTheEnd)'
BY DEF RouteInv, FixBehind, ProgressIsEarned, SucceededAtTheEnd

LEMMA CheckFails ==
  ASSUME RouteInv, NEW align, Diverged(align), pc \in {"startup", "waypoint", "loop", "verify"}
  PROVE  RouteInv'
<1>1. TypeOK'
  BY DEF Diverged, End, NoteUnchecked, RouteInv, TypeOK, Places, Statuses, world, nav2
<1>2. FixBehind' /\ ProgressIsEarned' /\ (WTOL < L => SucceededAtTheEnd)'
  BY EarnedFrame DEF Diverged, End, NoteUnchecked, world
<1>3. PlaceInv' /\ GoalLeftOnlyByPreemption'
  BY DEF Diverged, End, RouteInv, PlaceInv, GoalLeftOnlyByPreemption, nav2
<1> QED BY <1>1, <1>2, <1>3 DEF RouteInv

LEMMA LoopTurnInv == RouteInv /\ LoopTurn => RouteInv'
<1> SUFFICES ASSUME RouteInv, LoopTurn PROVE RouteInv'
  OBVIOUS
<1>1. CASE Diverged(alignment)
  BY <1>1, CheckFails DEF LoopTurn
<1>2. CASE ~Diverged(alignment)
  <2> DEFINE here == Most(progress, Projected(wp))
  <2>1. /\ Consistent(alignment) /\ NoteUnchecked
        /\ IF L - here <= WTOL THEN WaypointReached ELSE SendSubgoal(here)
        /\ UNCHANGED <<last_pose, warning_count, tf_stale_count, preempted, world, nav2>>
    BY <1>2 DEF LoopTurn
  <2>2. here \in 0 .. L
    BY ProjectedInSegment DEF RouteInv
  <2>3. ~unchecked' /\ here > 0 => wp * L + here <= east + DIV
    BY <2>1, EarnedReading DEF RouteInv
  <2> HIDE DEF here
  <2>4. CASE WaypointReached /\ L - here <= WTOL
    <3>1. TypeOK'
      <4>1. wp' \in 0 .. N - 1 /\ progress' \in 0 .. L
        BY <2>4, RouteAssumption DEF WaypointReached, RouteInv, TypeOK
      <4>2. pc' \in Places /\ status' \in Statuses /\ (pc' = "done" <=> status' # "RUNNING")
        BY <2>4 DEF WaypointReached, End, LoopTurn, RouteInv, TypeOK, Places, Statuses
      <4>3. unchecked' \in BOOLEAN
        BY <2>1 DEF NoteUnchecked
      <4> QED BY <2>1, <2>4, <4>1, <4>2, <4>3
              DEF WaypointReached, RouteInv, TypeOK, world, nav2
    <3>2. FixBehind' /\ ProgressIsEarned'
      BY <2>1, <2>4
         DEF WaypointReached, RouteInv, FixBehind, ProgressIsEarned, world
    <3>3. (WTOL < L => SucceededAtTheEnd)'
      <4>1. CASE wp < N - 1
        BY <2>1, <2>4, <4>1 DEF WaypointReached, RouteInv, LoopTurn, TypeOK, SucceededAtTheEnd
      <4>2. CASE ~(wp < N - 1)
        <5>1. wp = N - 1 /\ N \in Nat
          BY <4>2, RouteAssumption DEF RouteInv, TypeOK
        <5>2. N * L = wp * L + L /\ wp * L \in Nat
          BY <5>1, SegmentsJoin DEF RouteInv, TypeOK
        <5>3. WTOL < L /\ ~unchecked' => N * L <= east + WTOL + DIV
          BY <2>2, <2>3, <2>4, <5>2, RouteAssumption DEF RouteInv, TypeOK
        <5> QED BY <5>3, <2>1 DEF SucceededAtTheEnd, world
      <4> QED BY <4>1, <4>2
    <3>4. PlaceInv' /\ GoalLeftOnlyByPreemption'
      BY <2>1, <2>4
         DEF WaypointReached, End, LoopTurn, RouteInv, PlaceInv, GoalLeftOnlyByPreemption, nav2
    <3> QED BY <3>1, <3>2, <3>3, <3>4 DEF RouteInv
  <2>5. CASE SendSubgoal(here)
    <3>1. Subgoal(here) \in 0 .. L
      BY <2>2, SubgoalInSegment
    <3>2. wp * L \in Int /\ alignment \in Int
      BY SegmentsJoin, RouteAssumption DEF RouteInv, TypeOK
    <3>3. sent' \in [from : -1 .. L, to : -1 .. L, pose : Int, align : Int]
      BY <2>2, <2>5, <3>1, <3>2, RouteAssumption DEF SendSubgoal
    <3>4. TypeOK'
      BY <2>1, <2>2, <2>5, <3>3
         DEF SendSubgoal, NoteUnchecked, LoopTurn, RouteInv, TypeOK, Places, Statuses, world, nav2
    <3>5. FixBehind' /\ ProgressIsEarned'
      BY <2>1, <2>3, <2>5 DEF SendSubgoal, RouteInv, FixBehind, ProgressIsEarned, world
    <3>6. (WTOL < L => SucceededAtTheEnd)'
      BY <2>5 DEF SendSubgoal, LoopTurn, RouteInv, TypeOK, SucceededAtTheEnd
    <3>7. PlaceInv' /\ GoalLeftOnlyByPreemption'
      BY <2>1, <2>5 DEF SendSubgoal, LoopTurn, RouteInv, PlaceInv, GoalLeftOnlyByPreemption, nav2
    <3> QED BY <3>4, <3>5, <3>6, <3>7 DEF RouteInv
  <2> QED BY <2>1, <2>4, <2>5
<1> QED BY <1>1, <1>2

LEMMA VerifyInv == RouteInv /\ Verify => RouteInv'
<1> SUFFICES ASSUME RouteInv, Verify PROVE RouteInv'
  OBVIOUS
<1>1. CASE Diverged(alignment)
  BY <1>1, CheckFails DEF Verify
<1>2. CASE ~Diverged(alignment)
  <2> DEFINE seen == Most(progress, Projected(wp))
  <2>1. /\ Consistent(alignment) /\ NoteUnchecked
        /\ \/ progress' = seen /\ pc' = "loop" /\ UNCHANGED status
           \/ End("NAV2_FALSE_SUCCESS") /\ UNCHANGED progress
        /\ UNCHANGED <<wp, sent, last_pose, warning_count, tf_stale_count, preempted,
                       world, nav2>>
    BY <1>2 DEF Verify
  <2>2. seen \in 0 .. L
    BY ProjectedInSegment DEF RouteInv
  <2>3. ~unchecked' /\ seen > 0 => wp * L + seen <= east + DIV
    BY <2>1, EarnedReading DEF RouteInv
  <2> HIDE DEF seen
  <2>4. TypeOK'
    BY <2>1, <2>2
       DEF Verify, End, NoteUnchecked, RouteInv, TypeOK, Places, Statuses, world, nav2
  <2>5. FixBehind' /\ ProgressIsEarned'
    BY <2>1, <2>3 DEF End, NoteUnchecked, RouteInv, TypeOK, FixBehind, ProgressIsEarned, world
  <2>6. (WTOL < L => SucceededAtTheEnd)'
    BY <2>1 DEF End, Verify, RouteInv, TypeOK, SucceededAtTheEnd
  <2>7. PlaceInv' /\ GoalLeftOnlyByPreemption'
    BY <2>1 DEF End, Verify, RouteInv, PlaceInv, GoalLeftOnlyByPreemption, nav2
  <2> QED BY <2>4, <2>5, <2>6, <2>7 DEF RouteInv
<1> QED BY <1>1, <1>2

\* The other steps of the runner measure nothing.
LEMMA RunnerInv == RouteInv /\ (Runner \/ Interrupt) => RouteInv'
<1> SUFFICES ASSUME RouteInv, Runner \/ Interrupt PROVE RouteInv'
  OBVIOUS
<1>1. CASE AlignmentReady
  <2>1. alignment \in Int
    BY RouteAssumption DEF RouteInv, TypeOK
  <2>2. sent' \in [from : -1 .. L, to : -1 .. L, pose : Int, align : Int]
    BY <1>1, <2>1, RouteAssumption DEF AlignmentReady, NoSent
  <2>3. TypeOK'
    BY <1>1, <2>2 DEF AlignmentReady, RouteInv, TypeOK, Places, world, nav2
  <2>4. FixBehind' /\ ProgressIsEarned' /\ (WTOL < L => SucceededAtTheEnd)'
    BY <1>1, EarnedFrame DEF AlignmentReady, world
  <2>5. PlaceInv' /\ GoalLeftOnlyByPreemption'
    BY <1>1 DEF AlignmentReady, RouteInv, PlaceInv, GoalLeftOnlyByPreemption, nav2
  <2> QED BY <2>3, <2>4, <2>5 DEF RouteInv
<1>2. CASE WaitTimesOut \/ Interrupt
  <2>1. TypeOK'
    BY <1>2 DEF WaitTimesOut, Interrupt, Gone, End, RouteInv, TypeOK, Places, Statuses, world, nav2
  <2>2. FixBehind' /\ ProgressIsEarned' /\ (WTOL < L => SucceededAtTheEnd)'
    BY <1>2, EarnedFrame DEF WaitTimesOut, Interrupt, Gone, End, world
  <2>3. PlaceInv' /\ GoalLeftOnlyByPreemption'
    BY <1>2 DEF WaitTimesOut, Interrupt, Gone, End, RouteInv, PlaceInv, GoalLeftOnlyByPreemption,
                nav2
  <2> QED BY <2>1, <2>2, <2>3 DEF RouteInv
<1>3. CASE Startup
  <2>1. CASE Diverged(sent.align)
    BY <1>3, <2>1, CheckFails DEF Startup
  <2>2. CASE ~Diverged(sent.align)
    <3>1. TypeOK'
      BY <1>3, <2>2
         DEF Startup, NoteUnchecked, RouteInv, TypeOK, Places, Statuses, world, nav2
    <3>2. FixBehind' /\ ProgressIsEarned' /\ (WTOL < L => SucceededAtTheEnd)'
      BY <1>3, <2>2, EarnedFrame DEF Startup, NoteUnchecked, world
    <3>3. PlaceInv' /\ GoalLeftOnlyByPreemption'
      BY <1>3, <2>2 DEF Startup, RouteInv, PlaceInv, GoalLeftOnlyByPreemption, nav2
    <3> QED BY <3>1, <3>2, <3>3 DEF RouteInv
  <2> QED BY <2>1, <2>2
<1>4. CASE ResultArrived
  <2>1. TypeOK'
    BY <1>4 DEF ResultArrived, Return, End, RouteInv, TypeOK, Places, Statuses, world, nav2
  <2>2. FixBehind' /\ ProgressIsEarned' /\ (WTOL < L => SucceededAtTheEnd)'
    BY <1>4, EarnedFrame DEF ResultArrived, Return, End, world
  <2>3. PlaceInv' /\ GoalLeftOnlyByPreemption'
    BY <1>4 DEF ResultArrived, Return, End, RouteInv, PlaceInv, GoalLeftOnlyByPreemption, nav2
  <2> QED BY <2>1, <2>2, <2>3 DEF RouteInv
<1>5. CASE AlignmentShift
  <2>1. TypeOK'
    BY <1>5 DEF AlignmentShift, Return, RouteInv, TypeOK, Places, world, nav2
  <2>2. FixBehind' /\ ProgressIsEarned' /\ (WTOL < L => SucceededAtTheEnd)'
    BY <1>5, EarnedFrame DEF AlignmentShift, Return, world
  <2>3. PlaceInv' /\ GoalLeftOnlyByPreemption'
    BY <1>5 DEF AlignmentShift, Return, RouteInv, PlaceInv, GoalLeftOnlyByPreemption, nav2
  <2> QED BY <2>1, <2>2, <2>3 DEF RouteInv
<1>6. CASE PollWithoutPose \/ PollWithPose
  <2>1. /\ pc = "monitor" /\ pc' \in {"monitor", "cancelling"}
        /\ cancel_pending' \in BOOLEAN /\ (pc' = "cancelling" => cancel_pending')
        /\ UNCHANGED <<wp, progress, sent, status, unchecked, preempted, world, nav_goal, result>>
    BY <1>6 DEF PollWithoutPose, PollWithPose, WatchdogAborts, nav2, RouteInv, TypeOK
  <2>2. tf_stale_count' \in 0 .. STALE_COUNT /\ last_pose' \in Int \union {NoPose}
    BY <1>6, RouteAssumption DEF PollWithoutPose, PollWithPose, Least, RouteInv, TypeOK
  <2>3. /\ warning_count' \in 0 .. WARN_COUNT
        /\ pc' = "monitor" => warning_count' < WARN_COUNT
    <3>1. CASE PollWithoutPose
      BY <3>1, <1>6 DEF PollWithoutPose, RouteInv, TypeOK, PlaceInv
    <3>2. CASE PollWithPose
      <4>1. warning_count \in 0 .. WARN_COUNT /\ warning_count < WARN_COUNT
        BY <3>2 DEF PollWithPose, RouteInv, TypeOK, PlaceInv
      <4>2. PICK step : /\ warning_count' = IF last_pose = NoPose \/ step > STEP_ABORT
                                            THEN warning_count
                                            ELSE IF step > STEP_WARN THEN warning_count + 1 ELSE 0
                        /\ IF step > STEP_ABORT \/ (step > STEP_WARN /\ warning_count' >= WARN_COUNT)
                           THEN WatchdogAborts ELSE UNCHANGED <<pc, nav2>>
        BY <3>2 DEF PollWithPose
      <4>3. warning_count' \in {0, warning_count, warning_count + 1}
        BY <4>2
      <4>4. warning_count' = warning_count + 1 /\ warning_count' >= WARN_COUNT => pc' = "cancelling"
        BY <4>1, <4>2, RouteAssumption DEF WatchdogAborts
      <4> QED BY <4>1, <4>3, <4>4, RouteAssumption
    <3> QED BY <1>6, <3>1, <3>2
  <2>4. TypeOK'
    BY <2>1, <2>2, <2>3 DEF RouteInv, TypeOK, Places, world
  <2>5. FixBehind' /\ ProgressIsEarned' /\ (WTOL < L => SucceededAtTheEnd)'
    BY <2>1, EarnedFrame DEF world
  <2>6. PlaceInv' /\ GoalLeftOnlyByPreemption'
    BY <2>1, <2>3 DEF RouteInv, PlaceInv, GoalLeftOnlyByPreemption
  <2> QED BY <2>4, <2>5, <2>6 DEF RouteInv
<1>7. CASE CancelWaitEnds
  <2>1. TypeOK'
    BY <1>7 DEF CancelWaitEnds, End, RouteInv, TypeOK, Places, Statuses, world, nav2
  <2>2. FixBehind' /\ ProgressIsEarned' /\ (WTOL < L => SucceededAtTheEnd)'
    BY <1>7, EarnedFrame DEF CancelWaitEnds, End, world
  <2>3. PlaceInv' /\ GoalLeftOnlyByPreemption'
    BY <1>7 DEF CancelWaitEnds, End, RouteInv, PlaceInv, GoalLeftOnlyByPreemption, nav2
  <2> QED BY <2>1, <2>2, <2>3 DEF RouteInv
<1> QED BY <1>1, <1>2, <1>3, <1>4, <1>5, <1>6, <1>7, LoopTurnInv, VerifyInv DEF Runner

LEMMA Nav2Inv == RouteInv /\ Nav2 => RouteInv'
<1> SUFFICES ASSUME RouteInv, Nav2 PROVE RouteInv'
  OBVIOUS
<1>1. CASE NavAccepts
  <2>1. sent.pose \in Int /\ m \in Int /\ 0 \in 0 .. WARN_COUNT /\ 0 \in 0 .. STALE_COUNT
    BY RouteAssumption DEF RouteInv, TypeOK
  <2>2. TypeOK'
    BY <1>1, <2>1 DEF NavAccepts, RouteInv, TypeOK, Places, world
  <2>3. FixBehind' /\ ProgressIsEarned' /\ (WTOL < L => SucceededAtTheEnd)'
    BY <1>1, EarnedFrame DEF NavAccepts, world
  <2>4. PlaceInv' /\ GoalLeftOnlyByPreemption'
    BY <1>1, RouteAssumption DEF NavAccepts, PlaceInv, GoalLeftOnlyByPreemption
  <2> QED BY <2>2, <2>3, <2>4 DEF RouteInv
<1>2. CASE NavRejects
  <2>1. TypeOK'
    BY <1>2 DEF NavRejects, End, RouteInv, TypeOK, Places, Statuses, world, nav2
  <2>2. FixBehind' /\ ProgressIsEarned' /\ (WTOL < L => SucceededAtTheEnd)'
    BY <1>2, EarnedFrame DEF NavRejects, End, world
  <2>3. PlaceInv' /\ GoalLeftOnlyByPreemption'
    BY <1>2 DEF NavRejects, End, RouteInv, PlaceInv, GoalLeftOnlyByPreemption, nav2
  <2> QED BY <2>1, <2>2, <2>3 DEF RouteInv
<1>3. CASE NavDrives
  <2>1. TypeOK'
    BY <1>3 DEF NavDrives, runner, nav2, RouteInv, TypeOK
  <2>2. FixBehind'
    BY <1>3 DEF NavDrives, RouteInv, TypeOK, FixBehind
  <2>3. ProgressIsEarned' /\ (WTOL < L => SucceededAtTheEnd)'
    <3>1. /\ wp * L \in Int /\ N * L \in Int /\ progress \in Int /\ DIV \in Int /\ WTOL \in Int
          /\ east \in Int /\ east' = east + 1
          /\ UNCHANGED <<wp, progress, unchecked, status>>
      BY <1>3, SegmentsJoin, RouteAssumption DEF NavDrives, RouteInv, TypeOK, runner
    <3> QED BY <3>1 DEF RouteInv, ProgressIsEarned, SucceededAtTheEnd
  <2>4. PlaceInv' /\ GoalLeftOnlyByPreemption'
    BY <1>3 DEF NavDrives, runner, nav2, RouteInv, PlaceInv, GoalLeftOnlyByPreemption
  <2> QED BY <2>1, <2>2, <2>3, <2>4 DEF RouteInv
<1>4. CASE NavFinishes \/ NavCancels
  <2>1. TypeOK'
    BY <1>4 DEF NavFinishes, NavCancels, runner, world, RouteInv, TypeOK
  <2>2. FixBehind' /\ ProgressIsEarned' /\ (WTOL < L => SucceededAtTheEnd)'
    BY <1>4, EarnedFrame DEF NavFinishes, NavCancels, runner, world
  <2>3. PlaceInv' /\ GoalLeftOnlyByPreemption'
    BY <1>4 DEF NavFinishes, NavCancels, runner, RouteInv, PlaceInv, GoalLeftOnlyByPreemption
  <2> QED BY <2>1, <2>2, <2>3 DEF RouteInv
<1> QED BY <1>1, <1>2, <1>3, <1>4 DEF Nav2

LEMMA WorldInv == RouteInv /\ (FixArrives \/ AlignmentArrives \/ PoseJumps) => RouteInv'
<1> SUFFICES ASSUME RouteInv, FixArrives \/ AlignmentArrives \/ PoseJumps PROVE RouteInv'
  OBVIOUS
<1>1. TypeOK'
  <2>1. CASE FixArrives
    BY <2>1 DEF FixArrives, runner, nav2, RouteInv, TypeOK
  <2>2. CASE AlignmentArrives
    BY <2>2 DEF AlignmentArrives, runner, nav2, RouteInv, TypeOK
  <2>3. CASE PoseJumps
    <3>1. m' \in Int
      BY <2>3, RouteAssumption DEF PoseJumps, RouteInv, TypeOK
    <3>2. jumps' \in 0 .. MaxJumps
      BY <2>3, RouteAssumption DEF PoseJumps, RouteInv, TypeOK
    <3> QED BY <2>3, <3>1, <3>2 DEF PoseJumps, runner, nav2, RouteInv, TypeOK
  <2> QED BY <2>1, <2>2, <2>3
<1>2. FixBehind'
  BY DEF FixArrives, AlignmentArrives, PoseJumps, RouteInv, TypeOK, FixBehind
<1>3. ProgressIsEarned' /\ (WTOL < L => SucceededAtTheEnd)'
  BY DEF FixArrives, AlignmentArrives, PoseJumps, runner, RouteInv, ProgressIsEarned,
         SucceededAtTheEnd
<1>4. PlaceInv' /\ GoalLeftOnlyByPreemption'
  BY DEF FixArrives, AlignmentArrives, PoseJumps, runner, nav2, RouteInv, PlaceInv,
         GoalLeftOnlyByPreemption
<1> QED BY <1>1, <1>2, <1>3, <1>4 DEF RouteInv

\* The invariant holds of every behaviour of the runner with Nav2 and the world.
THEOREM RouteInvariant == Spec => []RouteInv
<1>1. RouteInv /\ [Next]_vars => RouteInv'
  <2> SUFFICES ASSUME RouteInv, [Next]_vars PROVE RouteInv'
    OBVIOUS
  <2>1. CASE UNCHANGED vars
    BY <2>1 DEF vars, runner, world, nav2, RouteInv, TypeOK, FixBehind, ProgressIsEarned,
                SucceededAtTheEnd, PlaceInv, GoalLeftOnlyByPreemption
  <2> QED BY <2>1, RunnerInv, Nav2Inv, WorldInv DEF Next, Environment
<1> QED BY <1>1, RouteInit, PTL DEF Spec

-----------------------------------------------------------------------------
(* The theorems. *)

\* The variables of the runner keep their types, and it is done exactly when it
\* has published a terminal status.
THEOREM RouteTypeCorrect == Spec => []TypeOK
BY RouteInvariant, PTL DEF RouteInv

\* No shift of the alignment and no jump of the pose ever buys progress on a
\* segment, whatever the route and the thresholds are.
THEOREM ProgressIsEarnedHolds == Spec => []ProgressIsEarned
BY RouteInvariant, PTL DEF RouteInv

\* SUCCEEDED means arrived, on every route whose segments are longer than the
\* waypoint tolerance.
THEOREM SucceededAtTheEndHolds ==
  ASSUME WTOL < L PROVE Spec => []SucceededAtTheEnd
<1>1. RouteInv => SucceededAtTheEnd
  BY DEF RouteInv
<1> QED BY <1>1, RouteInvariant, PTL

\* The only way to leave Nav2 driving is to be interrupted or to end between
\* letting go of a goal and sending the one that replaces it.
THEOREM GoalLeftOnlyByPreemptionHolds == Spec => []GoalLeftOnlyByPreemption
BY RouteInvariant, PTL DEF RouteInv

-----------------------------------------------------------------------------
(* What ends a route: a success that counts brings progress.                 *)

\* The subgoal that is being driven to is the one of the progress so far.
SentInv ==
  pc \in {"sending", "monitor", "cancelling", "verify"} =>
    /\ sent.to = Subgoal(progress) /\ L - progress > WTOL
    /\ sent.pose = wp * L + sent.to + sent.align

LEMMA SentStep == RouteInv /\ SentInv /\ [Next]_vars => SentInv'
<1> SUFFICES ASSUME RouteInv, SentInv, [Next]_vars PROVE SentInv'
  OBVIOUS
<1> USE DEF SentInv
<1>1. ASSUME UNCHANGED <<wp, progress, sent>>,
             pc' \in {"sending", "monitor", "cancelling", "verify"} =>
               pc \in {"sending", "monitor", "cancelling", "verify"}
      PROVE  SentInv'
  BY <1>1 DEF Subgoal
<1>2. ASSUME pc' \in {"startup", "waypoint", "loop", "done"} PROVE SentInv'
  BY <1>2
<1>3. CASE LoopTurn
  <2>1. CASE Diverged(alignment)
    BY <2>1, <1>2 DEF Diverged, End
  <2>2. CASE ~Diverged(alignment)
    <3> DEFINE here == Most(progress, Projected(wp))
    <3>1. here \in 0 .. L /\ WTOL \in Nat /\ L \in Nat
      BY ProjectedInSegment, RouteAssumption DEF RouteInv
    <3>2. IF L - here <= WTOL THEN WaypointReached ELSE SendSubgoal(here)
      BY <1>3, <2>2 DEF LoopTurn
    <3>3. UNCHANGED world
      BY <1>3, <2>2 DEF LoopTurn
    <3> HIDE DEF here
    <3>4. CASE WaypointReached
      BY <3>4, <1>2 DEF WaypointReached, End
    <3>5. CASE SendSubgoal(here) /\ L - here > WTOL
      BY <3>3, <3>5 DEF SendSubgoal, Subgoal, world
    <3> QED BY <3>1, <3>2, <3>4, <3>5
  <2> QED BY <2>1, <2>2
<1>4. CASE AlignmentReady \/ WaitTimesOut \/ Startup \/ ResultArrived \/ AlignmentShift
  BY <1>4, <1>1, <1>2
  DEF AlignmentReady, WaitTimesOut, Gone, Startup, Diverged, End, ResultArrived, Return,
      AlignmentShift
<1>5. CASE PollWithoutPose \/ PollWithPose \/ CancelWaitEnds \/ Verify \/ Interrupt
  BY <1>5, <1>1, <1>2
  DEF PollWithoutPose, PollWithPose, WatchdogAborts, CancelWaitEnds, Verify, Diverged, End,
      Interrupt, Gone
<1>6. CASE Nav2 \/ FixArrives \/ AlignmentArrives \/ PoseJumps
  BY <1>6, <1>1, <1>2
  DEF Nav2, NavAccepts, NavRejects, NavDrives, NavFinishes, NavCancels, FixArrives,
      AlignmentArrives, PoseJumps, End, runner
<1>7. CASE UNCHANGED vars
  BY <1>7, <1>1 DEF vars, runner
<1> QED BY <1>3, <1>4, <1>5, <1>6, <1>7 DEF Next, Runner, Environment

\* Nav2 is at the goal it was sent, or no tolerance reaches back to its start.
AtTheGoal        == m >= sent.pose /\ alignment = sent.align
ToleranceIsShort == STOL <= WTOL /\ WTOL < SEG

CountedSuccessAdvances ==
  [][pc = "verify" /\ pc' = "loop" /\ (AtTheGoal \/ ToleranceIsShort) =>
       progress' > progress]_vars

\* A success that the runner counts brings progress when the vehicle is at the
\* goal, under the alignment it was sent with; and always, if the tolerance on a
\* success were not larger than that on a waypoint and shorter than a subgoal
\* (_verify_nav2_success_progress).  By default it is larger: that is how a
\* subgoal can be sent again without progress.
THEOREM CountedSuccessAdvancesHolds == Spec => CountedSuccessAdvances
<1>1. Init => SentInv
  BY DEF Init, SentInv
<1>2. ASSUME RouteInv, SentInv, [Next]_vars
      PROVE  [pc = "verify" /\ pc' = "loop" /\ (AtTheGoal \/ ToleranceIsShort) =>
                progress' > progress]_vars
  <2> SUFFICES ASSUME Next, pc = "verify", pc' = "loop", AtTheGoal \/ ToleranceIsShort
               PROVE  progress' > progress
    BY <1>2
  <2>1. Verify
    BY DEF Next, Runner, Nav2, Environment, AlignmentReady, WaitTimesOut, Gone, End, Startup,
           LoopTurn, ResultArrived, AlignmentShift, PollWithoutPose, PollWithPose,
           CancelWaitEnds, NavAccepts, NavRejects, NavDrives, NavFinishes, NavCancels,
           FixArrives, AlignmentArrives, PoseJumps, Interrupt, runner
  <2> DEFINE seen == Most(progress, Projected(wp))
  <2>2. progress' = seen /\ sent.to - seen <= Most(WTOL, STOL)
    BY <2>1 DEF Verify, Diverged, End
  <2>3. /\ progress \in 0 .. L /\ wp \in Nat /\ m \in Int /\ alignment \in Int
        /\ L \in Nat /\ SEG \in Nat \ {0} /\ WTOL \in Nat /\ STOL \in Nat
    BY <1>2, RouteAssumption DEF RouteInv, TypeOK
  <2>4. wp * L \in Int
    BY <2>3
  <2>5. /\ sent.to = Least(L, progress + SEG) /\ L - progress > WTOL
        /\ sent.pose = wp * L + sent.to + sent.align
    BY <1>2 DEF SentInv, Subgoal
  <2>6. sent.to \in Int /\ sent.to > progress /\ sent.to <= L
    BY <2>3, <2>5 DEF Least
  <2>7. seen \in Int /\ seen >= Projected(wp) /\ Projected(wp) \in Int
    BY <1>2, <2>3, ProjectedInSegment DEF RouteInv, Most
  <2> HIDE DEF seen
  <2>8. CASE AtTheGoal
    <3>1. m - alignment - wp * L >= sent.to
      BY <2>3, <2>4, <2>5, <2>6, <2>8 DEF AtTheGoal
    <3>2. Projected(wp) >= sent.to
      BY <2>3, <2>4, <2>6, <3>1 DEF Projected, Most, Least
    <3> QED BY <2>2, <2>3, <2>6, <2>7, <3>2
  <2>9. CASE ToleranceIsShort
    <3>1. Most(WTOL, STOL) = WTOL
      BY <2>3, <2>9 DEF ToleranceIsShort, Most
    <3>2. sent.to - WTOL > progress
      BY <2>3, <2>5, <2>9 DEF ToleranceIsShort, Least
    <3> QED BY <2>2, <2>3, <2>6, <2>7, <3>1, <3>2
  <2> QED BY <2>8, <2>9
<1> QED BY <1>1, <1>2, SentStep, RouteInvariant, PTL DEF Spec, CountedSuccessAdvances

===============================================================================
